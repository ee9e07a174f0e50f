----------------------------- MODULE Questions -----------------------------
(***************************************************************************)
(* httpserver.questions: the classifiers that requests prepared for their  *)
(* questions, kept for the next request with the same question and closed  *)
(* when they are too many or their model was opened anew.                  *)
(*                                                                         *)
(* The requests of one model: opening numbers its openings.  The pool      *)
(* closes a model no request has leased and opens it again.                *)
(***************************************************************************)
EXTENDS Naturals, Sequences, FiniteSets, SequencesExt

CONSTANTS Asker,         \* requests being served
          Question,      \* the texts asked, with their labels
          maxQuestions,
          MaxAsks,       \* bound: requests
          MaxOpenings    \* bound: openings of the model

MaxEntries == MaxAsks  \* classifiers prepared

VARIABLES
    asker,     \* each request: pc, question, the entry it has or waits for, what it evicts
    list,      \* entries
    entry,     \* every entry made: its question, opening, classifier and who has its mu
    made,      \* how many
    asks,      \* requests made
    opening    \* the model's opening

questionVars == <<asker, list, entry, made, asks, opening>>

NoEntry == [q |-> 0, opening |-> 0, c |-> "none", mu |-> 0]
Resting == [pc |-> "idle", q |-> 0, e |-> 0, evict |-> <<>>]

QuestionTypeOK ==
    /\ asker \in [Asker -> [pc : {"idle", "look", "wait", "prepare", "list", "evict", "use"},
                            q : Question \cup {0}, e : 0..MaxEntries, evict : Seq(1..MaxEntries)]]
    /\ list \in Seq(1..made) /\ Len(list) <= maxQuestions
    /\ entry \in [1..MaxEntries -> [q : Question \cup {0}, opening : 0..MaxOpenings,
                                    c : {"none", "open", "closed"}, mu : Asker \cup {0}]]
    /\ made \in 0..MaxEntries /\ asks \in 0..MaxAsks /\ opening \in 1..MaxOpenings

QuestionInit ==
    /\ asker = [a \in Asker |-> Resting]
    /\ list = <<>> /\ entry = [e \in 1..MaxEntries |-> NoEntry] /\ made = 0 /\ asks = 0
    /\ opening = 1

QAt(a, pc) == asker[a].pc = pc
Has(a) == asker[a].e

-----------------------------------------------------------------------------
Ask(a, q) ==
    /\ QAt(a, "idle") /\ asks < MaxAsks
    /\ asks' = asks + 1
    /\ asker' = [asker EXCEPT ![a] = [Resting EXCEPT !.pc = "look", !.q = q]]
    /\ UNCHANGED <<list, entry, made, opening>>

Match(q) == {i \in DOMAIN list : entry[list[i]].q = q /\ entry[list[i]].opening = opening}

\* Under mu: the entry found moves to the end, and is locked after mu is given up.
Look(a) ==
    /\ QAt(a, "look")
    /\ IF Match(asker[a].q) # {}
       THEN LET i == CHOOSE i \in Match(asker[a].q) : \A j \in Match(asker[a].q) : i <= j
            IN  /\ list' = Append(RemoveAt(list, i), list[i])
                /\ asker' = [asker EXCEPT ![a].pc = "wait", ![a].e = list[i]]
       ELSE asker' = [asker EXCEPT ![a].pc = "prepare"] /\ UNCHANGED list
    /\ UNCHANGED <<entry, made, asks, opening>>

Wait(a) ==
    /\ QAt(a, "wait") /\ entry[Has(a)].mu = 0
    /\ entry' = [entry EXCEPT ![Has(a)].mu = a]
    /\ asker' = [asker EXCEPT ![a].pc = "use"]
    /\ UNCHANGED <<list, made, asks, opening>>

\* The classifier is prepared, and its entry locked, before it is listed.
Prepare(a) ==
    /\ QAt(a, "prepare")
    /\ made' = made + 1
    /\ entry' = [entry EXCEPT ![made + 1] = [q |-> asker[a].q, opening |-> opening, c |-> "open", mu |-> a]]
    /\ asker' = [asker EXCEPT ![a].pc = "list", ![a].e = made + 1]
    /\ UNCHANGED <<list, asks, opening>>

PrepareFails(a) ==
    /\ QAt(a, "prepare")
    /\ asker' = [asker EXCEPT ![a] = Resting]
    /\ UNCHANGED <<list, entry, made, asks, opening>>

Stale(e) == entry[e].opening # opening

\* The entries beyond maxQuestions go, the oldest first.
Trimmed(l) == SubSeq(l, IF Len(l) > maxQuestions THEN Len(l) - maxQuestions + 1 ELSE 1, Len(l))

Kept(l) == SelectSeq(l, LAMBDA e : ~Stale(e))

\* Under mu: stale entries leave the list, the new one joins it, and the
\* oldest leave.
Enlist(a) ==
    LET l == Append(Kept(list), Has(a)) IN
    /\ QAt(a, "list")
    /\ list' = Trimmed(l)
    /\ asker' = [asker EXCEPT ![a].pc = "evict",
                   ![a].evict = SelectSeq(list, Stale) \o SubSeq(l, 1, Len(l) - Len(Trimmed(l)))]
    /\ UNCHANGED <<entry, made, asks, opening>>

BugUnheld(e) == TRUE

\* An evicted entry is closed under its own mu.
Unheld(e) == entry[e].mu = 0

Evict(a) ==
    /\ QAt(a, "evict") /\ asker[a].evict # <<>> /\ Unheld(Head(asker[a].evict))
    /\ entry' = [entry EXCEPT ![Head(asker[a].evict)].c = "closed"]
    /\ asker' = [asker EXCEPT ![a].evict = Tail(@)]
    /\ UNCHANGED <<list, made, asks, opening>>

Got(a) ==
    /\ QAt(a, "evict") /\ asker[a].evict = <<>>
    /\ asker' = [asker EXCEPT ![a].pc = "use"]
    /\ UNCHANGED <<list, entry, made, asks, opening>>

\* The request classifies its texts, unlocks the entry and releases its lease.
Classify(a) ==
    /\ QAt(a, "use")
    /\ entry' = [entry EXCEPT ![Has(a)].mu = 0]
    /\ asker' = [asker EXCEPT ![a] = Resting]
    /\ UNCHANGED <<list, made, asks, opening>>

\* The pool closes the unused model; the next lease opens it again.
Reopen ==
    /\ \A a \in Asker : QAt(a, "idle")
    /\ opening < MaxOpenings
    /\ opening' = opening + 1
    /\ UNCHANGED <<asker, list, entry, made, asks>>

\* close, after the last request.
CloseQuestions ==
    /\ \A a \in Asker : QAt(a, "idle")
    /\ list # <<>>
    /\ entry' = [e \in 1..MaxEntries |-> IF e \in ToSet(list) THEN [entry[e] EXCEPT !.c = "closed"] ELSE entry[e]]
    /\ list' = <<>>
    /\ UNCHANGED <<asker, made, asks, opening>>

AskerStep(a) ==
    Look(a) \/ Wait(a) \/ Prepare(a) \/ PrepareFails(a) \/ Enlist(a) \/ Evict(a) \/ Got(a) \/ Classify(a)

QuestionNext ==
    \/ \E a \in Asker : AskerStep(a) \/ \E q \in Question : Ask(a, q)
    \/ Reopen \/ CloseQuestions

QuestionSpec == QuestionInit /\ [][QuestionNext]_questionVars

-----------------------------------------------------------------------------
Evicted == {<<a, i>> \in Asker \X (1..MaxEntries) : i \in DOMAIN asker[a].evict}
EvictedEntry(x) == asker[x[1]].evict[x[2]]

\* A classifier is open until exactly one of the list, the request that made
\* it or a request that evicts it gives it up: none is closed twice, and none
\* is forgotten open.
ClosedByOne ==
    /\ \A x, y \in Evicted : EvictedEntry(x) = EvictedEntry(y) => x = y
    /\ \A e \in 1..made :
         (entry[e].c = "open") <=>
            \/ e \in ToSet(list)
            \/ \E x \in Evicted : EvictedEntry(x) = e
            \/ \E a \in Asker : QAt(a, "list") /\ Has(a) = e

\* An eviction waits for the request that uses the classifier.
EvictionWaits ==
    [][\A e \in 1..MaxEntries : entry[e].c = "open" /\ entry'[e].c = "closed"
          => \A a \in Asker : ~(QAt(a, "use") /\ Has(a) = e)]_questionVars

\* A classifier in use belongs to the opening of the model that the request
\* has leased, and to the question it asked.
OwnQuestion ==
    \A a \in Asker : QAt(a, "use") =>
        entry[Has(a)].opening = opening /\ entry[Has(a)].q = asker[a].q /\ entry[Has(a)].mu = a

\* Nobody waits: every question has been answered.
QuestionQuiet == \A a \in Asker : QAt(a, "idle")

\* A classifier is closed by one that gives it up, never under a request
\* that uses it, and answers the question that was asked.
QuestionsSafe == [](QuestionTypeOK /\ ClosedByOne /\ OwnQuestion) /\ EvictionWaits

=============================================================================
