------------------------------- MODULE Asking -------------------------------
(***************************************************************************)
(* Questions about texts: Question and Stream of qwen3/choose.go and       *)
(* Context of qwen3/context.go.  Each keeps a store of the evaluator (see  *)
(* Evaluator) across calls and evaluates only what a call adds.            *)
(*                                                                         *)
(* A probability is modelled as the tokens it was computed from.  An       *)
(* evaluation that fails leaves its store cut to what it was to keep; one  *)
(* asked to keep more than the store has fails and changes nothing.        *)
(***************************************************************************)
EXTENDS Integers, Sequences, FiniteSets, SequencesExt, FiniteSetsExt

CONSTANTS
    Word,          \* the tokens of a text
    MaxWords,      \* bound: tokens of a text
    ContextTokens, \* tokens a Context holds
    StreamTokens,  \* tokens of a Stream's input
    SuffixTokens,  \* the suffix of a question
    PassTokens,    \* batchTokens
    AskFaults      \* what may fail: "evaluate", "cancel"

ASSUME AskingAssumption ==
    /\ MaxWords \in Nat /\ ContextTokens \in Nat /\ StreamTokens \in Nat /\ PassTokens \in Nat \ {0}

VARIABLES
    context,  \* a Context: the tokens of its store, and its text when Set succeeded
    stream,   \* a Stream: the tokens of its store, its input, and its last answer
    batch,    \* a Question's buffer: its cells, and where its sequences are
    answers   \* what the last call asked and computed: pairs, by who answered

askingVars == <<context, stream, batch, answers>>

TextsOf(n) == UNION {[1 .. k -> Word] : k \in 0 .. n}
NoText == <<"none">>
Prefix == <<"question">>
Suffix == [i \in 1 .. SuffixTokens |-> "suffix"]
Common(a, b) == Max({n \in 0 .. Min({Len(a), Len(b)}) : SubSeq(a, 1, n) = SubSeq(b, 1, n)})

\* The answers of a Stream or a Question.
Only(pairs) == [context |-> {}, others |-> pairs]

\* NewContext, NewStream with the question's prefix in its store, and a
\* Question that has answered nothing.
AskingInit ==
    /\ context = [tokens |-> <<>>, text |-> NoText]
    /\ stream = [tokens |-> Prefix, input |-> <<>>, last |-> <<>>, answered |-> FALSE]
    /\ batch = <<>> /\ answers = Only({})

-----------------------------------------------------------------------------
(* Context.                                                                *)

HeaderTokens == <<"header">>
ContextIds(text) == HeaderTokens \o text

\* Set evaluates nothing when the store holds all but the last token of the
\* text, and is as long.
Unchanged(tokens, ids) == Min({Common(tokens, ids), Len(ids) - 1}) = Len(ids) - 1 /\ Len(tokens) = Len(ids)

\* Set.
SetContext(text) ==
    LET ids == ContextIds(text)
        keep == Min({Common(context.tokens, ids), Len(ids) - 1})
    IN /\ \/ /\ Len(ids) > ContextTokens \/ "cancel" \in AskFaults
             /\ context' = [context EXCEPT !.text = NoText]
          \/ /\ Len(ids) <= ContextTokens
             /\ IF Unchanged(context.tokens, ids) THEN context' = [context EXCEPT !.text = text]
                ELSE \/ context' = [tokens |-> ids, text |-> text]
                     \/ "evaluate" \in AskFaults /\ context' = [tokens |-> SubSeq(ids, 1, keep), text |-> NoText]
       /\ answers' = Only({})
       /\ UNCHANGED stream /\ batch' = <<>>

\* Ask: the questions share passes on the store, which they leave as it is.
\* (What is asked is the text of the last Set; after one that failed the
\* store is what it left.)
AskContext ==
    /\ context.tokens # <<>>
    /\ answers' = [context |-> IF context.text = NoText THEN {} ELSE {<<ContextIds(context.text), context.tokens>>}, others |-> {}]
    /\ UNCHANGED <<context, stream>> /\ batch' = <<>>

-----------------------------------------------------------------------------
(* Stream.                                                                 *)

\* The input is that of the last answer.
Repeats(input) == stream.answered /\ Common(input, stream.input) = Len(input) /\ Len(input) = Len(stream.input)

\* What an update keeps of its store: the prefix and the unchanged input.
Kept(same) == Len(Prefix) + same

\* UpdateTokens.
Update(input) ==
    LET same == Common(input, stream.input)
        seq == SubSeq(input, same + 1, Len(input)) \o Suffix
        keep == Kept(same)
        asked == Prefix \o input \o Suffix
        tokens == SubSeq(stream.tokens, 1, keep) \o seq
    IN /\ \/ /\ Len(input) > StreamTokens \/ (~Repeats(input) /\ (keep > Len(stream.tokens) \/ "cancel" \in AskFaults))
             /\ answers' = Only({}) /\ UNCHANGED stream
          \/ /\ Len(input) <= StreamTokens /\ Repeats(input)
             /\ answers' = Only({<<asked, stream.last>>}) /\ UNCHANGED stream
          \/ /\ Len(input) <= StreamTokens /\ ~Repeats(input) /\ keep <= Len(stream.tokens)
             /\ \/ /\ stream' = [tokens |-> tokens, input |-> input, last |-> tokens, answered |-> TRUE]
                   /\ answers' = Only({<<asked, tokens>>})
                \/ /\ "evaluate" \in AskFaults
                   /\ stream' = [stream EXCEPT !.tokens = SubSeq(@, 1, keep)] /\ answers' = Only({})
       /\ UNCHANGED context /\ batch' = <<>>

-----------------------------------------------------------------------------
(* A batch of a Question.                                                  *)

\* f[a] + ... + f[b].
Sum(f, a, b) == LET t[n \in a - 1 .. b] == IF n < a THEN 0 ELSE t[n - 1] + f[n] IN t[b]
Lengths(inputs) == [i \in DOMAIN inputs |-> Len(inputs[i])]

\* Sequences are assembled after a region as long as all inputs, which
\* ChooseBatch has tokenized into the front of the same buffer.
AssembledAt(inputs) == Sum(Lengths(inputs), 1, Len(inputs))

\* chooseTokens: the inputs lie one after the other in the buffer; each, cut
\* to its last room tokens, is copied with the suffix behind it.
Assembled(inputs, room) ==
    LET front == FlattenSeq(inputs)
        start(i) == Sum(Lengths(inputs), 1, i - 1)
        len(i) == Min({Len(inputs[i]), room})
        at(i) == AssembledAt(inputs) + Sum([j \in DOMAIN inputs |-> len(j) + SuffixTokens], 1, i - 1)
        cells == AssembledAt(inputs) + Sum([j \in DOMAIN inputs |-> len(j) + SuffixTokens], 1, Len(inputs))
        empty == front \o [j \in 1 .. cells |-> "empty"]
        copied(buf, i) ==
            [j \in DOMAIN buf |-> IF j \in at(i) + 1 .. at(i) + len(i) THEN buf[start(i) + Len(inputs[i]) - len(i) + j - at(i)]
                                  ELSE IF j \in at(i) + len(i) + 1 .. at(i) + len(i) + SuffixTokens THEN "suffix" ELSE buf[j]]
        buf == FoldLeft(copied, empty, [i \in DOMAIN inputs |-> i])
    IN [i \in DOMAIN inputs |-> SubSeq(buf, at(i) + 1, at(i) + len(i) + SuffixTokens)]

\* The last sequence of a pass: as many as fit, and one at least.
PassEnd(lengths, start) ==
    Max({start} \cup {e \in start .. Len(lengths) : Sum(lengths, start, e) <= PassTokens})

PassesOf(lengths) ==
    LET from[start \in 1 .. Len(lengths) + 1] ==
            IF start > Len(lengths) THEN <<>>
            ELSE <<[first |-> start, last |-> PassEnd(lengths, start)]>> \o from[PassEnd(lengths, start) + 1]
    IN from[1]

\* ChooseBatch and chooseTokens, in passes.  A Question shares nothing with
\* a Context or a Stream: it is asked before them.
Choose(inputs, room) ==
    LET seqs == Assembled(inputs, room) IN
    /\ context.tokens = <<>> /\ stream.tokens = Prefix /\ batch = <<>>
    /\ answers' = Only({<<SubSeq(inputs[i], Len(inputs[i]) - Min({room, Len(inputs[i])}) + 1, Len(inputs[i])) \o Suffix, seqs[i]>> : i \in DOMAIN inputs})
    /\ batch' = [lengths |-> Lengths(seqs), passes |-> PassesOf(Lengths(seqs))]
    /\ UNCHANGED <<context, stream>>

AskingNext ==
    \/ \E text \in TextsOf(MaxWords) : SetContext(text) \/ Update(text)
    \/ AskContext
    \/ \E lengths \in [1 .. 3 -> 0 .. 2], room \in 1 .. 2 : Choose([i \in 1 .. 3 |-> [j \in 1 .. lengths[i] |-> <<i, j>>]], room)

-----------------------------------------------------------------------------
\* What a Stream or a Question answers was computed from the whole of what
\* was asked and nothing else: the input of the call, behind its prefix and
\* before its suffix, whatever the store held, kept or lost before.
AnswersAsked == \A p \in answers.others : p[1] = p[2]

\* What a Context answers was computed from the text of the last Set, but
\* for its last token, which Set does not compare.
ContextFollows == \A p \in answers.context : Len(p[1]) = Len(p[2]) /\ Front(p[1]) = Front(p[2])

\* Every sequence of a batch is evaluated in one pass, in order, and a pass
\* of several sequences is no longer than the workspace allows.
PassesCover ==
    batch # <<>> =>
        /\ batch.passes[1].first = 1 /\ Last(batch.passes).last = Len(batch.lengths)
        /\ \A i \in 1 .. Len(batch.passes) - 1 : batch.passes[i + 1].first = batch.passes[i].last + 1
        /\ \A i \in DOMAIN batch.passes : LET p == batch.passes[i] IN
              p.first < p.last => Sum(batch.lengths, p.first, p.last) <= PassTokens
=============================================================================
