------------------------------ MODULE Session ------------------------------
(***************************************************************************)
(* A conversation with a language model: session and generator of          *)
(* qwen3/chat.go, on the evaluator whose stores Evaluator is about.        *)
(*                                                                         *)
(* A conversation is its tokens.  The store holds the keys and values of a *)
(* sequence of tokens, of which a call keeps what it shares with its own;  *)
(* hidden is the model's state after some sequence, and is modelled as     *)
(* that sequence, so that what a token was drawn from can be compared with *)
(* what it follows.  A session is used by one caller at a time: a call is  *)
(* one step, and Reply one for its prompt, one for every pass of its loop  *)
(* and one for its end.                                                    *)
(***************************************************************************)
EXTENDS Integers, Sequences, FiniteSets, SequencesExt, FiniteSetsExt

CONSTANTS
    Texts,         \* the messages added, as tokens
    Closer,        \* tokens that are closing punctuation
    Scaffolds,     \* the sets of scaffolds sessions are opened with: the
                   \* tokens a call to each tool starts with
    Replies,       \* what a model may draw, one token after the other
    Think,         \* what the answer's header has after the assistant's
    Limit,         \* MaxPositions
    FirstRoom,     \* the smallest store (512)
    Typical,       \* tokens of a typical reply (256)
    roomAhead,
    ReplyTokens,   \* values of Options.MaxTokens
    SessionFaults, \* what may fail
    MaxTurns       \* bound: calls of a session

ASSUME SessionAssumption ==
    /\ Limit \in Nat /\ FirstRoom \in Nat \ {0} /\ Typical \in Nat /\ roomAhead \in Nat
    /\ ReplyTokens \subseteq Nat /\ MaxTurns \in Nat

VARIABLES
    tools,     \* the scaffolds of the session's tools
    conv,      \* ids
    store,     \* kv: its tokens and its capacity, 0 before there is one
    ready,     \* stored tokens after which hidden is the state, or 0
    finished,  \* what Finished's probability was computed for
    reply,     \* where the last reply starts (tokens before it), or -1
    hidden,    \* the tokens hidden is the state after
    calls,     \* the calls of the last reply
    call,      \* the call being written
    seen,      \* the tokens the presence penalty lowers
    loop,      \* a Reply that is running
    turns,     \* calls made
    sources,   \* what each token of the reply was drawn from
    judged,    \* what the last Finished returned, and for what, and whether
               \* the last pass of one had its logits
    said,      \* the tokens of the last reply, before any Truncate
    refused    \* whether the evaluator was asked for what its store has no room for

sessionVars == <<tools, conv, store, ready, finished, reply, hidden, calls, call, seen, loop, turns, sources, judged, said, refused>>

NoLoop == [pc |-> "idle", n |-> 0, room |-> 0, next |-> "none", from |-> {}]
NoCall == [open |-> FALSE, ids |-> <<>>]

-----------------------------------------------------------------------------
(* The template and the tokens of a message.                               *)

Ending == <<"end", "nl">>
Header(role) == IF role = "tool" THEN <<"user", "result">> ELSE <<role>>
Answer == Header("assistant") \o Think
Message(role, text) == Header(role) \o text \o (IF role = "tool" THEN <<"resultEnd">> ELSE <<>>) \o Ending

Shared(a, b) == Max({n \in 0 .. Min({Len(a), Len(b)}) : SubSeq(a, 1, n) = SubSeq(b, 1, n)})

-----------------------------------------------------------------------------
\* NewSession, with no system prompt.
SessionInit ==
    /\ tools \in Scaffolds
    /\ conv = <<>> /\ store = [tokens |-> <<>>, cap |-> 0] /\ ready = 0 /\ finished = <<>> /\ reply = -1
    /\ hidden = <<>> /\ calls = <<>> /\ call = NoCall /\ seen = {} /\ loop = NoLoop /\ turns = 0
    /\ sources = <<>> /\ judged = [for |-> <<>>, value |-> <<>>, ok |-> TRUE] /\ said = <<>> /\ refused = FALSE

Idle == loop.pc = "idle" /\ turns < MaxTurns /\ turns' = turns + 1

\* Add; a system message is one more of them.  AddCalls adds one of the
\* assistant.
Add(role, text) ==
    /\ Idle
    /\ conv' = conv \o Message(role, text) /\ reply' = -1
    /\ UNCHANGED <<tools, store, ready, finished, hidden, calls, call, seen, loop, sources, judged, said, refused>>

AddCalls(text, c) == Add("assistant", text \o <<"open">> \o c \o <<"close">>)

\* A store grows by doubling, and not past the model's positions.
Doubled(need) == LET size[c \in 1 .. 2 * need + FirstRoom] == IF c < need THEN size[2 * c] ELSE c IN size[FirstRoom]

Sized(need) == Min({Doubled(need), Limit})

\* reserve: a store that is too small is replaced by one with what it shares
\* with the conversation.
Reserve(s, ids, need) ==
    IF s.cap >= need THEN s
    ELSE [tokens |-> SubSeq(s.tokens, 1, Shared(s.tokens, ids)), cap |-> Sized(need)]

\* What the evaluator accepts: more tokens than the store has are not kept,
\* and the rest fits.
Accepts(s, keep, n) == keep <= Len(s.tokens) /\ keep + n <= s.cap

Extended(s, keep, ids) == [s EXCEPT !.tokens = SubSeq(s.tokens, 1, keep) \o ids]
Cut(s, keep) == [s EXCEPT !.tokens = SubSeq(s.tokens, 1, keep)]

\* Mutant: only the lengths are compared.
BugStands(s, ids) == ready = Len(ids) /\ Len(s.tokens) = Len(ids)

\* Whether hidden is the state after ids.
Stands(s, ids) == ready = Len(ids) /\ s.tokens = ids

\* The tokens a reply may have.
Room(max) ==
    LET left == Limit - Len(conv) - Len(Answer) - 2 IN IF max > 0 THEN Min({left, max}) ELSE left

\* Reply before its loop: an error leaves the answer's header.
Prompt(max) ==
    LET ids == conv \o Answer
        s == Reserve(store, ids, Len(ids) + Min({Room(max), Typical}) + 2)
        keep == Min({Shared(s.tokens, ids), Len(ids) - 1})
        stands == Stands(s, ids)
    IN /\ Idle
       /\ conv' = ids /\ reply' = Len(ids)
       /\ \/ /\ Room(max) <= 0 \/ (s # store /\ "reserve" \in SessionFaults)
             /\ UNCHANGED <<store, ready, hidden, calls, call, seen, loop, sources, said, refused>>
          \/ /\ Room(max) > 0 /\ ~stands /\ "evaluate" \in SessionFaults
             /\ store' = Cut(s, keep) /\ ready' = 0
             /\ UNCHANGED <<hidden, calls, call, seen, loop, sources, said, refused>>
          \/ /\ Room(max) > 0
             /\ store' = IF stands THEN s ELSE Extended(s, keep, SubSeq(ids, keep + 1, Len(ids)))
             /\ hidden' = IF stands THEN hidden ELSE ids
             /\ refused' = (refused \/ (~stands /\ ~Accepts(s, keep, Len(ids) - keep)))
             /\ ready' = 0 /\ calls' = <<>> /\ call' = [call EXCEPT !.open = FALSE] /\ seen' = {}
             /\ sources' = <<>> /\ said' = <<>>
             /\ loop' = [NoLoop EXCEPT !.pc = "decode", !.room = Room(max)]
       /\ UNCHANGED <<tools, finished, judged>>

-----------------------------------------------------------------------------
(* The loop of a Reply.  R stands for what take changes.                   *)

Parses(c) == c # <<>> /\ c[1] \in {s[1] : s \in UNION Scaffolds}

Taking == [conv |-> conv, seen |-> seen, call |-> call, calls |-> calls, sources |-> sources]

\* The call that take collects.
Calling(c, id) ==
    CASE id = "open" -> [open |-> TRUE, ids |-> <<>>]
      [] id = "close" -> [c EXCEPT !.open = FALSE]
      [] OTHER -> IF c.open THEN [c EXCEPT !.ids = Append(@, id)] ELSE c

\* take, remember and record: token id of the reply, drawn from.
Take(r, id, from) ==
    [conv |-> Append(r.conv, id), seen |-> r.seen \cup {id}, call |-> Calling(r.call, id),
     calls |-> IF id = "close" /\ r.call.open /\ Parses(r.call.ids) THEN Append(r.calls, r.call.ids) ELSE r.calls,
     sources |-> Append(r.sources, from)]

\* What a draw depends on: the state, and the tokens penalize lowers.
From(state, r) == [state |-> state, seen |-> r.seen]

\* What may be drawn after the reply so far: how one that starts so goes on.
Draws(r) ==
    LET n == Len(r.conv) - reply IN
    {IF Len(w) > n THEN w[n + 1] ELSE "end" : w \in {w \in Replies : SubSeq(w, 1, Min({n, Len(w)})) = SubSeq(r.conv, reply + 1, Len(r.conv))}}

\* draft: what every tool the call can still be of goes on with.
draft(c, max) ==
    LET n == Len(c.ids)
        rests == {SubSeq(t, n + 1, Len(t)) : t \in {t \in tools : n < Len(t) /\ SubSeq(t, 1, n) = c.ids}}
        all == IF rests = {} THEN <<>> ELSE
               LET one == CHOOSE d \in rests : TRUE IN SubSeq(one, 1, Min({Shared(one, d) : d \in rests}))
    IN IF ~c.open \/ max <= 1 THEN <<>> ELSE SubSeq(all, 1, Min({Len(all), max - 1}))

\* verify after k of the drafted tokens agreed: each was drawn from the state
\* after the one before.
Verified(r, d, k) ==
    LET at[i \in 0 .. k] ==
            IF i = 0 THEN r ELSE Take(at[i - 1], d[i], From(SubSeq(r.conv \o d, 1, Len(r.conv) + i - 1), at[i - 1]))
    IN at[k]

Became(r) ==
    conv' = r.conv /\ seen' = r.seen /\ call' = r.call /\ calls' = r.calls /\ sources' = r.sources

Ends == loop' = [loop EXCEPT !.pc = "end"]

\* The store grown for the last token and a draft.
Grown(s, ids, d) ==
    LET need == Len(ids) + Len(d) + 2 IN IF need > s.cap THEN Reserve(s, ids, Max({2 * s.cap, need})) ELSE s

\* The token of a pass: the one drawn while a draft was checked, or one drawn
\* now.
Has(x) == IF loop.next = "none" THEN x \in Draws(Taking) ELSE x = loop.next
Source == IF loop.next = "none" THEN From(hidden, Taking) ELSE loop.from

\* The next token ends the message, or cannot be drawn.
LastDraw ==
    /\ loop.pc = "decode"
    /\ Has("end") \/ (loop.next = "none" /\ "logits" \in SessionFaults)
    /\ Ends
    /\ UNCHANGED <<tools, conv, store, ready, finished, reply, hidden, calls, call, seen, turns, sources, judged, said, refused>>

\* A token that is the reply's last: there is no more room, its text cannot
\* be written or the caller has given up.
LastToken(x) ==
    LET r == Take(Taking, x, Source) IN
    /\ loop.pc = "decode" /\ x # "end" /\ Has(x)
    /\ loop.n + 1 = loop.room \/ "write" \in SessionFaults
    /\ Became(r) /\ Ends
    /\ UNCHANGED <<tools, store, ready, finished, reply, hidden, turns, judged, said, refused>>

\* A token, and the state after it.
NextToken(x) ==
    LET r == Take(Taking, x, Source)
        d == draft(r.call, loop.room - loop.n - 1)
        s == Grown(store, r.conv, d)
        keep == Len(r.conv) - 1
    IN /\ loop.pc = "decode" /\ x # "end" /\ Has(x) /\ loop.n + 1 # loop.room
       /\ d = <<>>
       /\ refused' = (refused \/ ~Accepts(s, keep, 1))
       /\ Became(r)
       /\ \/ "reserve" \in SessionFaults /\ s # store /\ Ends /\ UNCHANGED <<store, hidden>>
          \/ "evaluate" \in SessionFaults /\ store' = Cut(s, keep) /\ Ends /\ UNCHANGED hidden
          \/ /\ store' = Extended(s, keep, <<x>>) /\ hidden' = r.conv
             /\ loop' = [loop EXCEPT !.n = @ + 1, !.next = "none", !.from = {}]
       /\ UNCHANGED <<tools, ready, finished, reply, turns, judged, said>>

\* A token, and a draft after it: k of it are taken, and y is drawn next.
CheckDraft(x, k, y) ==
    LET r == Take(Taking, x, Source)
        d == draft(r.call, loop.room - loop.n - 1)
        s == Grown(store, r.conv, d)
        keep == Len(r.conv) - 1
        v == Verified(r, d, k)
    IN /\ loop.pc = "decode" /\ x # "end" /\ Has(x) /\ loop.n + 1 # loop.room
       /\ k <= Len(d) /\ d # <<>>
       /\ \A i \in 1 .. k : d[i] \in Draws(Verified(r, d, i - 1))
       /\ y \in Draws(v) /\ (k < Len(d) => y # d[k + 1])
       /\ refused' = (refused \/ ~Accepts(s, keep, 1 + Len(d)))
       /\ Became(v)
       /\ store' = Extended(s, keep, <<x>> \o d) /\ hidden' = v.conv
       /\ loop' = [loop EXCEPT !.n = @ + k + 1, !.next = y, !.from = From(v.conv, v)]
       /\ UNCHANGED <<tools, ready, finished, reply, turns, judged, said>>

\* The same, when the store, the evaluation of the draft or its logits fail:
\* none of it is taken.  (A token that is taken from a draft is inside a call, and has
\* no text to write.)
CheckDraftFails(x) ==
    LET r == Take(Taking, x, Source)
        d == draft(r.call, loop.room - loop.n - 1)
        s == Grown(store, r.conv, d)
    IN /\ loop.pc = "decode" /\ x # "end" /\ Has(x) /\ loop.n + 1 # loop.room /\ d # <<>>
       /\ \/ "evaluate" \in SessionFaults /\ store' = Cut(s, Len(r.conv) - 1)
          \/ "logits" \in SessionFaults /\ store' = Extended(s, Len(r.conv) - 1, <<x>> \o d)
          \/ "reserve" \in SessionFaults /\ s # store /\ UNCHANGED store
       /\ Became(r) /\ Ends
       /\ UNCHANGED <<tools, ready, finished, reply, hidden, turns, judged, said, refused>>

\* The end of a Reply: the message is closed, whatever ended it, and the
\* store is given room for the next.
EndReply ==
    LET ids == conv \o Ending IN
    /\ loop.pc = "end" /\ loop' = NoLoop
    /\ said' = SubSeq(conv, reply + 1, Len(conv))
    /\ conv' = ids
    /\ \/ store' = IF store.cap - Len(ids) < roomAhead THEN Reserve(store, ids, Len(ids) + roomAhead) ELSE store
       \/ "reserve" \in SessionFaults /\ store.cap - Len(ids) < roomAhead /\ store' = store
    /\ UNCHANGED <<tools, ready, finished, reply, hidden, calls, call, seen, turns, sources, judged, refused>>

-----------------------------------------------------------------------------
\* Finished: the conversation with a message of text and the header of the
\* answer, from the state before its closing punctuation on.
Probe(role, text) == conv \o Header(role) \o text \o Ending \o Answer
Closing(text) == Len(text) - Max({0} \cup {i \in DOMAIN text : text[i] \notin Closer})

\* What the store keeps: a state it returns must be evaluated.
Keep(s, probe, end, closed) == Min({Shared(s.tokens, probe), end - 1 - closed})

Finished(role, text) ==
    LET probe == Probe(role, text)
        end == Len(conv) + Len(Header(role)) + Len(text)
        closed == Closing(text)
        s == Reserve(store, conv, Min({Len(probe) + Typical + 4, Limit}))
        keep == Keep(s, probe, end, closed)
        tail == Len(probe) - end + 1 + closed
    IN /\ Idle /\ Len(probe) + 4 <= Limit
       /\ IF Stands(store, probe)
          THEN /\ judged' = [judged EXCEPT !.for = probe, !.value = finished]
               /\ UNCHANGED <<store, ready, finished, hidden, refused>>
          ELSE \/ /\ "evaluate" \in SessionFaults
                  /\ store' = Cut(s, keep) /\ ready' = 0
                  /\ UNCHANGED <<finished, hidden, judged, refused>>
               \/ /\ store' = Extended(s, keep, SubSeq(probe, keep + 1, Len(probe)))
                  /\ hidden' = probe /\ ready' = Len(probe)
                  /\ refused' = (refused \/ ~Accepts(s, keep, Len(probe) - keep) \/ tail > Len(probe) - keep)
                  /\ \/ "logits" \in SessionFaults /\ judged' = [judged EXCEPT !.ok = FALSE] /\ UNCHANGED finished
                     \/ finished' = probe /\ judged' = [for |-> probe, value |-> probe, ok |-> TRUE]
       /\ UNCHANGED <<tools, conv, reply, calls, call, seen, loop, sources, said>>

\* Prefill.
Prefill ==
    LET s == Reserve(store, conv, Min({Len(conv) + Len(Answer) + Typical + 2, Limit}))
        keep == Shared(s.tokens, conv)
    IN /\ Idle /\ Len(conv) + Len(Answer) + 2 <= Limit
       /\ IF keep = Len(conv) THEN store' = s /\ UNCHANGED <<ready, hidden, refused>>
          ELSE /\ ready' = 0
               /\ refused' = (refused \/ ~Accepts(s, keep, Len(conv) - keep))
               /\ \/ store' = Extended(s, keep, SubSeq(conv, keep + 1, Len(conv))) /\ hidden' = conv
                  \/ "evaluate" \in SessionFaults /\ store' = Cut(s, keep) /\ UNCHANGED hidden
       /\ UNCHANGED <<tools, conv, finished, reply, calls, call, seen, loop, sources, judged, said>>

Truncated(ids, keep) == SubSeq(ids, 1, keep) \o Ending

\* Truncate to n bytes, one for each token.
Truncate(n) ==
    /\ Idle /\ reply >= 0
    /\ conv' = Truncated(conv, Max({reply, Min({reply + n, Len(conv) - Len(Ending)})}))
    /\ UNCHANGED <<tools, store, ready, finished, reply, hidden, calls, call, seen, loop, sources, judged, said, refused>>

\* Where a message ends.
Marks == {0} \cup {i \in 2 .. Len(conv) : SubSeq(conv, i - 1, i) = Ending}

\* Restore to a mark that Checkpoint took between two messages.
Restore(mark) ==
    /\ Idle /\ mark \in Marks /\ mark # Len(conv)
    /\ conv' = SubSeq(conv, 1, mark) /\ reply' = -1
    /\ UNCHANGED <<tools, store, ready, finished, hidden, calls, call, seen, loop, sources, judged, said, refused>>

\* Close: every later call returns ErrClosed and changes nothing.
CloseSession ==
    /\ Idle /\ turns + 1 = MaxTurns
    /\ conv' = <<>> /\ store' = [tokens |-> <<>>, cap |-> 0]
    /\ UNCHANGED <<tools, ready, finished, reply, hidden, calls, call, seen, loop, sources, judged, said, refused>>

Tokens == {"end"} \cup UNION {Range(w) : w \in Replies}

SessionDecode ==
    \/ LastDraw \/ EndReply
    \/ \E x \in Tokens : LastToken(x) \/ NextToken(x) \/ CheckDraftFails(x)
    \/ \E x, y \in Tokens, k \in 0 .. Limit : CheckDraft(x, k, y)

SessionNext ==
    \/ SessionDecode
    \/ \E max \in ReplyTokens : Prompt(max)
    \/ \E text \in Texts : Finished("user", text) \/ \E role \in {"user", "tool"} : Add(role, text)
    \/ \E t \in tools : AddCalls(<<>>, t)
    \/ Prefill \/ CloseSession
    \/ \E n \in 0 .. 1 : Truncate(n)
    \/ \E mark \in 0 .. Limit : Restore(mark)

-----------------------------------------------------------------------------
\* The store is no larger than the context, and a running reply has counted
\* its tokens.
SessionTypeOK ==
    /\ store.cap \in 0 .. Limit /\ Len(store.tokens) <= store.cap /\ ready \in Nat /\ (conv = <<>> \/ reply \in -1 .. Len(conv))
    /\ loop.pc \in {"idle", "decode", "end"} /\ loop.n \in 0 .. Limit
    /\ loop.pc = "decode" => Len(sources) = loop.n
    /\ seen \subseteq Tokens

\* Every token of a reply was drawn from the model's state after the
\* conversation and the tokens before it, with the penalty of those tokens:
\* reuse of the store, the state Finished left, drafts and their checks change
\* the time a reply takes and nothing else.
ReplyFollows ==
    loop.pc # "idle" =>
        /\ Len(sources) = Len(conv) - reply
        /\ \A i \in DOMAIN sources :
              /\ sources[i].state = SubSeq(conv, 1, reply + i - 1)
              /\ sources[i].seen = {conv[j] : j \in reply + 1 .. reply + i - 1}

\* The evaluator is never asked to keep tokens its store does not have, to
\* store more than it has room for, or for a state it does not evaluate.
NeverRefused == ~refused

\* What Finished returns was computed for the conversation and message asked
\* about, also when it is taken from the last call.  (Only a call whose pass
\* succeeded and whose logits then failed leaves a state that the next call
\* takes for one that was judged.)
JudgedItself == judged.ok => judged.value = judged.for

\* Calls are calls the last reply has, tag to tag, as it wrote them.
CallsOfReply ==
    loop.pc = "idle" =>
        \A i \in DOMAIN calls : LET c == <<"open">> \o calls[i] \o <<"close">> IN
            \E at \in 0 .. Len(said) - Len(c) : SubSeq(said, at + 1, at + Len(c)) = c

\* A reply, drafts included, keeps to its options and leaves room for its end
\* in the context.
RoomKept == loop.pc = "end" => Len(conv) + Len(Ending) <= Limit /\ Len(conv) - reply <= loop.room

StartsMessage(i) == conv[i] \in {"user", "assistant", "system"}
Closed(i) == i = 0 \/ (i > 1 /\ SubSeq(conv, i - 1, i) = Ending)

\* Messages follow each other whole: a header comes first or after the end
\* of a message (or the header of an answer that failed), whatever was cut
\* or restored, and when nothing runs the conversation ends with one.
HeadersFollow ==
    LET left(i) == i >= Len(Answer) /\ SubSeq(conv, i - Len(Answer) + 1, i) = Answer IN
    /\ \A i \in DOMAIN conv : StartsMessage(i) => Closed(i - 1) \/ left(i - 1)
    /\ loop.pc = "idle" => Closed(Len(conv)) \/ left(Len(conv))

\* A conversation is what was added and replied, whatever was reused,
\* drafted, truncated or failed: replies and judgments are computed from all
\* of it and fit the store.
SessionSafe ==
    SessionTypeOK /\ ReplyFollows /\ NeverRefused /\ JudgedItself /\ CallsOfReply /\ RoomKept /\ HeadersFollow

=============================================================================
