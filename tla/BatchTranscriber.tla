-------------------------- MODULE BatchTranscriber --------------------------
(***************************************************************************)
(* qwen3asr.BatchTranscriber (qwen3asr/batch.go): lanes that transcribe,   *)
(* each on its goroutine, and a coordinator, the caller of Transcribe,     *)
(* that decodes their next tokens together.  Only messages cross: a token  *)
(* request hands the lane's decoder buffers to the coordinator until the   *)
(* reply.                                                                  *)
(*                                                                         *)
(* What a lane transcribes is a choice: it may ask for another token, end  *)
(* or fail at any point.  kvLen is the length of its prefix store and gen  *)
(* the tokens it has been given.                                           *)
(***************************************************************************)
EXTENDS Naturals, Sequences, FiniteSets

CONSTANTS Lanes,      \* capacity: lanes are 1..Lanes
          MaxTokens,  \* bound: tokens a lane asks for in a call
          MaxBatches  \* bound: calls of Transcribe

ASSUME BatchAssumption == Lanes \in 1..8 /\ MaxTokens \in Nat /\ MaxBatches \in Nat

Lane == 1..Lanes

VARIABLES
    batches,    \* calls made
    coPc,       \* the coordinator
    batched,    \* the call has several inputs, so that lanes ask the coordinator
    given,      \* the lanes that have a job in their channel
    alive, pendingLanes, first,
    ctxDone, cancelSeen,  \* the call's context, and cancelled = nil
    messages,   \* the channel of messages
    reply,      \* each lane's reply channel
    lanePc, laneErr, kvLen, gen

coVars == <<batches, coPc, batched, alive, pendingLanes, first, cancelSeen>>
laneVars == <<lanePc, laneErr, kvLen, gen>>
batchVars == <<coVars, given, ctxDone, messages, reply, laneVars>>

Answers == {"none", "ok", "failed", "cancelled"}

BatchTypeOK ==
    /\ batches \in 0..MaxBatches /\ coPc \in {"idle", "select", "decode", "closed"}
    /\ {batched, ctxDone, cancelSeen} \subseteq BOOLEAN
    /\ given \subseteq Lane /\ alive \in 0..Lanes
    /\ pendingLanes \in Seq(Lane) /\ Len(pendingLanes) <= Lanes
    /\ first \in Answers
    /\ messages \in Seq([lane : Lane, done : BOOLEAN, err : Answers]) /\ Len(messages) <= Lanes
    /\ reply \in [Lane -> Answers]
    /\ lanePc \in [Lane -> {"idle", "work", "waiting", "done", "exited"}]
    /\ laneErr \in [Lane -> Answers]
    /\ kvLen \in [Lane -> 0..MaxTokens] /\ gen \in [Lane -> 0..MaxTokens]

BatchInit ==
    /\ batches = 0 /\ coPc = "idle" /\ batched = FALSE /\ given = {}
    /\ alive = 0 /\ pendingLanes = <<>> /\ first = "none"
    /\ ctxDone = FALSE /\ cancelSeen = FALSE
    /\ messages = <<>> /\ reply = [l \in Lane |-> "none"]
    /\ lanePc = [l \in Lane |-> "idle"] /\ laneErr = [l \in Lane |-> "none"]
    /\ kvLen = [l \in Lane |-> 0] /\ gen = [l \in Lane |-> 0]

-----------------------------------------------------------------------------
\* A lane.

Send(l, isDone, e) == messages' = Append(messages, [lane |-> l, done |-> isDone, err |-> e])

\* The lane takes its job; Transcribe resets the prefix store.
LaneJob(l) ==
    /\ lanePc[l] = "idle" /\ l \in given
    /\ given' = given \ {l}
    /\ lanePc' = [lanePc EXCEPT ![l] = "work"]
    /\ laneErr' = [laneErr EXCEPT ![l] = "none"]
    /\ kvLen' = [kvLen EXCEPT ![l] = 0] /\ gen' = [gen EXCEPT ![l] = 0]
    /\ UNCHANGED <<coVars, ctxDone, messages, reply>>

\* advance: the request is sent, or the context is done.
Advance(l) ==
    /\ lanePc[l] = "work" /\ batched /\ gen[l] < MaxTokens
    /\ \/ Send(l, FALSE, "none") /\ lanePc' = [lanePc EXCEPT ![l] = "waiting"] /\ UNCHANGED laneErr
       \/ /\ ctxDone
          /\ lanePc' = [lanePc EXCEPT ![l] = "done"]
          /\ laneErr' = [laneErr EXCEPT ![l] = "cancelled"]
          /\ UNCHANGED messages
    /\ UNCHANGED <<coVars, given, ctxDone, reply, kvLen, gen>>

\* Without a batch the lane decodes by itself.
LaneDecode(l) ==
    /\ lanePc[l] = "work" /\ ~batched /\ gen[l] < MaxTokens /\ ~ctxDone
    /\ kvLen' = [kvLen EXCEPT ![l] = @ + 1] /\ gen' = [gen EXCEPT ![l] = @ + 1]
    /\ UNCHANGED <<coVars, given, ctxDone, messages, reply, lanePc, laneErr>>

\* advance returns the reply, even after cancellation.
BugReplied(l) == reply[l] # "none" \/ ctxDone

Replied(l) == reply[l] # "none"

LaneReply(l) ==
    /\ lanePc[l] = "waiting" /\ Replied(l)
    /\ reply' = [reply EXCEPT ![l] = "none"]
    /\ IF reply[l] = "ok"
       THEN /\ gen' = [gen EXCEPT ![l] = @ + 1]
            /\ lanePc' = [lanePc EXCEPT ![l] = "work"]
            /\ UNCHANGED laneErr
       ELSE /\ lanePc' = [lanePc EXCEPT ![l] = "done"]
            /\ laneErr' = [laneErr EXCEPT ![l] = reply[l]]
            /\ UNCHANGED gen
    /\ UNCHANGED <<coVars, given, ctxDone, messages, kvLen>>

\* Transcribe of the lane ends, with or without an error.
LaneEnds(l) ==
    /\ lanePc[l] = "work"
    /\ lanePc' = [lanePc EXCEPT ![l] = "done"]
    /\ \E e \in {"none", "failed"} \cup (IF ctxDone THEN {"cancelled"} ELSE {}) :
          laneErr' = [laneErr EXCEPT ![l] = e]
    /\ UNCHANGED <<coVars, given, ctxDone, messages, reply, kvLen, gen>>

LaneDone(l) ==
    /\ lanePc[l] = "done"
    /\ Send(l, TRUE, laneErr[l])
    /\ lanePc' = [lanePc EXCEPT ![l] = "idle"]
    /\ UNCHANGED <<coVars, given, ctxDone, reply, laneErr, kvLen, gen>>

LaneExit(l) ==
    /\ lanePc[l] = "idle" /\ l \notin given /\ coPc = "closed"
    /\ lanePc' = [lanePc EXCEPT ![l] = "exited"]
    /\ UNCHANGED <<coVars, given, ctxDone, messages, reply, laneErr, kvLen, gen>>

-----------------------------------------------------------------------------
\* The coordinator.

\* Transcribe gives each input to a lane.
Transcribe(count) ==
    /\ coPc = "idle" /\ batches < MaxBatches
    /\ batches' = batches + 1
    /\ given' = 1..count /\ batched' = (count > 1)
    /\ alive' = count /\ pendingLanes' = <<>> /\ first' = "none"
    /\ ctxDone' = FALSE /\ cancelSeen' = FALSE
    /\ coPc' = IF count = 0 THEN "idle" ELSE "select"
    /\ UNCHANGED <<messages, reply, laneVars>>

\* What follows the select: wait for the other lanes, or decode and reply.
Ready(p, a, e) == Len(p) # 0 /\ (Len(p) >= a \/ e # "none")

\* The loop ends when the last lane is done, also after an error.
Over(a, e) == a = 0

AfterSelect(p, a, e) ==
    coPc' = IF Ready(p, a, e) THEN "decode" ELSE IF Over(a, e) THEN "idle" ELSE "select"

Receive ==
    /\ coPc = "select" /\ messages # <<>>
    /\ LET m == Head(messages)
           e == IF first = "none" THEN m.err ELSE first
       IN  IF m.done
           THEN /\ alive' = alive - 1 /\ first' = e
                /\ UNCHANGED pendingLanes
                /\ AfterSelect(pendingLanes, alive - 1, e)
           ELSE /\ pendingLanes' = Append(pendingLanes, m.lane)
                /\ UNCHANGED <<alive, first>>
                /\ AfterSelect(Append(pendingLanes, m.lane), alive, first)
    /\ messages' = Tail(messages)
    /\ UNCHANGED <<batches, batched, cancelSeen, given, ctxDone, reply, laneVars>>

Cancelled ==
    /\ coPc = "select" /\ ctxDone /\ ~cancelSeen
    /\ cancelSeen' = TRUE
    /\ first' = IF first = "none" THEN "cancelled" ELSE first
    /\ AfterSelect(pendingLanes, alive, first')
    /\ UNCHANGED <<batches, batched, alive, pendingLanes, given, ctxDone, messages, reply, laneVars>>

Pending == {pendingLanes[i] : i \in DOMAIN pendingLanes}

Moved(lanes) == [l \in Lane |-> kvLen[l] + IF l \in lanes THEN 1 ELSE 0]

\* DecodeBatch moves every prefix store or none.  A lone lane is extended
\* first and scored then, which may still fail.
AfterFailure == {kvLen} \cup (IF first = "none" /\ Len(pendingLanes) = 1 THEN {Moved(Pending)} ELSE {})

\* The pending lanes are decoded together (or the only one alone)
\* unless an error is known, and get their replies.
Decode ==
    /\ coPc = "decode"
    /\ \/ first = "none" /\ first' = "none" /\ kvLen' = Moved(Pending)
       \/ first' = (IF first = "none" THEN "failed" ELSE first) /\ kvLen' \in AfterFailure
    /\ reply' = [l \in Lane |-> IF l \in Pending
                                THEN IF first' = "none" THEN "ok" ELSE first'
                                ELSE reply[l]]
    /\ pendingLanes' = <<>>
    /\ coPc' = "select"
    /\ UNCHANGED <<batches, batched, alive, cancelSeen, given, ctxDone, messages, lanePc, laneErr, gen>>

\* Close, which never overlaps Transcribe.
BatchClose ==
    /\ coPc = "idle"
    /\ coPc' = "closed"
    /\ UNCHANGED <<batches, batched, alive, pendingLanes, first, cancelSeen, given, ctxDone, messages,
                   reply, laneVars>>

\* The context of the call ends.
CtxDone ==
    /\ coPc \in {"select", "decode"} /\ ~ctxDone
    /\ ctxDone' = TRUE
    /\ UNCHANGED <<coVars, given, messages, reply, laneVars>>

LaneStep(l) == LaneJob(l) \/ Advance(l) \/ LaneDecode(l) \/ LaneReply(l) \/ LaneEnds(l) \/ LaneDone(l) \/ LaneExit(l)
CoStep == Receive \/ Cancelled \/ Decode
BatchNext ==
    \/ \E l \in Lane : LaneStep(l)
    \/ CoStep \/ BatchClose \/ CtxDone
    \/ \E count \in 0..Lanes : Transcribe(count)

BatchSpec == BatchInit /\ [][BatchNext]_batchVars

-----------------------------------------------------------------------------
\* "Sending a token request transfers exclusive use of that lane's decoder
\* buffers until its reply arrives": a lane whose request the coordinator
\* has, or will receive, is waiting.
BuffersOwned ==
    \A l \in Lane :
       l \in Pending \/ (\E i \in DOMAIN messages : messages[i] = [lane |-> l, done |-> FALSE, err |-> "none"])
       => lanePc[l] = "waiting" /\ reply[l] = "none"

\* A lane that works on finds in its prefix store exactly the tokens it was
\* given, whatever failed or was cancelled in the other lanes.
PrefixFollows == \A l \in Lane : lanePc[l] = "work" => kvLen[l] = gen[l]

\* "every worker has returned before this method returns": between calls no
\* lane works, no message is left for the next call and no reply is unread.
CleanReturn ==
    coPc \in {"idle", "closed"} =>
        /\ messages = <<>> /\ given = {} /\ pendingLanes = <<>>
        /\ \A l \in Lane : lanePc[l] \in {"idle", "exited"} /\ reply[l] = "none"

\* Nobody waits: Transcribe has returned.
BatchQuiet == coPc \in {"idle", "closed"}

\* The lanes of a batch share one decoder and nothing else: they hand their
\* buffers over one at a time, follow their own tokens, and leave nothing to
\* the next call.
BatchSafe == BatchTypeOK /\ BuffersOwned /\ PrefixFollows /\ CleanReturn

=============================================================================
