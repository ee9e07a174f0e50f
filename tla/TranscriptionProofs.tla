------------------------ MODULE TranscriptionProofs ------------------------
(***************************************************************************)
(* Proofs about the two components in which several goroutines share a     *)
(* transcriber.                                                            *)
(*                                                                         *)
(* BatchTranscriber: for any number of lanes, tokens and calls, the        *)
(* decoder buffers of a lane have one owner at a time, a lane follows its  *)
(* own tokens, and a call returns with every lane at rest.                 *)
(*                                                                         *)
(* Hearing: for any utterances, pauses and judgments, a partial transcript *)
(* is continued only with the utterance it is of, and the judgment that    *)
(* ends a turn has heard all of it.                                        *)
(***************************************************************************)
EXTENDS BatchTranscriber, Hearing, FiniteSetTheorems, SequenceTheorems, TLAPS

-----------------------------------------------------------------------------
\* The batch transcriber.

Message == [lane : Lane, done : BOOLEAN, err : Answers]
Msgs == {messages[i] : i \in DOMAIN messages}

\* A lane whose request, or whose end, the coordinator has not received.
Asks(l) == \E m \in Msgs : m.lane = l /\ ~m.done
Ended(l) == \E m \in Msgs : m.lane = l /\ m.done

\* The lanes the coordinator still counts in alive.
Active == {l \in Lane : l \in given \/ lanePc[l] \in {"work", "waiting", "done"} \/ Ended(l)}

\* A lane has at most one message, and one request that waits; "ok" is no
\* error.
Unique ==
    /\ \A i, j \in DOMAIN messages : messages[i].lane = messages[j].lane => i = j
    /\ \A i, j \in DOMAIN pendingLanes : pendingLanes[i] = pendingLanes[j] => i = j
    /\ \A m \in Msgs : m.err # "ok" /\ (~m.done => m.err = "none")

\* Where the request of a lane is, and what its prefix store holds then.
LaneInv(l) ==
    /\ Asks(l) => lanePc[l] = "waiting" /\ reply[l] = "none" /\ l \notin Pending
    /\ l \in Pending => lanePc[l] = "waiting" /\ reply[l] = "none"
    /\ reply[l] # "none" => lanePc[l] = "waiting"
    /\ lanePc[l] = "waiting" => gen[l] < MaxTokens
    /\ Ended(l) => lanePc[l] = "idle" /\ l \notin given
    /\ l \in given => lanePc[l] = "idle"
    /\ lanePc[l] = "work" => kvLen[l] = gen[l]
    /\ lanePc[l] = "waiting" /\ reply[l] = "none" => kvLen[l] = gen[l]
    /\ lanePc[l] = "waiting" /\ reply[l] = "ok" => kvLen[l] = gen[l] + 1
    /\ lanePc[l] = "exited" => coPc = "closed"
    /\ laneErr[l] # "ok"

\* The coordinator counts the lanes that are still to end, and returns when
\* there are none.
CoInv ==
    /\ alive = Cardinality(Active)
    /\ coPc \in {"select", "decode"} <=> alive # 0
    /\ first # "ok"

BatchInv == BatchTypeOK /\ Unique /\ (\A l \in Lane : LaneInv(l)) /\ CoInv

-----------------------------------------------------------------------------
\* A sequence of different lanes is no longer than there are lanes.
LEMMA Short ==
    ASSUME NEW n \in Nat, NEW f \in [1..n -> Lane], \A i, j \in 1..n : f[i] = f[j] => i = j
    PROVE  n <= Lanes
<1>1. Lanes \in Nat /\ IsFiniteSet(Lane) /\ Cardinality(Lane) = Lanes
  BY BatchAssumption, FS_Interval DEF Lane
<1>2. IsFiniteSet(1..n) /\ Cardinality(1..n) = n
  BY FS_Interval
<1>3. SUFFICES ASSUME Lanes < n PROVE FALSE
  BY <1>1
<1>4. \E x, y \in 1..n : x # y /\ f[x] = f[y]
  BY <1>1, <1>2, <1>3, FS_PigeonHole
<1> QED
  BY <1>4

\* What a channel holds after a message is sent.
LEMMA Sent ==
    ASSUME NEW S, NEW s \in Seq(S), NEW x \in S
    PROVE  /\ Append(s, x) \in Seq(S)
           /\ {Append(s, x)[i] : i \in DOMAIN Append(s, x)} = {s[i] : i \in DOMAIN s} \cup {x}
           /\ DOMAIN Append(s, x) = DOMAIN s \cup {Len(s) + 1}
           /\ Len(s) + 1 \notin DOMAIN s
           /\ Append(s, x)[Len(s) + 1] = x
           /\ \A i \in DOMAIN s : Append(s, x)[i] = s[i]
<1>1. /\ Append(s, x) \in Seq(S) /\ Len(Append(s, x)) = Len(s) + 1
      /\ \A i \in 1..Len(s) : Append(s, x)[i] = s[i]
      /\ Append(s, x)[Len(s) + 1] = x
      /\ Len(s) \in Nat /\ DOMAIN s = 1..Len(s) /\ DOMAIN Append(s, x) = 1..Len(s) + 1
  BY AppendProperties, LenProperties
<1>2. 1..Len(s) + 1 = 1..Len(s) \cup {Len(s) + 1} /\ Len(s) + 1 \notin 1..Len(s)
  BY <1>1
<1> QED
  BY <1>1, <1>2

\* What a channel holds after its first message is received.
LEMMA Received ==
    ASSUME NEW S, NEW s \in Seq(S), s # <<>>
    PROVE  /\ Head(s) \in S /\ Tail(s) \in Seq(S)
           /\ 1 \in DOMAIN s /\ Head(s) = s[1]
           /\ \A j \in DOMAIN s \ {1} : j - 1 \in DOMAIN Tail(s) /\ Tail(s)[j - 1] = s[j]
           /\ \A i \in DOMAIN Tail(s) : i + 1 \in DOMAIN s /\ i + 1 # 1 /\ Tail(s)[i] = s[i + 1] /\ i \in Nat
<1>1. /\ Head(s) = s[1] /\ Tail(s) \in Seq(S) /\ Len(Tail(s)) = Len(s) - 1 /\ Len(s) \in Nat \ {0}
      /\ \A i \in 1..Len(Tail(s)) : Tail(s)[i] = s[i + 1]
      /\ DOMAIN s = 1..Len(s) /\ DOMAIN Tail(s) = 1..Len(s) - 1 /\ s \in [1..Len(s) -> S]
  <2>1. Len(s) \in Nat \ {0} /\ DOMAIN s = 1..Len(s) /\ s \in [1..Len(s) -> S]
    BY LenProperties, EmptySeq
  <2>2. /\ Tail(s) \in Seq(S) /\ Len(Tail(s)) = Len(s) - 1 /\ \A i \in 1..Len(Tail(s)) : Tail(s)[i] = s[i + 1]
    BY HeadTailProperties
  <2>3. DOMAIN Tail(s) = 1..Len(s) - 1
    BY <2>2, LenProperties
  <2> QED
    BY <2>1, <2>2, <2>3
<1>2. \A i \in DOMAIN Tail(s) : i + 1 \in DOMAIN s /\ i + 1 # 1 /\ Tail(s)[i] = s[i + 1] /\ i \in Nat
  BY <1>1
<1>3. \A j \in DOMAIN s \ {1} : j - 1 \in DOMAIN Tail(s) /\ Tail(s)[j - 1] = s[j]
  BY <1>1
<1>4. Head(s) \in S /\ 1 \in DOMAIN s /\ Head(s) = s[1]
  BY <1>1
<1> QED
  BY <1>1, <1>2, <1>3, <1>4, Zenon

\* What the invariant says of types, taken apart.
LEMMA Types ==
    ASSUME BatchInv
    PROVE  /\ Lanes \in 1..8 /\ MaxTokens \in Nat /\ MaxBatches \in Nat
           /\ messages \in Seq(Message) /\ pendingLanes \in Seq(Lane) /\ Msgs \subseteq Message /\ Pending \subseteq Lane
           /\ reply \in [Lane -> Answers] /\ laneErr \in [Lane -> Answers]
           /\ lanePc \in [Lane -> {"idle", "work", "waiting", "done", "exited"}]
           /\ kvLen \in [Lane -> 0..MaxTokens] /\ gen \in [Lane -> 0..MaxTokens]
           /\ given \subseteq Lane /\ alive \in 0..Lanes /\ first \in Answers
           /\ batches \in 0..MaxBatches /\ coPc \in {"idle", "select", "decode", "closed"}
           /\ batched \in BOOLEAN /\ ctxDone \in BOOLEAN /\ cancelSeen \in BOOLEAN
<1>1. messages \in Seq(Message) /\ pendingLanes \in Seq(Lane)
  BY DEF BatchInv, BatchTypeOK, Message
<1>2. Msgs \subseteq Message /\ Pending \subseteq Lane
  BY <1>1 DEF Msgs, Pending
<1> QED
  BY <1>1, <1>2, BatchAssumption DEF BatchInv, BatchTypeOK

\* The lanes counted are finitely many.
LEMMA LanesFinite ==
    ASSUME NEW S, S \subseteq Lane
    PROVE  IsFiniteSet(S) /\ Cardinality(S) \in Nat /\ Cardinality(S) <= Lanes
<1>1. Lanes \in Nat /\ IsFiniteSet(Lane) /\ Cardinality(Lane) = Lanes
  BY BatchAssumption, FS_Interval DEF Lane
<1> QED
  BY <1>1, FS_Subset, FS_CardinalityType

\* A call that has returned left nothing behind.
LEMMA Rest ==
    ASSUME BatchInv, alive = 0
    PROVE  /\ messages = <<>> /\ given = {} /\ pendingLanes = <<>> /\ Msgs = {} /\ Pending = {}
           /\ \A l \in Lane : lanePc[l] \in {"idle", "exited"} /\ reply[l] = "none"
<1>1. Active = {}
  BY LanesFinite, FS_EmptySet DEF BatchInv, CoInv, Active
<1>2. given = {} /\ \A l \in Lane : lanePc[l] \in {"idle", "exited"} /\ ~Ended(l)
  BY <1>1, Types DEF Active
<1>3. \A l \in Lane : ~Asks(l) /\ l \notin Pending /\ reply[l] = "none"
  BY <1>2, Types DEF BatchInv, LaneInv
<1>4. Msgs = {} /\ Pending = {}
  BY <1>2, <1>3, Types, ZenonT(40) DEF Asks, Ended, Message
<1>5. messages = <<>> /\ pendingLanes = <<>>
  <2>1. \A S : \A s \in Seq(S) : s # <<>> => 1 \in DOMAIN s
    BY Received
  <2> QED
    BY <1>4, <2>1, Types DEF Msgs, Pending
<1> QED
  BY <1>2, <1>3, <1>4, <1>5

\* The types that a step has to keep; the lengths follow from Unique.
CoreTypes ==
    /\ batches \in 0..MaxBatches /\ coPc \in {"idle", "select", "decode", "closed"}
    /\ {batched, ctxDone, cancelSeen} \subseteq BOOLEAN
    /\ given \subseteq Lane /\ first \in Answers
    /\ pendingLanes \in Seq(Lane) /\ messages \in Seq(Message)
    /\ reply \in [Lane -> Answers] /\ laneErr \in [Lane -> Answers]
    /\ lanePc \in [Lane -> {"idle", "work", "waiting", "done", "exited"}]
    /\ kvLen \in [Lane -> 0..MaxTokens] /\ gen \in [Lane -> 0..MaxTokens]

\* What a step has to keep is all of the invariant.
LEMMA Finish ==
    ASSUME CoreTypes', Unique', (\A l \in Lane : LaneInv(l))', CoInv'
    PROVE  BatchInv'
<1>1. Len(messages') <= Lanes
  <2>1. messages' \in [1..Len(messages') -> Message] /\ Len(messages') \in Nat /\ DOMAIN messages' = 1..Len(messages')
    BY LenProperties DEF CoreTypes
  <2> DEFINE f == [i \in 1..Len(messages') |-> messages'[i].lane]
  <2>2. f \in [1..Len(messages') -> Lane] /\ \A i, j \in 1..Len(messages') : f[i] = f[j] => i = j
    BY <2>1 DEF Message, Unique
  <2> HIDE DEF f
  <2> QED
    BY <2>1, <2>2, Short
<1>2. Len(pendingLanes') <= Lanes
  <2>1. /\ pendingLanes' \in [1..Len(pendingLanes') -> Lane] /\ Len(pendingLanes') \in Nat
        /\ DOMAIN pendingLanes' = 1..Len(pendingLanes')
    BY LenProperties DEF CoreTypes
  <2> QED
    BY <2>1, Short DEF Unique
<1>3. alive' \in 0..Lanes
  BY LanesFinite, BatchAssumption DEF CoInv, Active
<1> QED
  BY <1>1, <1>2, <1>3 DEF BatchInv, BatchTypeOK, CoreTypes, Message

\* And the types are part of it.
LEMMA Core ==
    ASSUME BatchInv
    PROVE  CoreTypes
BY DEF BatchInv, BatchTypeOK, CoreTypes, Message

-----------------------------------------------------------------------------
\* A lane that sends nothing to the coordinator.
QuietLane(l) == LaneJob(l) \/ LaneDecode(l) \/ LaneReply(l) \/ LaneEnds(l)

\* Such a step keeps the invariant.
LEMMA QuietLaneStep ==
    ASSUME BatchInv, NEW l \in Lane, QuietLane(l)
    PROVE  BatchInv'
<1>1. UNCHANGED <<coVars, ctxDone, messages>>
  BY DEF QuietLane, LaneJob, LaneDecode, LaneReply, LaneEnds
<1>2. UNCHANGED <<batches, coPc, batched, alive, pendingLanes, first, cancelSeen, Msgs, Pending>>
      /\ \A k \in Lane : Asks(k)' = Asks(k) /\ Ended(k)' = Ended(k)
  BY <1>1 DEF coVars, Msgs, Pending, Asks, Ended
<1>3. CoreTypes'
  <2> USE <1>1, <1>2, Types DEF CoreTypes, Answers
  <2>1. CASE LaneJob(l)
    BY <2>1 DEF LaneJob
  <2>2. CASE LaneDecode(l)
    BY <2>2 DEF LaneDecode, BatchInv, LaneInv
  <2>3. CASE LaneReply(l)
    <3>1. gen[l] + 1 \in 0..MaxTokens
      BY <2>3 DEF LaneReply, BatchInv, LaneInv
    <3>2. CASE reply[l] = "ok"
      <4>1. gen' \in [Lane -> 0..MaxTokens]
        BY <2>3, <3>1, <3>2 DEF LaneReply
      <4> QED
        BY <2>3, <3>2, <4>1 DEF LaneReply
    <3>3. CASE reply[l] # "ok"
      BY <2>3, <3>3 DEF LaneReply
    <3> QED
      BY <3>2, <3>3
  <2>4. CASE LaneEnds(l)
    BY <2>4 DEF LaneEnds
  <2> QED
    BY <2>1, <2>2, <2>3, <2>4 DEF QuietLane
<1>4. Unique'
  BY <1>1, <1>2 DEF BatchInv, Unique
<1>5. \A k \in Lane \ {l} : LaneInv(k)'
  <2>1. \A k \in Lane \ {l} : /\ lanePc'[k] = lanePc[k] /\ reply'[k] = reply[k] /\ kvLen'[k] = kvLen[k] /\ gen'[k] = gen[k] /\ laneErr'[k] = laneErr[k]
                              /\ k \in given' <=> k \in given
    BY Types DEF QuietLane, LaneJob, LaneDecode, LaneReply, LaneEnds
  <2> QED
    BY <1>2, <2>1 DEF BatchInv, LaneInv
<1>6. LaneInv(l)'
  <2> USE <1>2, Types DEF BatchInv, LaneInv
  <2>1. CASE LaneJob(l)
    <3>1. ~Ended(l)
      BY <2>1 DEF LaneJob
    <3> QED
      BY <2>1, <3>1 DEF LaneJob
  <2>2. CASE LaneDecode(l)
    BY <2>2 DEF LaneDecode
  <2>3. CASE LaneReply(l)
    <3>1. ~Asks(l) /\ l \notin Pending
      BY <2>3 DEF LaneReply, Replied
    <3> QED
      BY <2>3, <3>1 DEF LaneReply, Replied
  <2>4. CASE LaneEnds(l)
    BY <2>4 DEF LaneEnds
  <2> QED
    BY <2>1, <2>2, <2>3, <2>4 DEF QuietLane
<1>7. CoInv'
  <2>1. Active' = Active
    <3>1. \A k \in Lane \ {l} : lanePc'[k] = lanePc[k] /\ (k \in given' <=> k \in given)
      BY Types DEF QuietLane, LaneJob, LaneDecode, LaneReply, LaneEnds
    <3>2. l \in Active /\ l \in Active'
      BY Types DEF Active, QuietLane, LaneJob, LaneDecode, LaneReply, LaneEnds
    <3> QED
      BY <1>2, <3>1, <3>2 DEF Active
  <2> QED
    BY <1>2, <2>1 DEF BatchInv, CoInv
<1>8. \A k \in Lane : LaneInv(k)'
  BY <1>5, <1>6
<1> QED
  BY <1>3, <1>4, <1>7, <1>8, Finish

\* What a message changes, of a lane that has no other.
LEMMA SentMessage ==
    ASSUME BatchInv, NEW l \in Lane, NEW d \in BOOLEAN, NEW e \in Answers, Send(l, d, e), ~Asks(l), ~Ended(l), e # "ok", ~d => e = "none"
    PROVE  /\ messages' \in Seq(Message)
           /\ Pending' = Pending /\ pendingLanes' = pendingLanes => Unique'
           /\ \A k \in Lane \ {l} : (Asks(k)' <=> Asks(k)) /\ (Ended(k)' <=> Ended(k))
           /\ (Asks(l)' <=> ~d) /\ (Ended(l)' <=> d)
<1> DEFINE m == [lane |-> l, done |-> d, err |-> e]
<1>1. m \in Message /\ m.lane = l /\ m.done = d /\ m.err = e
  BY DEF Message
<1>2. messages' = Append(messages, m) /\ messages \in Seq(Message)
  BY Types DEF Send
<1> HIDE DEF m
<1>3. /\ messages' \in Seq(Message) /\ Msgs' = Msgs \cup {m}
      /\ DOMAIN messages' = DOMAIN messages \cup {Len(messages) + 1} /\ messages'[Len(messages) + 1] = m
      /\ \A i \in DOMAIN messages : messages'[i] = messages[i]
  BY <1>1, <1>2, Sent DEF Msgs
<1>4. \A x \in Msgs : x.lane # l
  BY Types DEF Asks, Ended, Message
<1>5. \A i \in DOMAIN messages : messages[i].lane # l
  BY <1>4 DEF Msgs
<1>6. \A i, j \in DOMAIN messages' : messages'[i].lane = messages'[j].lane => i = j
  BY <1>1, <1>3, <1>5 DEF BatchInv, Unique
<1>7. \A x \in Msgs' : x.err # "ok" /\ (~x.done => x.err = "none")
  BY <1>1, <1>3 DEF BatchInv, Unique
<1>8. Pending' = Pending /\ pendingLanes' = pendingLanes => Unique'
  BY <1>6, <1>7 DEF BatchInv, Unique
<1> QED
  BY <1>1, <1>3, <1>4, <1>8 DEF Asks, Ended

\* A lane that works asks for a token, or one that is done says so.
LEMMA SendingStep ==
    ASSUME BatchInv, NEW l \in Lane, NEW d \in BOOLEAN, NEW e \in Answers, NEW from, NEW to, Send(l, d, e),
           \/ d /\ e # "ok" /\ from = "done" /\ to = "idle"
           \/ ~d /\ e = "none" /\ from = "work" /\ to = "waiting" /\ gen[l] < MaxTokens,
           lanePc[l] = from, lanePc' = [lanePc EXCEPT ![l] = to],
           UNCHANGED <<coVars, given, ctxDone, reply, laneErr, kvLen, gen>>
    PROVE  BatchInv'
<1>1. UNCHANGED <<batches, coPc, batched, alive, pendingLanes, first, cancelSeen, given, ctxDone, reply, laneErr, kvLen, gen>>
  BY DEF coVars
<1>2. Pending' = Pending
  BY <1>1 DEF Pending
<1>3. ~Asks(l) /\ ~Ended(l) /\ l \notin Pending /\ l \notin given /\ reply[l] = "none"
  BY DEF BatchInv, LaneInv
<1>4. /\ messages' \in Seq(Message) /\ Unique'
      /\ \A k \in Lane \ {l} : (Asks(k)' <=> Asks(k)) /\ (Ended(k)' <=> Ended(k))
      /\ (Asks(l)' <=> ~d) /\ (Ended(l)' <=> d)
  BY <1>1, <1>2, <1>3, SentMessage
<1>5. \A k \in Lane \ {l} : lanePc'[k] = lanePc[k]
  BY Types
<1>6. lanePc' \in [Lane -> {"idle", "work", "waiting", "done", "exited"}] /\ lanePc'[l] = to
  BY Types
<1>7. CoreTypes'
  BY <1>1, <1>4, <1>6, Core DEF CoreTypes
<1>8. \A k \in Lane \ {l} : LaneInv(k)'
  BY <1>1, <1>2, <1>4, <1>5 DEF BatchInv, LaneInv
<1>9. LaneInv(l)'
  BY <1>1, <1>2, <1>3, <1>4, <1>6 DEF BatchInv, LaneInv
<1>10. \A k \in Lane : LaneInv(k)'
  BY <1>8, <1>9
<1>11. CoInv'
  <2>1. l \in Active /\ l \in Active'
    BY <1>4, <1>6 DEF Active
  <2>2. Active' = Active
    BY <1>1, <1>4, <1>5, <2>1 DEF Active
  <2> QED
    BY <1>1, <2>2 DEF BatchInv, CoInv
<1> QED
  BY <1>4, <1>7, <1>10, <1>11, Finish

\* advance, which asks or gives up.
LEMMA AdvanceStep ==
    ASSUME BatchInv, NEW l \in Lane, Advance(l)
    PROVE  BatchInv'
<1>1. CASE Send(l, FALSE, "none") /\ lanePc' = [lanePc EXCEPT ![l] = "waiting"] /\ UNCHANGED laneErr
  <2>1. lanePc[l] = "work" /\ gen[l] < MaxTokens /\ UNCHANGED <<coVars, given, ctxDone, reply, laneErr, kvLen, gen>>
    BY <1>1 DEF Advance
  <2>2. "none" \in Answers /\ FALSE \in BOOLEAN
    BY DEF Answers
  <2> QED
    BY <1>1, <2>1, <2>2, SendingStep
<1>2. CASE ctxDone /\ lanePc' = [lanePc EXCEPT ![l] = "done"] /\ laneErr' = [laneErr EXCEPT ![l] = "cancelled"] /\ UNCHANGED messages
  <2>1. LaneEnds(l)
    BY <1>2 DEF Advance, LaneEnds
  <2> QED
    BY <2>1, QuietLaneStep DEF QuietLane
<1> QED
  BY <1>1, <1>2 DEF Advance

\* The end of a lane's job.
LEMMA DoneStep ==
    ASSUME BatchInv, NEW l \in Lane, LaneDone(l)
    PROVE  BatchInv'
<1>1. laneErr[l] \in Answers /\ laneErr[l] # "ok"
  BY Types DEF BatchInv, LaneInv
<1> QED
  BY <1>1, SendingStep DEF LaneDone

\* A lane that has nothing left to do returns.
LEMMA ExitStep ==
    ASSUME BatchInv, NEW l \in Lane, LaneExit(l)
    PROVE  BatchInv'
<1>1. UNCHANGED <<batches, coPc, batched, alive, pendingLanes, first, cancelSeen, given, ctxDone, messages, reply, laneErr, kvLen, gen>>
  BY DEF LaneExit, coVars
<1>2. UNCHANGED <<Pending, Msgs>> /\ \A k \in Lane : Asks(k)' = Asks(k) /\ Ended(k)' = Ended(k)
  BY <1>1 DEF Msgs, Pending, Asks, Ended
<1>3. alive = 0 /\ coPc = "closed" /\ lanePc' = [lanePc EXCEPT ![l] = "exited"]
  BY DEF LaneExit, BatchInv, CoInv
<1>4. /\ \A k \in Lane : ~Asks(k) /\ ~Ended(k) /\ k \notin given /\ k \notin Pending /\ reply[k] = "none"
      /\ \A k \in Lane : lanePc[k] \in {"idle", "exited"}
  BY <1>3, Rest DEF Asks, Ended
<1>5. lanePc' \in [Lane -> {"idle", "work", "waiting", "done", "exited"}] /\ \A k \in Lane : lanePc'[k] \in {"idle", "exited"}
  BY <1>3, <1>4, Types
<1>6. CoreTypes'
  BY <1>1, <1>5, Core DEF CoreTypes
<1>7. Unique'
  BY <1>1, <1>2 DEF BatchInv, Unique
<1>8. \A k \in Lane : LaneInv(k)'
  BY <1>1, <1>2, <1>3, <1>4, <1>5 DEF BatchInv, LaneInv
<1>9. Active' = Active
  BY <1>1, <1>2, <1>4, <1>5 DEF Active
<1>10. CoInv'
  BY <1>1, <1>9 DEF BatchInv, CoInv
<1> QED
  BY <1>6, <1>7, <1>8, <1>10, Finish

\* A call starts: nothing is left of the one before.
LEMMA TranscribeStep ==
    ASSUME BatchInv, NEW count \in 0..Lanes, Transcribe(count)
    PROVE  BatchInv'
<1>1. alive = 0 /\ coPc = "idle"
  BY DEF Transcribe, BatchInv, CoInv
<1>2. /\ messages = <<>> /\ Msgs = {}
      /\ \A k \in Lane : lanePc[k] = "idle" /\ reply[k] = "none"
  BY <1>1, Rest DEF BatchInv, LaneInv
<1>3. messages' = messages /\ reply' = reply /\ lanePc' = lanePc /\ laneErr' = laneErr /\ kvLen' = kvLen /\ gen' = gen
  BY DEF Transcribe, laneVars
<1>4. /\ Msgs' = {} /\ pendingLanes' = <<>> /\ Pending' = {}
      /\ \A k \in Lane : ~Asks(k)' /\ ~Ended(k)'
  BY <1>2, <1>3 DEF Msgs, Pending, Asks, Ended, Transcribe
<1>5. 1..count \subseteq Lane /\ Cardinality(1..count) = count
  <2>1. count \in Nat /\ 1..count \subseteq Lane
    BY BatchAssumption DEF Lane
  <2> QED
    BY <2>1, FS_Interval
<1>6. CoreTypes'
  <2>1. /\ batches' \in 0..MaxBatches /\ coPc' \in {"idle", "select"} /\ ctxDone' = FALSE /\ cancelSeen' = FALSE
        /\ given' = 1..count /\ first' = "none" /\ pendingLanes' = <<>>
    BY Types DEF Transcribe
  <2>3. batched' \in BOOLEAN
    <3>1. CASE count > 1
      BY <3>1 DEF Transcribe
    <3>2. CASE ~(count > 1)
      BY <3>2 DEF Transcribe
    <3> QED
      BY <3>1, <3>2
  <2>2. "none" \in Answers /\ pendingLanes' \in Seq(Lane)
    BY <2>1 DEF Answers
  <2> QED
    BY <1>3, <1>5, <2>1, <2>2, <2>3, Core DEF CoreTypes
<1>7. Unique'
  BY <1>2, <1>3, <1>4 DEF Unique
<1>8. \A k \in Lane : LaneInv(k)'
  BY <1>2, <1>3, <1>4 DEF BatchInv, LaneInv
<1>9. Active' = 1..count
  BY <1>2, <1>3, <1>4, <1>5 DEF Active, Transcribe
<1>10. CoInv'
  BY <1>5, <1>9 DEF CoInv, Transcribe
<1> QED
  BY <1>6, <1>7, <1>8, <1>10, Finish

\* What receiving a message of a lane changes.
LEMMA ReceivedMessage ==
    ASSUME BatchInv, Receive, NEW l, l = Head(messages).lane
    PROVE  /\ Head(messages) \in Message /\ Head(messages) \in Msgs /\ messages' \in Seq(Message)
           /\ \A i, j \in DOMAIN messages' : messages'[i].lane = messages'[j].lane => i = j
           /\ Msgs' \subseteq Msgs
           /\ \A k \in Lane \ {l} : (Asks(k)' <=> Asks(k)) /\ (Ended(k)' <=> Ended(k))
           /\ ~Asks(l)' /\ ~Ended(l)'
<1>1. messages \in Seq(Message) /\ messages # <<>> /\ messages' = Tail(messages)
  BY Types DEF Receive
<1>2. /\ Head(messages) \in Message /\ Tail(messages) \in Seq(Message)
      /\ 1 \in DOMAIN messages /\ Head(messages) = messages[1]
      /\ \A j \in DOMAIN messages \ {1} : j - 1 \in DOMAIN Tail(messages) /\ Tail(messages)[j - 1] = messages[j]
      /\ \A i \in DOMAIN Tail(messages) :
            i + 1 \in DOMAIN messages /\ i + 1 # 1 /\ Tail(messages)[i] = messages[i + 1] /\ i \in Nat
  BY <1>1, Received
<1>3. \A i, j \in DOMAIN messages : messages[i].lane = messages[j].lane => i = j
  BY DEF BatchInv, Unique
<1>4. \A i \in DOMAIN messages \ {1} : messages[i].lane # l
  BY <1>2, <1>3
<1>5. Msgs' = {messages[i] : i \in DOMAIN messages \ {1}}
  <2>1. \A i \in DOMAIN messages' : messages'[i] \in {messages[j] : j \in DOMAIN messages \ {1}}
    BY <1>1, <1>2
  <2>2. \A j \in DOMAIN messages \ {1} : messages[j] \in {messages'[i] : i \in DOMAIN messages'}
    BY <1>1, <1>2
  <2> QED
    BY <2>1, <2>2 DEF Msgs
<1>6. Head(messages) \in Msgs /\ Msgs = Msgs' \cup {Head(messages)} /\ \A x \in Msgs' : x.lane # l
  <2>1. \A x \in Msgs' : x.lane # l
    BY <1>4, <1>5
  <2>2. \A x : x \in Msgs <=> x \in Msgs' \/ x = Head(messages)
    BY <1>2, <1>5 DEF Msgs
  <2> QED
    BY <2>1, <2>2
<1>7. \A i, j \in DOMAIN messages' : messages'[i].lane = messages'[j].lane => i = j
  <2>1. SUFFICES ASSUME NEW i \in DOMAIN messages', NEW j \in DOMAIN messages', messages'[i].lane = messages'[j].lane PROVE i = j
    OBVIOUS
  <2>2. i + 1 = j + 1
    BY <1>1, <1>2, <1>3, <2>1
  <2> QED
    BY <1>1, <1>2, <2>2
<1>8. \A k \in Lane \ {l} : (Asks(k)' <=> Asks(k)) /\ (Ended(k)' <=> Ended(k))
  BY <1>6 DEF Asks, Ended
<1>9. ~Asks(l)' /\ ~Ended(l)'
  BY <1>6 DEF Asks, Ended
<1> QED
  BY <1>1, <1>2, <1>6, <1>7, <1>8, <1>9

\* The coordinator receives the end of a lane, or its request.
LEMMA ReceiveStep ==
    ASSUME BatchInv, Receive
    PROVE  BatchInv'
<1> DEFINE m == Head(messages)
           e == IF first = "none" THEN m.err ELSE first
<1>1. PICK l : l = m.lane
  OBVIOUS
<1>2. /\ m \in Message /\ m \in Msgs /\ messages' \in Seq(Message)
      /\ \A i, j \in DOMAIN messages' : messages'[i].lane = messages'[j].lane => i = j
      /\ Msgs' \subseteq Msgs
      /\ \A k \in Lane \ {l} : (Asks(k)' <=> Asks(k)) /\ (Ended(k)' <=> Ended(k))
      /\ ~Asks(l)' /\ ~Ended(l)'
  BY <1>1, ReceivedMessage
<1>3. /\ UNCHANGED <<batches, batched, cancelSeen, given, ctxDone, reply, lanePc, laneErr, kvLen, gen>>
      /\ coPc = "select"
      /\ m.done => /\ alive' = alive - 1 /\ first' = e /\ pendingLanes' = pendingLanes
                   /\ AfterSelect(pendingLanes, alive - 1, e)
      /\ ~m.done => /\ pendingLanes' = Append(pendingLanes, l) /\ alive' = alive /\ first' = first
                    /\ AfterSelect(Append(pendingLanes, l), alive, first)
  BY <1>1 DEF Receive, laneVars
<1>4. e \in Answers /\ e # "ok" /\ l \in Lane /\ m.done \in BOOLEAN
  BY <1>1, <1>2, Types DEF Message, BatchInv, Unique, CoInv
<1>5. coPc' \in {"idle", "select", "decode"}
  BY <1>3, <1>4 DEF AfterSelect
<1>6. alive # 0 /\ alive \in Nat /\ alive = Cardinality(Active)
  BY <1>3, Types DEF BatchInv, CoInv
<1>7. \A k \in Lane : LaneInv(k) /\ lanePc[k] # "exited"
  BY <1>3 DEF BatchInv, LaneInv
<1> HIDE DEF m, e
<1>8. CASE m.done
  <2>1. Ended(l)
    BY <1>1, <1>2, <1>8 DEF Ended
  <2>2. lanePc[l] = "idle" /\ l \notin given /\ l \notin Pending /\ ~Asks(l)
    BY <1>4, <2>1 DEF BatchInv, LaneInv
  <2>3. Pending' = Pending
    BY <1>3, <1>8 DEF Pending
  <2>4. CoreTypes'
    BY <1>2, <1>3, <1>4, <1>5, <1>8, Core DEF CoreTypes
  <2>5. Unique'
    BY <1>2, <1>3, <1>8 DEF BatchInv, Unique
  <2>6. \A k \in Lane : LaneInv(k)'
    <3>1. \A k \in Lane \ {l} : LaneInv(k)'
      BY <1>2, <1>3, <1>7, <2>3 DEF LaneInv
    <3>2. LaneInv(l)'
      BY <1>2, <1>3, <1>4, <1>7, <2>2, <2>3 DEF LaneInv
    <3> QED
      BY <3>1, <3>2
  <2>7. Active' = Active \ {l} /\ l \in Active
    BY <1>2, <1>3, <1>4, <2>1, <2>2 DEF Active
  <2>8. alive' = Cardinality(Active') /\ alive' \in Nat
    <3>1. IsFiniteSet(Active)
      BY LanesFinite DEF Active
    <3>2. Cardinality(Active \ {l}) = Cardinality(Active) - 1
      BY <2>7, <3>1, FS_RemoveElement
    <3> QED
      BY <1>3, <1>6, <1>8, <2>7, <3>2
  <2>9. alive' = 0 => pendingLanes = <<>>
    <3>1. SUFFICES ASSUME alive' = 0, pendingLanes # <<>> PROVE FALSE
      OBVIOUS
    <3>2. pendingLanes[1] \in Pending /\ pendingLanes[1] \in Lane
      BY <3>1, Types, Received DEF Pending
    <3>3. pendingLanes[1] \in Active'
      BY <1>3, <1>7, <3>2 DEF LaneInv, Active
    <3>4. Active' = {}
      BY <2>8, <3>1, LanesFinite, FS_EmptySet DEF Active
    <3> QED
      BY <3>3, <3>4
  <2>10. coPc' \in {"select", "decode"} <=> alive' # 0
    <3>1. alive' = 0 => Len(pendingLanes) = 0
      BY <2>9
    <3> QED
      BY <1>3, <1>8, <2>8, <3>1 DEF AfterSelect, Ready, Over
  <2> QED
    BY <1>3, <1>4, <1>8, <2>4, <2>5, <2>6, <2>8, <2>10, Finish DEF CoInv
<1>9. CASE ~m.done
  <2>1. Asks(l)
    BY <1>1, <1>2, <1>9 DEF Asks
  <2>2. lanePc[l] = "waiting" /\ reply[l] = "none" /\ l \notin Pending /\ ~Ended(l)
    BY <1>4, <2>1 DEF BatchInv, LaneInv
  <2>3. /\ pendingLanes' \in Seq(Lane)
        /\ {pendingLanes'[i] : i \in DOMAIN pendingLanes'} = {pendingLanes[i] : i \in DOMAIN pendingLanes} \cup {l}
        /\ DOMAIN pendingLanes' = DOMAIN pendingLanes \cup {Len(pendingLanes) + 1}
        /\ pendingLanes'[Len(pendingLanes) + 1] = l
        /\ \A i \in DOMAIN pendingLanes : pendingLanes'[i] = pendingLanes[i]
    <3>1. pendingLanes' = Append(pendingLanes, l) /\ pendingLanes \in Seq(Lane)
      BY <1>3, <1>9, Types
    <3> QED
      BY <1>4, <3>1, Sent
  <2>4. Pending' = Pending \cup {l}
    BY <2>3 DEF Pending
  <2>5. \A i \in DOMAIN pendingLanes : pendingLanes[i] # l
    BY <2>2 DEF Pending
  <2>6. \A i, j \in DOMAIN pendingLanes' : pendingLanes'[i] = pendingLanes'[j] => i = j
    BY <2>3, <2>5 DEF BatchInv, Unique
  <2>7. CoreTypes'
    BY <1>2, <1>3, <1>5, <1>9, <2>3, Core DEF CoreTypes
  <2>8. Unique'
    BY <1>2, <2>6 DEF BatchInv, Unique
  <2>9. \A k \in Lane : LaneInv(k)'
    <3>1. \A k \in Lane \ {l} : LaneInv(k)'
      BY <1>2, <1>3, <1>7, <2>4 DEF LaneInv
    <3>2. LaneInv(l)'
      BY <1>2, <1>3, <1>4, <1>7, <2>2, <2>4 DEF LaneInv
    <3> QED
      BY <3>1, <3>2
  <2>10. Active' = Active
    BY <1>2, <1>3, <1>4, <2>2 DEF Active
  <2>11. coPc' \in {"select", "decode"} /\ alive' = alive
    BY <1>3, <1>6, <1>9 DEF AfterSelect, Over
  <2> QED
    BY <1>3, <1>6, <1>9, <2>7, <2>8, <2>9, <2>10, <2>11, Finish DEF BatchInv, CoInv
<1> QED
  BY <1>4, <1>8, <1>9

\* The coordinator sees that its context is done.
LEMMA CancelledStep ==
    ASSUME BatchInv, Cancelled
    PROVE  BatchInv'
<1>1. UNCHANGED <<batches, batched, alive, pendingLanes, given, ctxDone, messages, reply, lanePc, laneErr, kvLen, gen>>
  BY DEF Cancelled, laneVars
<1>2. UNCHANGED <<Pending, Msgs>> /\ \A k \in Lane : Asks(k)' = Asks(k) /\ Ended(k)' = Ended(k)
  BY <1>1 DEF Msgs, Pending, Asks, Ended
<1>3. coPc = "select" /\ coPc' \in {"select", "decode"} /\ alive # 0
  BY DEF Cancelled, AfterSelect, Over, BatchInv, CoInv
<1>4. first' \in Answers /\ first' # "ok" /\ cancelSeen' = TRUE
  BY Types DEF Cancelled, Answers, BatchInv, CoInv
<1>5. CoreTypes'
  BY <1>1, <1>3, <1>4, Core DEF CoreTypes
<1>6. Unique'
  BY <1>1, <1>2 DEF BatchInv, Unique
<1>7. \A k \in Lane : LaneInv(k)'
  BY <1>1, <1>2, <1>3 DEF BatchInv, LaneInv
<1>8. Active' = Active
  BY <1>1, <1>2 DEF Active
<1> QED
  BY <1>1, <1>3, <1>4, <1>5, <1>6, <1>7, <1>8, Finish DEF BatchInv, CoInv

\* The pending lanes get their tokens, or an error.
LEMMA DecodeStep ==
    ASSUME BatchInv, Decode
    PROVE  BatchInv'
<1>1. UNCHANGED <<batches, batched, alive, cancelSeen, given, ctxDone, messages, lanePc, laneErr, gen>>
      /\ coPc = "decode" /\ coPc' = "select" /\ pendingLanes' = <<>>
  BY DEF Decode
<1>2. \/ first = "none" /\ first' = "none" /\ kvLen' = Moved(Pending)
      \/ first' \in Answers \ {"none", "ok"} /\ (kvLen' = kvLen \/ kvLen' = Moved(Pending))
  <2>1. AfterFailure \subseteq {kvLen, Moved(Pending)}
    BY DEF AfterFailure
  <2> QED
    BY <2>1, Types DEF Decode, Answers, BatchInv, CoInv
<1>3. Msgs' = Msgs /\ \A k \in Lane : Asks(k)' = Asks(k) /\ Ended(k)' = Ended(k)
  BY <1>1 DEF Msgs, Asks, Ended
<1>4. Pending' = {}
  BY <1>1 DEF Pending
<1>5. first' \in Answers /\ first' # "ok"
  BY <1>2 DEF Answers
<1>6. reply' \in [Lane -> Answers] /\ \A k \in Lane : reply'[k] = IF k \in Pending THEN IF first' = "none" THEN "ok" ELSE first' ELSE reply[k]
  BY <1>5, Types DEF Decode, Answers
<1>7. /\ \A k \in Lane \ Pending : kvLen'[k] = kvLen[k]
      /\ first' = "none" => \A k \in Pending : kvLen'[k] = kvLen[k] + 1
      /\ kvLen' \in [Lane -> 0..MaxTokens]
  <2>1. \A k \in Pending : k \in Lane /\ kvLen[k] = gen[k] /\ gen[k] < MaxTokens
    BY Types DEF BatchInv, LaneInv
  <2>2. /\ Moved(Pending) \in [Lane -> 0..MaxTokens]
        /\ \A k \in Lane \ Pending : Moved(Pending)[k] = kvLen[k]
        /\ \A k \in Pending : Moved(Pending)[k] = kvLen[k] + 1
    <3>1. \A k \in Lane \ Pending : Moved(Pending)[k] = kvLen[k]
      BY Types DEF Moved
    <3>2. \A k \in Pending : Moved(Pending)[k] = kvLen[k] + 1
      BY <2>1 DEF Moved
    <3>3. \A k \in Lane : Moved(Pending)[k] \in 0..MaxTokens
      <4>1. \A k \in Lane : kvLen[k] \in 0..MaxTokens /\ gen[k] \in 0..MaxTokens /\ MaxTokens \in Nat
        BY Types
      <4>2. \A k \in Pending : kvLen[k] + 1 \in 0..MaxTokens
        BY <2>1, <4>1
      <4> QED
        BY <3>1, <3>2, <4>1, <4>2
    <3>4. DOMAIN Moved(Pending) = Lane /\ Moved(Pending) = [k \in Lane |-> Moved(Pending)[k]]
      BY DEF Moved
    <3> QED
      BY <3>1, <3>2, <3>3, <3>4
  <2> QED
    BY <1>2, <2>2, Types
<1>8. CoreTypes'
  BY <1>1, <1>5, <1>6, <1>7, Core DEF CoreTypes
<1>9. Unique'
  BY <1>1, <1>3 DEF BatchInv, Unique
<1>10. \A k \in Lane : LaneInv(k)'
  <2>1. SUFFICES ASSUME NEW k \in Lane PROVE LaneInv(k)'
    OBVIOUS
  <2>2. LaneInv(k)
    BY DEF BatchInv
  <2>3. CASE k \in Pending
    BY <1>1, <1>3, <1>4, <1>5, <1>6, <1>7, <2>2, <2>3 DEF LaneInv
  <2>4. CASE k \notin Pending
    BY <1>1, <1>3, <1>4, <1>6, <1>7, <2>2, <2>4 DEF LaneInv
  <2> QED
    BY <2>3, <2>4
<1>11. Active' = Active
  BY <1>1, <1>3 DEF Active
<1> QED
  BY <1>1, <1>5, <1>8, <1>9, <1>10, <1>11, Finish DEF BatchInv, CoInv

\* Close, and the end of a context.
LEMMA OtherStep ==
    ASSUME BatchInv, BatchClose \/ CtxDone
    PROVE  BatchInv'
<1>1. UNCHANGED <<batches, batched, alive, pendingLanes, first, cancelSeen, given, messages, reply, lanePc, laneErr, kvLen, gen>>
  BY DEF BatchClose, CtxDone, coVars, laneVars
<1>2. UNCHANGED <<Pending, Msgs>> /\ \A k \in Lane : Asks(k)' = Asks(k) /\ Ended(k)' = Ended(k)
  BY <1>1 DEF Msgs, Pending, Asks, Ended
<1>3. /\ coPc' \in {"idle", "select", "decode", "closed"} /\ ctxDone' \in BOOLEAN
      /\ coPc' \in {"select", "decode"} <=> coPc \in {"select", "decode"}
      /\ coPc = "closed" => coPc' = "closed"
  BY Types DEF BatchClose, CtxDone, coVars
<1>4. CoreTypes'
  BY <1>1, <1>3, Core DEF CoreTypes
<1>5. Unique'
  BY <1>1, <1>2 DEF BatchInv, Unique
<1>6. \A k \in Lane : LaneInv(k)'
  BY <1>1, <1>2, <1>3 DEF BatchInv, LaneInv
<1>7. Active' = Active
  BY <1>1, <1>2 DEF Active
<1> QED
  BY <1>1, <1>3, <1>4, <1>5, <1>6, <1>7, Finish DEF BatchInv, CoInv

-----------------------------------------------------------------------------
\* The invariant holds before the first call.
LEMMA BatchStarts == BatchInit => BatchInv
<1> SUFFICES ASSUME BatchInit PROVE BatchInv
  OBVIOUS
<1> USE DEF BatchInit
<1>1. Msgs = {} /\ Pending = {} /\ \A l \in Lane : ~Asks(l) /\ ~Ended(l)
  BY DEF Msgs, Pending, Asks, Ended
<1>2. BatchTypeOK
  <2>1. messages \in Seq([lane : Lane, done : BOOLEAN, err : Answers]) /\ pendingLanes \in Seq(Lane) /\ Len(messages) = 0 /\ Len(pendingLanes) = 0
    OBVIOUS
  <2>2. /\ reply \in [Lane -> Answers] /\ laneErr \in [Lane -> Answers] /\ first \in Answers
        /\ lanePc \in [Lane -> {"idle", "work", "waiting", "done", "exited"}]
    BY DEF Answers
  <2>3. kvLen \in [Lane -> 0..MaxTokens] /\ gen \in [Lane -> 0..MaxTokens] /\ batches \in 0..MaxBatches /\ alive \in 0..Lanes /\ 0 <= Lanes
    BY BatchAssumption
  <2> QED
    BY <2>1, <2>2, <2>3 DEF BatchTypeOK
<1>3. Unique
  BY <1>1 DEF Unique
<1>4. \A l \in Lane : LaneInv(l)
  BY <1>1 DEF LaneInv
<1>5. Active = {}
  BY <1>1 DEF Active
<1>6. CoInv
  BY <1>5, FS_EmptySet DEF CoInv
<1> QED
  BY <1>2, <1>3, <1>4, <1>6 DEF BatchInv

\* Every step keeps it.
LEMMA BatchSteps == BatchInv /\ [BatchNext]_batchVars => BatchInv'
<1> SUFFICES ASSUME BatchInv, [BatchNext]_batchVars PROVE BatchInv'
  OBVIOUS
<1>1. ASSUME NEW l \in Lane, LaneStep(l) PROVE BatchInv'
  BY <1>1, QuietLaneStep, AdvanceStep, DoneStep, ExitStep DEF LaneStep, QuietLane
<1>2. CASE CoStep
  BY <1>2, ReceiveStep, CancelledStep, DecodeStep DEF CoStep
<1>3. CASE BatchClose \/ CtxDone
  BY <1>3, OtherStep
<1>4. ASSUME NEW count \in 0..Lanes, Transcribe(count) PROVE BatchInv'
  BY <1>4, TranscribeStep
<1>5. CASE UNCHANGED batchVars
  BY <1>5 DEF batchVars, coVars, laneVars, BatchInv, BatchTypeOK, Unique, LaneInv, CoInv, Active, Asks, Ended, Msgs, Pending
<1> QED
  BY <1>1, <1>2, <1>3, <1>4, <1>5 DEF BatchNext

\* For any number of lanes, tokens and calls of Transcribe, whatever fails and
\* whenever the context is cancelled: only the owner of a lane's decoder
\* buffers uses them, a lane that works on holds exactly its own tokens, and
\* Transcribe returns with every lane idle and every channel empty.
THEOREM BatchIsSafe == BatchSpec => []BatchSafe
<1>1. BatchInv => BatchSafe
  <2> SUFFICES ASSUME BatchInv PROVE BatchSafe
    OBVIOUS
  <2>1. BuffersOwned
    <3>1. SUFFICES ASSUME NEW l \in Lane,
                          l \in Pending \/ \E i \in DOMAIN messages : messages[i] = [lane |-> l, done |-> FALSE, err |-> "none"]
                   PROVE  lanePc[l] = "waiting" /\ reply[l] = "none"
      BY DEF BuffersOwned
    <3>2. l \in Pending \/ Asks(l)
      BY <3>1 DEF Asks, Msgs
    <3> QED
      BY <3>2 DEF BatchInv, LaneInv
  <2>2. PrefixFollows
    BY DEF BatchInv, LaneInv, PrefixFollows
  <2>3. CleanReturn
    BY Rest DEF CleanReturn, BatchInv, CoInv
  <2> QED
    BY <2>1, <2>2, <2>3 DEF BatchSafe, BatchInv
<1> QED
  BY <1>1, BatchStarts, BatchSteps, PTL DEF BatchSpec

-----------------------------------------------------------------------------
\* Hearing.

\* The fields of what the listener, the scribe and the responder share.
Answer == [id : Nat, gen : Nat, words : Nat]
Texts == [gen : Nat, words : Nat]
EarPlaces == {"frame", "judge", "listen", "asr", "over", "overAsr"}
UttType == [gen : Nat \ {0}, n : Nat, words : Nat]
EarType == [at : EarPlaces, talked : Int, silence : Nat, pending : Nat, answered : BOOLEAN, with : Texts, basis : Texts]
ScribeType == [at : {"idle", "pass", "asr", "publish"}, gen : Nat, done : Nat, of : Nat, n : Nat, words : Nat, prev : Texts]
HearingTypes ==
    /\ utt \in UttType /\ utt.words <= utt.n
    /\ ear \in EarType
    /\ seq \in Nat /\ live \in Nat
    /\ scribe \in ScribeType
    /\ partial \in [of : Nat, text : Texts] /\ judged \in [job : Nat, gen : Nat, words : Nat, p : Judgments]
    /\ jobs \in Answer /\ resp \in [at : {"idle", "lock", "asr"}, job : Answer, with : Texts]

\* The listener: an answer is pending only for speech that is worth one and
\* until the turn ends, and the copy of the partial transcript is used where
\* it was taken.
EarInv ==
    /\ ear.pending # 0 => ear.pending = seq /\ ear.talked >= Shortest
    /\ ear.answered => ear.pending = 0 /\ ear.at = "frame"
    /\ ear.at \in {"listen", "asr"} => ear.pending # 0
    /\ ear.at \in {"over", "overAsr"} => ear.pending = 0
    /\ ear.at \in {"frame", "judge"} => ear.with = NoText
    /\ ear.with # NoText => ear.with.gen = utt.gen /\ ear.with.words <= utt.words

\* A transcript of utterance g that has read at most words of it.
Fits(text, g, words) == text # NoText => text.gen = g /\ text.words <= words

\* None of the transcripts s and p of the utterance has read more of it.
Bounded(s, p, g, words) ==
    /\ g = s.gen => Fits(s.prev, g, words) /\ (s.at \in {"pass", "asr"} => s.words <= words)
    /\ g = p.of => Fits(p.text, g, words)

\* The scribe: what it has, copies and publishes is of one utterance, and it
\* has read no speech of the current one that was not said.
ScribeInv ==
    /\ scribe.gen <= utt.gen /\ partial.of <= utt.gen
    /\ scribe.prev # NoText => scribe.prev.gen = scribe.gen
    /\ partial.text # NoText => partial.text.gen = partial.of
    /\ scribe.at \in {"pass", "asr"} => scribe.of = scribe.gen /\ (scribe.prev # NoText => scribe.prev.words <= scribe.words)
    /\ Bounded(scribe, partial, utt.gen, utt.words)

\* An answer j that waits or is transcribed, with the utterance u, the
\* listener e, the last id, the answer that lives, and the scribe's state.
\* While it is pending it has all that was said; while it lives nothing was
\* added to its utterance, whoever has transcribed how much of it.
AnswerFits(j, u, e, last, lives, s, p) ==
    /\ j.id <= last /\ j.gen <= u.gen
    /\ j.id # 0 /\ j.id = e.pending => j.gen = u.gen /\ j.words = u.words
    /\ j.id # 0 /\ j.id = lives => /\ Bounded(s, p, j.gen, j.words)
                                   /\ j.gen = u.gen => j.words = u.words /\ (e.pending = j.id \/ e.answered)
RespondInv ==
    /\ AnswerFits(jobs, utt, ear, seq, live, scribe, partial)
    /\ AnswerFits(resp.job, utt, ear, seq, live, scribe, partial)
    /\ resp.at = "idle" => resp.with = NoText
    /\ resp.at # "idle" => resp.job.id # 0
    /\ resp.with # NoText => resp.with.gen = resp.job.gen /\ (resp.with.words <= resp.job.words \/ live # resp.job.id)
    /\ jobs # NoAnswer => jobs.id # 0
    /\ live <= seq

\* What is judged of the answer pending is what was said.
JudgedInv ==
    /\ judged.job <= seq
    /\ ear.pending # 0 /\ judged.job = ear.pending => judged.gen = utt.gen /\ judged.words = utt.words
    /\ JudgedWhole

HearingInv == HearingTypes /\ EarInv /\ ScribeInv /\ RespondInv /\ JudgedInv

-----------------------------------------------------------------------------
\* What the assumption says of the bounds that matter here.
LEMMA HearingBounds == Shortest \in Nat /\ LongestUtt \in Nat
BY HearingAssumption

\* Min of two numbers is one of them.
LEMMA MinOfTwo == ASSUME NEW a \in Int, NEW b \in Int PROVE Min({a, b}) \in Int
<1>1. \E x \in {a, b} : \A y \in {a, b} : x <= y
  <2>1. CASE a <= b
    BY <2>1
  <2>2. CASE b <= a
    BY <2>2
  <2> QED BY <2>1, <2>2
<1>2. Min({a, b}) \in {a, b}
  BY <1>1 DEF Min
<1> QED BY <1>2

\* A frame adds to the utterance, and only speech adds to what was said.
LEMMA HeardAdds ==
  ASSUME HearingTypes
  PROVE  /\ \A h \in {Heard(TRUE), Heard(FALSE)} :
              /\ h \in UttType /\ h.words <= h.n
              /\ h.gen = utt.gen /\ utt.words <= h.words
         /\ Heard(FALSE).words = utt.words
<1>1. utt \in UttType /\ utt.words <= utt.n
  BY DEF HearingTypes
<1>2. Heard(TRUE) \in {utt, [utt EXCEPT !.n = utt.n + 1, !.words = utt.n + 1]} /\ Heard(FALSE) \in {utt, [utt EXCEPT !.n = utt.n + 1]}
  BY <1>1 DEF Heard
<1>3. utt.n \in Nat /\ utt.n + 1 \in Nat /\ utt.words <= utt.n + 1 /\ utt.words \in Nat
  BY <1>1 DEF UttType
<1>4. ASSUME NEW h \in {utt, [utt EXCEPT !.n = utt.n + 1, !.words = utt.n + 1]}
      PROVE  h \in UttType /\ h.words <= h.n /\ h.gen = utt.gen /\ utt.words <= h.words
  <2>1. CASE h = utt
    BY <1>1, <2>1 DEF UttType
  <2>2. CASE h = [utt EXCEPT !.n = utt.n + 1, !.words = utt.n + 1]
    <3>1. h \in UttType
      BY <1>1, <1>3, <2>2 DEF UttType
    <3>2. h.words = utt.n + 1 /\ h.n = utt.n + 1 /\ h.gen = utt.gen
      BY <1>1, <2>2
    <3> QED BY <1>3, <3>1, <3>2
  <2> QED BY <1>4, <2>1, <2>2
<1>5. ASSUME NEW h \in {utt, [utt EXCEPT !.n = utt.n + 1]}
      PROVE  /\ h \in UttType /\ h.words <= h.n /\ h.gen = utt.gen /\ utt.words <= h.words
             /\ h.words = utt.words
  BY <1>1, <1>3, <1>5 DEF UttType
<1> QED BY <1>2, <1>4, <1>5, Zenon

\* The transcript of the utterance being heard, if partialFor has one.
LEMMA PartialOf ==
  ASSUME HearingTypes, ScribeInv, NEW g \in Nat
  PROVE  /\ partialFor(g) \in Texts
         /\ partialFor(g) # NoText => partial.of = g /\ partialFor(g) = partial.text /\ partialFor(g).gen = g
         /\ Fits(partialFor(utt.gen), utt.gen, utt.words)
<1>1. NoText \in Texts
  BY DEF NoText, Texts
<1>2. partialFor(g) \in {partial.text, NoText} /\ (partialFor(g) # NoText => partial.of = g)
  BY DEF partialFor
<1>3. partial.text \in Texts
  BY DEF HearingTypes
<1>4. Fits(partialFor(utt.gen), utt.gen, utt.words)
  BY DEF ScribeInv, Bounded, Fits, partialFor
<1> QED BY <1>1, <1>2, <1>3, <1>4 DEF ScribeInv

\* What Decide does to the listener: the pause goes on, a click is forgotten,
\* or the turn is over and its answer released.
LEMMA Decided ==
  ASSUME HearingTypes, EarInv, NEW over, NEW basis \in Texts, Decide(over, basis), ear.at \in {"judge", "asr"}
  PROVE  /\ ear' \in EarType
         /\ ear'.at = "frame" /\ ear'.with = NoText
         /\ \/ /\ utt' = utt /\ ear'.pending = ear.pending /\ ~ear'.answered /\ ear'.talked = ear.talked
            \/ /\ utt' = [gen |-> utt.gen + 1, n |-> 0, words |-> 0] /\ ear.pending = 0 /\ ear'.pending = 0 /\ ~ear'.answered
            \/ /\ utt' = utt /\ ear'.pending = 0 /\ ear'.answered /\ ear'.basis = basis
<1>0. ear \in EarType
  BY DEF HearingTypes
<1>1. ear \in EarType /\ ~ear.answered /\ NoText \in Texts /\ "frame" \in EarPlaces
  BY DEF HearingTypes, EarInv, NoText, Texts, EarPlaces
<1>2. CASE ~over
  <2>1. ear' = [ear EXCEPT !.at = "frame", !.with = NoText] /\ utt' = utt
    BY <1>2 DEF Decide
  <2> QED BY <1>1, <2>1 DEF EarType
<1>3. CASE over /\ ear.talked < Shortest
  <2>1. /\ ear' = [ear EXCEPT !.at = "frame", !.talked = 0, !.silence = 0, !.pending = 0]
        /\ utt' = [gen |-> utt.gen + 1, n |-> 0, words |-> 0]
    BY <1>3 DEF Decide
  <2>2. ear.pending = 0
    BY <1>1, <1>3, HearingBounds DEF EarInv, EarType
  <2>3. ear.with = NoText
    BY <2>2 DEF EarInv
  <2>4. ear' \in EarType
    <3>1. 0 \in Int /\ 0 \in Nat /\ "frame" \in EarPlaces
      BY DEF EarPlaces
    <3> QED BY <1>0, <2>1, <3>1 DEF EarType
  <2>5. ear'.at = "frame" /\ ear'.with = ear.with /\ ear'.pending = 0 /\ ear'.answered = ear.answered
    BY <1>1, <2>1
  <2> QED BY <1>1, <2>1, <2>2, <2>3, <2>4, <2>5
<1>4. CASE over /\ ~(ear.talked < Shortest)
  <2>1. ear' = [ear EXCEPT !.at = "frame", !.pending = 0, !.answered = TRUE, !.with = NoText, !.basis = basis] /\ utt' = utt
    BY <1>4 DEF Decide
  <2> QED BY <1>1, <2>1 DEF EarType
<1> QED BY <1>2, <1>3, <1>4

\* Two listener states and two utterances: the speaker goes on with what is
\* said and heard so far, or a new utterance begins, and an answer stays
\* pending only while nothing is added to it.
Onward(u, v) == (v.gen = u.gen /\ u.words <= v.words) \/ v.gen = u.gen + 1
AnswersStay(u, v, e, f, lives, lives2) ==
    /\ f.pending # 0 => f.pending = e.pending /\ v.gen = u.gen /\ v.words = u.words
    /\ lives2 # 0 => lives2 = lives
    /\ lives2 # 0 /\ v.gen = u.gen /\ (e.pending # 0 \/ e.answered) =>
        v.words = u.words /\ ((f.pending = e.pending /\ ~e.answered) \/ f.answered)

LEMMA AnswerKept ==
  ASSUME NEW j \in Answer, NEW u \in UttType, NEW v \in UttType,
         NEW e, NEW f, NEW last \in Nat, NEW lives \in Nat, NEW lives2 \in Nat, NEW s, NEW p,
         AnswerFits(j, u, e, last, lives, s, p), Onward(u, v), AnswersStay(u, v, e, f, lives, lives2)
  PROVE  AnswerFits(j, v, f, last, lives2, s, p)
<1>1. j.id \in Nat /\ j.gen \in Nat /\ u.gen \in Nat /\ v.gen \in Nat /\ u.words \in Nat /\ v.words \in Nat
  BY DEF Answer, UttType
<1>2. j.id <= last /\ j.gen <= v.gen
  BY <1>1 DEF AnswerFits, Onward
<1>3. ASSUME j.id # 0, j.id = f.pending PROVE j.gen = v.gen /\ j.words = v.words
  BY <1>3 DEF AnswerFits, AnswersStay
<1>4. ASSUME j.id # 0, j.id = lives2
      PROVE  Bounded(s, p, j.gen, j.words) /\ (j.gen = v.gen => j.words = v.words /\ (f.pending = j.id \/ f.answered))
  <2>1. j.id = lives
    BY <1>4 DEF AnswersStay
  <2>2. Bounded(s, p, j.gen, j.words) /\ (j.gen = u.gen => j.words = u.words /\ (e.pending = j.id \/ e.answered)) /\ j.gen <= u.gen
    BY <1>4, <2>1 DEF AnswerFits
  <2>3. ASSUME j.gen = v.gen PROVE j.words = v.words /\ (f.pending = j.id \/ f.answered)
    <3>1. v.gen = u.gen
      BY <1>1, <2>2, <2>3 DEF Onward
    <3>2. j.words = u.words /\ (e.pending = j.id \/ e.answered)
      BY <2>2, <2>3, <3>1
    <3>3. v.words = u.words /\ ((f.pending = e.pending /\ ~e.answered) \/ f.answered)
      BY <1>4, <3>1, <3>2 DEF AnswersStay
    <3> QED BY <3>2, <3>3
  <2> QED BY <2>2, <2>3
<1> QED BY <1>2, <1>3, <1>4 DEF AnswerFits

\* The same for the bounds on what the scribe has of the utterance.
LEMMA BoundedKept ==
  ASSUME HearingTypes, ScribeInv, NEW v \in UttType, Onward(utt, v)
  PROVE  scribe.gen <= v.gen /\ partial.of <= v.gen /\ Bounded(scribe, partial, v.gen, v.words)
<1>1. /\ utt.gen \in Nat /\ utt.words \in Nat /\ v.gen \in Nat /\ v.words \in Nat /\ scribe.gen \in Nat /\ partial.of \in Nat
      /\ scribe.words \in Nat /\ scribe.prev.words \in Nat /\ partial.text.words \in Nat
  BY DEF HearingTypes, Texts, UttType, ScribeType
<1>2. scribe.gen <= utt.gen /\ partial.of <= utt.gen /\ Bounded(scribe, partial, utt.gen, utt.words)
  BY DEF ScribeInv
<1>3. CASE v.gen = utt.gen /\ utt.words <= v.words
  BY <1>1, <1>2, <1>3 DEF Bounded, Fits
<1>4. CASE v.gen = utt.gen + 1
  BY <1>1, <1>2, <1>4 DEF Bounded
<1> QED BY <1>3, <1>4 DEF Onward

\* A step of the listener that prepares no answer.
LEMMA EarMoves ==
  ASSUME HearingInv, UNCHANGED <<seq, scribe, partial, jobs, resp>>,
         utt' \in UttType, utt'.words <= utt'.n, ear' \in EarType, live' \in {0, live},
         judged' \in [job : Nat, gen : Nat, words : Nat, p : Judgments], judged'.job <= seq,
         ear.pending # 0 /\ judged'.job = ear.pending => judged'.gen = utt.gen /\ judged'.words = utt.words,
         Onward(utt, utt'), AnswersStay(utt, utt', ear, ear', live, live'), EarInv', JudgedWhole'
  PROVE  HearingInv'
<1> USE DEF EarType, UttType
<1>1. HearingTypes /\ ScribeInv /\ RespondInv
  BY DEF HearingInv
<1>2. utt \in UttType /\ ear \in EarType /\ seq \in Nat /\ live \in Nat /\ live' \in Nat /\ jobs \in Answer /\ resp.job \in Answer
  BY <1>1 DEF HearingTypes
<1>3. HearingTypes'
  BY <1>1, <1>2 DEF HearingTypes
<1>4. ScribeInv'
  BY <1>1, BoundedKept DEF ScribeInv
<1>5. AnswerFits(jobs, utt', ear', seq, live', scribe, partial)
  <2>1. AnswerFits(jobs, utt, ear, seq, live, scribe, partial)
    BY <1>1 DEF RespondInv
  <2> QED BY <1>2, <2>1, AnswerKept
<1>6. AnswerFits(resp.job, utt', ear', seq, live', scribe, partial)
  <2>1. AnswerFits(resp.job, utt, ear, seq, live, scribe, partial)
    BY <1>1 DEF RespondInv
  <2> QED BY <1>2, <2>1, AnswerKept
<1>7. AnswerFits(jobs, utt, ear, seq, live, scribe, partial)' /\ AnswerFits(resp.job, utt, ear, seq, live, scribe, partial)'
  BY <1>5, <1>6
<1>8. live' <= seq' /\ (resp'.with # NoText => resp'.with.gen = resp'.job.gen /\ (resp'.with.words <= resp'.job.words \/ live' # resp'.job.id))
  <2>1. live <= seq /\ (resp.with # NoText => resp.with.gen = resp.job.gen /\ (resp.with.words <= resp.job.words \/ live # resp.job.id))
    BY <1>1 DEF RespondInv
  <2>2. resp.with # NoText => resp.at # "idle"
    BY <1>1 DEF RespondInv
  <2>3. resp.at # "idle" => resp.job.id # 0
    BY <1>1 DEF RespondInv
  <2>4. live' = 0 \/ live' = live
    OBVIOUS
  <2> QED BY <1>2, <2>1, <2>2, <2>3, <2>4
<1>9. RespondInv'
  BY <1>1, <1>7, <1>8 DEF RespondInv
<1>10. JudgedInv'
  <2>1. ear'.pending # 0 /\ judged'.job = ear'.pending => judged'.gen = utt'.gen /\ judged'.words = utt'.words
    BY DEF AnswersStay
  <2> QED BY <2>1 DEF JudgedInv
<1> QED BY <1>3, <1>4, <1>9, <1>10 DEF HearingInv

\* The end of a pause, judged from nothing or from all that was said.
LEMMA DecideMoves ==
  ASSUME HearingInv, NEW over, NEW basis \in {NoText, Text(utt.gen, utt.words)}, Decide(over, basis), ear.at \in {"judge", "asr"},
         UNCHANGED <<seq, scribe, partial, jobs, resp, live>>,
         judged' \in [job : Nat, gen : Nat, words : Nat, p : Judgments], judged'.job <= seq,
         ear.pending # 0 /\ judged'.job = ear.pending => judged'.gen = utt.gen /\ judged'.words = utt.words
  PROVE  HearingInv'
<1>1. HearingTypes /\ EarInv
  BY DEF HearingInv
<1>2. utt \in UttType /\ utt.words <= utt.n /\ seq \in Nat
  BY <1>1 DEF HearingTypes
<1>3. basis \in Texts
  BY <1>2 DEF NoText, Text, Texts, UttType
<1>4. /\ ear' \in EarType /\ ear'.at = "frame" /\ ear'.with = NoText
      /\ \/ /\ utt' = utt /\ ear'.pending = ear.pending /\ ~ear'.answered /\ ear'.talked = ear.talked
         \/ /\ utt' = [gen |-> utt.gen + 1, n |-> 0, words |-> 0] /\ ear.pending = 0 /\ ear'.pending = 0 /\ ~ear'.answered
         \/ /\ utt' = utt /\ ear'.pending = 0 /\ ear'.answered /\ ear'.basis = basis
  BY <1>1, <1>3, Decided DEF EarType
<1>5. utt' \in UttType /\ utt'.words <= utt'.n /\ Onward(utt, utt')
  <2>1. CASE utt' = utt
    BY <1>2, <2>1 DEF Onward, UttType
  <2>2. CASE utt' = [gen |-> utt.gen + 1, n |-> 0, words |-> 0]
    BY <1>2, <2>2 DEF Onward, UttType
  <2> QED BY <1>4, <2>1, <2>2
<1>6. ~ear.answered
  BY <1>1 DEF EarInv
<1>7. AnswersStay(utt, utt', ear, ear', live, live')
  <2>1. CASE utt' = utt
    BY <1>4, <1>6, <2>1 DEF AnswersStay
  <2>2. CASE utt' = [gen |-> utt.gen + 1, n |-> 0, words |-> 0] /\ ear'.pending = 0
    <3>1. utt'.gen # utt.gen
      BY <1>2, <2>2 DEF UttType
    <3> QED BY <2>2, <3>1 DEF AnswersStay
  <2> QED BY <1>4, <2>1, <2>2
<1>8. EarInv'
  BY <1>1, <1>4 DEF EarInv
<1>9. JudgedWhole'
  BY <1>4 DEF JudgedWhole, Text
<1>10. live' \in {0, live}
  OBVIOUS
<1> QED BY <1>4, <1>5, <1>7, <1>8, <1>9, <1>10, EarMoves

\* What is judged of the pending answer is of all that was said.
LEMMA BasisOf == ASSUME HearingInv PROVE Basis \in {NoText, Text(utt.gen, utt.words)}
BY DEF HearingInv, JudgedInv, Basis, Known

\* What was judged stays of the answer that is pending.
LEMMA JudgedKept ==
  ASSUME HearingInv, judged' = judged
  PROVE  /\ judged' \in [job : Nat, gen : Nat, words : Nat, p : Judgments] /\ judged'.job <= seq
         /\ ear.pending # 0 /\ judged'.job = ear.pending => judged'.gen = utt.gen /\ judged'.words = utt.words
<1>1. judged \in [job : Nat, gen : Nat, words : Nat, p : Judgments]
  BY DEF HearingInv, HearingTypes
<1>2. judged.job <= seq /\ (ear.pending # 0 /\ judged.job = ear.pending => judged.gen = utt.gen /\ judged.words = utt.words)
  BY DEF HearingInv, JudgedInv
<1> QED BY <1>1, <1>2

LEMMA JudgeWordsInv == ASSUME HearingInv, JudgeWords PROVE HearingInv'
<1>1. ear.at = "judge" /\ UNCHANGED <<seq, scribe, partial, judged, jobs, resp, live>>
  BY DEF JudgeWords
<1>2. Decide(FALSE, NoText) \/ \E p \in Judgments : Decide(turnOver(ear.silence, p, judged.p, Known(ear.pending)), Basis)
  BY DEF JudgeWords
<1>3. CASE Decide(FALSE, NoText)
  BY <1>1, <1>3, DecideMoves, JudgedKept
<1>4. ASSUME NEW p \in Judgments, Decide(turnOver(ear.silence, p, judged.p, Known(ear.pending)), Basis) PROVE HearingInv'
  BY <1>1, <1>4, DecideMoves, JudgedKept, BasisOf
<1> QED BY <1>2, <1>3, <1>4

LEMMA DetectorFailsInv == ASSUME HearingInv, DetectorFails PROVE HearingInv'
BY DecideMoves, JudgedKept DEF DetectorFails

LEMMA judgeTurnInv == ASSUME HearingInv, judgeTurn PROVE HearingInv'
<1>1. ear.at = "asr" /\ UNCHANGED <<seq, scribe, partial, jobs, resp, live>>
  BY DEF judgeTurn
<1>2. ASSUME NEW p \in Judgments, judged' = [job |-> ear.pending, gen |-> utt.gen, words |-> utt.words, p |-> p],
             Decide(heardOver(ear.silence, p, TRUE), Text(utt.gen, utt.words))
      PROVE  HearingInv'
  <2>1. utt.gen \in Nat /\ utt.words \in Nat /\ ear.pending \in Nat /\ ear.pending <= seq /\ seq \in Nat
    BY <1>1 DEF HearingInv, HearingTypes, EarInv, UttType
  <2>2. /\ judged' \in [job : Nat, gen : Nat, words : Nat, p : Judgments] /\ judged'.job <= seq
        /\ judged'.gen = utt.gen /\ judged'.words = utt.words
    BY <1>2, <2>1
  <2> QED BY <1>1, <1>2, <2>2, DecideMoves
<1>3. ASSUME Decide(heardOver(ear.silence, judged.p, Known(ear.pending)), Basis), judged' = judged PROVE HearingInv'
  BY <1>1, <1>3, DecideMoves, JudgedKept, BasisOf
<1> QED BY <1>2, <1>3 DEF judgeTurn

\* The listener moves without deciding: it goes to, or leaves, the transcriber.
LEMMA EarGoes ==
  ASSUME HearingInv, UNCHANGED <<seq, scribe, partial, judged, jobs, resp, live, utt>>,
         ear' \in EarType, ear'.pending = ear.pending, ear'.answered = ear.answered, EarInv', JudgedWhole'
  PROVE  HearingInv'
<1>1. utt \in UttType /\ utt.words <= utt.n
  BY DEF HearingInv, HearingTypes
<1>2. Onward(utt, utt') /\ AnswersStay(utt, utt', ear, ear', live, live')
  BY <1>1 DEF Onward, AnswersStay, UttType
<1>3. live' \in {0, live}
  OBVIOUS
<1> QED BY <1>1, <1>2, <1>3, JudgedKept, EarMoves

LEMMA JudgeHeardInv == ASSUME HearingInv, JudgeHeard PROVE HearingInv'
<1>1. ear.at = "judge" /\ UNCHANGED <<seq, scribe, partial, judged, jobs, resp, live>>
  BY DEF JudgeHeard
<1>2. CASE Known(ear.pending) /\ judged.p # "sure" /\ ear.silence \in Rejudge
  <2>1. ear' = [ear EXCEPT !.at = "listen", !.with = partialFor(utt.gen)] /\ utt' = utt
    BY <1>2 DEF JudgeHeard
  <2>2. ear \in EarType /\ utt.gen \in Nat /\ HearingTypes /\ ScribeInv /\ EarInv
    BY DEF HearingInv, HearingTypes, UttType
  <2>3. partialFor(utt.gen) \in Texts /\ Fits(partialFor(utt.gen), utt.gen, utt.words)
    BY <2>2, PartialOf
  <2>4. ear' \in EarType
    BY <2>1, <2>2, <2>3 DEF EarType, EarPlaces
  <2>5. /\ ear'.at = "listen" /\ ear'.with = partialFor(utt.gen) /\ ear'.pending = ear.pending /\ ear'.answered = ear.answered
        /\ ear'.talked = ear.talked /\ ear'.basis = ear.basis
    BY <2>1, <2>2 DEF EarType
  <2>6. ear.pending # 0 /\ ~ear.answered
    BY <1>1, <1>2, <2>2 DEF Known, EarInv
  <2>7. EarInv'
    BY <1>1, <2>1, <2>2, <2>3, <2>5, <2>6 DEF EarInv, Fits
  <2>8. JudgedWhole'
    BY <2>5, <2>6 DEF JudgedWhole
  <2> QED BY <1>1, <2>1, <2>4, <2>5, <2>7, <2>8, EarGoes
<1>3. CASE ~(Known(ear.pending) /\ judged.p # "sure" /\ ear.silence \in Rejudge)
  <2>1. Decide(heardOver(ear.silence, judged.p, Known(ear.pending)), Basis)
    BY <1>3 DEF JudgeHeard
  <2> QED BY <1>1, <2>1, DecideMoves, JudgedKept, BasisOf
<1> QED BY <1>2, <1>3

LEMMA ListenOverInv == ASSUME HearingInv, ListenOver PROVE HearingInv'
<1>1. /\ ear.pending = 0 /\ ~ear.answered /\ UNCHANGED <<seq, scribe, partial, judged, jobs, resp, live, utt>>
      /\ ear' = [ear EXCEPT !.at = "over", !.with = partialFor(utt.gen)]
  BY DEF ListenOver
<1>2. ear \in EarType /\ utt.gen \in Nat /\ HearingTypes /\ ScribeInv /\ EarInv
  BY DEF HearingInv, HearingTypes, UttType
<1>3. partialFor(utt.gen) \in Texts /\ Fits(partialFor(utt.gen), utt.gen, utt.words)
  BY <1>2, PartialOf
<1>4. ear' \in EarType
  BY <1>1, <1>2, <1>3 DEF EarType, EarPlaces
<1>5. ear'.at = "over" /\ ear'.with = partialFor(utt.gen) /\ ear'.pending = ear.pending /\ ear'.answered = ear.answered
  BY <1>1, <1>2 DEF EarType
<1>6. EarInv'
  BY <1>1, <1>2, <1>3, <1>5 DEF EarInv, Fits
<1>7. JudgedWhole'
  BY <1>1, <1>5 DEF JudgedWhole
<1> QED BY <1>1, <1>4, <1>5, <1>6, <1>7, EarGoes

LEMMA ListenAsrInv == ASSUME HearingInv, ListenAsr PROVE HearingInv'
<1>1. ear.at \in {"listen", "over"} /\ UNCHANGED <<seq, scribe, partial, judged, jobs, resp, live, utt>>
  BY DEF ListenAsr
<1>2. ear' = [ear EXCEPT !.at = IF ear.at = "over" THEN "overAsr" ELSE "asr"]
  BY DEF ListenAsr
<1>3. ear \in EarType /\ EarInv
  BY DEF HearingInv, HearingTypes
<1>4. ear' \in EarType
  BY <1>2, <1>3 DEF EarType, EarPlaces
<1>5. /\ ear'.with = ear.with /\ ear'.pending = ear.pending /\ ear'.answered = ear.answered /\ ear'.talked = ear.talked
      /\ ear'.at = IF ear.at = "over" THEN "overAsr" ELSE "asr"
  BY <1>2, <1>3 DEF EarType
<1>6. ~ear.answered
  BY <1>1, <1>3 DEF EarInv
<1>7. EarInv'
  BY <1>1, <1>3, <1>5, <1>6 DEF EarInv
<1>8. JudgedWhole'
  BY <1>5, <1>6 DEF JudgedWhole
<1> QED BY <1>1, <1>4, <1>5, <1>7, <1>8, EarGoes

\* A new utterance: nothing is pending any more.
LEMMA StartsOver ==
  ASSUME HearingInv, UNCHANGED <<seq, scribe, partial, judged, jobs, resp>>, live' \in {0, live}, ear' \in EarType,
         utt' = [gen |-> utt.gen + 1, n |-> 0, words |-> 0], ear'.pending = 0, ~ear'.answered, ear'.at = "frame", ear'.with = NoText
  PROVE  HearingInv'
<1>1. utt \in UttType
  BY DEF HearingInv, HearingTypes
<1>2. utt' \in UttType /\ utt'.words <= utt'.n /\ utt'.gen = utt.gen + 1
  BY <1>1 DEF UttType
<1>3. utt'.gen # utt.gen
  BY <1>1, <1>2 DEF UttType
<1>4. Onward(utt, utt') /\ AnswersStay(utt, utt', ear, ear', live, live')
  BY <1>2, <1>3 DEF Onward, AnswersStay
<1>5. EarInv' /\ JudgedWhole'
  BY DEF EarInv, JudgedWhole
<1> QED BY <1>2, <1>4, <1>5, JudgedKept, EarMoves

LEMMA interruptsInv == ASSUME HearingInv, interrupts PROVE HearingInv'
<1>1. ear.at = "overAsr" /\ UNCHANGED <<seq, scribe, partial, judged, jobs, resp>>
  BY DEF interrupts
<1>2. PICK stop, forget :
        /\ live' = IF stop THEN 0 ELSE live
        /\ utt' = IF forget THEN [gen |-> utt.gen + 1, n |-> 0, words |-> 0] ELSE utt
        /\ ear' = [ear EXCEPT !.at = "frame", !.with = NoText, !.talked = IF forget THEN 0 ELSE @, !.silence = IF forget THEN 0 ELSE @]
  BY DEF interrupts
<1>3. ear \in EarType /\ EarInv /\ utt \in UttType /\ utt.words <= utt.n /\ NoText \in Texts
  BY DEF HearingInv, HearingTypes, NoText, Texts
<1>4. live' \in {0, live}
  BY <1>2
<1>5. ear.pending = 0 /\ ~ear.answered
  BY <1>1, <1>3 DEF EarInv
<1>6. CASE forget
  <2>1. utt' = [gen |-> utt.gen + 1, n |-> 0, words |-> 0] /\ ear' = [ear EXCEPT !.at = "frame", !.with = NoText, !.talked = 0, !.silence = 0]
    BY <1>2, <1>6
  <2>2. ear' \in EarType
    <3>1. 0 \in Int /\ 0 \in Nat /\ "frame" \in EarPlaces /\ NoText \in Texts /\ ear \in EarType
      BY <1>3 DEF EarPlaces
    <3> QED BY <2>1, <3>1 DEF EarType
  <2>3. ear'.pending = ear.pending /\ ear'.answered = ear.answered /\ ear'.at = "frame" /\ ear'.with = NoText
    BY <1>3, <2>1 DEF EarType
  <2> QED BY <1>1, <1>4, <1>5, <2>1, <2>2, <2>3, StartsOver
<1>7. CASE ~forget
  <2>1. utt' = utt /\ ear' = [ear EXCEPT !.at = "frame", !.with = NoText, !.talked = ear.talked, !.silence = ear.silence]
    BY <1>2, <1>7
  <2>2. ear' \in EarType
    BY <1>3, <2>1 DEF EarType, EarPlaces
  <2>3. ear'.pending = ear.pending /\ ear'.answered = ear.answered /\ ear'.at = "frame" /\ ear'.with = NoText
    BY <1>3, <2>1 DEF EarType
  <2>4. EarInv' /\ JudgedWhole'
    BY <1>5, <2>3 DEF EarInv, JudgedWhole
  <2>5. Onward(utt, utt') /\ AnswersStay(utt, utt', ear, ear', live, live')
    BY <1>3, <1>4, <1>5, <2>1, <2>3 DEF Onward, AnswersStay, UttType
  <2> QED BY <1>1, <1>3, <1>4, <2>1, <2>2, <2>4, <2>5, JudgedKept, EarMoves
<1> QED BY <1>6, <1>7

LEMMA ListenResetInv == ASSUME HearingInv, ListenReset PROVE HearingInv'
<1>1. /\ ear.at = "frame" /\ ear.answered /\ UNCHANGED <<seq, scribe, partial, judged, jobs, resp, live>>
      /\ utt' = [gen |-> utt.gen + 1, n |-> 0, words |-> 0]
      /\ ear' = [ear EXCEPT !.talked = 0, !.silence = 0, !.answered = FALSE, !.basis = NoText]
  BY DEF ListenReset
<1>2. ear \in EarType /\ EarInv /\ NoText \in Texts
  BY DEF HearingInv, HearingTypes, NoText, Texts
<1>3. ear' \in EarType
  <2>1. 0 \in Int /\ 0 \in Nat /\ FALSE \in BOOLEAN /\ NoText \in Texts /\ ear \in EarType
    BY <1>2
  <2>2. ear' = [ear EXCEPT !.talked = 0, !.silence = 0, !.answered = FALSE, !.basis = NoText]
    BY <1>1
  <2> QED BY <2>1, <2>2 DEF EarType
<1>4. ear'.pending = ear.pending /\ ear'.answered = FALSE /\ ear'.at = ear.at /\ ear'.with = ear.with
  BY <1>1, <1>2 DEF EarType
<1>5. ear.pending = 0 /\ ear.with = NoText
  BY <1>1, <1>2 DEF EarInv
<1>6. live' \in {0, live}
  BY <1>1
<1> QED BY <1>1, <1>3, <1>4, <1>5, <1>6, StartsOver

LEMMA SpeakInv == ASSUME HearingInv, Speak PROVE HearingInv'
<1>1. /\ ear.at = "frame" /\ utt' = Heard(TRUE) /\ UNCHANGED <<seq, scribe, partial, judged, jobs, resp>>
      /\ ear' = [ear EXCEPT !.talked = Min({ear.talked + 1, Shortest}), !.silence = 0, !.pending = 0, !.answered = FALSE]
      /\ live' = IF ear.pending # 0 \/ ear.answered THEN 0 ELSE live
  BY DEF Speak, GoesOn
<1>2. ear \in EarType /\ EarInv /\ HearingTypes
  BY DEF HearingInv, HearingTypes
<1>3. utt' \in UttType /\ utt'.words <= utt'.n /\ Onward(utt, utt')
  BY <1>1, <1>2, HeardAdds DEF UttType, Onward
<1>4. ear.talked + 1 \in Int /\ Shortest \in Int
  BY <1>2, HearingBounds DEF EarType
<1>5. Min({ear.talked + 1, Shortest}) \in Int
  BY <1>4, MinOfTwo
<1>6. ear' \in EarType
  BY <1>1, <1>2, <1>5 DEF EarType
<1>7. ear'.pending = 0 /\ ear'.answered = FALSE /\ ear'.at = "frame" /\ ear'.with = ear.with
  BY <1>1, <1>2 DEF EarType
<1>8. EarInv' /\ JudgedWhole'
  BY <1>1, <1>2, <1>7 DEF EarInv, JudgedWhole
<1>9. live' \in {0, live} /\ AnswersStay(utt, utt', ear, ear', live, live')
  BY <1>1, <1>7 DEF AnswersStay
<1> QED BY <1>1, <1>3, <1>6, <1>8, <1>9, JudgedKept, EarMoves

LEMMA QuietInv == ASSUME HearingInv, Quiet PROVE HearingInv'
<1> DEFINE prepare == ear.pending = 0 /\ ear.talked >= Shortest
<1>1. /\ ear.at = "frame" /\ ~ear.answered /\ utt' = Heard(FALSE) /\ UNCHANGED <<scribe, partial, judged, resp>>
      /\ seq' = IF prepare THEN seq + 1 ELSE seq
      /\ jobs' = IF prepare THEN [id |-> seq', gen |-> utt.gen, words |-> utt.words] ELSE jobs
      /\ live' = IF prepare THEN seq' ELSE live
      /\ ear' = [ear EXCEPT !.at = "judge", !.silence = ear.silence + 1, !.pending = IF prepare THEN seq' ELSE ear.pending]
  BY DEF Quiet
<1>2. ear \in EarType /\ EarInv /\ HearingTypes /\ ScribeInv /\ RespondInv /\ JudgedInv
  BY DEF HearingInv, HearingTypes
<1>3. utt' \in UttType /\ utt'.words <= utt'.n /\ utt'.gen = utt.gen /\ utt'.words = utt.words
  BY <1>1, <1>2, HeardAdds DEF UttType
<1>4. utt \in UttType /\ utt.gen \in Nat /\ utt.words \in Nat /\ seq \in Nat /\ live \in Nat /\ ear.with = NoText
  BY <1>1, <1>2 DEF HearingTypes, UttType, EarInv
<1>5. CASE prepare
  <2>1. seq' = seq + 1 /\ live' = seq + 1 /\ jobs' = [id |-> seq + 1, gen |-> utt.gen, words |-> utt.words]
    BY <1>1, <1>5
  <2>2. ear' = [ear EXCEPT !.at = "judge", !.silence = ear.silence + 1, !.pending = seq + 1]
    BY <1>1, <1>5, <2>1
  <2>3. ear' \in EarType
    <3>1. "judge" \in EarPlaces /\ ear.silence + 1 \in Nat /\ seq + 1 \in Nat /\ ear \in EarType
      BY <1>2, <1>4 DEF EarPlaces, EarType
    <3> QED BY <2>2, <3>1 DEF EarType
  <2>4. ear'.at = "judge" /\ ear'.pending = seq + 1 /\ ear'.talked = ear.talked /\ ear'.answered = ear.answered /\ ear'.with = ear.with
    BY <1>2, <2>2 DEF EarType
  <2>5. seq + 1 \in Nat /\ seq + 1 # 0
    BY <1>4
  <2>6. HearingTypes'
    <3>1. jobs' \in Answer
      BY <1>4, <2>1, <2>5 DEF Answer
    <3> QED BY <1>1, <1>2, <1>3, <2>1, <2>3, <2>5, <3>1 DEF HearingTypes
  <2>7. EarInv'
    BY <1>1, <1>2, <1>3, <1>4, <1>5, <2>1, <2>4 DEF EarInv
  <2>8. ScribeInv'
    <3>1. Onward(utt, utt')
      BY <1>3, <1>4 DEF Onward
    <3>2. scribe.gen <= utt'.gen /\ partial.of <= utt'.gen /\ Bounded(scribe, partial, utt'.gen, utt'.words)
      BY <1>2, <1>3, <3>1, BoundedKept DEF UttType
    <3> QED BY <1>1, <1>2, <3>2 DEF ScribeInv
  <2>9. AnswerFits(jobs', utt', ear', seq', live', scribe', partial')
    <3>1. jobs'.id = seq + 1 /\ jobs'.gen = utt.gen /\ jobs'.words = utt.words
      BY <2>1
    <3>2. Bounded(scribe', partial', jobs'.gen, jobs'.words)
      BY <1>1, <1>2, <3>1 DEF ScribeInv
    <3> QED BY <1>3, <1>4, <2>1, <2>4, <2>5, <3>1, <3>2 DEF AnswerFits
  <2>10. resp.job.id \in Nat /\ resp.job.gen \in Nat /\ resp.job.id <= seq /\ resp.job.gen <= utt.gen
    BY <1>2 DEF HearingTypes, Answer, RespondInv, AnswerFits
  <2>11. resp'.job.id # seq + 1 /\ resp'.job.id <= seq + 1 /\ resp' = resp
    BY <1>1, <1>4, <2>10
  <2>12. AnswerFits(resp'.job, utt', ear', seq', live', scribe', partial')
    BY <1>3, <2>1, <2>4, <2>10, <2>11 DEF AnswerFits
  <2>13. RespondInv'
    <3>1. jobs'.id # 0 /\ live' <= seq' /\ live' # resp'.job.id
      BY <1>4, <2>1, <2>5, <2>11
    <3>2. /\ resp'.at = "idle" => resp'.with = NoText
          /\ resp'.at # "idle" => resp'.job.id # 0
          /\ resp'.with # NoText => resp'.with.gen = resp'.job.gen
      BY <1>2, <2>11 DEF RespondInv
    <3> QED BY <2>9, <2>12, <3>1, <3>2 DEF RespondInv
  <2>14. JudgedInv'
    <3>1. judged'.job \in Nat /\ judged'.job <= seq
      BY <1>1, <1>2 DEF HearingTypes, JudgedInv
    <3>2. judged'.job <= seq' /\ judged'.job # ear'.pending
      BY <1>4, <2>1, <2>4, <3>1
    <3>3. JudgedWhole'
      BY <1>1, <2>4 DEF JudgedWhole
    <3> QED BY <3>2, <3>3 DEF JudgedInv
  <2> QED BY <2>6, <2>7, <2>8, <2>13, <2>14 DEF HearingInv
<1>6. CASE ~prepare
  <2>1. UNCHANGED <<seq, scribe, partial, judged, jobs, resp, live>>
    BY <1>1, <1>6
  <2>2. ear' = [ear EXCEPT !.at = "judge", !.silence = ear.silence + 1, !.pending = ear.pending]
    BY <1>1, <1>6
  <2>3. ear' \in EarType
    <3>1. "judge" \in EarPlaces /\ ear.silence + 1 \in Nat /\ ear.pending \in Nat /\ ear \in EarType
      BY <1>2 DEF EarPlaces, EarType
    <3> QED BY <2>2, <3>1 DEF EarType
  <2>4. ear'.at = "judge" /\ ear'.pending = ear.pending /\ ear'.talked = ear.talked /\ ear'.answered = ear.answered /\ ear'.with = ear.with
    BY <1>2, <2>2 DEF EarType
  <2>5. EarInv' /\ JudgedWhole'
    BY <1>1, <1>2, <1>4, <2>1, <2>4 DEF EarInv, JudgedWhole
  <2>6. Onward(utt, utt') /\ AnswersStay(utt, utt', ear, ear', live, live') /\ live' \in {0, live}
    <3>1. Onward(utt, utt')
      BY <1>3, <1>4 DEF Onward
    <3>2. AnswersStay(utt, utt', ear, ear', live, live')
      BY <1>1, <1>3, <2>1, <2>4 DEF AnswersStay
    <3> QED BY <2>1, <3>1, <3>2
  <2> QED BY <1>3, <2>1, <2>3, <2>5, <2>6, JudgedKept, EarMoves
<1> QED BY <1>5, <1>6

-----------------------------------------------------------------------------
\* A step that leaves the listener and the utterance alone and changes what
\* the scribe has: the answers fit it as they did.
LEMMA ScribeMoves ==
  ASSUME HearingInv, UNCHANGED <<utt, ear, seq, judged, jobs, resp, live>>,
         scribe' \in ScribeType,
         partial' \in [of : Nat, text : Texts], ScribeInv',
         \A g \in Nat, w \in Nat : Bounded(scribe, partial, g, w) /\ (g = utt.gen => w = utt.words) => Bounded(scribe', partial', g, w)
  PROVE  HearingInv'
<1>1. HearingTypes /\ EarInv /\ RespondInv /\ JudgedInv
  BY DEF HearingInv
<1>2. HearingTypes'
  BY <1>1 DEF HearingTypes
<1>3. ASSUME NEW j \in Answer, AnswerFits(j, utt, ear, seq, live, scribe, partial)
      PROVE  AnswerFits(j, utt, ear, seq, live, scribe', partial')
  <2>1. j.gen \in Nat /\ j.words \in Nat
    BY DEF Answer
  <2>2. j.id # 0 /\ j.id = live => Bounded(scribe', partial', j.gen, j.words)
    BY <1>3, <2>1 DEF AnswerFits
  <2> QED BY <1>3, <2>2 DEF AnswerFits
<1>4. jobs \in Answer /\ resp.job \in Answer
  BY <1>1 DEF HearingTypes
<1>5. AnswerFits(jobs, utt, ear, seq, live, scribe', partial') /\ AnswerFits(resp.job, utt, ear, seq, live, scribe', partial')
  BY <1>1, <1>3, <1>4 DEF RespondInv
<1>6. RespondInv'
  BY <1>1, <1>5 DEF RespondInv
<1>7. EarInv' /\ JudgedInv'
  BY <1>1 DEF EarInv, JudgedInv, JudgedWhole
<1> QED BY <1>2, <1>6, <1>7 DEF HearingInv

\* What the invariant says of the scribe, in one place.
LEMMA ScribeFacts ==
  ASSUME HearingInv
  PROVE  /\ scribe \in ScribeType /\ partial \in [of : Nat, text : Texts] /\ utt.gen \in Nat /\ utt.words \in Nat /\ utt.n \in Nat
         /\ scribe.prev \in Texts /\ NoText \in Texts /\ ScribeInv
<1>1. HearingTypes /\ ScribeInv /\ NoText \in Texts
  BY DEF HearingInv, NoText, Texts
<1>2. scribe \in ScribeType /\ partial \in [of : Nat, text : Texts] /\ utt.gen \in Nat /\ utt.words \in Nat /\ utt.n \in Nat
  BY <1>1 DEF HearingTypes, UttType
<1> QED BY <1>1, <1>2 DEF ScribeType

\* A wake-up begins a new utterance or goes on with the one at hand, with or
\* without a pass.
LEMMA ScribeWakesInv == ASSUME HearingInv, ScribeWakes PROVE HearingInv'
<1> USE DEF ScribeType
<1>1. scribe.at = "idle" /\ UNCHANGED <<utt, ear, seq, partial, judged, jobs, resp, live>>
  BY DEF ScribeWakes
<1>2. scribe' = NewUtterance \/ scribe' = [NewUtterance EXCEPT !.at = "pass", !.n = utt.n, !.of = utt.gen, !.words = utt.words]
  BY DEF ScribeWakes
<1>3. /\ NewUtterance \in ScribeType /\ NewUtterance.at = "idle" /\ NewUtterance.gen = utt.gen
      /\ Fits(NewUtterance.prev, utt.gen, utt.words)
      /\ NewUtterance.prev = NoText \/ (NewUtterance.prev = scribe.prev /\ scribe.gen = utt.gen)
  <2>1. CASE utt.gen = scribe.gen
    <3>1. NewUtterance = scribe
      BY <2>1 DEF NewUtterance
    <3>2. Fits(scribe.prev, utt.gen, utt.words)
      BY <2>1, ScribeFacts DEF ScribeInv, Bounded
    <3> QED BY <1>1, <2>1, <3>1, <3>2, ScribeFacts
  <2>2. CASE utt.gen # scribe.gen
    <3>1. NewUtterance = [scribe EXCEPT !.gen = utt.gen, !.done = 0, !.prev = NoText]
      BY <2>2 DEF NewUtterance
    <3>2. NewUtterance \in ScribeType
      BY <3>1, ScribeFacts
    <3>3. NewUtterance.at = scribe.at /\ NewUtterance.gen = utt.gen /\ NewUtterance.prev = NoText
      BY <3>1, ScribeFacts
    <3> QED BY <1>1, <3>2, <3>3 DEF Fits
  <2> QED BY <2>1, <2>2
<1>4. /\ scribe' \in ScribeType /\ scribe'.gen = utt.gen /\ scribe'.prev = NewUtterance.prev
      /\ \/ scribe'.at = "idle"
         \/ scribe'.at = "pass" /\ scribe'.of = utt.gen /\ scribe'.words = utt.words
  <2>1. CASE scribe' = NewUtterance
    BY <1>3, <2>1
  <2>2. CASE scribe' = [NewUtterance EXCEPT !.at = "pass", !.n = utt.n, !.of = utt.gen, !.words = utt.words]
    <3>1. scribe' \in ScribeType
      BY <1>3, <2>2, ScribeFacts
    <3>2. scribe'.gen = NewUtterance.gen /\ scribe'.prev = NewUtterance.prev /\ scribe'.at = "pass" /\ scribe'.of = utt.gen /\ scribe'.words = utt.words
      BY <1>3, <2>2
    <3> QED BY <1>3, <3>1, <3>2
  <2> QED BY <1>2, <2>1, <2>2
<1>5. scribe'.words <= utt.words \/ scribe'.at = "idle"
  BY <1>4, ScribeFacts
<1>6. Bounded(scribe', partial', utt.gen, utt.words)
  BY <1>1, <1>3, <1>4, <1>5, ScribeFacts DEF ScribeInv, Bounded
<1>7. ScribeInv'
  <2>1. scribe'.gen <= utt'.gen
    BY <1>1, <1>4, ScribeFacts
  <2>2. scribe'.prev # NoText => scribe'.prev.gen = scribe'.gen /\ scribe'.prev.words <= utt.words
    BY <1>3, <1>4 DEF Fits
  <2>3. scribe'.at \in {"pass", "asr"} => scribe'.of = scribe'.gen /\ (scribe'.prev # NoText => scribe'.prev.words <= scribe'.words)
    BY <1>4, <2>2
  <2> QED BY <1>1, <1>6, <2>1, <2>2, <2>3, ScribeFacts DEF ScribeInv
<1>8. ASSUME NEW g \in Nat, NEW w \in Nat, Bounded(scribe, partial, g, w), g = utt.gen => w = utt.words
      PROVE  Bounded(scribe', partial', g, w)
  <2>1. CASE g = utt.gen
    BY <1>6, <1>8, <2>1
  <2>2. CASE g # utt.gen
    BY <1>1, <1>4, <1>8, <2>2 DEF Bounded
  <2> QED BY <2>1, <2>2
<1> QED BY <1>1, <1>4, <1>7, <1>8, ScribeFacts, ScribeMoves

LEMMA ScribeAsrInv == ASSUME HearingInv, ScribeAsr PROVE HearingInv'
<1> USE DEF ScribeType
<1>1. scribe.at = "pass" /\ scribe' = [scribe EXCEPT !.at = "asr"] /\ UNCHANGED <<utt, ear, seq, partial, judged, jobs, resp, live>>
  BY DEF ScribeAsr
<1>2. scribe' \in ScribeType
  BY <1>1, ScribeFacts
<1>3. scribe'.at = "asr" /\ scribe'.gen = scribe.gen /\ scribe'.prev = scribe.prev /\ scribe'.words = scribe.words /\ scribe'.of = scribe.of
  BY <1>1, ScribeFacts
<1>4. \A g \in Nat, w \in Nat : Bounded(scribe, partial, g, w) => Bounded(scribe', partial', g, w)
  BY <1>1, <1>3 DEF Bounded
<1>5. ScribeInv'
  BY <1>1, <1>3, <1>4, ScribeFacts DEF ScribeInv
<1> QED BY <1>1, <1>2, <1>4, <1>5, ScribeFacts, ScribeMoves

LEMMA ScribePassInv == ASSUME HearingInv, ScribePass PROVE HearingInv'
<1> USE DEF ScribeType
<1>1. scribe.at = "asr" /\ UNCHANGED <<utt, ear, seq, partial, judged, jobs, resp, live>>
  BY DEF ScribePass
<1>2. PICK place \in {"publish", "idle"}, done \in {scribe.n, scribe.done}, prev \in {Text(scribe.of, scribe.words), scribe.prev} :
        scribe' = [scribe EXCEPT !.at = place, !.done = done, !.prev = prev, !.n = 0, !.of = 0, !.words = 0]
  <2>1. CASE scribe' = [scribe EXCEPT !.at = "publish", !.done = scribe.n, !.prev = Text(scribe.of, scribe.words), !.n = 0, !.of = 0, !.words = 0]
    BY <2>1
  <2>2. CASE scribe' = [scribe EXCEPT !.at = "idle", !.n = 0, !.of = 0, !.words = 0]
    <3>1. scribe' = [scribe EXCEPT !.at = "idle", !.done = scribe.done, !.prev = scribe.prev, !.n = 0, !.of = 0, !.words = 0]
      BY <2>2, ScribeFacts
    <3> QED BY <3>1
  <2> QED BY <2>1, <2>2 DEF ScribePass
<1>3. prev \in Texts /\ done \in Nat
  BY ScribeFacts DEF Text, Texts
<1>4. scribe' \in ScribeType
  BY <1>2, <1>3, ScribeFacts
<1>5. scribe'.at \in {"publish", "idle"} /\ scribe'.gen = scribe.gen /\ scribe'.prev = prev
  BY <1>2, ScribeFacts
<1>6. scribe.of = scribe.gen
  BY <1>1, ScribeFacts DEF ScribeInv
<1>7. prev # NoText => prev.gen = scribe.gen
  BY <1>6, ScribeFacts DEF ScribeInv, Text
<1>8. ASSUME NEW g \in Nat, NEW w \in Nat, Bounded(scribe, partial, g, w) PROVE Bounded(scribe', partial', g, w)
  <2>1. ASSUME g = scribe.gen PROVE Fits(prev, g, w)
    <3>1. Fits(scribe.prev, g, w) /\ scribe.words <= w
      BY <1>1, <1>8, <2>1 DEF Bounded
    <3>2. Text(scribe.of, scribe.words).gen = g /\ Text(scribe.of, scribe.words).words <= w
      BY <1>6, <2>1, <3>1 DEF Text
    <3> QED BY <3>1, <3>2 DEF Fits
  <2> QED BY <1>1, <1>5, <1>8, <2>1 DEF Bounded
<1>9. ScribeInv'
  BY <1>1, <1>5, <1>7, <1>8, ScribeFacts DEF ScribeInv
<1> QED BY <1>1, <1>4, <1>8, <1>9, ScribeFacts, ScribeMoves

LEMMA ScribePublishInv == ASSUME HearingInv, ScribePublish PROVE HearingInv'
<1> USE DEF ScribeType
<1>1. /\ scribe' = [scribe EXCEPT !.at = "idle"] /\ partial' = [of |-> scribe.gen, text |-> scribe.prev]
      /\ UNCHANGED <<utt, ear, seq, judged, jobs, resp, live>>
  BY DEF ScribePublish
<1>2. scribe' \in ScribeType /\ partial' \in [of : Nat, text : Texts]
  BY <1>1, ScribeFacts
<1>3. scribe'.at = "idle" /\ scribe'.gen = scribe.gen /\ scribe'.prev = scribe.prev /\ partial'.of = scribe.gen /\ partial'.text = scribe.prev
  BY <1>1, ScribeFacts
<1>4. \A g \in Nat, w \in Nat : Bounded(scribe, partial, g, w) => Bounded(scribe', partial', g, w)
  BY <1>3 DEF Bounded
<1>5. ScribeInv'
  BY <1>1, <1>3, <1>4, ScribeFacts DEF ScribeInv
<1> QED BY <1>1, <1>2, <1>4, <1>5, ScribeFacts, ScribeMoves

-----------------------------------------------------------------------------
\* A step of the responder: the listener and the scribe stay.
LEMMA RespondMoves ==
  ASSUME HearingInv, UNCHANGED <<utt, ear, seq, scribe, partial, live>>,
         jobs' \in Answer, resp' \in [at : {"idle", "lock", "asr"}, job : Answer, with : Texts], RespondInv',
         judged' \in [job : Nat, gen : Nat, words : Nat, p : Judgments], judged'.job <= seq,
         ear.pending # 0 /\ judged'.job = ear.pending => judged'.gen = utt.gen /\ judged'.words = utt.words
  PROVE  HearingInv'
<1>1. HearingTypes /\ EarInv /\ ScribeInv /\ JudgedInv
  BY DEF HearingInv
<1>2. HearingTypes'
  BY <1>1 DEF HearingTypes
<1>3. EarInv' /\ ScribeInv'
  BY <1>1 DEF EarInv, ScribeInv
<1>4. JudgedInv'
  BY <1>1 DEF JudgedInv, JudgedWhole
<1> QED BY <1>2, <1>3, <1>4 DEF HearingInv

\* No answer fits everything.
LEMMA NoneFits ==
  ASSUME HearingInv
  PROVE  NoAnswer \in Answer /\ NoText \in Texts /\ AnswerFits(NoAnswer, utt, ear, seq, live, scribe, partial)
<1>1. NoAnswer.id = 0 /\ NoAnswer.gen = 0 /\ NoAnswer \in Answer /\ NoText \in Texts
  BY DEF NoAnswer, Answer, NoText, Texts
<1>2. 0 <= seq /\ 0 <= utt.gen
  BY DEF HearingInv, HearingTypes, UttType
<1> QED BY <1>1, <1>2 DEF AnswerFits

LEMMA RespondTakeInv == ASSUME HearingInv, RespondTake PROVE HearingInv'
<1>1. /\ jobs # NoAnswer /\ jobs' = NoAnswer /\ resp' = [at |-> "lock", job |-> jobs, with |-> partialFor(jobs.gen)]
      /\ UNCHANGED <<utt, ear, seq, scribe, partial, judged, live>>
  BY DEF RespondTake
<1>2. HearingTypes /\ ScribeInv /\ RespondInv /\ jobs \in Answer /\ jobs.gen \in Nat /\ jobs.id # 0
  BY <1>1 DEF HearingInv, HearingTypes, Answer, RespondInv
<1>3. /\ partialFor(jobs.gen) \in Texts
      /\ partialFor(jobs.gen) # NoText => partial.of = jobs.gen /\ partialFor(jobs.gen) = partial.text /\ partialFor(jobs.gen).gen = jobs.gen
  BY <1>2, PartialOf
<1>4. resp' \in [at : {"idle", "lock", "asr"}, job : Answer, with : Texts] /\ jobs' \in Answer
  BY <1>1, <1>2, <1>3, NoneFits
<1>5. resp'.at = "lock" /\ resp'.job = jobs /\ resp'.with = partialFor(jobs.gen)
  BY <1>1
<1>6. AnswerFits(jobs, utt, ear, seq, live, scribe, partial)
  BY <1>2 DEF RespondInv
<1>7. partialFor(jobs.gen) # NoText => partialFor(jobs.gen).words <= jobs.words \/ live # jobs.id
  <2>1. SUFFICES ASSUME partialFor(jobs.gen) # NoText, live = jobs.id PROVE partialFor(jobs.gen).words <= jobs.words
    OBVIOUS
  <2>2. Bounded(scribe, partial, jobs.gen, jobs.words)
    BY <1>2, <1>6, <2>1 DEF AnswerFits
  <2> QED BY <1>3, <2>1, <2>2 DEF Bounded, Fits
<1>8. RespondInv'
  <2>1. AnswerFits(jobs', utt', ear', seq', live', scribe', partial') /\ AnswerFits(resp'.job, utt', ear', seq', live', scribe', partial')
    BY <1>1, <1>5, <1>6, NoneFits
  <2>2. live' <= seq'
    BY <1>1, <1>2 DEF RespondInv
  <2> QED BY <1>1, <1>2, <1>3, <1>5, <1>7, <2>1, <2>2 DEF RespondInv
<1> QED BY <1>1, <1>4, <1>8, JudgedKept, RespondMoves

LEMMA RespondAsrInv == ASSUME HearingInv, RespondAsr PROVE HearingInv'
<1>1. /\ resp.at = "lock" /\ resp' = [resp EXCEPT !.at = "asr"]
      /\ UNCHANGED <<utt, ear, seq, scribe, partial, judged, jobs, live>>
  BY DEF RespondAsr
<1>2. resp \in [at : {"idle", "lock", "asr"}, job : Answer, with : Texts] /\ jobs \in Answer /\ RespondInv
  BY DEF HearingInv, HearingTypes
<1>3. resp' \in [at : {"idle", "lock", "asr"}, job : Answer, with : Texts] /\ jobs' \in Answer
  BY <1>1, <1>2
<1>4. resp'.at = "asr" /\ resp'.job = resp.job /\ resp'.with = resp.with
  BY <1>1, <1>2
<1>5. RespondInv'
  BY <1>1, <1>2, <1>4 DEF RespondInv
<1> QED BY <1>1, <1>3, <1>5, JudgedKept, RespondMoves

LEMMA RespondJudgesInv == ASSUME HearingInv, RespondJudges PROVE HearingInv'
<1>1. resp.at = "asr" /\ resp' = NoRun /\ UNCHANGED <<utt, ear, seq, scribe, partial, jobs, live>>
  BY DEF RespondJudges
<1>2. resp'.at = "idle" /\ resp'.job = NoAnswer /\ resp'.with = NoText
  BY <1>1 DEF NoRun
<1>3. resp' \in [at : {"idle", "lock", "asr"}, job : Answer, with : Texts] /\ jobs' \in Answer
  BY <1>1, NoneFits DEF NoRun, HearingInv, HearingTypes
<1>4. RespondInv'
  <2>1. AnswerFits(resp'.job, utt', ear', seq', live', scribe', partial')
    BY <1>1, <1>2, NoneFits
  <2> QED BY <1>1, <1>2, <2>1 DEF HearingInv, RespondInv
<1>5. CASE judged' = judged
  BY <1>1, <1>3, <1>4, <1>5, JudgedKept, RespondMoves
<1>6. ASSUME NEW p \in Judgments, judged' = [job |-> resp.job.id, gen |-> resp.job.gen, words |-> resp.job.words, p |-> p]
      PROVE  HearingInv'
  <2>1. resp.job \in Answer /\ AnswerFits(resp.job, utt, ear, seq, live, scribe, partial)
    BY DEF HearingInv, HearingTypes, RespondInv
  <2>2. judged' \in [job : Nat, gen : Nat, words : Nat, p : Judgments]
    BY <1>6, <2>1 DEF Answer
  <2>3. judged'.job = resp.job.id /\ judged'.gen = resp.job.gen /\ judged'.words = resp.job.words
    BY <1>6
  <2>4. judged'.job <= seq /\ (ear.pending # 0 /\ judged'.job = ear.pending => judged'.gen = utt.gen /\ judged'.words = utt.words)
    BY <2>1, <2>3 DEF AnswerFits
  <2> QED BY <1>1, <1>3, <1>4, <2>2, <2>4, RespondMoves
<1> QED BY <1>5, <1>6 DEF RespondJudges

-----------------------------------------------------------------------------
\* A step that changes none of what the invariant is about.
LEMMA HearingStutters ==
  ASSUME HearingInv, UNCHANGED <<utt, ear, seq, scribe, partial, judged, jobs, resp, live>> PROVE HearingInv'
BY DEF HearingInv, HearingTypes, EarInv, ScribeInv, RespondInv, JudgedInv, JudgedWhole

LEMMA HearingStarts == HearingInit => HearingInv
<1> SUFFICES ASSUME HearingInit PROVE HearingInv
  OBVIOUS
<1> USE DEF NoText, Texts
<1>1. /\ utt = [gen |-> 1, n |-> 0, words |-> 0]
      /\ ear = [at |-> "frame", talked |-> 0, silence |-> 0, pending |-> 0, answered |-> FALSE, with |-> NoText, basis |-> NoText]
      /\ scribe = [at |-> "idle", gen |-> 0, done |-> 0, of |-> 0, n |-> 0, words |-> 0, prev |-> NoText]
      /\ partial = [of |-> 0, text |-> NoText] /\ judged = [job |-> 0, gen |-> 0, words |-> 0, p |-> "unsure"]
      /\ jobs = NoAnswer /\ resp = NoRun /\ seq = 0 /\ live = 0
  BY DEF HearingInit
<1>2. HearingTypes
  <2>1. utt \in UttType /\ utt.words <= utt.n /\ seq \in Nat /\ live \in Nat
    BY <1>1 DEF UttType
  <2>2. ear \in EarType
    BY <1>1 DEF EarType, EarPlaces
  <2>3. scribe \in ScribeType /\ partial \in [of : Nat, text : Texts]
    BY <1>1 DEF ScribeType
  <2>4. judged \in [job : Nat, gen : Nat, words : Nat, p : Judgments]
    BY <1>1 DEF Judgments
  <2>5. jobs \in Answer /\ resp \in [at : {"idle", "lock", "asr"}, job : Answer, with : Texts]
    BY <1>1 DEF NoAnswer, NoRun, Answer
  <2> QED BY <2>1, <2>2, <2>3, <2>4, <2>5 DEF HearingTypes
<1>3. EarInv
  BY <1>1 DEF EarInv
<1>4. ScribeInv
  BY <1>1 DEF ScribeInv, Bounded
<1>5. RespondInv
  BY <1>1 DEF RespondInv, AnswerFits, NoAnswer, NoRun
<1>6. JudgedInv
  BY <1>1 DEF JudgedInv, JudgedWhole
<1> QED BY <1>2, <1>3, <1>4, <1>5, <1>6 DEF HearingInv

LEMMA HearingSteps == HearingInv /\ [HearingNext]_hearingVars => HearingInv'
<1> SUFFICES ASSUME HearingInv, [HearingNext]_hearingVars PROVE HearingInv'
  OBVIOUS
<1>1. CASE UNCHANGED hearingVars
  BY <1>1, HearingStutters DEF hearingVars
<1>2. CASE Speak \/ ListenOver
  BY <1>2, SpeakInv, ListenOverInv
<1>3. CASE EarStep
  BY <1>3, QuietInv, JudgeHeardInv, ListenAsrInv, interruptsInv, judgeTurnInv, JudgeWordsInv, DetectorFailsInv, ListenResetInv DEF EarStep
<1>4. CASE ScribeRuns
  BY <1>4, ScribeWakesInv, ScribeAsrInv, ScribePassInv, ScribePublishInv DEF ScribeRuns
<1>5. CASE RespondStep
  <2>1. CASE RespondPrefill
    BY <2>1, HearingStutters DEF RespondPrefill
  <2> QED BY <1>5, <2>1, RespondTakeInv, RespondAsrInv, RespondJudgesInv DEF RespondStep
<1> QED BY <1>1, <1>2, <1>3, <1>4, <1>5 DEF HearingNext

LEMMA HearingHolds == HearingInv => HearingSafe
<1> SUFFICES ASSUME HearingInv PROVE HearingSafe
  OBVIOUS
<1>1. scribe.at \in {"pass", "asr"} /\ scribe.prev # NoText => scribe.prev.gen = scribe.of /\ scribe.prev.words <= scribe.words
  BY DEF HearingInv, ScribeInv
<1>2. ear.with # NoText => ear.with.gen = utt.gen /\ ear.with.words <= utt.words
  BY DEF HearingInv, EarInv
<1>3. resp.with # NoText => resp.with.gen = resp.job.gen /\ (resp.with.words <= resp.job.words \/ live # resp.job.id)
  BY DEF HearingInv, RespondInv
<1>4. JudgedWhole
  BY DEF HearingInv, JudgedInv
<1> QED BY <1>1, <1>2, <1>3, <1>4 DEF HearingSafe, PartialFits

\* What the cascade judges and continues is of the utterance being heard, and
\* all of it: in every interleaving of listener, scribe and responder a
\* partial transcript goes only to audio of its utterance that holds all it
\* has read, unless that answer is already dropped, and the judgment that
\* ends a turn has heard every word of it (partialFor 990, scribe 938,
\* turnOf 912, wordsOf 905), however long the utterances are, at whatever
\* pauses the code judges, and whatever the models judge.
THEOREM HearingIsSafe == HearingSpec => []HearingSafe
<1>1. HearingInit => HearingInv
  BY HearingStarts
<1>2. HearingInv /\ [HearingNext]_hearingVars => HearingInv'
  BY HearingSteps
<1>3. HearingInv => HearingSafe
  BY HearingHolds
<1> QED BY <1>1, <1>2, <1>3, PTL DEF HearingSpec
=============================================================================
