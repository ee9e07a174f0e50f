--------------------------- MODULE CascadeProofs ---------------------------
(***************************************************************************)
(* Proofs about Cascade: for any number of utterances, answers, notes and  *)
(* pieces, any queue, and whichever windows the scheduler uses, no audio   *)
(* of a reply that was cut is left to play, tools run only once the turn   *)
(* that asked for them is over, and the conversation keeps every note and  *)
(* the silence it chose.  Three more results leave some of the windows     *)
(* out, and name them: busy covers every reply, an answer is held until    *)
(* its turn is released, and the conversation remembers of an answer no    *)
(* more than was heard of it.                                              *)
(***************************************************************************)
EXTENDS Cascade, TLAPS

\* Between ListenCancel and ListenReset, and once Close has begun, playback
\* may hold anything.
Clean == lpc # "reset" /\ cpc = "open"

\* The reply under way has begun its voice and not seen its end.
Speaks == run.voicing /\ rpc \in {"reply", "write", "written", "await", "asleep", "spoken"}
Pumping == ppc \in {"read", "write", "done"}

\* The fields of run, and that a reply waits with its voice begun only for
\* the turn of its tools.
RunInv ==
  /\ {"job", "voicing", "then"} \subseteq DOMAIN run
  /\ rpc \in {"idle", "moment", "unhold", "arm", "transcribe", "exited"} => ~run.voicing
  /\ rpc \in {"await", "asleep"} /\ run.then # "call" => ~run.voicing

\* The pump has one reply at a time: on the way to it, with it, or its end on
\* the way back; and the responder waits for that end.
PumpInv ==
  /\ pumpJobs \/ Pumping \/ speakDone => Speaks
  /\ ~(pumpJobs /\ Pumping) /\ ~(pumpJobs /\ speakDone) /\ ~(Pumping /\ speakDone)
  /\ current => Pumping

\* Playback is empty but for the reply that speaks, and the pump holds no
\* frame of a cut one that it would write.
AudioInv ==
  /\ play \in Seq(Nat) /\ heard \in Seq(Nat)
  /\ Clean /\ ~Speaks /\ rpc # "playback" => play = <<>>
  /\ Clean /\ current /\ ppc = "write" => ~cut
  /\ NoStaleAudio

SoundInv == RunInv /\ PumpInv /\ AudioInv

\* The answer that waits for its turn is the last one dispatched, and the
\* turns end in order.
TurnInv ==
  /\ {"talked", "pending", "after"} \subseteq DOMAIN ear
  /\ ear.after \in {"frame", "hear", "dispatch"}
  /\ seq \in Nat /\ released \in 0..seq
  /\ ear.pending \in {0, seq}
  /\ ear.after = "dispatch" => lpc \in {"cancel", "reset", "dispatch", "send"} /\ ear.pending = 0
  /\ lpc \in {"dispatch", "send"} => ear.after = "dispatch"
  /\ lpc = "judge" /\ ear.talked = 2 => ear.pending = seq
  /\ called \subseteq 0..released

-----------------------------------------------------------------------------
\* The steps of the application, the listener and the pump leave the
\* responder where it is.
LEMMA RespondKept ==
  ASSUME Application \/ Listener \/ Pump
  PROVE  UNCHANGED <<rpc, run, called>>
<1> USE DEF respondVars
<1>1. CASE Application
  BY <1>1 DEF Application, StepFrame, StepCount, Say, Note, SetSpeaker, CloseCancel, CloseStop, CloseDone
<1>2. CASE Listener
  BY <1>2, ZenonT(40) DEF Listener, ListenFrame, ListenCancel, ListenReset, ListenHear, ListenOver, ListenPause, ListenDispatch,
     ListenSend, ListenRelease, ListenStop, ListenJudge
<1>3. CASE Pump
  BY <1>3 DEF Pump, PumpTake, PumpRead, PumpWrite, PumpDone, PumpStop
<1> QED BY <1>1, <1>2, <1>3

\* What the steps of the application and the listener do to the sound.
LEMMA ListenSound ==
  ASSUME Application \/ Listener
  PROVE  /\ UNCHANGED <<ppc, pumpJobs, speakDone>>
         /\ StepFrame \/ UNCHANGED heard
         /\ StepFrame \/ ListenReset \/ UNCHANGED play
         /\ ListenReset \/ UNCHANGED current
         /\ ListenCancel \/ CloseCancel \/ UNCHANGED cut
         /\ ListenCancel => lpc' = "reset"
         /\ ListenReset => play' = <<>> /\ current' = FALSE
         /\ CloseCancel => cpc' = "stop"
         /\ cpc' = "open" => cpc = "open"
         /\ ListenReset \/ (lpc = "reset" => lpc' = "reset")
<1> USE DEF pumpVars, audioVars, jobVars, listenVars, appVars
<1>1. CASE Application
  BY <1>1 DEF Application, StepFrame, StepCount, Say, Note, SetSpeaker, CloseCancel, CloseStop, CloseDone,
     ListenCancel, ListenReset
<1>2. CASE ListenCancel \/ ListenReset \/ ListenHear \/ ListenOver \/ ListenPause
  BY <1>2 DEF ListenCancel, ListenReset, ListenHear, ListenOver, ListenPause, CloseCancel
<1>3. CASE ListenDispatch \/ ListenSend \/ ListenRelease \/ ListenStop
  BY <1>3 DEF ListenDispatch, ListenSend, ListenRelease, ListenStop, ListenReset, ListenCancel, CloseCancel
<1>4. CASE \E speaking, recent, long \in BOOLEAN : ListenFrame(speaking, recent, long)
  BY <1>4 DEF ListenFrame, ListenReset, ListenCancel, CloseCancel
<1>5. CASE \E over \in BOOLEAN : ListenJudge(over)
  BY <1>5 DEF ListenJudge, ListenReset, ListenCancel, CloseCancel
<1> QED BY <1>1, <1>2, <1>3, <1>4, <1>5 DEF Listener

\* Step counts a frame of a reply, and takes it from playback.
LEMMA StepFrames ==
  ASSUME StepFrame, play \in Seq(Nat), heard \in Seq(Nat)
  PROVE  /\ play' \in Seq(Nat) /\ heard' \in Seq(Nat) /\ Len(heard') = Len(heard)
         /\ play # <<>>
         /\ \A i \in DOMAIN play' : i + 1 \in DOMAIN play /\ play'[i] = play[i + 1]
<1>1. play # <<>> /\ play' = Tail(play) /\ heard' = [heard EXCEPT ![Head(play)] = @ + 1]
  BY DEF StepFrame
<1>2. play' \in Seq(Nat) /\ \A i \in DOMAIN play' : i + 1 \in DOMAIN play /\ play'[i] = play[i + 1]
  BY <1>1
<1>3. heard' \in Seq(Nat) /\ Len(heard') = Len(heard)
  <2>1. DOMAIN heard' = DOMAIN heard /\ DOMAIN heard = 1..Len(heard) /\ Len(heard) \in Nat
    BY <1>1
  <2>2. \A i \in 1..Len(heard) : heard'[i] \in Nat
    BY <1>1, <2>1
  <2>3. heard' = [i \in 1..Len(heard) |-> heard'[i]]
    BY <1>1, <2>1
  <2>4. heard' \in [1..Len(heard) -> Nat]
    BY <2>2, <2>3
  <2>5. \A n \in Nat : \A f \in [1..n -> Nat] : f \in Seq(Nat) /\ Len(f) = n
    OBVIOUS
  <2> QED BY <2>1, <2>4, <2>5
<1> QED BY <1>1, <1>2, <1>3

\* The application and the listener leave the sound right.
LEMMA ListenKeepsSound == ASSUME SoundInv, Application \/ Listener PROVE SoundInv'
<1>0. /\ UNCHANGED <<rpc, run, ppc, pumpJobs, speakDone>>
      /\ cpc' = "open" => cpc = "open"
      /\ ListenReset \/ (lpc = "reset" => lpc' = "reset")
  BY RespondKept, ListenSound
<1>1. RunInv'
  BY <1>0 DEF SoundInv, RunInv
<1>2. Speaks' <=> Speaks
  BY <1>0 DEF Speaks
<1>3. Pumping' <=> Pumping
  BY <1>0 DEF Pumping
<1>4. PumpInv'
  <2>1. current' => current
    BY ListenSound
  <2> QED BY <1>0, <1>2, <1>3, <2>1 DEF SoundInv, PumpInv
<1>5. AudioInv'
  <2>0. AudioInv
    BY DEF SoundInv
  <2>1. CASE StepFrame
    <3>1. UNCHANGED <<lpc, cpc, cut, current>>
      BY <2>1 DEF StepFrame, listenVars, appVars, jobVars, pumpVars
    <3>2. /\ play' \in Seq(Nat) /\ heard' \in Seq(Nat) /\ Len(heard') = Len(heard)
          /\ play # <<>>
          /\ \A i \in DOMAIN play' : i + 1 \in DOMAIN play /\ play'[i] = play[i + 1]
      BY <2>0, <2>1, StepFrames DEF AudioInv
    <3>3. Clean' <=> Clean
      BY <3>1 DEF Clean
    <3>4. Clean' => Speaks' \/ rpc' = "playback"
      BY <1>0, <1>2, <2>0, <3>2, <3>3 DEF AudioInv
    <3>5. Clean' /\ current' /\ ppc' = "write" => ~cut'
      BY <1>0, <2>0, <3>1, <3>3 DEF AudioInv
    <3>6. NoStaleAudio'
      BY <2>0, <3>1, <3>2 DEF AudioInv, NoStaleAudio, Reply
    <3> QED BY <3>2, <3>4, <3>5, <3>6 DEF AudioInv
  <2>2. CASE ListenReset
    <3>1. play' = <<>> /\ current' = FALSE /\ UNCHANGED heard
      BY <2>2 DEF ListenReset
    <3> QED BY <2>0, <3>1 DEF AudioInv, NoStaleAudio
  <2>3. CASE ~StepFrame /\ ~ListenReset
    <3>1. UNCHANGED <<heard, play, current>>
      BY <2>3, ListenSound
    <3>2. Clean' => Clean /\ UNCHANGED cut
      BY <1>0, <2>3, ListenSound DEF Clean
    <3> QED BY <1>0, <1>2, <2>0, <3>1, <3>2 DEF AudioInv, NoStaleAudio, Clean, Reply
  <2> QED BY <2>1, <2>2, <2>3
<1> QED BY <1>1, <1>4, <1>5 DEF SoundInv

\* The pump leaves the sound right.
LEMMA PumpKeepsSound == ASSUME SoundInv, Pump PROVE SoundInv'
<1>0. /\ UNCHANGED <<rpc, run, lpc, cpc, cut, heard>>
      /\ RunInv /\ PumpInv /\ AudioInv
  BY RespondKept DEF Pump, PumpTake, PumpRead, PumpWrite, PumpDone, PumpStop, SoundInv, listenVars, appVars, jobVars
<1>1. RunInv'
  BY <1>0 DEF RunInv
<1>2. (Speaks' <=> Speaks) /\ (Clean' <=> Clean)
  BY <1>0 DEF Speaks, Clean
<1>3. CASE PumpTake
  <2>1. /\ ppc = "idle" /\ pumpJobs /\ pumpJobs' = FALSE /\ current' = TRUE /\ ppc' = "read"
        /\ UNCHANGED <<play, speakDone>>
    BY <1>3 DEF PumpTake, audioVars
  <2>2. PumpInv'
    BY <1>0, <1>2, <2>1 DEF PumpInv, Pumping
  <2>3. AudioInv'
    BY <1>0, <1>2, <2>1 DEF AudioInv, NoStaleAudio, Reply
  <2> QED BY <1>1, <2>2, <2>3 DEF SoundInv
<1>4. CASE PumpRead
  <2>1. /\ ppc = "read" /\ ppc' \in {"write", "done"} /\ (ppc' = "write" => ~cut)
        /\ UNCHANGED <<play, speakDone, pumpJobs, current>>
    BY <1>4 DEF PumpRead, audioVars
  <2>2. PumpInv'
    BY <1>0, <1>2, <2>1 DEF PumpInv, Pumping
  <2>3. AudioInv'
    BY <1>0, <1>2, <2>1 DEF AudioInv, NoStaleAudio, Reply
  <2> QED BY <1>1, <2>2, <2>3 DEF SoundInv
<1>5. CASE PumpWrite
  <2>1. /\ ppc = "write" /\ ppc' = "read" /\ play' = WriteAt(Reply)
        /\ UNCHANGED <<speakDone, pumpJobs, current>>
    BY <1>5 DEF PumpWrite
  <2>2. PumpInv'
    BY <1>0, <1>2, <2>1 DEF PumpInv, Pumping
  <2>3. Speaks
    BY <1>0, <2>1 DEF PumpInv, Pumping
  <2>4. CASE ~current
    <3>1. play' = play
      BY <2>1, <2>4 DEF WriteAt
    <3>2. AudioInv'
      BY <1>0, <1>2, <2>1, <3>1 DEF AudioInv, NoStaleAudio, Reply
    <3> QED BY <1>1, <2>2, <3>2 DEF SoundInv
  <2>5. CASE current
    <3>1. play' = Append(play, Reply)
      BY <2>1, <2>5 DEF WriteAt
    <3>2. play \in Seq(Nat) /\ Reply \in Nat /\ Reply' = Reply
      BY <1>0 DEF AudioInv, Reply
    <3>3. /\ play' \in Seq(Nat)
          /\ \A i \in DOMAIN play' : (i \in DOMAIN play /\ play'[i] = play[i]) \/ play'[i] = Reply
      BY <3>1, <3>2
    <3>4. NoStaleAudio'
      <4> SUFFICES ASSUME lpc' # "reset", cpc' = "open", NEW i \in DOMAIN play' PROVE play'[i] = Reply' /\ ~cut'
        BY DEF NoStaleAudio
      <4>1. Clean
        BY <1>0 DEF Clean
      <4>2. ~cut
        BY <1>0, <2>1, <2>5, <4>1 DEF AudioInv
      <4> QED BY <1>0, <3>2, <3>3, <4>1, <4>2 DEF AudioInv, NoStaleAudio, Clean
    <3>5. AudioInv'
      BY <1>0, <1>2, <2>1, <2>3, <3>3, <3>4 DEF AudioInv
    <3> QED BY <1>1, <2>2, <3>5 DEF SoundInv
  <2> QED BY <2>4, <2>5
<1>6. CASE PumpDone
  <2>1. /\ ppc = "done" /\ ppc' = "idle" /\ speakDone' = TRUE /\ current' = FALSE
        /\ UNCHANGED <<play, pumpJobs>>
    BY <1>6 DEF PumpDone, audioVars
  <2>2. PumpInv'
    BY <1>0, <1>2, <2>1 DEF PumpInv, Pumping
  <2>3. AudioInv'
    BY <1>0, <1>2, <2>1 DEF AudioInv, NoStaleAudio, Reply
  <2> QED BY <1>1, <2>2, <2>3 DEF SoundInv
<1>7. CASE PumpStop
  <2>1. /\ ppc = "idle" /\ ppc' = "exited" /\ UNCHANGED <<play, pumpJobs, speakDone, current>>
    BY <1>7 DEF PumpStop, audioVars
  <2>2. PumpInv'
    BY <1>0, <1>2, <2>1 DEF PumpInv, Pumping
  <2>3. AudioInv'
    BY <1>0, <1>2, <2>1 DEF AudioInv, NoStaleAudio, Reply
  <2> QED BY <1>1, <2>2, <2>3 DEF SoundInv
<1> QED BY <1>3, <1>4, <1>5, <1>6, <1>7 DEF Pump

\* A step of the responder that begins no reply and changes no sound.
LEMMA QuietStep ==
  ASSUME SoundInv, RunInv', UNCHANGED <<lpc, cpc, play, heard, ppc, current, pumpJobs, speakDone, cut>>,
         Speaks' <=> Speaks, Speaks \/ rpc' = "playback" \/ rpc # "playback"
  PROVE  SoundInv'
<1>0. PumpInv /\ AudioInv
  BY DEF SoundInv
<1>1. PumpInv'
  BY <1>0 DEF PumpInv, Pumping
<1>2. AudioInv'
  BY <1>0 DEF AudioInv, NoStaleAudio, Clean, Reply
<1> QED BY <1>1, <1>2 DEF SoundInv

\* What most steps of the responder leave alone.
Untouched == UNCHANGED <<lpc, cpc, play, heard, ppc, current, pumpJobs, speakDone, cut>>

\* The responder leaves the sound right: between two replies.
LEMMA RespondKeepsSound ==
  ASSUME SoundInv, RespondJob \/ RespondNoted \/ RespondMoment \/ RespondStop \/ RunUnhold \/ RunNothing \/ RunUnbusy
  PROVE  SoundInv'
<1> USE DEF audioVars, listenVars, appVars, pumpVars, jobVars, respondVars
<1>0. RunInv /\ Untouched
  BY DEF SoundInv, Untouched, RespondJob, RespondNoted, RespondMoment, RespondStop, RunUnhold, RunNothing, RunUnbusy, StartRun
<1>1. CASE RespondJob \/ RespondMoment
  <2>1. \/ run' = run
        \/ \E j : run' = [NoRun EXCEPT !.job = j]
    BY <1>1 DEF RespondJob, RespondMoment, StartRun
  <2>2. /\ rpc \in {"idle", "moment"} /\ rpc' \in {"idle", "unhold"}
    BY <1>1 DEF RespondJob, RespondMoment, StartRun
  <2>3. {"job", "voicing", "then"} \subseteq DOMAIN run' /\ ~run'.voicing
    BY <1>0, <2>1, <2>2 DEF NoRun, RunInv
  <2> QED BY <1>0, <2>2, <2>3, QuietStep DEF RunInv, Speaks, Untouched
<1>2. CASE RespondNoted \/ RespondStop \/ RunUnhold \/ RunNothing
  <2>1. run' = run /\ rpc \in {"idle", "unhold", "transcribe"} /\ rpc' \in {"moment", "exited", "arm", "finish"}
    BY <1>2 DEF RespondNoted, RespondStop, RunUnhold, RunNothing
  <2> QED BY <1>0, <2>1, QuietStep DEF RunInv, Speaks, Untouched
<1>3. CASE RunUnbusy
  <2>1. run' = NoRun /\ rpc = "unbusy" /\ rpc' \in {"idle", "moment"}
    BY <1>3 DEF RunUnbusy
  <2>2. {"job", "voicing", "then"} \subseteq DOMAIN run' /\ ~run'.voicing
    BY <2>1 DEF NoRun
  <2> QED BY <1>0, <2>1, <2>2, QuietStep DEF RunInv, Speaks, Untouched
<1> QED BY <1>1, <1>2, <1>3

\* A reply begins: the pump is idle, and playback empty unless an interrupt is
\* about to empty it.
LEMMA ArmKeepsSound == ASSUME SoundInv, RunArm PROVE SoundInv'
<1> DEFINE say == run.job.kind = "say"
<1>0. RunInv /\ PumpInv /\ AudioInv
  BY DEF SoundInv
<1>1. /\ rpc = "arm" /\ cut' = FALSE /\ heard' = Append(heard, 0) /\ pumpJobs' = say
      /\ UNCHANGED <<play, lpc, cpc, ppc, current, speakDone>>
  BY DEF RunArm, listenVars, appVars
<1>2. {"job", "voicing", "then"} \subseteq DOMAIN run' /\ run'.voicing = say
  BY <1>0 DEF RunArm, RunInv
<1>3. rpc' \in {"transcribe", "spoken", "reply"} /\ (rpc' = "spoken" <=> say) /\ (rpc' = "transcribe" => ~say)
  <2>1. rpc' = CASE run.job.kind = "utt" -> "transcribe" [] say -> "spoken" [] OTHER -> "reply"
    BY DEF RunArm
  <2> QED BY <2>1
<1> HIDE DEF say
<1>4. ~Speaks /\ ~pumpJobs /\ ~Pumping /\ ~speakDone /\ ~current
  BY <1>0, <1>1 DEF PumpInv, Speaks
<1>5. Clean => play = <<>>
  BY <1>0, <1>1, <1>4 DEF AudioInv
<1>6. RunInv'
  BY <1>2, <1>3 DEF RunInv
<1>7. PumpInv'
  BY <1>1, <1>2, <1>3, <1>4 DEF PumpInv, Pumping, Speaks
<1>8. AudioInv'
  <2>1. heard' \in Seq(Nat) /\ play' \in Seq(Nat)
    BY <1>0, <1>1 DEF AudioInv
  <2>2. Clean' => play' = <<>>
    BY <1>1, <1>5 DEF Clean
  <2>3. NoStaleAudio'
    BY <2>2 DEF NoStaleAudio, Clean
  <2> QED BY <1>1, <2>1, <2>2, <2>3 DEF AudioInv
<1> QED BY <1>6, <1>7, <1>8 DEF SoundInv

\* The reply is written, and its voice begins with its first piece.
LEMMA WriteKeepsSound == ASSUME SoundInv, RunWrite PROVE SoundInv'
<1>0. RunInv /\ PumpInv /\ AudioInv
  BY DEF SoundInv
<1>1. /\ rpc = "write" /\ rpc' = "write" /\ pumpJobs' = (pumpJobs \/ ~run.voicing)
      /\ UNCHANGED <<play, heard, cut, lpc, cpc, ppc, current, speakDone>>
  BY DEF RunWrite, listenVars, appVars, audioVars, jobVars
<1>2. {"job", "voicing", "then"} \subseteq DOMAIN run' /\ run'.voicing
  BY <1>0 DEF RunWrite, RunInv
<1>3. Speaks' /\ (Speaks <=> run.voicing)
  BY <1>1, <1>2 DEF Speaks
<1>4. RunInv'
  BY <1>1, <1>2 DEF RunInv
<1>5. PumpInv'
  BY <1>0, <1>1, <1>3 DEF PumpInv, Pumping
<1>6. AudioInv'
  BY <1>0, <1>1, <1>3 DEF AudioInv, NoStaleAudio, Clean, Reply
<1> QED BY <1>4, <1>5, <1>6 DEF SoundInv

\* The reply while it is prepared.
LEMMA ReplyKeepsSound ==
  ASSUME SoundInv,
         \/ \E skip \in BOOLEAN : RunTranscribe(skip)
         \/ RunReply \/ RunCalls \/ (\E err \in BOOLEAN : RunWritten(err)) \/ RunAgain
  PROVE  SoundInv'
<1> USE DEF audioVars, listenVars, appVars, pumpVars, jobVars
<1>0. RunInv /\ Untouched
  BY DEF SoundInv, Untouched, RunTranscribe, RunReply, RunCalls, RunWritten, RunAgain
<1>1. CASE \E skip \in BOOLEAN : RunTranscribe(skip)
  <2>1. PICK skip \in BOOLEAN : RunTranscribe(skip)
    BY <1>1
  <2>2. rpc = "transcribe" /\ rpc' \in {"await", "reply"}
    BY <2>1 DEF RunTranscribe
  <2>3. {"job", "voicing", "then"} \subseteq DOMAIN run' /\ run'.voicing = run.voicing
    BY <1>0, <2>1 DEF RunTranscribe, RunInv
  <2> QED BY <1>0, <2>2, <2>3, QuietStep DEF RunInv, Speaks, Untouched
<1>2. CASE RunReply \/ (\E err \in BOOLEAN : RunWritten(err)) \/ RunAgain
  <2>1. rpc \in {"reply", "write", "written"} /\ rpc' \in {"write", "written", "reply"}
    BY <1>2 DEF RunReply, RunWritten, RunAgain
  <2>2. {"job", "voicing", "then"} \subseteq DOMAIN run' /\ run'.voicing = run.voicing
    BY <1>0, <1>2 DEF RunReply, RunWritten, RunAgain, RunInv
  <2> QED BY <1>0, <2>1, <2>2, QuietStep DEF RunInv, Speaks, Untouched
<1>3. CASE RunCalls
  <2>1. rpc = "write" /\ rpc' = "await" /\ run' = [run EXCEPT !.then = "call"]
    BY <1>3 DEF RunCalls
  <2>2. {"job", "voicing", "then"} \subseteq DOMAIN run' /\ run'.voicing = run.voicing /\ run'.then = "call"
    BY <1>0, <2>1 DEF RunInv
  <2> QED BY <1>0, <2>1, <2>2, QuietStep DEF RunInv, Speaks, Untouched
<1> QED BY <1>1, <1>2, <1>3

\* The reply waits for its turn.
LEMMA AwaitKeepsSound == ASSUME SoundInv, RunAwait \/ RunAwake PROVE SoundInv'
<1> USE DEF audioVars, listenVars, appVars, pumpVars, jobVars
<1>0. RunInv /\ Untouched /\ rpc \in {"await", "asleep"}
  BY DEF SoundInv, Untouched, RunAwait, RunAwake
<1>1. ASSUME NEW ok, Awaited(ok) PROVE SoundInv'
  <2>1. CASE run.then = "skip"
    <3>1. rpc' = "finish" /\ run' = run
      BY <1>1, <2>1 DEF Awaited
    <3> QED BY <1>0, <2>1, <3>1, QuietStep DEF RunInv, Speaks, Untouched
  <2>2. CASE run.then = "call"
    <3>1. \/ rpc' = "reply" /\ run' = [run EXCEPT !.rounds = @ + 1, !.called = TRUE]
          \/ rpc' = "written" /\ run' = run
      BY <1>1, <2>2 DEF Awaited
    <3>2. {"job", "voicing", "then"} \subseteq DOMAIN run' /\ run'.voicing = run.voicing
      BY <1>0, <3>1 DEF RunInv
    <3> QED BY <1>0, <3>1, <3>2, QuietStep DEF RunInv, Speaks, Untouched
  <2>3. CASE run.then # "skip" /\ run.then # "call"
    <3>1. rpc' = "playback" /\ run' = run
      BY <1>1, <2>3 DEF Awaited
    <3> QED BY <1>0, <2>3, <3>1, QuietStep DEF RunInv, Speaks, Untouched
  <2> QED BY <2>1, <2>2, <2>3
<1>2. ASSUME rpc' \in {"await", "asleep"}, run' = run PROVE SoundInv'
  BY <1>0, <1>2, QuietStep DEF RunInv, Speaks, Untouched
<1> QED BY <1>1, <1>2 DEF RunAwait, RunAwake

\* The reply is said and played.
LEMMA PlayKeepsSound ==
  ASSUME SoundInv,
         \/ \E until, echoed \in BOOLEAN : RunStands(until, echoed)
         \/ RunSpoken \/ RunPlayback \/ RunSettle \/ RunFinish
  PROVE  SoundInv'
<1> USE DEF audioVars, listenVars, appVars, pumpVars, jobVars
<1>0. RunInv /\ PumpInv /\ AudioInv
  BY DEF SoundInv
<1>1. CASE \E until, echoed \in BOOLEAN : RunStands(until, echoed)
  <2>1. PICK until, echoed \in BOOLEAN : RunStands(until, echoed)
    BY <1>1
  <2>2. Untouched /\ rpc = "written" /\ run' = [run EXCEPT !.echoed = echoed, !.then = "playback"]
    BY <2>1 DEF RunStands, Untouched
  <2>3. IF run.voicing THEN rpc' = "spoken" ELSE rpc' \in {"await", "playback"}
    BY <2>1 DEF RunStands
  <2>4. {"job", "voicing", "then"} \subseteq DOMAIN run' /\ run'.voicing = run.voicing
    BY <1>0, <2>2 DEF RunInv
  <2> QED BY <1>0, <2>2, <2>3, <2>4, QuietStep DEF RunInv, Speaks, Untouched
<1>2. CASE RunSpoken
  <2>1. /\ rpc = "spoken" /\ speakDone /\ speakDone' = FALSE /\ rpc' = "playback" /\ run' = run
        /\ UNCHANGED <<lpc, cpc, play, heard, ppc, current, pumpJobs, cut>>
    BY <1>2 DEF RunSpoken
  <2>2. RunInv'
    BY <1>0, <2>1 DEF RunInv
  <2>3. PumpInv'
    BY <1>0, <2>1 DEF PumpInv, Pumping
  <2>4. AudioInv'
    BY <1>0, <2>1 DEF AudioInv, NoStaleAudio, Clean, Reply
  <2> QED BY <2>2, <2>3, <2>4 DEF SoundInv
<1>3. CASE RunPlayback
  <2>1. Untouched /\ rpc = "playback" /\ (cut \/ play = <<>>) /\ rpc' = "settle" /\ run' = run
    BY <1>3 DEF RunPlayback, Untouched
  <2>2. RunInv'
    BY <1>0, <2>1 DEF RunInv
  <2>3. PumpInv'
    BY <1>0, <2>1 DEF PumpInv, Pumping, Untouched, Speaks
  <2>4. Clean => play = <<>>
    <3>1. play \in Seq(Nat)
      BY <1>0 DEF AudioInv
    <3>2. Clean /\ cut => \A i \in DOMAIN play : FALSE
      BY <1>0 DEF AudioInv, NoStaleAudio, Clean
    <3>3. play # <<>> => 1 \in DOMAIN play
      BY <3>1
    <3> QED BY <2>1, <3>2, <3>3
  <2>5. AudioInv'
    BY <1>0, <2>1, <2>4 DEF AudioInv, NoStaleAudio, Clean, Reply, Untouched
  <2> QED BY <2>2, <2>3, <2>5 DEF SoundInv
<1>4. CASE RunSettle
  <2>1. Untouched /\ rpc = "settle" /\ rpc' = "finish" /\ run' = run
    BY <1>4 DEF RunSettle, Untouched
  <2> QED BY <1>0, <2>1, QuietStep DEF RunInv, Speaks, Untouched
<1>5. CASE RunFinish
  <2>1. /\ rpc = "finish" /\ rpc' = "unbusy" /\ cut' = TRUE /\ run' = [run EXCEPT !.empty = NoneWaits]
        /\ UNCHANGED <<lpc, cpc, play, heard, ppc, current, pumpJobs, speakDone>>
    BY <1>5 DEF RunFinish
  <2>2. {"job", "voicing", "then"} \subseteq DOMAIN run' /\ RunInv'
    BY <1>0, <2>1 DEF RunInv
  <2>3. ~Speaks /\ ~pumpJobs /\ ~Pumping /\ ~speakDone /\ ~current
    BY <1>0, <2>1 DEF PumpInv, Speaks
  <2>4. PumpInv'
    BY <2>1, <2>3 DEF PumpInv, Pumping
  <2>5. Clean' => play' = <<>>
    BY <1>0, <2>1, <2>3 DEF AudioInv, Clean
  <2>6. AudioInv'
    BY <1>0, <2>1, <2>3, <2>5 DEF AudioInv, NoStaleAudio, Clean
  <2> QED BY <2>2, <2>4, <2>6 DEF SoundInv
<1> QED BY <1>1, <1>2, <1>3, <1>4, <1>5

\* The responder leaves the sound right.
LEMMA ResponderKeepsSound == ASSUME SoundInv, Responder PROVE SoundInv'
BY RespondKeepsSound, ArmKeepsSound, WriteKeepsSound, ReplyKeepsSound, AwaitKeepsSound, PlayKeepsSound DEF Responder, Run

-----------------------------------------------------------------------------
\* Only the listener moves the turns.
LEMMA TurnKept ==
  ASSUME Application \/ Responder \/ Pump
  PROVE  UNCHANGED <<lpc, ear, utt, seq, released>>
<1> USE DEF listenVars, turnVars
<1>1. CASE Application
  BY <1>1 DEF Application, StepFrame, StepCount, Say, Note, SetSpeaker, CloseCancel, CloseStop, CloseDone
<1>2. CASE Pump
  BY <1>2 DEF Pump, PumpTake, PumpRead, PumpWrite, PumpDone, PumpStop
<1>3. CASE RespondJob \/ RespondNoted \/ RespondMoment \/ RespondStop
  BY <1>3 DEF RespondJob, RespondNoted, RespondMoment, RespondStop, StartRun
<1>4. CASE Run
  BY <1>4 DEF Run, RunUnhold, RunArm, RunNothing, RunReply, RunWrite, RunCalls, RunAgain, RunTranscribe, RunWritten,
     RunStands, RunSpoken, RunAwait, RunAwake, RunPlayback, RunSettle, RunFinish, RunUnbusy
<1> QED BY <1>1, <1>2, <1>3, <1>4 DEF Responder

\* Tools run only for a job whose turn is the released one, or that has none.
LEMMA CallsFollow ==
  ASSUME Responder
  PROVE  UNCHANGED called \/ called' = called \cup {0} \/ called' = called \cup {released}
<1>1. ASSUME NEW ok, Awaited(ok) PROVE UNCHANGED called \/ (ok /\ called' = called \cup {run.job.id})
  <2>1. CASE run.then = "skip"
    BY <1>1, <2>1 DEF Awaited
  <2>2. CASE run.then = "call"
    BY <1>1, <2>2 DEF Awaited
  <2>3. CASE run.then # "skip" /\ run.then # "call"
    BY <1>1, <2>3 DEF Awaited
  <2> QED BY <2>1, <2>2, <2>3
<1>2. CASE RunAwait
  BY <1>1, <1>2 DEF RunAwait, TurnOver
<1>3. CASE RunAwake
  BY <1>1, <1>3 DEF RunAwake
<1>4. CASE RespondJob \/ RespondNoted \/ RespondMoment \/ RespondStop
  BY <1>4 DEF RespondJob, RespondNoted, RespondMoment, RespondStop
<1>5. CASE Run /\ ~RunAwait /\ ~RunAwake
  BY <1>5 DEF Run, RunUnhold, RunArm, RunNothing, RunReply, RunWrite, RunCalls, RunAgain, RunTranscribe, RunWritten,
     RunStands, RunSpoken, RunPlayback, RunSettle, RunFinish, RunUnbusy
<1> QED BY <1>2, <1>3, <1>4, <1>5 DEF Responder, Run

\* The steps of the others leave the turns right.
LEMMA OthersKeepTurn == ASSUME TurnInv, Application \/ Responder \/ Pump PROVE TurnInv'
<1>1. UNCHANGED <<lpc, ear, seq, released>>
  BY TurnKept
<1>2. UNCHANGED called \/ called' = called \cup {0} \/ called' = called \cup {released}
  BY RespondKept, CallsFollow
<1>3. 0 \in 0..released /\ released \in 0..released /\ called \subseteq 0..released
  BY DEF TurnInv
<1>4. called' \subseteq 0..released
  BY <1>2, <1>3, Zenon
<1> QED BY <1>1, <1>4 DEF TurnInv

\* What the helpers leave of the listener's locals.
LEMMA EarKept ==
  ASSUME NEW e, {"talked", "pending", "after"} \subseteq DOMAIN e
  PROVE  /\ {"talked", "pending", "after"} \subseteq DOMAIN Forget(e)
         /\ Forget(e).talked = 0 /\ Forget(e).pending = 0 /\ Forget(e).after = e.after
         /\ {"talked", "pending", "after"} \subseteq DOMAIN Rest(e)
         /\ Rest(e).talked = e.talked /\ Rest(e).pending = e.pending /\ Rest(e).after = "frame"
BY DEF Forget, Rest

\* The listener leaves the turns right.
LEMMA ListenKeepsTurn == ASSUME TurnInv, Listener PROVE TurnInv'
<1> DEFINE fields == {"talked", "pending", "after"}
<1> USE DEF turnVars
<1>0. called' = called
  BY RespondKept
<1>1. CASE \E speaking, recent, long \in BOOLEAN : ListenFrame(speaking, recent, long)
  <2>1. PICK speaking, recent, long \in BOOLEAN : ListenFrame(speaking, recent, long)
    BY <1>1
  <2> DEFINE fresh == audible /\ recent
             done == ear.answered /\ ((audible /\ ~fresh) \/ ~busy)
             f == IF done THEN Forget(ear) ELSE ear
             e == [f EXCEPT !.speaking = speaking, !.audible = audible, !.stopped = @ /\ audible]
  <2>2. fields \subseteq DOMAIN f /\ f.pending \in {0, ear.pending} /\ f.after = ear.after
    BY EarKept DEF TurnInv
  <2>3. fields \subseteq DOMAIN e /\ e.pending = f.pending /\ e.after = f.after
    BY <2>2
  <2>4. /\ lpc = "frame" /\ UNCHANGED <<seq, released>>
        /\ \/ lpc' = "cancel" /\ ear' = [e EXCEPT !.pending = 0, !.after = "hear"]
           \/ lpc' = "cancel" /\ ear' = [e EXCEPT !.answered = FALSE, !.stopped = TRUE, !.after = "hear"]
           \/ lpc' = "hear" /\ ear' = e
           \/ lpc' = "frame" /\ ear' = Rest(e)
    BY <2>1 DEF ListenFrame
  <2> HIDE DEF e, f
  <2>5. fields \subseteq DOMAIN ear' /\ ear'.pending \in {0, e.pending} /\ ear'.after \in {"frame", "hear", e.after}
    BY <2>3, <2>4, EarKept
  <2> QED BY <1>0, <2>2, <2>3, <2>4, <2>5 DEF TurnInv
<1>2. CASE ListenCancel
  BY <1>0, <1>2 DEF ListenCancel, TurnInv
<1>3. CASE ListenReset
  <2>1. fields \subseteq DOMAIN ear' /\ ear'.pending = ear.pending /\ ear'.after = ear.after
    BY <1>3, EarKept DEF ListenReset, TurnInv
  <2> QED BY <1>0, <1>3, <2>1 DEF ListenReset, TurnInv
<1>4. CASE ListenHear
  <2>1. PICK t : LET e == [ear EXCEPT !.talked = t] IN
                 \/ ear' = e /\ lpc' \in {"over", "pause"}
                 \/ ear' = Rest(e) /\ lpc' = "frame"
    BY <1>4 DEF ListenHear
  <2> DEFINE e == [ear EXCEPT !.talked = t]
  <2>2. fields \subseteq DOMAIN e /\ e.pending = ear.pending /\ e.after = ear.after
    BY DEF TurnInv
  <2>3. (ear' = e /\ lpc' \in {"over", "pause"}) \/ (ear' = Rest(e) /\ lpc' = "frame")
    BY <2>1
  <2> HIDE DEF e
  <2>4. fields \subseteq DOMAIN ear' /\ ear'.pending = ear.pending /\ ear'.after \in {"frame", ear.after}
    BY <2>2, <2>3, EarKept
  <2>5. lpc = "hear" /\ UNCHANGED <<seq, released>>
    BY <1>4 DEF ListenHear
  <2> QED BY <1>0, <2>3, <2>4, <2>5 DEF TurnInv
<1>5. CASE ListenOver
  <2>1. /\ lpc = "over" /\ UNCHANGED <<seq, released>>
        /\ \/ ear' = Rest(ear) /\ lpc' = "frame"
           \/ ear' = [ear EXCEPT !.stopped = TRUE] /\ lpc' = "cancel"
           \/ ear' = Rest(Forget(ear)) /\ lpc' = "frame"
    BY <1>5 DEF ListenOver
  <2>2. fields \subseteq DOMAIN Forget(ear) /\ Forget(ear).pending = 0
    BY EarKept DEF TurnInv
  <2>3. fields \subseteq DOMAIN ear' /\ ear'.pending \in {0, ear.pending} /\ ear'.after \in {"frame", ear.after}
    BY <2>1, <2>2, EarKept DEF TurnInv
  <2> QED BY <1>0, <2>1, <2>3 DEF TurnInv
<1>6. CASE ListenPause
  <2>1. /\ lpc = "pause" /\ UNCHANGED <<seq, released>>
        /\ \/ ear.pending = 0 /\ ear' = [ear EXCEPT !.after = "dispatch"] /\ lpc' = "cancel"
           \/ ~(ear.pending = 0 /\ ear.talked = 2) /\ ear' = ear /\ lpc' = "judge"
    BY <1>6 DEF ListenPause
  <2>2. fields \subseteq DOMAIN ear' /\ ear'.pending = ear.pending /\ ear'.talked = ear.talked
        /\ ear'.after \in {"dispatch", ear.after} /\ (ear'.after = "dispatch" /\ ear.after # "dispatch" => ear.pending = 0)
    BY <2>1 DEF TurnInv
  <2> QED BY <1>0, <2>1, <2>2 DEF TurnInv
<1>7. CASE ListenDispatch
  BY <1>0, <1>7 DEF ListenDispatch, TurnInv
<1>8. CASE ListenSend
  <2>1. fields \subseteq DOMAIN ear' /\ ear'.pending = seq /\ ear'.after = "frame"
    BY <1>8 DEF ListenSend, TurnInv
  <2> QED BY <1>0, <1>8, <2>1 DEF ListenSend, TurnInv
<1>9. CASE \E over \in BOOLEAN : ListenJudge(over)
  <2>1. /\ lpc = "judge" /\ UNCHANGED seq
        /\ \/ ear.talked = 2 /\ released' = ear.pending /\ lpc' = "release" /\ ear' = ear
           \/ lpc' = "frame" /\ released' = released /\ ear' = Rest(Forget(ear))
           \/ lpc' = "frame" /\ released' = released /\ ear' = Rest(ear)
    BY <1>9 DEF ListenJudge
  <2>2. fields \subseteq DOMAIN Forget(ear) /\ Forget(ear).pending = 0
    BY EarKept DEF TurnInv
  <2>3. fields \subseteq DOMAIN ear' /\ ear'.pending \in {0, ear.pending} /\ ear'.after \in {"frame", ear.after}
    BY <2>1, <2>2, EarKept DEF TurnInv
  <2>4. seq \in Nat /\ released \in 0..seq /\ released' \in {released, seq}
    BY <2>1 DEF TurnInv
  <2>5. released' \in 0..seq /\ called \subseteq 0..released'
    BY <2>4 DEF TurnInv
  <2> QED BY <1>0, <2>1, <2>3, <2>5 DEF TurnInv
<1>10. CASE ListenRelease
  <2>1. /\ lpc = "release" /\ lpc' = "frame" /\ UNCHANGED <<seq, released>>
        /\ ear' = Rest([ear EXCEPT !.pending = 0, !.answered = TRUE])
    BY <1>10 DEF ListenRelease
  <2> DEFINE e == [ear EXCEPT !.pending = 0, !.answered = TRUE]
  <2>2. fields \subseteq DOMAIN e /\ e.pending = 0
    BY DEF TurnInv
  <2> HIDE DEF e
  <2>3. ear' = Rest(e)
    BY <2>1 DEF e
  <2>4. fields \subseteq DOMAIN ear' /\ ear'.pending = 0 /\ ear'.after = "frame"
    BY <2>2, <2>3, EarKept
  <2> QED BY <1>0, <2>1, <2>4 DEF TurnInv
<1>11. CASE ListenStop
  BY <1>0, <1>11 DEF ListenStop, TurnInv
<1> QED BY <1>1, <1>2, <1>3, <1>4, <1>5, <1>6, <1>7, <1>8, <1>9, <1>10, <1>11 DEF Listener

-----------------------------------------------------------------------------
\* Nothing plays and no turn is over as the agent begins.
LEMMA InitInv == Init => SoundInv /\ TurnInv
<1> SUFFICES ASSUME Init PROVE SoundInv /\ TurnInv
  OBVIOUS
<1>1. RunInv
  BY DEF Init, RunInv, NoRun
<1>2. PumpInv
  BY DEF Init, PumpInv, Pumping
<1>3. AudioInv
  BY DEF Init, AudioInv, NoStaleAudio
<1>4. TurnInv
  BY DEF Init, TurnInv, NoEar
<1> QED BY <1>1, <1>2, <1>3, <1>4 DEF SoundInv

\* Every step of every goroutine keeps the sound and the turns right.
LEMMA NextInv == SoundInv /\ TurnInv /\ [Next]_vars => SoundInv' /\ TurnInv'
<1> SUFFICES ASSUME SoundInv, TurnInv, [Next]_vars PROVE SoundInv' /\ TurnInv'
  OBVIOUS
<1>1. CASE Application \/ Listener
  BY <1>1, ListenKeepsSound, ListenKeepsTurn, OthersKeepTurn
<1>2. CASE Responder
  BY <1>2, ResponderKeepsSound, OthersKeepTurn
<1>3. CASE Pump
  BY <1>3, PumpKeepsSound, OthersKeepTurn
<1>4. CASE UNCHANGED vars
  <2>1. UNCHANGED <<rpc, run, ppc, current, pumpJobs, speakDone, play, heard, cut, lpc, ear, cpc, seq, released, called>>
    BY <1>4 DEF vars, audioVars, turnVars, jobVars, listenVars, respondVars, pumpVars, appVars
  <2>2. RunInv' /\ PumpInv' /\ AudioInv'
    BY <2>1 DEF SoundInv, RunInv, PumpInv, AudioInv, NoStaleAudio, Speaks, Pumping, Clean, Reply
  <2>3. TurnInv'
    BY <2>1 DEF TurnInv
  <2> QED BY <2>2, <2>3 DEF SoundInv
<1> QED BY <1>1, <1>2, <1>3, <1>4 DEF Next, Within

\* However the application, the listener, the responder and the pump
\* interleave, once interrupt is done no frame of an earlier or a cut reply
\* is left in playback for Step to play.
THEOREM NoAudioIsStale == Spec => []NoStaleAudio
<1>1. SoundInv => NoStaleAudio
  BY DEF SoundInv, AudioInv
<1> QED BY <1>1, InitInv, NextInv, PTL DEF Spec

\* awaitTurn lets the tools of an answer run only once releaseTurn has ended
\* that answer's turn, or a later one, whatever stale signal it finds.
THEOREM ToolsWaitForTurn == Spec => []ToolsAfterTurn
<1>1. TurnInv => ToolsAfterTurn
  BY DEF TurnInv, ToolsAfterTurn
<1> QED BY <1>1, InitInv, NextInv, PTL DEF Spec

-----------------------------------------------------------------------------
\* The bounds of a behaviour are those of an instance.
LimitsInv == limits \in Limits

\* The flags, and the places and the small values.
FlagInv ==
  /\ held \in BOOLEAN /\ late \in BOOLEAN /\ resumed \in BOOLEAN /\ release \in BOOLEAN
  /\ noted \in BOOLEAN /\ momentDue \in BOOLEAN /\ hearing \in BOOLEAN /\ silentUntil \in BOOLEAN
  /\ busy \in BOOLEAN /\ cancel \in BOOLEAN /\ cut \in BOOLEAN
  /\ current \in BOOLEAN /\ pumpJobs \in BOOLEAN /\ speakDone \in BOOLEAN
PlaceInv ==
  /\ rpc \in {"idle", "moment", "unhold", "arm", "transcribe", "reply", "write", "written",
              "await", "asleep", "spoken", "playback", "settle", "finish", "unbusy", "exited"}
  /\ ppc \in {"idle", "read", "write", "done", "exited"} /\ cpc \in {"open", "stop", "wait", "closed"}
  /\ played \in Nat /\ said \in 0..MaxSays
  /\ speaker \in Speaker \cup {NoOne} /\ lastSpeaker \in Speaker \cup {NoOne}

\* The utterances and the turns stay within their bounds: speech is heard
\* only while another answer may be dispatched, and an utterance has audio
\* only while its generation may end.
EarRecord == [speaking : BOOLEAN, audible : BOOLEAN, talked : 0..2, pending : 0..MaxPauses,
              answered : BOOLEAN, stopped : BOOLEAN, after : {"frame", "hear", "dispatch"}]
EarInv ==
  /\ lpc \in {"frame", "cancel", "reset", "hear", "over", "pause", "dispatch", "send", "judge", "release", "exited"}
  /\ ear \in EarRecord /\ utt \in [gen : 0..MaxUtterances, open : BOOLEAN] /\ seq \in 0..MaxPauses
  /\ utt.open \/ lpc \notin {"frame", "exited"} => utt.gen < MaxUtterances
  /\ \/ ear.answered \/ ear.after = "dispatch"
     \/ lpc \in {"over", "pause", "dispatch", "send", "judge", "release"}
     => utt.open
  /\ lpc \in {"pause", "dispatch", "send", "judge", "release"} \/ ear.after = "dispatch" => ~ear.speaking
  /\ lpc # "send" /\ (ear.speaking \/ (ear.talked = 2 /\ ear.pending = 0 /\ ~ear.answered)) => seq < MaxPauses
  /\ lpc = "send" => seq # 0
  /\ ear.after = "dispatch" => ear.talked = 2 /\ ~ear.answered
  /\ lpc = "pause" => ~ear.answered

\* A reply that has its place in the conversation.
Active == rpc \in {"transcribe", "reply", "write", "written", "await", "asleep", "spoken", "playback", "settle"}
Calls == rpc \in {"await", "asleep"} /\ run.then = "call"

RunRecord == [job : Job, mark : Nat, replyMark : Nat, said : 0..MaxPieces, rounds : 0..MaxRounds,
              from : 0..MaxPieces, voicing : BOOLEAN, called : BOOLEAN, retried : BOOLEAN,
              overruled : BOOLEAN, echoed : BOOLEAN, err : BOOLEAN,
              then : {"finish", "skip", "call", "playback"}, empty : BOOLEAN]

\* The queue, the voice and playback hold what their bounds allow.
JobsInv == jobs \in Seq(Job) /\ Len(jobs) <= JobsCap
VoiceInv == voice \in [written : 0..MaxPieces, read : 0..MaxPieces, ended : BOOLEAN] /\ voice.read <= voice.written
PlayInv == play \in Seq(1..Len(heard))

\* The marks of a reply lie within the conversation, and its message behind
\* them until it stands; the voice has what was written.
ReplyInv ==
  /\ run \in RunRecord /\ session \in Seq(Msg) /\ run.mark <= Len(session)
  /\ Active => /\ run.mark <= run.replyMark /\ run.replyMark <= Len(session)
               /\ voice.written = run.said /\ heard # <<>>
  /\ rpc \in {"write", "written"} \/ Calls => run.replyMark < Len(session)
  /\ rpc \in {"spoken", "playback", "settle"} \/ (rpc \in {"await", "asleep"} /\ run.then # "skip") => session # <<>>
  /\ rpc = "write" => LastOf(session).len + run.from = run.said
  /\ Calls => run.rounds + 1 < MaxRounds

\* What no Restore takes back: all of the conversation, but for the reply
\* under way only what comes before its mark.  The notes that joined the
\* conversation are there, and the choice of the silence that is kept.
Keep == IF Active THEN run.mark ELSE Len(session)
KeepInv ==
  /\ told \in 0..MaxNotes /\ notes \in Seq(1..told) /\ NotesKept
  /\ \A i \in DOMAIN session : Keep < i => session[i].role # "note"
  /\ silentUntil => \E i \in 1..Keep : session[i].role = "hush"


FullInv == LimitsInv /\ FlagInv /\ PlaceInv /\ EarInv /\ JobsInv /\ VoiceInv /\ PlayInv /\ ReplyInv /\ KeepInv
           /\ SoundInv /\ TurnInv

-----------------------------------------------------------------------------
\* What CascadeAssumption says of the bounds of a behaviour.
LEMMA Bounds ==
  ASSUME LimitsInv
  PROVE  /\ MaxPauses \in Nat /\ MaxUtterances \in Nat /\ MaxSays \in Nat /\ MaxNotes \in Nat /\ MaxPieces \in Nat
         /\ JobsCap \in Nat \ {0} /\ MaxRounds \in Nat \ {0} /\ NoOne \notin Speaker
<1>1. {limits.JobsCap, limits.MaxRounds} \subseteq Nat \ {0} /\ NoOne \notin limits.Speaker
  BY CascadeAssumption DEF LimitsInv
<1>2. {limits.MaxPauses, limits.MaxUtterances, limits.MaxSays, limits.MaxNotes, limits.MaxPieces} \subseteq Nat
  BY CascadeAssumption DEF LimitsInv
<1> QED BY <1>1, <1>2 DEF MaxPauses, MaxUtterances, MaxSays, MaxNotes, MaxPieces, JobsCap, MaxRounds, Speaker

\* The bounds, and the sets built from them, do not change.
LEMMA Fixed ==
  ASSUME UNCHANGED limits
  PROVE  /\ MaxPauses' = MaxPauses /\ MaxUtterances' = MaxUtterances /\ MaxSays' = MaxSays /\ MaxNotes' = MaxNotes
         /\ MaxPieces' = MaxPieces /\ JobsCap' = JobsCap /\ MaxRounds' = MaxRounds /\ Speaker' = Speaker
         /\ Job' = Job /\ Msg' = Msg /\ EarRecord' = EarRecord /\ RunRecord' = RunRecord
BY DEF MaxPauses, MaxUtterances, MaxSays, MaxNotes, MaxPieces, JobsCap, MaxRounds, Speaker, Job, Msg, EarRecord, RunRecord

\* A message more.
LEMMA Appended ==
  ASSUME NEW S, NEW s \in Seq(S), NEW x \in S
  PROVE  /\ Append(s, x) \in Seq(S) /\ Len(Append(s, x)) = Len(s) + 1 /\ Len(s) \in Nat
         /\ Append(s, x)[Len(s) + 1] = x
         /\ \A i \in 1..Len(s) : Append(s, x)[i] = s[i]
OBVIOUS

\* What SubSeq leaves of a prefix.
LEMMA Prefix ==
  ASSUME NEW S, NEW s \in Seq(S), NEW n \in 0..Len(s)
  PROVE  /\ SubSeq(s, 1, n) \in Seq(S) /\ Len(SubSeq(s, 1, n)) = n
         /\ \A i \in 1..n : SubSeq(s, 1, n)[i] = s[i]
<1>1. Len(s) \in Nat /\ \A i \in 1..Len(s) : s[i] \in S
  OBVIOUS
<1>2. \A i \in 1..n : s[i] \in S
  BY <1>1
<1> QED BY <1>1, <1>2

\* The last message is replaced.
LEMMA LastReplaced ==
  ASSUME NEW S, NEW s \in Seq(S), s # <<>>, NEW x \in S
  PROVE  /\ Append(AllBut(s), x) \in Seq(S) /\ Len(Append(AllBut(s), x)) = Len(s) /\ Len(s) \in Nat \ {0}
         /\ Append(AllBut(s), x)[Len(s)] = x /\ LastOf(s) = s[Len(s)] /\ LastOf(s) \in S
         /\ \A i \in 1..(Len(s) - 1) : Append(AllBut(s), x)[i] = s[i]
<1>1. Len(s) \in Nat \ {0} /\ LastOf(s) = s[Len(s)] /\ LastOf(s) \in S
  BY DEF LastOf
<1> DEFINE n == Len(s) - 1
<1>2. n \in 0..Len(s) /\ AllBut(s) = SubSeq(s, 1, n)
  BY <1>1 DEF AllBut
<1> HIDE DEF n
<1>3. AllBut(s) \in Seq(S) /\ Len(AllBut(s)) = n /\ \A i \in 1..n : AllBut(s)[i] = s[i]
  BY <1>2, Prefix
<1>4. /\ Append(AllBut(s), x) \in Seq(S) /\ Len(Append(AllBut(s), x)) = n + 1
      /\ Append(AllBut(s), x)[n + 1] = x
      /\ \A i \in 1..n : Append(AllBut(s), x)[i] = AllBut(s)[i]
  BY <1>3, Appended
<1>5. n + 1 = Len(s) /\ n = Len(s) - 1
  BY <1>1 DEF n
<1> QED BY <1>1, <1>3, <1>4, <1>5

\* The messages of the conversation.
LEMMA Messages ==
  ASSUME LimitsInv
  PROVE  /\ \A n \in Nat : NoteMsg(n) \in Msg /\ NoteMsg(n).role = "note" /\ NoteMsg(n).of = n
         /\ \A s \in Speaker \cup {NoOne} : SpeakerMsg(s) \in Msg /\ SpeakerMsg(s).role = "speaker"
         /\ \A j \in Job : UserMsg(j) \in Msg /\ UserMsg(j).role = "user"
         /\ ToolMsg \in Msg /\ ToolMsg.role = "tool"
         /\ \A n \in Nat, l \in 0..MaxPieces :
              /\ ReplyMsg("reply", n, l) \in Msg /\ ReplyMsg("reply", n, l).role = "reply" /\ ReplyMsg("reply", n, l).len = l
              /\ ReplyMsg("added", n, l) \in Msg /\ ReplyMsg("added", n, l).role = "added"
<1>1. MaxPieces \in Nat /\ 0 \in 0..MaxPieces /\ MaxUtterances \in Nat
  BY Bounds
<1>2. \A j \in Job : UserMsg(j) \in Msg /\ UserMsg(j).role = "user"
  <2> SUFFICES ASSUME NEW j \in Job PROVE UserMsg(j) \in Msg /\ UserMsg(j).role = "user"
    OBVIOUS
  <2>1. j.utt \in Nat /\ j.who \in Speaker \cup {NoOne}
    BY <1>1 DEF Job, SayJob, Moment
  <2> QED BY <1>1, <2>1 DEF Msg, UserMsg
<1> QED BY <1>1, <1>2 DEF Msg, NoteMsg, SpeakerMsg, ToolMsg, ReplyMsg

-----------------------------------------------------------------------------
\* The flags after a step: first the steps that set one.
LEMMA FlagsStep == ASSUME FlagInv, Application \/ Listener \/ Responder \/ Pump PROVE FlagInv'
<1> USE DEF audioVars, turnVars, noteVars, jobVars, listenVars, talkVars, respondVars, pumpVars, appVars
<1>1. CASE StepFrame
  <2>1. late' \in BOOLEAN
    BY <1>1 DEF StepFrame, FlagInv
  <2>2. UNCHANGED <<held, resumed, release, noted, momentDue, hearing, silentUntil, busy, cancel, cut, current, pumpJobs, speakDone>>
    BY <1>1 DEF StepFrame
  <2> QED BY <2>1, <2>2 DEF FlagInv
<1>2. CASE StepCount
  <2>1. late' \in BOOLEAN
    BY <1>2 DEF StepCount, FlagInv
  <2>2. UNCHANGED <<held, resumed, release, noted, momentDue, hearing, silentUntil, busy, cancel, cut, current, pumpJobs, speakDone>>
    BY <1>2 DEF StepCount
  <2> QED BY <2>1, <2>2 DEF FlagInv
<1>3. CASE Note
  <2>1. noted' \in BOOLEAN
    BY <1>3 DEF Note, FlagInv
  <2>2. UNCHANGED <<held, late, resumed, release, momentDue, hearing, silentUntil, busy, cancel, cut, current, pumpJobs, speakDone>>
    BY <1>3 DEF Note
  <2> QED BY <2>1, <2>2 DEF FlagInv
<1>4. CASE CloseCancel
  <2>1. cut' \in BOOLEAN
    BY <1>4 DEF CloseCancel, FlagInv
  <2>2. UNCHANGED <<held, late, resumed, release, noted, momentDue, hearing, silentUntil, busy, cancel, current, pumpJobs, speakDone>>
    BY <1>4 DEF CloseCancel
  <2> QED BY <2>1, <2>2 DEF FlagInv
<1>5. CASE ListenCancel
  <2>1. cut' \in BOOLEAN /\ cancel' \in BOOLEAN
    BY <1>5 DEF ListenCancel, FlagInv
  <2>2. UNCHANGED <<held, late, resumed, release, noted, momentDue, hearing, silentUntil, busy, current, pumpJobs, speakDone>>
    BY <1>5 DEF ListenCancel
  <2> QED BY <2>1, <2>2 DEF FlagInv
<1>6. CASE ListenReset
  <2>1. current' \in BOOLEAN
    BY <1>6 DEF ListenReset, FlagInv
  <2>2. UNCHANGED <<held, late, resumed, release, noted, momentDue, hearing, silentUntil, busy, cancel, cut, pumpJobs, speakDone>>
    BY <1>6 DEF ListenReset
  <2> QED BY <2>1, <2>2 DEF FlagInv
<1>7. CASE ListenHear
  <2>1. hearing' \in BOOLEAN
    BY <1>7 DEF ListenHear, FlagInv
  <2>2. UNCHANGED <<held, late, resumed, release, noted, momentDue, silentUntil, busy, cancel, cut, current, pumpJobs, speakDone>>
    BY <1>7 DEF ListenHear
  <2> QED BY <2>1, <2>2 DEF FlagInv
<1>8. CASE ListenOver
  <2>1. hearing' \in BOOLEAN /\ noted' \in BOOLEAN
    BY <1>8 DEF ListenOver, resetUtterance, FlagInv
  <2>2. UNCHANGED <<held, late, resumed, release, momentDue, silentUntil, busy, cancel, cut, current, pumpJobs, speakDone>>
    BY <1>8 DEF ListenOver, resetUtterance
  <2> QED BY <2>1, <2>2 DEF FlagInv
<1>9. CASE ListenDispatch
  <2>1. held' \in BOOLEAN /\ busy' \in BOOLEAN
    BY <1>9 DEF ListenDispatch, FlagInv
  <2>2. UNCHANGED <<late, resumed, release, noted, momentDue, hearing, silentUntil, cancel, cut, current, pumpJobs, speakDone>>
    BY <1>9 DEF ListenDispatch
  <2> QED BY <2>1, <2>2 DEF FlagInv
<1>10. CASE ListenRelease
  <2>1. held' \in BOOLEAN /\ release' \in BOOLEAN /\ hearing' \in BOOLEAN
    BY <1>10 DEF ListenRelease, Signal, FlagInv
  <2>2. UNCHANGED <<late, resumed, noted, momentDue, silentUntil, busy, cancel, cut, current, pumpJobs, speakDone>>
    BY <1>10 DEF ListenRelease, Signal
  <2> QED BY <2>1, <2>2 DEF FlagInv
<1>11. CASE RespondJob
  <2>1. momentDue' \in BOOLEAN /\ resumed' \in BOOLEAN
    BY <1>11 DEF RespondJob, StartRun, FlagInv
  <2>2. UNCHANGED <<held, late, release, noted, hearing, silentUntil, busy, cancel, cut, current, pumpJobs, speakDone>>
    BY <1>11 DEF RespondJob, StartRun
  <2> QED BY <2>1, <2>2 DEF FlagInv
<1>12. CASE RespondNoted
  <2>1. noted' \in BOOLEAN /\ momentDue' \in BOOLEAN
    BY <1>12 DEF RespondNoted, FlagInv
  <2>2. UNCHANGED <<held, late, resumed, release, hearing, silentUntil, busy, cancel, cut, current, pumpJobs, speakDone>>
    BY <1>12 DEF RespondNoted
  <2> QED BY <2>1, <2>2 DEF FlagInv
<1>13. CASE RespondMoment
  <2>1. busy' \in BOOLEAN /\ momentDue' \in BOOLEAN /\ resumed' \in BOOLEAN
    BY <1>13 DEF RespondMoment, StartRun, FlagInv
  <2>2. UNCHANGED <<held, late, release, noted, hearing, silentUntil, cancel, cut, current, pumpJobs, speakDone>>
    BY <1>13 DEF RespondMoment, StartRun
  <2> QED BY <2>1, <2>2 DEF FlagInv
<1>14. CASE RunUnhold
  <2>1. held' \in BOOLEAN
    BY <1>14 DEF RunUnhold, Unhold, FlagInv
  <2>2. UNCHANGED <<late, resumed, release, noted, momentDue, hearing, silentUntil, busy, cancel, cut, current, pumpJobs, speakDone>>
    BY <1>14 DEF RunUnhold, Unhold
  <2> QED BY <2>1, <2>2 DEF FlagInv
<1>15. CASE RunArm
  <2>1. cancel' \in BOOLEAN /\ cut' \in BOOLEAN /\ pumpJobs' \in BOOLEAN
    BY <1>15 DEF RunArm, FlagInv
  <2>2. UNCHANGED <<held, late, resumed, release, noted, momentDue, hearing, silentUntil, busy, current, speakDone>>
    BY <1>15 DEF RunArm
  <2> QED BY <2>1, <2>2 DEF FlagInv
<1>16. CASE RunWrite
  <2>1. pumpJobs' \in BOOLEAN
    BY <1>16 DEF RunWrite, FlagInv
  <2>2. UNCHANGED <<held, late, resumed, release, noted, momentDue, hearing, silentUntil, busy, cancel, cut, current, speakDone>>
    BY <1>16 DEF RunWrite
  <2> QED BY <2>1, <2>2 DEF FlagInv
<1>17. CASE RunSpoken
  <2>1. speakDone' \in BOOLEAN
    BY <1>17 DEF RunSpoken, FlagInv
  <2>2. UNCHANGED <<held, late, resumed, release, noted, momentDue, hearing, silentUntil, busy, cancel, cut, current, pumpJobs>>
    BY <1>17 DEF RunSpoken
  <2> QED BY <2>1, <2>2 DEF FlagInv
<1>18. CASE RunAwake
  <2>1. release' \in BOOLEAN
    BY <1>18 DEF RunAwake, FlagInv
  <2>2. UNCHANGED <<held, late, resumed, noted, momentDue, hearing, silentUntil, busy, cancel, cut, current, pumpJobs, speakDone>>
    BY <1>18 DEF RunAwake
  <2> QED BY <2>1, <2>2 DEF FlagInv
<1>19. CASE RunSettle
  <2>1. silentUntil' \in BOOLEAN
    BY <1>19 DEF RunSettle, FlagInv
  <2>2. UNCHANGED <<held, late, resumed, release, noted, momentDue, hearing, busy, cancel, cut, current, pumpJobs, speakDone>>
    BY <1>19 DEF RunSettle
  <2> QED BY <2>1, <2>2 DEF FlagInv
<1>20. CASE RunFinish
  <2>1. cut' \in BOOLEAN /\ cancel' \in BOOLEAN
    BY <1>20 DEF RunFinish, FlagInv
  <2>2. UNCHANGED <<held, late, resumed, release, noted, momentDue, hearing, silentUntil, busy, current, pumpJobs, speakDone>>
    BY <1>20 DEF RunFinish
  <2> QED BY <2>1, <2>2 DEF FlagInv
<1>21. CASE RunUnbusy
  <2>1. busy' \in BOOLEAN
    BY <1>21 DEF RunUnbusy, FlagInv
  <2>2. UNCHANGED <<held, late, resumed, release, noted, momentDue, hearing, silentUntil, cancel, cut, current, pumpJobs, speakDone>>
    BY <1>21 DEF RunUnbusy
  <2> QED BY <2>1, <2>2 DEF FlagInv
<1>22. CASE PumpTake
  <2>1. pumpJobs' \in BOOLEAN /\ current' \in BOOLEAN
    BY <1>22 DEF PumpTake, FlagInv
  <2>2. UNCHANGED <<held, late, resumed, release, noted, momentDue, hearing, silentUntil, busy, cancel, cut, speakDone>>
    BY <1>22 DEF PumpTake
  <2> QED BY <2>1, <2>2 DEF FlagInv
<1>23. CASE PumpDone
  <2>1. speakDone' \in BOOLEAN /\ current' \in BOOLEAN
    BY <1>23 DEF PumpDone, FlagInv
  <2>2. UNCHANGED <<held, late, resumed, release, noted, momentDue, hearing, silentUntil, busy, cancel, cut, pumpJobs>>
    BY <1>23 DEF PumpDone
  <2> QED BY <2>1, <2>2 DEF FlagInv
<1>24. CASE \E speaking, recent, long \in BOOLEAN : ListenFrame(speaking, recent, long)
  <2>1. /\ resumed' = resumed \/ resumed' = TRUE
        /\ (hearing' = hearing /\ noted' = noted) \/ (hearing' = FALSE /\ noted' = (noted \/ momentDue))
    BY <1>24 DEF ListenFrame, resetUtterance
  <2>2. resumed' \in BOOLEAN /\ hearing' \in BOOLEAN /\ noted' \in BOOLEAN
    BY <2>1 DEF FlagInv
  <2>3. UNCHANGED <<held, late, release, momentDue, silentUntil, busy, cancel, cut, current, pumpJobs, speakDone>>
    BY <1>24 DEF ListenFrame
  <2> QED BY <2>2, <2>3 DEF FlagInv
<1>25. CASE \E over \in BOOLEAN : ListenJudge(over)
  <2>1. hearing' \in BOOLEAN /\ noted' \in BOOLEAN
    BY <1>25 DEF ListenJudge, resetUtterance, FlagInv
  <2>2. UNCHANGED <<held, late, resumed, release, momentDue, silentUntil, busy, cancel, cut, current, pumpJobs, speakDone>>
    BY <1>25 DEF ListenJudge, resetUtterance
  <2> QED BY <2>1, <2>2 DEF FlagInv
<1>26. CASE Say \/ (\E s \in Speaker : SetSpeaker(s)) \/ CloseStop \/ CloseDone
  <2>1. UNCHANGED <<held, late, resumed, release, noted, momentDue, hearing, silentUntil, busy, cancel, cut, current, pumpJobs, speakDone>>
    BY <1>26 DEF Say, SetSpeaker, CloseStop, CloseDone
  <2> QED BY <2>1 DEF FlagInv
<1>27. CASE ListenPause \/ ListenSend \/ ListenStop \/ PumpRead \/ PumpWrite \/ PumpStop
  <2>1. UNCHANGED <<held, late, resumed, release, noted, momentDue, hearing, silentUntil, busy, cancel, cut, current, pumpJobs, speakDone>>
    BY <1>27 DEF ListenPause, ListenSend, ListenStop, PumpRead, PumpWrite, PumpStop
  <2> QED BY <2>1 DEF FlagInv
<1>28. CASE RespondStop \/ RunNothing \/ RunReply \/ RunCalls \/ RunAgain \/ RunAwait \/ RunPlayback
  <2>1. UNCHANGED <<held, late, resumed, release, noted, momentDue, hearing, silentUntil, busy, cancel, cut, current, pumpJobs, speakDone>>
    BY <1>28 DEF RespondStop, RunNothing, RunReply, RunCalls, RunAgain, RunAwait, RunPlayback
  <2> QED BY <2>1 DEF FlagInv
<1>29. CASE \/ \E skip \in BOOLEAN : RunTranscribe(skip)
            \/ \E err \in BOOLEAN : RunWritten(err)
            \/ \E until, echoed \in BOOLEAN : RunStands(until, echoed)
  <2>1. UNCHANGED <<held, late, resumed, release, noted, momentDue, hearing, silentUntil, busy, cancel, cut, current, pumpJobs, speakDone>>
    BY <1>29 DEF RunTranscribe, RunWritten, RunStands
  <2> QED BY <2>1 DEF FlagInv
<1> QED BY <1>1, <1>2, <1>3, <1>4, <1>5, <1>6, <1>7, <1>8, <1>9, <1>10, <1>11, <1>12, <1>13, <1>14, <1>15, <1>16, <1>17, <1>18, <1>19, <1>20, <1>21, <1>22, <1>23, <1>24, <1>25, <1>26, <1>27, <1>28, <1>29
        DEF Application, Listener, Responder, Run, Pump

\* The places and the small values after a step.
LEMMA PlaceStep ==
  ASSUME LimitsInv, PlaceInv, run.job \in Job, Application \/ Listener \/ Responder \/ Pump, UNCHANGED limits
  PROVE  PlaceInv'
<1> USE DEF audioVars, turnVars, noteVars, jobVars, listenVars, talkVars, respondVars, pumpVars, appVars
<1>0. MaxSays \in Nat /\ MaxSays' = MaxSays /\ Speaker' = Speaker
  BY Bounds, Fixed
<1>1. CASE Application
  <2>1. /\ ppc' = ppc /\ rpc' = rpc /\ lastSpeaker' = lastSpeaker /\ cpc' \in {cpc, "stop", "wait", "closed"}
        /\ played' \in {played, played + 1}
    BY <1>1 DEF Application, StepFrame, StepCount, Say, Note, SetSpeaker, CloseCancel, CloseStop, CloseDone
  <2>2. said' = said \/ (said' = said + 1 /\ said < MaxSays)
    BY <1>1 DEF Application, StepFrame, StepCount, Say, Note, SetSpeaker, CloseCancel, CloseStop, CloseDone
  <2>3. speaker' = speaker \/ speaker' \in Speaker
    BY <1>1 DEF Application, StepFrame, StepCount, Say, Note, SetSpeaker, CloseCancel, CloseStop, CloseDone
  <2> QED BY <1>0, <2>1, <2>2, <2>3 DEF PlaceInv
<1>2. CASE Listener
  <2>1. UNCHANGED <<played, lastSpeaker, ppc, speaker, said, cpc>>
    BY <1>2, ZenonT(40) DEF Listener, ListenFrame, ListenCancel, ListenReset, ListenHear, ListenOver, ListenPause,
       ListenDispatch, ListenSend, ListenRelease, ListenStop, ListenJudge
  <2> QED BY <1>0, <1>2, <2>1, RespondKept DEF PlaceInv
<1>3. CASE Pump
  <2>1. ppc' \in {"idle", "read", "write", "done", "exited"} /\ UNCHANGED <<played, lastSpeaker, speaker, said, cpc>>
    BY <1>3 DEF Pump, PumpTake, PumpRead, PumpWrite, PumpDone, PumpStop
  <2> QED BY <1>0, <1>3, <2>1, RespondKept DEF PlaceInv
<1>4. CASE Responder
  <2>1. UNCHANGED <<ppc, speaker, said, cpc>>
    <3>1. CASE RespondJob \/ RespondNoted \/ RespondMoment \/ RespondStop
      BY <3>1 DEF RespondJob, RespondNoted, RespondMoment, RespondStop
    <3>2. CASE Run
      BY <3>2 DEF Run, RunUnhold, RunArm, RunNothing, RunReply, RunWrite, RunCalls, RunAgain, RunTranscribe, RunWritten,
         RunStands, RunSpoken, RunAwait, RunAwake, RunPlayback, RunSettle, RunFinish, RunUnbusy
    <3> QED BY <1>4, <3>1, <3>2 DEF Responder
  <2>2. played' \in {played, 0}
    <3>1. CASE RespondJob \/ RespondNoted \/ RespondMoment \/ RespondStop
      BY <3>1 DEF RespondJob, RespondNoted, RespondMoment, RespondStop
    <3>2. CASE Run
      BY <3>2 DEF Run, RunUnhold, RunArm, RunNothing, RunReply, RunWrite, RunCalls, RunAgain, RunTranscribe, RunWritten,
         RunStands, RunSpoken, RunAwait, RunAwake, RunPlayback, RunSettle, RunFinish, RunUnbusy
    <3> QED BY <1>4, <3>1, <3>2 DEF Responder
  <2>3. lastSpeaker' \in {lastSpeaker, run.job.who}
    <3>1. CASE RespondJob \/ RespondNoted \/ RespondMoment \/ RespondStop
      BY <3>1 DEF RespondJob, RespondNoted, RespondMoment, RespondStop, StartRun
    <3>2. CASE \E skip \in BOOLEAN : RunTranscribe(skip)
      BY <3>2 DEF RunTranscribe
    <3>3. CASE Run /\ ~\E skip \in BOOLEAN : RunTranscribe(skip)
      BY <3>3 DEF Run, RunUnhold, RunArm, RunNothing, RunReply, RunWrite, RunCalls, RunAgain, RunWritten,
         RunStands, RunSpoken, RunAwait, RunAwake, RunPlayback, RunSettle, RunFinish, RunUnbusy
    <3> QED BY <1>4, <3>1, <3>2, <3>3 DEF Responder
  <2>4. run.job.who \in Speaker \cup {NoOne}
    BY DEF Job, SayJob, Moment
  <2>5. rpc' \in {"idle", "moment", "unhold", "arm", "transcribe", "reply", "write", "written",
                  "await", "asleep", "spoken", "playback", "settle", "finish", "unbusy", "exited"}
    <3>1. CASE RespondJob \/ RespondNoted \/ RespondMoment \/ RespondStop
      BY <3>1 DEF RespondJob, RespondNoted, RespondMoment, RespondStop, StartRun
    <3>2. CASE RunUnhold \/ RunNothing \/ RunReply \/ RunWrite \/ RunCalls \/ RunAgain \/ RunSpoken
      BY <3>2 DEF RunUnhold, RunNothing, RunReply, RunWrite, RunCalls, RunAgain, RunSpoken
    <3>3. CASE \/ \E skip \in BOOLEAN : RunTranscribe(skip)
               \/ \E err \in BOOLEAN : RunWritten(err)
               \/ \E until, echoed \in BOOLEAN : RunStands(until, echoed)
      BY <3>3 DEF RunTranscribe, RunWritten, RunStands
    <3>4. CASE RunPlayback \/ RunSettle \/ RunFinish \/ RunUnbusy
      BY <3>4 DEF RunPlayback, RunSettle, RunFinish, RunUnbusy
    <3>5. CASE RunArm
      BY <3>5 DEF RunArm
    <3>6. CASE RunAwait \/ RunAwake
      <4>1. ASSUME NEW ok, Awaited(ok) PROVE rpc' \in {"finish", "reply", "written", "playback"}
        BY <4>1 DEF Awaited
      <4> QED BY <3>6, <4>1 DEF RunAwait, RunAwake
    <3> QED BY <1>4, <3>1, <3>2, <3>3, <3>4, <3>5, <3>6 DEF Responder, Run
  <2> QED BY <1>0, <2>1, <2>2, <2>3, <2>4, <2>5 DEF PlaceInv
<1> QED BY <1>1, <1>2, <1>3, <1>4

-----------------------------------------------------------------------------
\* The listener's locals as its helpers leave them.
LEMMA EarForms ==
  ASSUME LimitsInv, NEW e \in EarRecord
  PROVE  /\ Forget(e) \in EarRecord /\ Forget(e).talked = 0 /\ Forget(e).pending = 0 /\ ~Forget(e).answered
         /\ Forget(e).after = e.after
         /\ Rest(e) \in EarRecord /\ ~Rest(e).speaking /\ Rest(e).after = "frame"
         /\ Rest(e).talked = e.talked /\ Rest(e).pending = e.pending /\ Rest(e).answered = e.answered
<1>1. 0 \in 0..2 /\ 0 \in 0..MaxPauses
  BY Bounds
<1> QED BY <1>1 DEF EarRecord, Forget, Rest

\* The next frame leaves the listener within its bounds.
LEMMA FrameEar ==
  ASSUME LimitsInv, EarInv, TurnInv, UNCHANGED limits,
         NEW speaking \in BOOLEAN, NEW recent \in BOOLEAN, NEW long \in BOOLEAN, ListenFrame(speaking, recent, long)
  PROVE  EarInv'
<1> DEFINE fresh == audible /\ recent
           done == ear.answered /\ ((audible /\ ~fresh) \/ ~busy)
           f == IF done THEN Forget(ear) ELSE ear
           e == [f EXCEPT !.speaking = speaking, !.audible = audible, !.stopped = @ /\ audible]
           goesOn == e.answered /\ busy /\ (~audible \/ fresh) /\ long
<1>0. /\ MaxPauses \in Nat /\ MaxUtterances \in Nat /\ MaxPauses' = MaxPauses /\ MaxUtterances' = MaxUtterances
      /\ EarRecord' = EarRecord
  BY Bounds, Fixed
<1>1. /\ lpc = "frame" /\ seq' = seq /\ (long => speaking)
      /\ speaking => seq < MaxPauses /\ ((~utt.open \/ done) => utt.gen + (IF done THEN 1 ELSE 0) < MaxUtterances)
      /\ IF done THEN utt' = [gen |-> utt.gen + 1, open |-> FALSE] ELSE utt' = utt
  BY DEF ListenFrame, resetUtterance
<1>2. \/ speaking /\ lpc' = "cancel" /\ ear' = [e EXCEPT !.pending = 0, !.after = "hear"]
      \/ speaking /\ lpc' = "cancel" /\ ear' = [e EXCEPT !.answered = FALSE, !.stopped = TRUE, !.after = "hear"]
      \/ (speaking \/ utt'.open) /\ lpc' = "hear" /\ ear' = e
      \/ lpc' = "frame" /\ ear' = Rest(e)
  BY DEF ListenFrame
<1>3. /\ ear \in EarRecord /\ ear.after # "dispatch" /\ ear.answered \in BOOLEAN
      /\ (ear.answered => utt.open)
      /\ utt \in [gen : 0..MaxUtterances, open : BOOLEAN] /\ (utt.open => utt.gen < MaxUtterances)
      /\ seq \in 0..MaxPauses
      /\ ear.talked = 2 /\ ear.pending = 0 /\ ~ear.answered => seq < MaxPauses
  BY <1>1 DEF EarInv, TurnInv, EarRecord
<1>4. /\ f \in EarRecord /\ f.after # "dispatch"
      /\ done => f.talked = 0 /\ ~f.answered
      /\ ~done => f = ear
  BY <1>3, EarForms
<1>5. done \in BOOLEAN /\ (done => ear.answered)
  OBVIOUS
<1>6. audible \in BOOLEAN
  BY DEF audible
<1> HIDE DEF done, f
<1>7. /\ e \in EarRecord /\ e.speaking = speaking /\ e.talked = f.talked /\ e.pending = f.pending
      /\ e.answered = f.answered /\ e.after = f.after
  BY <1>4, <1>6 DEF EarRecord
<1> HIDE DEF e
<1>8. /\ utt' \in [gen : 0..MaxUtterances, open : BOOLEAN]
      /\ speaking \/ utt'.open => utt'.gen < MaxUtterances
      /\ e.answered => utt'.open
  <2>1. CASE done
    <3>1. utt.gen < MaxUtterances /\ utt.gen \in Nat /\ utt'.gen = utt.gen + 1 /\ utt'.open = FALSE
          /\ utt' = [gen |-> utt.gen + 1, open |-> FALSE]
      BY <1>1, <1>3, <1>5, <2>1
    <3>2. speaking => utt.gen + 1 < MaxUtterances
      BY <1>1, <2>1
    <3>3. ~e.answered
      BY <1>4, <1>7, <2>1
    <3> QED BY <1>0, <3>1, <3>2, <3>3
  <2>2. CASE ~done
    BY <1>1, <1>3, <1>4, <1>7, <2>2
  <2> QED BY <2>1, <2>2
<1>9. e.talked = 2 /\ e.pending = 0 /\ ~e.answered => seq < MaxPauses
  <2>1. CASE done
    BY <1>4, <1>7, <2>1
  <2>2. CASE ~done
    BY <1>3, <1>4, <1>7, <2>2
  <2> QED BY <2>1, <2>2
<1>10. 0 \in 0..MaxPauses
  BY <1>0
<1>11. /\ ear' \in EarRecord /\ ear'.after # "dispatch" /\ (ear'.answered => utt'.open)
       /\ lpc' \in {"frame", "cancel", "hear"} /\ (lpc' # "frame" => speaking \/ utt'.open)
       /\ ear'.speaking \/ (ear'.talked = 2 /\ ear'.pending = 0 /\ ~ear'.answered) => seq < MaxPauses
  <2>1. CASE speaking /\ lpc' = "cancel" /\ ear' = [e EXCEPT !.pending = 0, !.after = "hear"]
    <3>1. ear' \in EarRecord /\ ear'.after = "hear" /\ ear'.answered = e.answered
      BY <1>7, <1>10, <2>1 DEF EarRecord
    <3> QED BY <1>1, <1>8, <2>1, <3>1
  <2>2. CASE speaking /\ lpc' = "cancel" /\ ear' = [e EXCEPT !.answered = FALSE, !.stopped = TRUE, !.after = "hear"]
    <3>1. ear' \in EarRecord /\ ear'.after = "hear" /\ ear'.answered = FALSE
      BY <1>7, <2>2 DEF EarRecord
    <3> QED BY <1>1, <2>2, <3>1
  <2>3. CASE (speaking \/ utt'.open) /\ lpc' = "hear" /\ ear' = e
    BY <1>1, <1>4, <1>7, <1>8, <1>9, <2>3
  <2>4. CASE lpc' = "frame" /\ ear' = Rest(e)
    BY <1>7, <1>8, <1>9, <2>4, EarForms
  <2> QED BY <1>2, <2>1, <2>2, <2>3, <2>4
<1> QED BY <1>0, <1>1, <1>3, <1>8, <1>11 DEF EarInv

\* The listener stays within its bounds.
LEMMA EarStep == ASSUME LimitsInv, EarInv, TurnInv, Listener, UNCHANGED limits PROVE EarInv'
<1> USE DEF turnVars, listenVars
<1>0. /\ MaxPauses \in Nat /\ MaxUtterances \in Nat /\ MaxPauses' = MaxPauses /\ MaxUtterances' = MaxUtterances
      /\ EarRecord' = EarRecord
  BY Bounds, Fixed
<1>a. ear \in EarRecord /\ ear.speaking \in BOOLEAN /\ ear.answered \in BOOLEAN /\ ear.after \in {"frame", "hear", "dispatch"}
  BY DEF EarInv, EarRecord
<1>b. utt \in [gen : 0..MaxUtterances, open : BOOLEAN] /\ utt.open \in BOOLEAN /\ utt.gen \in Nat
  BY <1>0 DEF EarInv
<1>1. CASE \E speaking, recent, long \in BOOLEAN : ListenFrame(speaking, recent, long)
  BY <1>1, FrameEar
<1>2. CASE ListenCancel
  BY <1>0, <1>2 DEF ListenCancel, EarInv
<1>3. CASE ListenReset
  <2>1. lpc = "reset" /\ lpc' = ear.after /\ UNCHANGED <<seq, utt>>
    BY <1>3 DEF ListenReset
  <2>2. CASE ear.after = "frame"
    <3>1. ear' = Rest(ear)
      BY <1>3, <2>2 DEF ListenReset
    <3>2. ear' \in EarRecord /\ ~ear'.speaking /\ ear'.after = "frame" /\ ear'.talked = ear.talked
          /\ ear'.pending = ear.pending /\ ear'.answered = ear.answered
      BY <1>a, <3>1, EarForms
    <3> QED BY <1>0, <2>1, <2>2, <3>2 DEF EarInv
  <2>3. CASE ear.after # "frame"
    <3>1. ear' = ear
      BY <1>3, <2>3 DEF ListenReset
    <3> QED BY <1>0, <1>a, <2>1, <2>3, <3>1 DEF EarInv
  <2> QED BY <2>2, <2>3
<1>4. CASE ListenHear
  <2>1. PICK t \in 0..2 :
          LET e == [ear EXCEPT !.talked = t]
          IN /\ ear.speaking \/ t = ear.talked
             /\ \/ ear' = e /\ lpc' = "over"
                \/ ear' = Rest(e) /\ lpc' = "frame"
                \/ ear' = e /\ lpc' = "pause" /\ ~e.speaking /\ ~e.answered
    BY <1>4, <1>a DEF ListenHear, EarRecord
  <2> DEFINE e == [ear EXCEPT !.talked = t]
  <2>2. /\ e \in EarRecord /\ e.speaking = ear.speaking /\ e.pending = ear.pending /\ e.answered = ear.answered
        /\ e.after = ear.after /\ e.talked = t
    BY <1>a DEF EarRecord
  <2>3. /\ ear.speaking \/ t = ear.talked
        /\ \/ ear' = e /\ lpc' = "over"
           \/ ear' = Rest(e) /\ lpc' = "frame"
           \/ ear' = e /\ lpc' = "pause" /\ ~e.speaking /\ ~e.answered
    BY <2>1
  <2> HIDE DEF e
  <2>4. lpc = "hear" /\ seq' = seq /\ utt' = [utt EXCEPT !.open = TRUE]
    BY <1>4 DEF ListenHear
  <2>5. utt' \in [gen : 0..MaxUtterances, open : BOOLEAN] /\ utt'.open = TRUE /\ utt'.gen = utt.gen
    BY <1>b, <2>4
  <2>6. utt.gen < MaxUtterances /\ ear.after # "dispatch" /\ seq \in 0..MaxPauses
    BY <2>4 DEF EarInv, TurnInv
  <2>7. e.speaking \/ (e.talked = 2 /\ e.pending = 0 /\ ~e.answered) => seq < MaxPauses
    BY <2>2, <2>3, <2>4 DEF EarInv
  <2>8. /\ ear' \in EarRecord /\ ear'.after # "dispatch" /\ (lpc' = "pause" => ~ear'.speaking /\ ~ear'.answered)
        /\ lpc' \in {"over", "frame", "pause"}
        /\ ear'.speaking \/ (ear'.talked = 2 /\ ear'.pending = 0 /\ ~ear'.answered) => seq < MaxPauses
    <3>1. CASE ear' = e
      BY <2>2, <2>3, <2>6, <2>7, <3>1
    <3>2. CASE ear' = Rest(e) /\ lpc' = "frame"
      BY <2>2, <2>7, <3>2, EarForms
    <3> QED BY <2>3, <3>1, <3>2
  <2> QED BY <1>0, <2>4, <2>5, <2>6, <2>8 DEF EarInv
<1>5. CASE ListenOver
  <2>1. /\ lpc = "over" /\ seq' = seq
        /\ \/ ear' = Rest(ear) /\ lpc' = "frame" /\ utt' = utt
           \/ ear' = [ear EXCEPT !.stopped = TRUE] /\ lpc' = "cancel" /\ utt' = utt
           \/ ear' = Rest(Forget(ear)) /\ lpc' = "frame" /\ utt' = [gen |-> utt.gen + 1, open |-> FALSE]
    BY <1>5 DEF ListenOver, resetUtterance
  <2>2. utt.open /\ utt.gen < MaxUtterances /\ ear.after # "dispatch"
    BY <2>1 DEF EarInv, TurnInv
  <2>3. CASE ear' = Rest(ear) /\ lpc' = "frame" /\ utt' = utt
    <3>1. ear' \in EarRecord /\ ~ear'.speaking /\ ear'.after = "frame" /\ ear'.talked = ear.talked
          /\ ear'.pending = ear.pending /\ ear'.answered = ear.answered
      BY <1>a, <2>3, EarForms
    <3> QED BY <1>0, <2>1, <2>2, <2>3, <3>1 DEF EarInv
  <2>4. CASE ear' = [ear EXCEPT !.stopped = TRUE] /\ lpc' = "cancel" /\ utt' = utt
    <3>1. ear' \in EarRecord /\ ear'.speaking = ear.speaking /\ ear'.after = ear.after /\ ear'.talked = ear.talked
          /\ ear'.pending = ear.pending /\ ear'.answered = ear.answered
      BY <1>a, <2>4 DEF EarRecord
    <3> QED BY <1>0, <2>1, <2>2, <2>4, <3>1 DEF EarInv
  <2>5. CASE ear' = Rest(Forget(ear)) /\ lpc' = "frame" /\ utt' = [gen |-> utt.gen + 1, open |-> FALSE]
    <3>1. ear' \in EarRecord /\ ~ear'.speaking /\ ear'.after = "frame" /\ ear'.talked = 0 /\ ~ear'.answered
      BY <1>a, <2>5, EarForms
    <3>2. utt' \in [gen : 0..MaxUtterances, open : BOOLEAN] /\ ~utt'.open
      BY <1>0, <1>b, <2>2, <2>5
    <3> QED BY <1>0, <2>1, <2>5, <3>1, <3>2 DEF EarInv
  <2> QED BY <2>1, <2>3, <2>4, <2>5
<1>6. CASE ListenPause
  <2>1. /\ lpc = "pause" /\ UNCHANGED <<seq, utt>>
        /\ \/ /\ ear.pending = 0 /\ ear.talked = 2 /\ lpc' = "cancel"
              /\ ear' = [ear EXCEPT !.after = "dispatch"]
           \/ ear' = ear /\ lpc' = "judge"
    BY <1>6 DEF ListenPause
  <2>2. CASE ear.pending = 0 /\ ear.talked = 2 /\ lpc' = "cancel" /\ ear' = [ear EXCEPT !.after = "dispatch"]
    <3>1. ear' \in EarRecord /\ ear'.speaking = ear.speaking /\ ear'.after = "dispatch" /\ ear'.talked = ear.talked
          /\ ear'.pending = ear.pending /\ ear'.answered = ear.answered
      BY <1>a, <2>2 DEF EarRecord
    <3> QED BY <1>0, <2>1, <2>2, <3>1 DEF EarInv
  <2>3. CASE ear' = ear /\ lpc' = "judge"
    BY <1>0, <2>1, <2>3 DEF EarInv, TurnInv
  <2> QED BY <2>1, <2>2, <2>3
<1>7. CASE ListenDispatch
  <2>1. lpc = "dispatch" /\ lpc' = "send" /\ seq' = seq + 1 /\ ear' = ear /\ utt' = utt
    BY <1>7 DEF ListenDispatch
  <2>2. ear.after = "dispatch" /\ ear.pending = 0 /\ ear.talked = 2 /\ ~ear.answered /\ seq \in 0..MaxPauses
    BY <2>1 DEF EarInv, TurnInv
  <2>3. seq < MaxPauses
    BY <2>1, <2>2 DEF EarInv
  <2> QED BY <1>0, <2>1, <2>2, <2>3 DEF EarInv
<1>8. CASE ListenSend
  <2>1. lpc = "send" /\ lpc' = "judge" /\ seq' = seq /\ utt' = utt
        /\ ear' = [ear EXCEPT !.pending = seq, !.after = "frame"]
    BY <1>8 DEF ListenSend
  <2>2. seq # 0 /\ seq \in 0..MaxPauses
    BY <2>1 DEF EarInv
  <2>3. ear' \in EarRecord /\ ear'.speaking = ear.speaking /\ ear'.after = "frame" /\ ear'.talked = ear.talked
        /\ ear'.pending = seq /\ ear'.answered = ear.answered
    BY <1>a, <2>1, <2>2 DEF EarRecord
  <2> QED BY <1>0, <2>1, <2>2, <2>3 DEF EarInv
<1>9. CASE \E over \in BOOLEAN : ListenJudge(over)
  <2>1. /\ lpc = "judge" /\ seq' = seq
        /\ \/ lpc' = "release" /\ ear' = ear /\ utt' = utt
           \/ lpc' = "frame" /\ ear' = Rest(Forget(ear)) /\ utt' = [gen |-> utt.gen + 1, open |-> FALSE]
           \/ lpc' = "frame" /\ ear' = Rest(ear) /\ utt' = utt
    BY <1>9 DEF ListenJudge, resetUtterance
  <2>2. utt.open /\ utt.gen < MaxUtterances
    BY <2>1 DEF EarInv
  <2>3. CASE lpc' = "release" /\ ear' = ear /\ utt' = utt
    BY <1>0, <2>1, <2>3 DEF EarInv
  <2>4. CASE lpc' = "frame" /\ ear' = Rest(Forget(ear)) /\ utt' = [gen |-> utt.gen + 1, open |-> FALSE]
    <3>1. ear' \in EarRecord /\ ~ear'.speaking /\ ear'.after = "frame" /\ ear'.talked = 0 /\ ~ear'.answered
      BY <1>a, <2>4, EarForms
    <3>2. utt' \in [gen : 0..MaxUtterances, open : BOOLEAN] /\ ~utt'.open
      BY <1>0, <1>b, <2>2, <2>4
    <3> QED BY <1>0, <2>1, <2>4, <3>1, <3>2 DEF EarInv
  <2>5. CASE lpc' = "frame" /\ ear' = Rest(ear) /\ utt' = utt
    <3>1. ear' \in EarRecord /\ ~ear'.speaking /\ ear'.after = "frame" /\ ear'.talked = ear.talked
          /\ ear'.pending = ear.pending /\ ear'.answered = ear.answered
      BY <1>a, <2>5, EarForms
    <3> QED BY <1>0, <2>1, <2>2, <2>5, <3>1 DEF EarInv
  <2> QED BY <2>1, <2>3, <2>4, <2>5
<1>10. CASE ListenRelease
  <2> DEFINE e == [ear EXCEPT !.pending = 0, !.answered = TRUE]
  <2>1. lpc = "release" /\ lpc' = "frame" /\ seq' = seq /\ utt' = utt /\ ear' = Rest(e)
    BY <1>10 DEF ListenRelease
  <2>0. 0 \in 0..MaxPauses
    BY <1>0
  <2>2. e \in EarRecord /\ e.answered = TRUE
    BY <1>a, <2>0 DEF EarRecord
  <2> HIDE DEF e
  <2>3. ear' \in EarRecord /\ ~ear'.speaking /\ ear'.after = "frame" /\ ear'.answered = TRUE
    BY <2>1, <2>2, EarForms
  <2> QED BY <1>0, <2>1, <2>3 DEF EarInv
<1>11. CASE ListenStop
  BY <1>0, <1>11 DEF ListenStop, EarInv
<1> QED BY <1>1, <1>2, <1>3, <1>4, <1>5, <1>6, <1>7, <1>8, <1>9, <1>10, <1>11 DEF Listener

-----------------------------------------------------------------------------
\* What is kept lies within the conversation.
LEMMA KeepWithin ==
  ASSUME ReplyInv
  PROVE  Keep \in Nat /\ Keep <= Len(session) /\ Len(session) \in Nat /\ DOMAIN session = 1..Len(session)
BY DEF ReplyInv, Keep, RunRecord

\* A step that leaves what is kept, keeps at least that much, and adds no note.
LEMMA KeepStep ==
  ASSUME LimitsInv, UNCHANGED limits, ReplyInv, KeepInv, UNCHANGED <<notes, told>>, session' \in Seq(Msg),
         Keep' \in Nat, Keep <= Keep', Keep' <= Len(session'),
         \A i \in 1..Keep : session'[i].role = session[i].role /\ session'[i].of = session[i].of,
         \A i \in DOMAIN session' : Keep < i => session'[i].role # "note",
         silentUntil' => silentUntil \/ \E i \in 1..Keep' : session'[i].role = "hush"
  PROVE  KeepInv'
<1>1. Keep \in Nat /\ Keep <= Len(session) /\ Len(session) \in Nat /\ DOMAIN session = 1..Len(session)
  BY KeepWithin
<1>2. Len(session') \in Nat /\ DOMAIN session' = 1..Len(session')
  OBVIOUS
<1>3. MaxNotes' = MaxNotes
  BY Fixed
<1> DEFINE joined == told - Len(notes)
<1>4. joined' = joined
  OBVIOUS
<1>5. /\ told \in 0..MaxNotes /\ notes \in Seq(1..told)
      /\ Len(notes) <= told /\ \A k \in DOMAIN notes : notes[k] = joined + k
      /\ \A n \in 1..joined : \E i \in DOMAIN session : session[i].role = "note" /\ session[i].of = n
      /\ \A i \in DOMAIN session : session[i].role = "note" => session[i].of \in 1..joined
      /\ \A i, k \in DOMAIN session : i < k /\ session[i].role = "note" /\ session[k].role = "note" => session[i].of < session[k].of
      /\ \A i \in DOMAIN session : Keep < i => session[i].role # "note"
      /\ silentUntil => \E i \in 1..Keep : session[i].role = "hush"
  BY DEF KeepInv, NotesKept
<1> HIDE DEF joined
<1>6. \A i \in 1..Keep : i \in DOMAIN session /\ i \in DOMAIN session'
  BY <1>1, <1>2
<1>7. \A i \in DOMAIN session : session[i].role = "note" => i \in 1..Keep
  BY <1>1, <1>5
<1>8. \A i \in DOMAIN session' : session'[i].role = "note" => i \in 1..Keep
  BY <1>1, <1>2
<1>9. \A n \in 1..joined : \E i \in DOMAIN session' : session'[i].role = "note" /\ session'[i].of = n
  BY <1>5, <1>6, <1>7
<1>10. \A i \in DOMAIN session' : session'[i].role = "note" => session'[i].of \in 1..joined
  BY <1>5, <1>6, <1>8
<1>11. \A i, k \in DOMAIN session' : i < k /\ session'[i].role = "note" /\ session'[k].role = "note"
                                     => session'[i].of < session'[k].of
  <2> SUFFICES ASSUME NEW i \in DOMAIN session', NEW k \in DOMAIN session', i < k,
                      session'[i].role = "note", session'[k].role = "note"
               PROVE  session'[i].of < session'[k].of
    OBVIOUS
  <2>1. i \in 1..Keep /\ k \in 1..Keep
    BY <1>8
  <2>2. /\ i \in DOMAIN session /\ k \in DOMAIN session /\ session[i].role = "note" /\ session[k].role = "note"
        /\ session'[i].of = session[i].of /\ session'[k].of = session[k].of
    BY <1>6, <2>1
  <2>3. session[i].of < session[k].of
    BY <1>5, <2>2
  <2> QED BY <2>2, <2>3
<1>12. NotesKept'
  BY <1>4, <1>5, <1>9, <1>10, <1>11 DEF NotesKept, joined
<1>13. \A i \in DOMAIN session' : Keep' < i => session'[i].role # "note"
  BY <1>1, <1>2
<1>14. silentUntil' => \E i \in 1..Keep' : session'[i].role = "hush"
  <2>1. \A i \in 1..Keep : i \in 1..Keep'
    BY <1>1
  <2> QED BY <1>5, <2>1
<1> QED BY <1>3, <1>5, <1>12, <1>13, <1>14 DEF KeepInv

\* A step that leaves the conversation alone.
LEMMA KeepSame ==
  ASSUME LimitsInv, UNCHANGED limits, ReplyInv, KeepInv, UNCHANGED <<notes, told, session, silentUntil>>,
         Keep' = Keep \/ Keep' = Len(session)
  PROVE  KeepInv'
<1>1. Keep \in Nat /\ Keep <= Len(session) /\ Len(session) \in Nat /\ DOMAIN session = 1..Len(session)
  BY KeepWithin
<1>2. session' \in Seq(Msg) /\ Keep' \in Nat /\ Keep <= Keep' /\ Keep' <= Len(session')
  BY <1>1 DEF ReplyInv
<1>3. \A i \in DOMAIN session' : Keep < i => session'[i].role # "note"
  BY DEF KeepInv
<1> QED BY <1>2, <1>3, KeepStep

\* The notes join the conversation between two replies.
LEMMA KeepNoted ==
  ASSUME LimitsInv, UNCHANGED limits, ReplyInv, KeepInv, ~Active, ~Active',
         session' = Noted, notes' = <<>>, UNCHANGED <<told, silentUntil>>
  PROVE  KeepInv' /\ session' \in Seq(Msg) /\ Len(session') >= Len(session)
<1> DEFINE m == Len(session)
           joined == told - Len(notes)
<1>1. /\ session \in Seq(Msg) /\ m \in Nat /\ DOMAIN session = 1..m /\ Keep = m /\ Keep' = Len(session')
  BY DEF ReplyInv, Keep
<1>2a. told \in 0..MaxNotes /\ notes \in Seq(1..told) /\ told \in Nat
  BY Bounds DEF KeepInv
<1>2. /\ told \in 0..MaxNotes /\ notes \in Seq(1..told) /\ told \in Nat
      /\ Len(notes) <= told /\ (\A k \in DOMAIN notes : notes[k] = joined + k)
      /\ \A n \in 1..joined : \E i \in 1..m : session[i].role = "note" /\ session[i].of = n
      /\ \A i \in 1..m : session[i].role = "note" => session[i].of \in 1..joined
      /\ \A i, k \in 1..m : i < k /\ session[i].role = "note" /\ session[k].role = "note" => session[i].of < session[k].of
      /\ silentUntil => \E i \in 1..m : session[i].role = "hush"
  BY <1>1, <1>2a DEF KeepInv, NotesKept
<1>3. Len(notes) \in Nat /\ DOMAIN notes = 1..Len(notes) /\ joined \in Nat /\ joined + Len(notes) = told
  BY <1>2
<1> DEFINE added == [i \in DOMAIN notes |-> NoteMsg(notes[i])]
<1>4. added \in Seq(Msg) /\ Len(added) = Len(notes)
  <2>1. \A i \in 1..Len(notes) : notes[i] \in Nat
    BY <1>2
  <2>2. \A i \in 1..Len(notes) : NoteMsg(notes[i]) \in Msg
    BY <2>1, Messages
  <2>3. added \in [1..Len(notes) -> Msg]
    BY <1>3, <2>2
  <2>4. \A n \in Nat : \A f \in [1..n -> Msg] : f \in Seq(Msg) /\ Len(f) = n
    OBVIOUS
  <2> QED BY <1>3, <2>3, <2>4
<1>5. \A k \in 1..Len(notes) : added[k].role = "note" /\ added[k].of = joined + k
  <2> SUFFICES ASSUME NEW k \in 1..Len(notes) PROVE added[k].role = "note" /\ added[k].of = joined + k
    OBVIOUS
  <2>1. added[k] = NoteMsg(notes[k]) /\ notes[k] = joined + k
    BY <1>2, <1>3
  <2>2. notes[k] \in Nat
    BY <1>3, <2>1
  <2> QED BY <2>1, <2>2, Messages
<1>6. session' = session \o added
  BY DEF Noted
<1> HIDE DEF added
<1>7. /\ session' \in Seq(Msg) /\ Len(session') = m + Len(notes)
      /\ \A i \in 1..m : session'[i] = session[i]
      /\ \A k \in 1..Len(notes) : session'[m + k] = added[k]
  <2>1. /\ session \o added \in Seq(Msg) /\ Len(session \o added) = Len(session) + Len(added)
        /\ \A i \in 1..Len(session) : (session \o added)[i] = session[i]
        /\ \A k \in 1..Len(added) : (session \o added)[Len(session) + k] = added[k]
    <3>1. session \in Seq(Msg) /\ added \in Seq(Msg)
      BY <1>1, <1>4
    <3> QED BY <3>1
  <2> QED BY <1>4, <1>6, <2>1, Zenon
<1> HIDE DEF m, joined
<1>8. /\ DOMAIN session' = 1..(m + Len(notes)) /\ Len(notes') = 0 /\ DOMAIN notes' = {}
      /\ \A i \in 1..m : i \in DOMAIN session'
      /\ \A k \in 1..Len(notes) : m + k \in DOMAIN session'
      /\ \A i \in DOMAIN session' : i \in 1..m \/ (i - m \in 1..Len(notes) /\ m + (i - m) = i)
  BY <1>1, <1>3, <1>7
<1>9. \A n \in 1..told : \E i \in DOMAIN session' : session'[i].role = "note" /\ session'[i].of = n
  <2> SUFFICES ASSUME NEW n \in 1..told PROVE \E i \in DOMAIN session' : session'[i].role = "note" /\ session'[i].of = n
    OBVIOUS
  <2>1. CASE n \in 1..joined
    BY <1>2, <1>7, <1>8, <2>1
  <2>2. CASE n \notin 1..joined
    <3>1. n - joined \in 1..Len(notes) /\ joined + (n - joined) = n
      BY <1>2, <1>3, <2>2
    <3> QED BY <1>5, <1>7, <1>8, <3>1
  <2> QED BY <2>1, <2>2
<1>10. \A i \in DOMAIN session' : i \in 1..m \/ (session'[i].role = "note" /\ session'[i].of = joined + (i - m) /\ i - m \in 1..Len(notes))
  BY <1>5, <1>7, <1>8
<1>11. \A i \in DOMAIN session' : session'[i].role = "note" => session'[i].of \in 1..told
  <2> SUFFICES ASSUME NEW i \in DOMAIN session', session'[i].role = "note" PROVE session'[i].of \in 1..told
    OBVIOUS
  <2>1. CASE i \in 1..m
    <3>1. session'[i].of \in 1..joined
      BY <1>2, <1>7, <2>1
    <3> QED BY <1>2, <1>3, <3>1
  <2>2. CASE i \notin 1..m
    BY <1>2, <1>3, <1>10, <2>2
  <2> QED BY <2>1, <2>2
<1>12. \A i, k \in DOMAIN session' : i < k /\ session'[i].role = "note" /\ session'[k].role = "note"
                                     => session'[i].of < session'[k].of
  <2> SUFFICES ASSUME NEW i \in DOMAIN session', NEW k \in DOMAIN session', i < k,
                      session'[i].role = "note", session'[k].role = "note"
               PROVE  session'[i].of < session'[k].of
    OBVIOUS
  <2>1. CASE k \in 1..m
    <3>1. i \in 1..m
      BY <1>1, <1>8, <2>1
    <3> QED BY <1>2, <1>7, <2>1, <3>1
  <2>2. CASE i \in 1..m /\ k \notin 1..m
    <3>1. session'[i].of \in 1..joined
      BY <1>2, <1>7, <2>2
    <3>2. session'[k].of = joined + (k - m) /\ k - m \in 1..Len(notes)
      BY <1>10, <2>2
    <3> QED BY <1>3, <3>1, <3>2
  <2>3. CASE i \notin 1..m /\ k \notin 1..m
    <3>1. /\ session'[k].of = joined + (k - m) /\ k - m \in 1..Len(notes)
          /\ session'[i].of = joined + (i - m) /\ i - m \in 1..Len(notes)
      BY <1>10, <2>3
    <3>2. i - m < k - m
      BY <1>1, <1>8
    <3> QED BY <1>3, <3>1, <3>2
  <2> QED BY <2>1, <2>2, <2>3
<1>13. NotesKept'
  <2>1. told' - Len(notes') = told /\ Len(notes') <= told'
    BY <1>2, <1>8
  <2> QED BY <1>8, <1>9, <1>11, <1>12, <2>1 DEF NotesKept
<1>14. \A i \in DOMAIN session' : Keep' < i => session'[i].role # "note"
  BY <1>1, <1>3, <1>7, <1>8
<1>15. silentUntil' => \E i \in 1..Keep' : session'[i].role = "hush"
  <2>1. \A i \in 1..m : i \in 1..Keep'
    BY <1>1, <1>3, <1>7
  <2> QED BY <1>2, <1>7, <2>1
<1>16. notes' \in Seq(1..told') /\ told' \in 0..MaxNotes'
  BY <1>2, Fixed
<1> QED BY <1>1, <1>3, <1>7, <1>13, <1>14, <1>15, <1>16 DEF KeepInv, m

\* A note is told.
LEMMA KeepTold ==
  ASSUME LimitsInv, UNCHANGED limits, KeepInv, Note
  PROVE  KeepInv'
<1>1. /\ told < MaxNotes /\ told' = told + 1 /\ notes' = Append(notes, told + 1)
      /\ UNCHANGED <<session, silentUntil, rpc, run>>
  BY DEF Note, talkVars, respondVars
<1>2. told \in 0..MaxNotes /\ notes \in Seq(1..told) /\ MaxNotes \in Nat /\ MaxNotes' = MaxNotes /\ Keep' = Keep
  BY <1>1, Bounds, Fixed DEF KeepInv, Keep, Active
<1>3. told' \in 0..MaxNotes' /\ Len(notes) \in Nat /\ told \in Nat
  BY <1>1, <1>2
<1>4. /\ notes' \in Seq(1..told') /\ Len(notes') = Len(notes) + 1 /\ DOMAIN notes' = 1..(Len(notes) + 1)
      /\ (\A k \in 1..Len(notes) : notes'[k] = notes[k]) /\ notes'[Len(notes) + 1] = told + 1
  <2>1. \A i \in 1..Len(notes) : notes[i] \in 1..told'
    BY <1>1, <1>2, <1>3
  <2>2. notes \in Seq(1..told') /\ told + 1 \in 1..told'
    BY <1>1, <1>2, <1>3, <2>1
  <2> QED BY <1>1, <2>2, Appended
<1>5. told' - Len(notes') = told - Len(notes)
  BY <1>1, <1>3, <1>4
<1>6. Len(notes) <= told /\ \A k \in 1..Len(notes) : notes[k] = (told - Len(notes)) + k
  BY <1>2 DEF KeepInv, NotesKept
<1>7. Len(notes') <= told' /\ \A k \in DOMAIN notes' : notes'[k] = (told - Len(notes)) + k
  <2>1. Len(notes') <= told'
    BY <1>1, <1>3, <1>4, <1>6
  <2>2. \A k \in DOMAIN notes' : k \in 1..Len(notes) \/ k = Len(notes) + 1
    BY <1>3, <1>4
  <2>3. told + 1 = (told - Len(notes)) + (Len(notes) + 1)
    BY <1>3
  <2> QED BY <1>4, <1>6, <2>1, <2>2, <2>3
<1>8. NotesKept'
  BY <1>1, <1>5, <1>7 DEF KeepInv, NotesKept
<1> QED BY <1>1, <1>2, <1>3, <1>4, <1>8 DEF KeepInv

-----------------------------------------------------------------------------
\* The queue holds jobs, no more than its capacity.
LEMMA JobsStep ==
  ASSUME LimitsInv, UNCHANGED limits, JobsInv, EarInv, PlaceInv, Application \/ Listener \/ Responder \/ Pump
  PROVE  JobsInv'
<1> USE DEF jobVars
<1>0. JobsCap \in Nat \ {0} /\ JobsCap' = JobsCap /\ Job' = Job /\ Len(jobs) \in Nat /\ jobs \in Seq(Job) /\ Len(jobs) <= JobsCap
  BY Bounds, Fixed DEF JobsInv
<1>1. CASE Say
  <2>1. jobs' = Append(jobs, SayJob) /\ Len(jobs) < JobsCap
    BY <1>1 DEF Say
  <2>2. SayJob \in Job
    BY DEF Job
  <2>3. jobs' \in Seq(Job) /\ Len(jobs') = Len(jobs) + 1
    BY <1>0, <2>1, <2>2, Appended
  <2> QED BY <1>0, <2>1, <2>3 DEF JobsInv
<1>2. CASE ListenSend
  <2> DEFINE j == UttJob(seq, utt.gen, speaker)
             rest == IF Len(jobs) = JobsCap THEN Tail(jobs) ELSE jobs
  <2>1. lpc = "send" /\ jobs' = Append(rest, j)
    BY <1>2 DEF ListenSend, Enqueue
  <2>2. seq \in 1..MaxPauses /\ utt.gen \in 0..MaxUtterances /\ speaker \in Speaker \cup {NoOne}
    BY <2>1, Bounds DEF EarInv, PlaceInv
  <2>3. j \in Job
    BY <2>2 DEF Job, UttJob
  <2>4. rest \in Seq(Job) /\ Len(rest) \in Nat /\ Len(rest) < JobsCap
    BY <1>0
  <2> HIDE DEF j, rest
  <2>5. jobs' \in Seq(Job) /\ Len(jobs') = Len(rest) + 1
    BY <2>1, <2>3, <2>4, Appended
  <2> QED BY <1>0, <2>4, <2>5 DEF JobsInv
<1>3. CASE ~Say /\ ~ListenSend
  <2>1. CASE Application
    BY <1>0, <1>3, <2>1 DEF JobsInv, Application, StepFrame, StepCount, Note, SetSpeaker, CloseCancel, CloseStop, CloseDone
  <2>2. CASE Listener
    <3>1. jobs' = jobs
      <4>1. CASE \E speaking, recent, long \in BOOLEAN : ListenFrame(speaking, recent, long)
        BY <4>1 DEF ListenFrame
      <4>2. CASE ListenCancel \/ ListenReset \/ ListenHear \/ ListenOver \/ ListenPause
        BY <4>2 DEF ListenCancel, ListenReset, ListenHear, ListenOver, ListenPause
      <4>3. CASE ListenDispatch \/ ListenRelease \/ ListenStop \/ \E over \in BOOLEAN : ListenJudge(over)
        BY <4>3 DEF ListenDispatch, ListenRelease, ListenStop, ListenJudge
      <4> QED BY <1>3, <2>2, <4>1, <4>2, <4>3 DEF Listener
    <3> QED BY <1>0, <3>1 DEF JobsInv
  <2>3. CASE Pump
    BY <1>0, <2>3 DEF JobsInv, Pump, PumpTake, PumpRead, PumpWrite, PumpDone, PumpStop
  <2>4. CASE Responder
    <3>1. CASE RespondJob \/ RespondNoted \/ RespondMoment \/ RespondStop
      <4>1. jobs' = jobs \/ jobs' = <<>>
        BY <3>1 DEF RespondJob, RespondNoted, RespondMoment, RespondStop
      <4>2. CASE jobs' = jobs
        BY <1>0, <4>2 DEF JobsInv
      <4>3. CASE jobs' = <<>>
        BY <1>0, <4>3 DEF JobsInv
      <4> QED BY <4>1, <4>2, <4>3
    <3>2. CASE Run
      BY <1>0, <3>2 DEF JobsInv, Run, RunUnhold, RunArm, RunNothing, RunReply, RunWrite, RunCalls, RunAgain, RunTranscribe,
         RunWritten, RunStands, RunSpoken, RunAwait, RunAwake, RunPlayback, RunSettle, RunFinish, RunUnbusy
    <3> QED BY <2>4, <3>1, <3>2 DEF Responder
  <2> QED BY <2>1, <2>2, <2>3, <2>4
<1> QED BY <1>1, <1>2, <1>3

\* What the steps of the application, the listener and the pump leave of the
\* conversation and of the voice.
LEMMA TalkKept ==
  ASSUME Application \/ Listener \/ Pump
  PROVE  /\ UNCHANGED <<session, silentUntil>>
         /\ Note \/ UNCHANGED <<notes, told>>
         /\ PumpRead \/ UNCHANGED voice
<1> USE DEF talkVars, noteVars, pumpVars
<1>1. CASE Application
  BY <1>1 DEF Application, StepFrame, StepCount, Say, Note, SetSpeaker, CloseCancel, CloseStop, CloseDone
<1>2. CASE \E speaking, recent, long \in BOOLEAN : ListenFrame(speaking, recent, long)
  BY <1>2 DEF ListenFrame
<1>3. CASE ListenCancel \/ ListenReset \/ ListenHear \/ ListenOver \/ ListenPause
  BY <1>3 DEF ListenCancel, ListenReset, ListenHear, ListenOver, ListenPause
<1>4. CASE ListenDispatch \/ ListenSend \/ ListenRelease \/ ListenStop \/ \E over \in BOOLEAN : ListenJudge(over)
  BY <1>4 DEF ListenDispatch, ListenSend, ListenRelease, ListenStop, ListenJudge
<1>5. CASE Pump
  BY <1>5 DEF Pump, PumpTake, PumpRead, PumpWrite, PumpDone, PumpStop
<1> QED BY <1>1, <1>2, <1>3, <1>4, <1>5 DEF Listener

\* The voice reads what was written, and is told no more than a reply has.
LEMMA VoiceStep ==
  ASSUME LimitsInv, UNCHANGED limits, VoiceInv, ReplyInv, Application \/ Listener \/ Responder \/ Pump
  PROVE  VoiceInv'
<1> USE DEF pumpVars
<1>0. MaxPieces \in Nat /\ MaxPieces' = MaxPieces /\ voice.written \in 0..MaxPieces /\ voice.read \in 0..MaxPieces
  BY Bounds, Fixed DEF VoiceInv
<1>1. CASE UNCHANGED voice
  BY <1>0, <1>1 DEF VoiceInv
<1>2. CASE PumpRead
  <2>1. UNCHANGED voice \/ (voice' = [voice EXCEPT !.read = @ + 1] /\ voice.read < voice.written)
    BY <1>2 DEF PumpRead
  <2>2. CASE voice' = [voice EXCEPT !.read = @ + 1] /\ voice.read < voice.written
    BY <1>0, <2>2 DEF VoiceInv
  <2> QED BY <1>1, <2>1, <2>2
<1>3. CASE RunArm
  <2>1. \/ voice' = [written |-> MaxPieces, read |-> 0, ended |-> TRUE]
        \/ voice' = [written |-> 0, read |-> 0, ended |-> FALSE]
    <3>1. voice' = [written |-> IF run.job.kind = "say" THEN MaxPieces ELSE 0, read |-> 0, ended |-> run.job.kind = "say"]
      BY <1>3 DEF RunArm
    <3>2. CASE run.job.kind = "say"
      BY <3>1, <3>2
    <3>3. CASE run.job.kind # "say"
      BY <3>1, <3>3
    <3> QED BY <3>2, <3>3
  <2>2. 0 \in 0..MaxPieces /\ MaxPieces \in 0..MaxPieces
    BY <1>0
  <2>3. CASE voice' = [written |-> MaxPieces, read |-> 0, ended |-> TRUE]
    <3>1. voice' \in [written : 0..MaxPieces, read : 0..MaxPieces, ended : BOOLEAN]
      BY <2>2, <2>3
    <3> QED BY <1>0, <2>3, <3>1 DEF VoiceInv
  <2>4. CASE voice' = [written |-> 0, read |-> 0, ended |-> FALSE]
    <3>1. voice' \in [written : 0..MaxPieces, read : 0..MaxPieces, ended : BOOLEAN]
      BY <2>2, <2>4
    <3> QED BY <1>0, <2>4, <3>1 DEF VoiceInv
  <2> QED BY <2>1, <2>3, <2>4
<1>4. CASE RunWrite
  <2>1. voice' = [voice EXCEPT !.written = @ + 1] /\ rpc = "write" /\ run.said < MaxPieces
    BY <1>4 DEF RunWrite
  <2>2. voice.written = run.said
    BY <2>1 DEF ReplyInv, Active
  <2> QED BY <1>0, <2>1, <2>2 DEF VoiceInv
<1>5. CASE \E until, echoed \in BOOLEAN : RunStands(until, echoed)
  <2>1. voice' = [voice EXCEPT !.ended = run.voicing]
    BY <1>5 DEF RunStands
  <2>2. run.voicing \in BOOLEAN
    BY DEF ReplyInv, RunRecord
  <2> QED BY <1>0, <2>1, <2>2 DEF VoiceInv
<1>6. CASE Responder /\ ~RunArm /\ ~RunWrite /\ ~\E until, echoed \in BOOLEAN : RunStands(until, echoed)
  <2>1. CASE RespondJob \/ RespondNoted \/ RespondMoment \/ RespondStop
    BY <1>1, <2>1 DEF RespondJob, RespondNoted, RespondMoment, RespondStop
  <2>2. CASE Run
    <3>1. UNCHANGED voice
      BY <1>6, <2>2 DEF Run, RunUnhold, RunNothing, RunReply, RunCalls, RunAgain, RunTranscribe,
         RunWritten, RunSpoken, RunAwait, RunAwake, RunPlayback, RunSettle, RunFinish, RunUnbusy
    <3> QED BY <1>1, <3>1
  <2> QED BY <1>6, <2>1, <2>2 DEF Responder
<1> QED BY <1>1, <1>2, <1>3, <1>4, <1>5, <1>6, TalkKept

\* Playback holds frames of replies there were, and the count of each.
LEMMA PlayStep ==
  ASSUME PlayInv, SoundInv, ReplyInv, Application \/ Listener \/ Responder \/ Pump
  PROVE  PlayInv' /\ (heard # <<>> => heard' # <<>>)
<1>0. heard \in Seq(Nat) /\ play \in Seq(Nat) /\ Len(heard) \in Nat /\ play \in Seq(1..Len(heard))
  BY DEF SoundInv, AudioInv, PlayInv
<1>1. CASE UNCHANGED <<play, heard>>
  BY <1>1 DEF PlayInv
<1>2. CASE StepFrame
  <2>1. heard' \in Seq(Nat) /\ Len(heard') = Len(heard) /\ play # <<>> /\ play' = Tail(play)
    BY <1>0, <1>2, StepFrames DEF StepFrame
  <2>2. play' \in Seq(1..Len(heard))
    BY <1>0, <2>1
  <2>3. heard # <<>> => heard' # <<>>
    BY <1>0, <2>1
  <2> QED BY <2>1, <2>2, <2>3 DEF PlayInv
<1>3. CASE ListenReset
  BY <1>3 DEF ListenReset, PlayInv
<1>4. CASE PumpWrite
  <2>1. ppc = "write" /\ play' = WriteAt(Reply) /\ heard' = heard
    BY <1>4 DEF PumpWrite
  <2>2. Speaks
    BY <2>1 DEF SoundInv, PumpInv, Pumping
  <2>3. heard # <<>>
    BY <2>2 DEF ReplyInv, Active, Speaks
  <2>4. Reply \in 1..Len(heard)
    BY <1>0, <2>3 DEF Reply
  <2>5. play' = play \/ play' = Append(play, Reply)
    BY <2>1 DEF WriteAt
  <2>6. play' \in Seq(1..Len(heard))
    <3>1. CASE play' = play
      BY <1>0, <3>1
    <3>2. CASE play' = Append(play, Reply)
      BY <1>0, <2>4, <3>2, Appended
    <3> QED BY <2>5, <3>1, <3>2
  <2> QED BY <2>1, <2>6 DEF PlayInv
<1>5. CASE RunArm
  <2>1. heard' = Append(heard, 0) /\ play' = play
    BY <1>5 DEF RunArm
  <2>2. Len(heard') = Len(heard) + 1
    BY <1>0, <2>1
  <2>3. Len(play) \in Nat /\ DOMAIN play = 1..Len(play) /\ \A i \in 1..Len(play) : play[i] \in 1..Len(heard)
    BY <1>0
  <2>4. \A i \in 1..Len(play) : play[i] \in 1..Len(heard')
    BY <1>0, <2>2, <2>3
  <2>5. play \in Seq(1..Len(heard'))
    <3> DEFINE S == 1..Len(heard')
    <3>1. play = [i \in 1..Len(play) |-> play[i]]
      BY <1>0
    <3>2. [i \in 1..Len(play) |-> play[i]] \in [1..Len(play) -> S]
      BY <2>4
    <3>3. play \in [1..Len(play) -> S]
      BY <3>1, <3>2
    <3> HIDE DEF S
    <3>4. \A n \in Nat : \A f \in [1..n -> S] : f \in Seq(S)
      OBVIOUS
    <3>5. play \in Seq(S)
      BY <2>3, <3>3, <3>4
    <3> QED BY <3>5 DEF S
  <2>6. heard' # <<>>
    BY <1>0, <2>2
  <2> QED BY <2>1, <2>5, <2>6 DEF PlayInv
<1>6. CASE Responder /\ ~RunArm
  <2>1. CASE RespondJob \/ RespondNoted \/ RespondMoment \/ RespondStop
    BY <1>1, <2>1 DEF RespondJob, RespondNoted, RespondMoment, RespondStop, audioVars
  <2>2. CASE Run
    <3>1. UNCHANGED <<play, heard>>
      BY <1>6, <2>2 DEF Run, RunUnhold, RunNothing, RunReply, RunWrite, RunCalls, RunAgain, RunTranscribe,
         RunWritten, RunStands, RunSpoken, RunAwait, RunAwake, RunPlayback, RunSettle, RunFinish, RunUnbusy, audioVars
    <3> QED BY <1>1, <3>1
  <2> QED BY <1>6, <2>1, <2>2 DEF Responder
<1>7. CASE Pump /\ ~PumpWrite
  BY <1>1, <1>7 DEF Pump, PumpTake, PumpRead, PumpDone, PumpStop, audioVars
<1> QED BY <1>1, <1>2, <1>3, <1>4, <1>5, <1>6, <1>7, ListenSound

\* The application, the listener and the pump leave the conversation alone.
LEMMA OthersKeepTalk ==
  ASSUME LimitsInv, UNCHANGED limits, ReplyInv, VoiceInv, KeepInv, Application \/ Listener \/ Pump, heard # <<>> => heard' # <<>>
  PROVE  ReplyInv' /\ KeepInv'
<1>1. UNCHANGED <<rpc, run, session, silentUntil>> /\ (Note \/ UNCHANGED <<notes, told>>) /\ (PumpRead \/ UNCHANGED voice)
  BY RespondKept, TalkKept
<1>2. voice'.written = voice.written
  <2>1. CASE PumpRead
    <3>1. UNCHANGED voice \/ voice' = [voice EXCEPT !.read = @ + 1]
      BY <2>1 DEF PumpRead
    <3> QED BY <3>1 DEF VoiceInv
  <2> QED BY <1>1, <2>1
<1>3. MaxRounds' = MaxRounds /\ RunRecord' = RunRecord /\ Msg' = Msg
  BY Fixed
<1>4. (Active' <=> Active) /\ (Calls' <=> Calls) /\ Keep' = Keep
  BY <1>1 DEF Active, Calls, Keep
<1>5. ReplyInv'
  BY <1>1, <1>2, <1>3, <1>4 DEF ReplyInv
<1>6. KeepInv'
  BY <1>1, <1>4, KeepTold, KeepSame
<1> QED BY <1>5, <1>6

-----------------------------------------------------------------------------
\* The responder between two replies: the notes join the conversation.
LEMMA BetweenReplies ==
  ASSUME LimitsInv, UNCHANGED limits, JobsInv, ReplyInv, KeepInv,
         RespondJob \/ RespondNoted \/ RespondMoment \/ RespondStop
  PROVE  ReplyInv' /\ KeepInv'
<1> USE DEF talkVars, noteVars
<1>0. RunRecord' = RunRecord /\ Msg' = Msg
  BY Fixed
<1>1. ~Active /\ ~Active' /\ ~Calls' /\ rpc' \in {"idle", "moment", "unhold", "exited"}
  BY DEF Active, Calls, RespondJob, RespondNoted, RespondMoment, RespondStop, StartRun
<1>2. run \in RunRecord /\ session \in Seq(Msg) /\ run.mark <= Len(session) /\ Len(session) \in Nat /\ run.mark \in Nat
  BY DEF ReplyInv, RunRecord
<1>3. ASSUME session' \in Seq(Msg), run' \in RunRecord, run'.mark <= Len(session') PROVE ReplyInv'
  BY <1>0, <1>1, <1>3 DEF ReplyInv
<1>4. \A j \in Job : [NoRun EXCEPT !.job = j] \in RunRecord /\ [NoRun EXCEPT !.job = j].mark = 0
  <2>1. 0 \in 0..MaxPieces /\ 0 \in 0..MaxRounds
    BY Bounds
  <2> QED BY <2>1 DEF NoRun, RunRecord
<1>5. ASSUME NEW j \in Job, StartRun(j), UNCHANGED <<told, silentUntil>> PROVE ReplyInv' /\ KeepInv'
  <2>1. KeepInv' /\ session' \in Seq(Msg) /\ Len(session') >= Len(session)
    BY <1>1, <1>5, KeepNoted DEF StartRun
  <2>2. run' \in RunRecord /\ run'.mark = 0
    BY <1>4, <1>5 DEF StartRun
  <2>3. run'.mark <= Len(session')
    BY <1>2, <2>1, <2>2
  <2> QED BY <1>3, <2>1, <2>2, <2>3
<1>6. CASE RespondJob
  <2>1. jobs # <<>> /\ StartRun(LastOf(jobs)) /\ UNCHANGED <<told, silentUntil>>
    BY <1>6 DEF RespondJob
  <2>2. LastOf(jobs) \in Job
    BY <2>1 DEF JobsInv, LastOf
  <2> QED BY <1>5, <2>1, <2>2
<1>7. CASE RespondNoted
  <2>1. session' = Noted /\ notes' = <<>> /\ UNCHANGED <<told, silentUntil, run>>
    BY <1>7 DEF RespondNoted
  <2>2. KeepInv' /\ session' \in Seq(Msg) /\ Len(session') >= Len(session)
    BY <1>1, <2>1, KeepNoted
  <2>3. run'.mark <= Len(session')
    BY <1>2, <2>1, <2>2
  <2> QED BY <1>2, <1>3, <2>1, <2>2, <2>3
<1>8. ASSUME UNCHANGED <<told, notes, silentUntil, session, run>> PROVE ReplyInv' /\ KeepInv'
  <2>1. Keep' = Keep
    BY <1>1, <1>8 DEF Keep
  <2>2. KeepInv'
    BY <1>8, <2>1, KeepSame
  <2> QED BY <1>2, <1>3, <1>8, <2>2
<1>9. CASE RespondMoment
  <2>1. UNCHANGED <<told, silentUntil>>
    BY <1>9 DEF RespondMoment
  <2>2. StartRun(Moment) \/ UNCHANGED <<session, notes, run>>
    BY <1>9 DEF RespondMoment
  <2>3. Moment \in Job
    BY DEF Job
  <2> QED BY <1>5, <1>8, <2>1, <2>2, <2>3
<1>10. CASE RespondStop
  BY <1>8, <1>10 DEF RespondStop
<1> QED BY <1>6, <1>7, <1>9, <1>10

\* What a step of a reply leaves alone.
Aside == UNCHANGED <<notes, told, limits>>

\* The steps that leave the conversation and the voice alone.
LEMMA PlainStep ==
  ASSUME LimitsInv, ReplyInv, KeepInv, Aside, UNCHANGED <<session, silentUntil, voice, heard>>,
         \/ RunUnhold \/ RunNothing \/ RunCalls \/ RunSpoken \/ RunPlayback \/ RunFinish \/ RunUnbusy
         \/ \E err \in BOOLEAN : RunWritten(err)
  PROVE  ReplyInv' /\ KeepInv'
<1> USE DEF Aside
<1>0. RunRecord' = RunRecord /\ Msg' = Msg /\ MaxRounds' = MaxRounds
  BY Fixed
<1>1. run \in RunRecord /\ session \in Seq(Msg) /\ run.mark <= Len(session) /\ Len(session) \in Nat /\ run.mark \in Nat /\ run.replyMark \in Nat
  BY DEF ReplyInv, RunRecord
<1>2. ASSUME run' \in RunRecord, run'.mark = run.mark, ~Active', rpc' \notin {"write", "written", "await", "asleep", "spoken", "playback", "settle"}
      PROVE  ReplyInv' /\ KeepInv'
  <2>1. Keep' = Len(session)
    BY <1>2 DEF Keep
  <2>2. ReplyInv'
    BY <1>0, <1>1, <1>2 DEF ReplyInv, Calls
  <2> QED BY <2>1, <2>2, KeepSame
<1>3. ASSUME Active, Active', run' \in RunRecord, run'.mark = run.mark, run'.replyMark = run.replyMark, run'.said = run.said,
             rpc' \in {"written"} \/ Calls' => run.replyMark < Len(session),
             rpc' # "write", session # <<>>, Calls' => run'.rounds + 1 < MaxRounds
      PROVE  ReplyInv' /\ KeepInv'
  <2>1. Keep' = Keep
    BY <1>3 DEF Keep
  <2>2. ReplyInv'
    BY <1>0, <1>1, <1>3 DEF ReplyInv
  <2> QED BY <2>1, <2>2, KeepSame
<1>4. rpc = "write" => run.replyMark < Len(session) /\ session # <<>>
  BY <1>1 DEF ReplyInv
<1>5. CASE RunUnhold
  <2>1. run' = run /\ rpc' = "arm"
    BY <1>5 DEF RunUnhold
  <2> QED BY <1>1, <1>2, <2>1 DEF Active
<1>6. CASE RunNothing
  <2>1. run' = run /\ rpc' = "finish"
    BY <1>6 DEF RunNothing
  <2> QED BY <1>1, <1>2, <2>1 DEF Active
<1>7. CASE RunCalls
  <2>1. rpc = "write" /\ run.rounds + 1 < MaxRounds /\ run' = [run EXCEPT !.then = "call"] /\ rpc' = "await"
    BY <1>7 DEF RunCalls
  <2>2. /\ run' \in RunRecord /\ run'.mark = run.mark /\ run'.replyMark = run.replyMark /\ run'.said = run.said
        /\ run'.rounds = run.rounds
    BY <1>1, <2>1 DEF RunRecord
  <2>3. Active /\ Active'
    BY <2>1 DEF Active
  <2> QED BY <1>3, <1>4, <2>1, <2>2, <2>3
<1>8. CASE RunSpoken
  <2>1. rpc = "spoken" /\ run' = run /\ rpc' = "playback"
    BY <1>8 DEF RunSpoken
  <2>2. session # <<>>
    BY <2>1 DEF ReplyInv
  <2>3. Active /\ Active' /\ ~Calls'
    BY <2>1 DEF Active, Calls
  <2> QED BY <1>1, <1>3, <2>1, <2>2, <2>3
<1>9. CASE RunPlayback
  <2>1. rpc = "playback" /\ run' = run /\ rpc' = "settle"
    BY <1>9 DEF RunPlayback
  <2>2. session # <<>>
    BY <2>1 DEF ReplyInv
  <2>3. Active /\ Active' /\ ~Calls'
    BY <2>1 DEF Active, Calls
  <2> QED BY <1>1, <1>3, <2>1, <2>2, <2>3
<1>10. CASE RunFinish
  <2>1. run' = [run EXCEPT !.empty = NoneWaits] /\ rpc' = "unbusy"
    BY <1>10 DEF RunFinish
  <2>2. NoneWaits \in BOOLEAN
    BY DEF NoneWaits
  <2>3. run' \in RunRecord /\ run'.mark = run.mark
    BY <1>1, <2>1, <2>2 DEF RunRecord
  <2> QED BY <1>2, <2>1, <2>3 DEF Active
<1>11. CASE RunUnbusy
  <2>1. run' = NoRun /\ rpc' \in {"idle", "moment"}
    BY <1>11 DEF RunUnbusy
  <2>2. Moment \in Job /\ 0 \in 0..MaxPieces /\ 0 \in 0..MaxRounds
    BY Bounds DEF Job
  <2>3. run' \in RunRecord /\ run'.mark = 0
    BY <2>1, <2>2 DEF NoRun, RunRecord
  <2>4. ~Active' /\ Keep' = Len(session)
    BY <2>1 DEF Active, Keep
  <2>5. ReplyInv'
    BY <1>0, <1>1, <2>1, <2>3, <2>4 DEF ReplyInv, Calls
  <2> QED BY <2>4, <2>5, KeepSame
<1>12. CASE \E err \in BOOLEAN : RunWritten(err)
  <2>1. PICK err \in BOOLEAN : RunWritten(err)
    BY <1>12
  <2>2. rpc = "write" /\ run' = [run EXCEPT !.err = err] /\ rpc' = "written"
    BY <2>1 DEF RunWritten
  <2>3. run' \in RunRecord /\ run'.mark = run.mark /\ run'.replyMark = run.replyMark /\ run'.said = run.said
    BY <1>1, <2>2 DEF RunRecord
  <2>4. Active /\ Active' /\ ~Calls'
    BY <2>2 DEF Active, Calls
  <2> QED BY <1>3, <1>4, <2>2, <2>3, <2>4
<1> QED BY <1>5, <1>6, <1>7, <1>8, <1>9, <1>10, <1>11, <1>12

\* run marks its place in the conversation, where the notes stay before it.
LEMMA ArmStep ==
  ASSUME LimitsInv, ReplyInv, KeepInv, Aside, heard \in Seq(Nat), RunArm
  PROVE  ReplyInv' /\ KeepInv'
<1> USE DEF Aside
<1> DEFINE say == run.job.kind = "say"
           m == Len(session)
           msg == ReplyMsg("added", Reply + 1, MaxPieces)
<1>0. RunRecord' = RunRecord /\ Msg' = Msg /\ MaxPieces \in Nat
  BY Fixed, Bounds
<1>1. run \in RunRecord /\ session \in Seq(Msg) /\ m \in Nat
  BY DEF ReplyInv, RunRecord
<1>2. /\ rpc = "arm" /\ heard' = Append(heard, 0) /\ silentUntil' = silentUntil
      /\ voice' = [written |-> IF say THEN MaxPieces ELSE 0, read |-> 0, ended |-> say]
      /\ run' = [run EXCEPT !.mark = m, !.replyMark = m, !.voicing = say, !.said = IF say THEN MaxPieces ELSE 0]
      /\ session' = IF say THEN Append(session, msg) ELSE session
      /\ rpc' \in {"transcribe", "spoken", "reply"} /\ (rpc' = "spoken" => say)
  BY DEF RunArm, Mark
<1>3. heard' # <<>>
  BY <1>2
<1>4. msg \in Msg /\ msg.role = "added"
  <2>1. Reply + 1 \in Nat /\ MaxPieces \in 0..MaxPieces
    BY <1>0 DEF Reply
  <2> QED BY <2>1, Messages
<1> HIDE DEF msg
<1>5. /\ session' \in Seq(Msg) /\ Len(session') \in Nat /\ m <= Len(session') /\ (say => m < Len(session'))
      /\ \A i \in 1..m : session'[i] = session[i]
      /\ \A i \in DOMAIN session' : m < i => session'[i].role = "added"
  <2>1. CASE say
    <3>1. session' = Append(session, msg)
      BY <1>2, <2>1
    <3>2. /\ session' \in Seq(Msg) /\ Len(session') = m + 1 /\ session'[m + 1] = msg
          /\ \A i \in 1..m : session'[i] = session[i]
      BY <1>1, <1>4, <3>1, Appended
    <3>3. \A i \in DOMAIN session' : m < i => i = m + 1
      BY <1>1, <3>2
    <3> QED BY <1>1, <1>4, <3>2, <3>3
  <2>2. CASE ~say
    BY <1>1, <1>2, <2>2
  <2> QED BY <2>1, <2>2
<1>6. /\ run' \in RunRecord /\ run'.mark = m /\ run'.replyMark = m /\ run'.said = voice'.written
  <2>1. CASE say
    <3>1. run' = [run EXCEPT !.mark = m, !.replyMark = m, !.voicing = TRUE, !.said = MaxPieces] /\ voice'.written = MaxPieces
      BY <1>2, <2>1
    <3>2. MaxPieces \in 0..MaxPieces
      BY <1>0
    <3> QED BY <1>1, <3>1, <3>2 DEF RunRecord
  <2>2. CASE ~say
    <3>1. run' = [run EXCEPT !.mark = m, !.replyMark = m, !.voicing = FALSE, !.said = 0] /\ voice'.written = 0
      BY <1>2, <2>2
    <3>2. 0 \in 0..MaxPieces
      BY <1>0
    <3> QED BY <1>1, <3>1, <3>2 DEF RunRecord
  <2> QED BY <2>1, <2>2
<1>7. ~Active /\ Active' /\ ~Calls' /\ Keep = m /\ Keep' = m
  BY <1>2, <1>6 DEF Active, Calls, Keep
<1>8. rpc' = "spoken" => session' # <<>>
  <2>1. say => session' # <<>>
    BY <1>1, <1>5
  <2> QED BY <1>2, <2>1
<1>a. /\ rpc' \notin {"write", "written", "playback", "settle", "await", "asleep"} /\ m <= Len(session')
      /\ session' \in Seq(Msg) /\ m \in Nat
  BY <1>1, <1>2, <1>5
<1> HIDE DEF m, say
<1>9. ReplyInv'
  BY <1>0, <1>3, <1>6, <1>7, <1>8, <1>a DEF ReplyInv
<1>10. KeepInv'
  BY <1>1, <1>2, <1>5, <1>7, KeepStep
<1> QED BY <1>9, <1>10

\* Messages of a reply under way that join the conversation.
LEMMA KeepAdded ==
  ASSUME LimitsInv, ReplyInv, KeepInv, Aside, UNCHANGED silentUntil, Active, Active', run'.mark = run.mark,
         NEW msg \in Msg, msg.role # "note", session' = Append(session, msg)
  PROVE  KeepInv' /\ session' \in Seq(Msg) /\ Len(session') = Len(session) + 1 /\ LastOf(session') = msg
<1> USE DEF Aside
<1>1. Keep \in Nat /\ Keep <= Len(session) /\ Len(session) \in Nat /\ DOMAIN session = 1..Len(session) /\ session \in Seq(Msg)
  BY KeepWithin DEF ReplyInv
<1>2. /\ session' \in Seq(Msg) /\ Len(session') = Len(session) + 1 /\ session'[Len(session) + 1] = msg
      /\ \A i \in 1..Len(session) : session'[i] = session[i]
  BY <1>1, Appended
<1>3. Keep' = Keep
  BY DEF Keep
<1>4. \A i \in DOMAIN session' : i \in DOMAIN session \/ i = Len(session) + 1
  BY <1>1, <1>2
<1>5. \A i \in DOMAIN session' : Keep < i => session'[i].role # "note"
  BY <1>1, <1>2, <1>4 DEF KeepInv
<1>6. \A i \in 1..Keep : session'[i] = session[i]
  BY <1>1, <1>2
<1>7. Keep' \in Nat /\ Keep <= Keep' /\ Keep' <= Len(session')
  BY <1>1, <1>2, <1>3
<1>8. KeepInv'
  BY <1>2, <1>5, <1>6, <1>7, KeepStep
<1> QED BY <1>2, <1>8 DEF LastOf

\* The words of the utterance join the conversation, after its speaker's name.
LEMMA TranscribeStep ==
  ASSUME LimitsInv, ReplyInv, KeepInv, Aside, UNCHANGED <<voice, heard>>, NEW skip \in BOOLEAN, RunTranscribe(skip)
  PROVE  ReplyInv' /\ KeepInv'
<1> USE DEF Aside
<1> DEFINE named == run.job.who \notin {NoOne, lastSpeaker}
           intro == IF named THEN Append(session, SpeakerMsg(run.job.who)) ELSE session
           m == Len(session)
<1>0. RunRecord' = RunRecord /\ Msg' = Msg
  BY Fixed
<1>1. /\ run \in RunRecord /\ session \in Seq(Msg) /\ run.mark <= m /\ m \in Nat /\ run.mark \in Nat /\ run.job \in Job
      /\ run.then \in {"finish", "skip", "call", "playback"}
  BY DEF ReplyInv, RunRecord
<1>2. /\ rpc = "transcribe" /\ session' = Append(intro, UserMsg(run.job)) /\ silentUntil' = silentUntil
      /\ run' = [run EXCEPT !.replyMark = Len(session'), !.then = IF skip THEN "skip" ELSE @]
      /\ rpc' = IF skip THEN "await" ELSE "reply"
  BY DEF RunTranscribe
<1>3. /\ SpeakerMsg(run.job.who) \in Msg /\ SpeakerMsg(run.job.who).role = "speaker"
      /\ UserMsg(run.job) \in Msg /\ UserMsg(run.job).role = "user"
  <2>1. run.job.who \in Speaker \cup {NoOne}
    BY <1>1 DEF Job, SayJob, Moment
  <2> QED BY <1>1, <2>1, Messages
<1>4. /\ intro \in Seq(Msg) /\ Len(intro) \in Nat /\ m <= Len(intro)
      /\ \A i \in 1..m : intro[i] = session[i]
      /\ \A i \in 1..Len(intro) : m < i => intro[i].role = "speaker"
  <2>1. CASE named
    <3>1. /\ intro \in Seq(Msg) /\ Len(intro) = m + 1 /\ intro[m + 1] = SpeakerMsg(run.job.who)
          /\ \A i \in 1..m : intro[i] = session[i]
      BY <1>1, <1>3, <2>1, Appended
    <3>2. \A i \in 1..Len(intro) : m < i => i = m + 1
      BY <1>1, <3>1
    <3> QED BY <1>1, <1>3, <3>1, <3>2
  <2>2. CASE ~named
    <3>1. intro = session
      BY <2>2
    <3> QED BY <1>1, <3>1
  <2> QED BY <2>1, <2>2
<1> HIDE DEF intro
<1>5. /\ session' \in Seq(Msg) /\ Len(session') = Len(intro) + 1 /\ session'[Len(intro) + 1] = UserMsg(run.job)
      /\ \A i \in 1..Len(intro) : session'[i] = intro[i]
  BY <1>2, <1>3, <1>4, Appended
<1> HIDE DEF m
<1>6. \A i \in 1..m : session'[i] = session[i]
  BY <1>1, <1>4, <1>5
<1>7. \A i \in DOMAIN session' : m < i => session'[i].role # "note"
  <2> SUFFICES ASSUME NEW i \in DOMAIN session', m < i PROVE session'[i].role # "note"
    OBVIOUS
  <2>1. i \in 1..Len(intro) \/ i = Len(intro) + 1
    BY <1>4, <1>5
  <2> QED BY <1>3, <1>4, <1>5, <2>1
<1>8. /\ run' \in RunRecord /\ run'.mark = run.mark /\ run'.replyMark = Len(session') /\ run'.said = run.said
      /\ run'.then = IF skip THEN "skip" ELSE run.then
  <2>1. Len(session') \in Nat
    BY <1>5
  <2>2. CASE skip
    <3>1. run' = [run EXCEPT !.replyMark = Len(session'), !.then = "skip"]
      BY <1>2, <2>2
    <3> QED BY <1>1, <2>1, <2>2, <3>1 DEF RunRecord
  <2>3. CASE ~skip
    <3>1. run' = [run EXCEPT !.replyMark = Len(session')]
      BY <1>1, <1>2, <2>3 DEF RunRecord
    <3> QED BY <1>1, <2>1, <2>3, <3>1 DEF RunRecord
  <2> QED BY <2>2, <2>3
<1>9. Active /\ Active' /\ ~Calls' /\ rpc' \in {"await", "reply"} /\ (rpc' = "await" => run'.then = "skip")
  BY <1>2, <1>8 DEF Active, Calls
<1>10. ReplyInv'
  <2>1. run'.mark <= run'.replyMark /\ run'.mark <= Len(session') /\ run'.replyMark <= Len(session')
    BY <1>1, <1>4, <1>5, <1>8
  <2>2. voice'.written = run'.said /\ heard' # <<>>
    BY <1>8, <1>9 DEF ReplyInv
  <2> QED BY <1>0, <1>5, <1>8, <1>9, <2>1, <2>2 DEF ReplyInv
<1>11. Keep = run.mark /\ Keep' = run.mark
  BY <1>8, <1>9 DEF Keep
<1>12. \A i \in DOMAIN session' : Keep < i => session'[i].role # "note"
  <2> SUFFICES ASSUME NEW i \in DOMAIN session', Keep < i PROVE session'[i].role # "note"
    OBVIOUS
  <2>1. CASE m < i
    BY <1>7, <2>1
  <2>2. CASE ~(m < i)
    <3>1. i \in 1..m /\ i \in DOMAIN session
      BY <1>1, <1>5, <2>2 DEF m
    <3> QED BY <1>6, <3>1 DEF KeepInv
  <2> QED BY <2>1, <2>2
<1>13. \A i \in 1..Keep : session'[i] = session[i]
  BY <1>1, <1>6, <1>11
<1>14. Keep' \in Nat /\ Keep <= Keep' /\ Keep' <= Len(session')
  BY <1>1, <1>4, <1>5, <1>11
<1>15. KeepInv'
  BY <1>2, <1>5, <1>12, <1>13, <1>14, KeepStep
<1> QED BY <1>10, <1>15

\* Session.Restore forgets nothing before the mark.
LEMMA KeepRestored ==
  ASSUME LimitsInv, ReplyInv, KeepInv, Aside, silentUntil' => silentUntil,
         NEW n \in Nat, Keep <= n, n <= Len(session), session' = Restore(n), Keep' = Keep \/ Keep' = Len(session')
  PROVE  KeepInv' /\ session' \in Seq(Msg) /\ Len(session') = n
<1> USE DEF Aside
<1>1. Keep \in Nat /\ Keep <= Len(session) /\ Len(session) \in Nat /\ DOMAIN session = 1..Len(session) /\ session \in Seq(Msg)
  BY KeepWithin DEF ReplyInv
<1>2. n \in 0..Len(session) /\ session' = SubSeq(session, 1, n)
  BY <1>1 DEF Restore
<1>3. session' \in Seq(Msg) /\ Len(session') = n /\ \A i \in 1..n : session'[i] = session[i]
  BY <1>1, <1>2, Prefix
<1>4. \A i \in DOMAIN session' : i \in 1..n /\ i \in DOMAIN session
  BY <1>1, <1>3
<1>5. \A i \in DOMAIN session' : Keep < i => session'[i].role # "note"
  BY <1>3, <1>4 DEF KeepInv
<1>6. \A i \in 1..Keep : session'[i] = session[i]
  BY <1>1, <1>3
<1>7. Keep' \in Nat /\ Keep <= Keep' /\ Keep' <= Len(session')
  BY <1>1, <1>3
<1>8. KeepInv'
  BY <1>3, <1>5, <1>6, <1>7, KeepStep
<1> QED BY <1>3, <1>8

\* The last message of the conversation is replaced.
LEMMA LastMessage ==
  ASSUME session \in Seq(Msg), session # <<>>, NEW msg \in Msg, session' = Append(AllBut(session), msg)
  PROVE  /\ session' \in Seq(Msg) /\ Len(session') = Len(session) /\ Len(session) \in Nat \ {0}
         /\ session'[Len(session)] = msg /\ LastOf(session) = session[Len(session)]
         /\ \A i \in 1..(Len(session) - 1) : session'[i] = session[i]
BY LastReplaced

\* The last message is rewritten, and is no note after it if it was none.
LEMMA KeepRewritten ==
  ASSUME LimitsInv, ReplyInv, KeepInv, Aside, silentUntil' => silentUntil, session # <<>>,
         NEW msg \in Msg, session' = Append(AllBut(session), msg), msg.of = LastOf(session).of,
         msg.role = LastOf(session).role \/ (Keep < Len(session) /\ msg.role # "note"),
         Keep' = Keep \/ Keep' = Len(session')
  PROVE  KeepInv' /\ session' \in Seq(Msg) /\ Len(session') = Len(session) /\ LastOf(session') = msg
<1> USE DEF Aside
<1>1. Keep \in Nat /\ Keep <= Len(session) /\ Len(session) \in Nat /\ DOMAIN session = 1..Len(session) /\ session \in Seq(Msg)
  BY KeepWithin DEF ReplyInv
<1>2. /\ session' \in Seq(Msg) /\ Len(session') = Len(session) /\ Len(session) \in Nat \ {0}
      /\ session'[Len(session)] = msg /\ LastOf(session) = session[Len(session)]
      /\ \A i \in 1..(Len(session) - 1) : session'[i] = session[i]
  BY <1>1, LastMessage, Zenon
<1>3. \A i \in DOMAIN session' : (i \in 1..(Len(session) - 1) \/ i = Len(session)) /\ i \in DOMAIN session
  BY <1>1, <1>2
<1>4. \A i \in 1..Keep : i \in DOMAIN session'
  BY <1>1, <1>2
<1>5. \A i \in 1..Keep : session'[i].role = session[i].role /\ session'[i].of = session[i].of
  <2> SUFFICES ASSUME NEW i \in 1..Keep PROVE session'[i].role = session[i].role /\ session'[i].of = session[i].of
    OBVIOUS
  <2>1. CASE i \in 1..(Len(session) - 1)
    BY <1>2, <2>1
  <2>2. CASE i = Len(session)
    <3>1. msg.role = LastOf(session).role
      BY <1>1, <2>2
    <3> QED BY <1>2, <2>2, <3>1
  <2> QED BY <1>3, <1>4, <2>1, <2>2
<1>6. \A i \in DOMAIN session' : Keep < i => session'[i].role # "note"
  <2> SUFFICES ASSUME NEW i \in DOMAIN session', Keep < i PROVE session'[i].role # "note"
    OBVIOUS
  <2>1. session[i].role # "note"
    BY <1>3 DEF KeepInv
  <2>2. CASE i \in 1..(Len(session) - 1)
    BY <1>2, <2>1, <2>2
  <2>3. CASE i = Len(session)
    BY <1>2, <2>1, <2>3
  <2> QED BY <1>3, <2>2, <2>3
<1>7. Keep' \in Nat /\ Keep <= Keep' /\ Keep' <= Len(session')
  BY <1>1, <1>2
<1>8. KeepInv'
  BY <1>2, <1>5, <1>6, <1>7, KeepStep
<1> QED BY <1>2, <1>8 DEF LastOf

\* Session.Reply begins the message.
LEMMA ReplyStep ==
  ASSUME LimitsInv, ReplyInv, KeepInv, Aside, UNCHANGED <<voice, heard, silentUntil>>, heard \in Seq(Nat), RunReply
  PROVE  ReplyInv' /\ KeepInv'
<1> USE DEF Aside
<1> DEFINE msg == ReplyMsg("reply", Reply, 0)
<1>0. RunRecord' = RunRecord /\ Msg' = Msg /\ MaxPieces \in Nat
  BY Fixed, Bounds
<1>1. /\ run \in RunRecord /\ session \in Seq(Msg) /\ Len(session) \in Nat /\ run.mark \in Nat /\ run.replyMark \in Nat
      /\ run.said \in 0..MaxPieces
  BY DEF ReplyInv, RunRecord
<1>2. rpc = "reply" /\ rpc' = "write" /\ session' = Append(session, msg) /\ run' = [run EXCEPT !.from = run.said]
  BY DEF RunReply
<1>3. Active /\ Active' /\ ~Calls'
  BY <1>2 DEF Active, Calls
<1>4. msg \in Msg /\ msg.role = "reply" /\ msg.len = 0
  <2>1. Reply \in Nat /\ 0 \in 0..MaxPieces
    BY <1>0 DEF Reply
  <2> QED BY <2>1, Messages
<1> HIDE DEF msg
<1>5. /\ run' \in RunRecord /\ run'.mark = run.mark /\ run'.replyMark = run.replyMark /\ run'.said = run.said
      /\ run'.from = run.said
  BY <1>1, <1>2 DEF RunRecord
<1>6. KeepInv' /\ session' \in Seq(Msg) /\ Len(session') = Len(session) + 1 /\ LastOf(session') = msg
  BY <1>2, <1>3, <1>4, <1>5, KeepAdded
<1>7. /\ run.mark <= run.replyMark /\ run.replyMark <= Len(session) /\ voice.written = run.said /\ heard # <<>>
  BY <1>3 DEF ReplyInv
<1>8. /\ run'.mark <= run'.replyMark /\ run'.replyMark < Len(session') /\ run'.mark <= Len(session')
      /\ LastOf(session').len + run'.from = run'.said /\ run'.replyMark <= Len(session')
  BY <1>0, <1>1, <1>4, <1>5, <1>6, <1>7
<1>9. ReplyInv'
  BY <1>0, <1>2, <1>3, <1>5, <1>6, <1>7, <1>8 DEF ReplyInv
<1> QED BY <1>6, <1>9

\* replyWriter.Write: the message grows by a piece.
LEMMA WriteStep ==
  ASSUME LimitsInv, ReplyInv, KeepInv, VoiceInv, Aside, UNCHANGED <<heard, silentUntil>>, RunWrite
  PROVE  ReplyInv' /\ KeepInv'
<1> USE DEF Aside
<1> DEFINE msg == [LastOf(session) EXCEPT !.len = @ + 1]
<1>0. RunRecord' = RunRecord /\ Msg' = Msg /\ MaxPieces \in Nat
  BY Fixed, Bounds
<1>1. /\ run \in RunRecord /\ session \in Seq(Msg) /\ Len(session) \in Nat /\ run.mark \in Nat /\ run.replyMark \in Nat
      /\ run.said \in 0..MaxPieces /\ run.from \in 0..MaxPieces
  BY DEF ReplyInv, RunRecord
<1>2. /\ rpc = "write" /\ rpc' = "write" /\ run.said < MaxPieces /\ session' = Append(AllBut(session), msg)
      /\ run' = [run EXCEPT !.said = @ + 1, !.voicing = TRUE] /\ voice' = [voice EXCEPT !.written = @ + 1]
  BY DEF RunWrite
<1>3. Active /\ Active' /\ ~Calls'
  BY <1>2 DEF Active, Calls
<1>4. /\ run.mark <= run.replyMark /\ run.replyMark < Len(session) /\ voice.written = run.said /\ heard # <<>>
      /\ LastOf(session).len + run.from = run.said
  BY <1>2, <1>3 DEF ReplyInv
<1>5. session # <<>> /\ LastOf(session) \in Msg
  BY <1>1, <1>4 DEF LastOf
<1>6. msg \in Msg /\ msg.role = LastOf(session).role /\ msg.of = LastOf(session).of /\ msg.len = LastOf(session).len + 1
  <2>1. LastOf(session).len \in 0..MaxPieces
    BY <1>5 DEF Msg
  <2>2. LastOf(session).len + 1 \in 0..MaxPieces
    <3>1. /\ run.said \in Nat /\ run.from \in Nat /\ run.said < MaxPieces /\ LastOf(session).len \in Nat
          /\ LastOf(session).len + run.from = run.said
      BY <1>0, <1>1, <1>2, <1>4, <2>1
    <3> QED BY <1>0, <3>1
  <2> QED BY <1>5, <2>2 DEF Msg
<1> HIDE DEF msg
<1>7. /\ run' \in RunRecord /\ run'.mark = run.mark /\ run'.replyMark = run.replyMark /\ run'.said = run.said + 1
      /\ run'.from = run.from
  <2>1. run.said + 1 \in 0..MaxPieces
    BY <1>0, <1>1, <1>2
  <2> QED BY <1>1, <1>2, <2>1 DEF RunRecord
<1>8. Keep' = Keep
  BY <1>3, <1>7 DEF Keep
<1>9. KeepInv' /\ session' \in Seq(Msg) /\ Len(session') = Len(session) /\ LastOf(session') = msg
  BY <1>2, <1>5, <1>6, <1>8, KeepRewritten
<1>10. voice'.written = voice.written + 1
  BY <1>2 DEF VoiceInv
<1>11. /\ run'.mark <= run'.replyMark /\ run'.replyMark < Len(session') /\ run'.mark <= Len(session')
       /\ run'.replyMark <= Len(session') /\ voice'.written = run'.said
  BY <1>1, <1>4, <1>7, <1>9, <1>10
<1>12. LastOf(session').len + run'.from = run'.said
  <2>1. LastOf(session).len \in 0..MaxPieces
    BY <1>5 DEF Msg
  <2>2. LastOf(session').len = LastOf(session).len + 1
    BY <1>6, <1>9
  <2> QED BY <1>0, <1>1, <1>4, <1>7, <2>1, <2>2
<1>13. ReplyInv'
  BY <1>0, <1>2, <1>3, <1>4, <1>7, <1>9, <1>11, <1>12 DEF ReplyInv
<1> QED BY <1>9, <1>13

\* The silent reply is asked for again.
LEMMA AgainStep ==
  ASSUME LimitsInv, ReplyInv, KeepInv, Aside, UNCHANGED <<voice, heard, silentUntil>>, RunAgain
  PROVE  ReplyInv' /\ KeepInv'
<1> USE DEF Aside
<1>0. RunRecord' = RunRecord /\ Msg' = Msg /\ 0 \in 0..MaxRounds
  BY Fixed, Bounds
<1>1. run \in RunRecord /\ session \in Seq(Msg) /\ Len(session) \in Nat /\ run.mark \in Nat /\ run.replyMark \in Nat
  BY DEF ReplyInv, RunRecord
<1>2. /\ rpc = "written" /\ rpc' = "reply"
      /\ \/ run' = [run EXCEPT !.retried = TRUE, !.called = FALSE, !.rounds = 0] /\ session' = session
         \/ run' = [run EXCEPT !.overruled = TRUE, !.called = FALSE, !.rounds = 0] /\ session' = Restore(run.replyMark)
  BY DEF RunAgain
<1>3. Active /\ Active' /\ ~Calls'
  BY <1>2 DEF Active, Calls
<1>4. run.mark <= run.replyMark /\ run.replyMark < Len(session) /\ voice.written = run.said /\ heard # <<>>
  BY <1>2, <1>3 DEF ReplyInv
<1>5. run' \in RunRecord /\ run'.mark = run.mark /\ run'.replyMark = run.replyMark /\ run'.said = run.said
  <2>1. CASE run' = [run EXCEPT !.retried = TRUE, !.called = FALSE, !.rounds = 0]
    BY <1>0, <1>1, <2>1 DEF RunRecord
  <2>2. CASE run' = [run EXCEPT !.overruled = TRUE, !.called = FALSE, !.rounds = 0]
    BY <1>0, <1>1, <2>2 DEF RunRecord
  <2> QED BY <1>2, <2>1, <2>2
<1>6. Keep = run.mark /\ Keep' = Keep
  BY <1>3, <1>5 DEF Keep
<1>7. KeepInv' /\ session' \in Seq(Msg) /\ run.replyMark <= Len(session')
  <2>1. CASE session' = session
    <3>1. KeepInv'
      BY <1>6, <2>1, KeepSame
    <3> QED BY <1>1, <1>4, <2>1, <3>1
  <2>2. CASE session' = Restore(run.replyMark)
    <3>1. Keep <= run.replyMark /\ run.replyMark <= Len(session)
      BY <1>1, <1>4, <1>6
    <3>2. KeepInv' /\ session' \in Seq(Msg) /\ Len(session') = run.replyMark
      BY <1>1, <1>6, <2>2, <3>1, KeepRestored
    <3> QED BY <1>1, <3>2
  <2> QED BY <1>2, <2>1, <2>2
<1>8. run'.mark <= run'.replyMark /\ run'.replyMark <= Len(session') /\ run'.mark <= Len(session')
  BY <1>1, <1>4, <1>5, <1>7
<1>9. ReplyInv'
  BY <1>0, <1>2, <1>3, <1>4, <1>5, <1>7, <1>8 DEF ReplyInv
<1> QED BY <1>7, <1>9

\* The reply stands as written.
LEMMA StandsStep ==
  ASSUME LimitsInv, ReplyInv, KeepInv, VoiceInv, Aside, UNCHANGED <<heard, silentUntil>>, heard \in Seq(Nat),
         NEW until \in BOOLEAN, NEW echoed \in BOOLEAN, RunStands(until, echoed)
  PROVE  ReplyInv' /\ KeepInv'
<1> USE DEF Aside
<1> DEFINE hush == [LastOf(session) EXCEPT !.role = "hush"]
           msg == ReplyMsg("added", Reply, run.said)
<1>0. RunRecord' = RunRecord /\ Msg' = Msg
  BY Fixed
<1>1. /\ run \in RunRecord /\ session \in Seq(Msg) /\ Len(session) \in Nat /\ run.mark \in Nat /\ run.replyMark \in Nat
      /\ run.said \in 0..MaxPieces
  BY DEF ReplyInv, RunRecord
<1>2. /\ rpc = "written" /\ rpc' \in {"spoken", "await", "playback"}
      /\ run' = [run EXCEPT !.echoed = echoed, !.then = "playback"] /\ voice' = [voice EXCEPT !.ended = run.voicing]
  BY DEF RunStands
<1>3. \/ session' = Append(Restore(run.replyMark), msg)
      \/ session' = Append(AllBut(session), hush)
      \/ session' = session
  BY DEF RunStands
<1>4. run' \in RunRecord /\ run'.mark = run.mark /\ run'.replyMark = run.replyMark /\ run'.said = run.said /\ run'.then = "playback"
  BY <1>1, <1>2 DEF RunRecord
<1>5. Active /\ Active' /\ ~Calls'
  BY <1>2, <1>4 DEF Active, Calls
<1>6. run.mark <= run.replyMark /\ run.replyMark < Len(session) /\ voice.written = run.said /\ heard # <<>>
  BY <1>2, <1>5 DEF ReplyInv
<1>7. voice'.written = run'.said
  BY <1>2, <1>4, <1>6 DEF VoiceInv
<1>8. Keep = run.mark /\ Keep' = Keep
  BY <1>4, <1>5 DEF Keep
<1>9. session # <<>> /\ LastOf(session) \in Msg
  BY <1>1, <1>6 DEF LastOf
<1>10. KeepInv' /\ session' \in Seq(Msg) /\ run.replyMark < Len(session')
  <2>1. CASE session' = session
    <3>1. KeepInv'
      BY <1>8, <2>1, KeepSame
    <3> QED BY <1>1, <1>6, <2>1, <3>1
  <2>2. CASE session' = Append(AllBut(session), hush)
    <3>1. hush \in Msg /\ hush.role = "hush" /\ hush.of = LastOf(session).of
      BY <1>9 DEF Msg
    <3>2. Keep < Len(session)
      BY <1>1, <1>6, <1>8
    <3> HIDE DEF hush
    <3>3. KeepInv' /\ session' \in Seq(Msg) /\ Len(session') = Len(session)
      BY <1>8, <1>9, <2>2, <3>1, <3>2, KeepRewritten
    <3> QED BY <1>6, <3>3
  <2>3. CASE session' = Append(Restore(run.replyMark), msg)
    <3> DEFINE s == Restore(run.replyMark)
    <3>1. msg \in Msg /\ msg.role = "added"
      <4>1. Reply \in Nat
        BY DEF Reply
      <4> QED BY <1>1, <4>1, Messages
    <3>2. s \in Seq(Msg) /\ Len(s) = run.replyMark /\ \A i \in 1..run.replyMark : s[i] = session[i]
      <4>1. run.replyMark \in 0..Len(session)
        BY <1>1, <1>6
      <4> QED BY <1>1, <4>1, Prefix DEF Restore
    <3> HIDE DEF s, msg
    <3>3. /\ session' \in Seq(Msg) /\ Len(session') = run.replyMark + 1 /\ session'[run.replyMark + 1] = msg
          /\ \A i \in 1..run.replyMark : session'[i] = session[i]
      BY <2>3, <3>1, <3>2, Appended DEF s
    <3>4. \A i \in 1..Keep : session'[i] = session[i]
      BY <1>1, <1>6, <1>8, <3>3
    <3>5. \A i \in DOMAIN session' : Keep < i => session'[i].role # "note"
      <4> SUFFICES ASSUME NEW i \in DOMAIN session', Keep < i PROVE session'[i].role # "note"
        OBVIOUS
      <4>1. CASE i = run.replyMark + 1
        BY <3>1, <3>3, <4>1
      <4>2. CASE i # run.replyMark + 1
        <5>1. DOMAIN session = 1..Len(session) /\ DOMAIN session' = 1..(run.replyMark + 1)
          BY <1>1, <3>3
        <5>2. i \in 1..run.replyMark
          BY <1>1, <4>2, <5>1
        <5>3. i \in DOMAIN session
          BY <1>1, <1>6, <5>1, <5>2
        <5> QED BY <3>3, <5>2, <5>3 DEF KeepInv
      <4> QED BY <4>1, <4>2
    <3>6. Keep' \in Nat /\ Keep <= Keep' /\ Keep' <= Len(session')
      BY <1>1, <1>6, <1>8, <3>3
    <3>7. KeepInv'
      BY <3>3, <3>4, <3>5, <3>6, KeepStep
    <3> QED BY <1>1, <3>3, <3>7
  <2> QED BY <1>3, <2>1, <2>2, <2>3
<1>11. /\ run'.mark <= run'.replyMark /\ run'.replyMark <= Len(session') /\ run'.mark <= Len(session')
       /\ run'.replyMark < Len(session') /\ session' # <<>>
  BY <1>1, <1>4, <1>6, <1>10
<1>12. ReplyInv'
  BY <1>0, <1>2, <1>4, <1>5, <1>6, <1>7, <1>10, <1>11 DEF ReplyInv
<1> QED BY <1>10, <1>12

\* awaitTurn, and what follows it.
LEMMA AwaitStep ==
  ASSUME LimitsInv, ReplyInv, KeepInv, Aside, UNCHANGED <<voice, heard, silentUntil>>, RunAwait \/ RunAwake
  PROVE  ReplyInv' /\ KeepInv'
<1> USE DEF Aside
<1>0. RunRecord' = RunRecord /\ Msg' = Msg /\ MaxRounds' = MaxRounds /\ MaxRounds \in Nat
  BY Fixed, Bounds
<1>1. /\ run \in RunRecord /\ session \in Seq(Msg) /\ Len(session) \in Nat /\ run.mark \in Nat /\ run.replyMark \in Nat
      /\ run.rounds \in 0..MaxRounds /\ run.mark <= Len(session)
  BY DEF ReplyInv, RunRecord
<1>2. rpc \in {"await", "asleep"} /\ Active
  BY DEF RunAwait, RunAwake, Active
<1>3. /\ run.mark <= run.replyMark /\ run.replyMark <= Len(session) /\ voice.written = run.said /\ heard # <<>>
      /\ (run.then = "call" => run.replyMark < Len(session) /\ run.rounds + 1 < MaxRounds)
      /\ (run.then # "skip" => session # <<>>)
  BY <1>2 DEF ReplyInv, Calls
<1>4. Keep = run.mark
  BY <1>2 DEF Keep
<1>5. \/ rpc' \in {"await", "asleep"} /\ UNCHANGED <<session, run>>
      \/ \E ok \in BOOLEAN : Awaited(ok)
  <2>1. (run.job.id # 0 \/ ~cut) \in BOOLEAN
    OBVIOUS
  <2> QED BY <2>1 DEF RunAwait, RunAwake
<1>6. CASE rpc' \in {"await", "asleep"} /\ UNCHANGED <<session, run>>
  <2>1. Active' /\ Keep' = Keep /\ (Calls' <=> Calls)
    BY <1>2, <1>6 DEF Active, Keep, Calls
  <2>2. KeepInv'
    BY <1>6, <2>1, KeepSame
  <2>3. ReplyInv'
    BY <1>0, <1>1, <1>2, <1>3, <1>6, <2>1 DEF ReplyInv, Calls
  <2> QED BY <2>2, <2>3
<1>7. CASE \E ok \in BOOLEAN : Awaited(ok)
  <2>1. PICK ok \in BOOLEAN : Awaited(ok)
    BY <1>7
  <2>2. CASE run.then = "skip"
    <3>1. rpc' = "finish" /\ run' = run /\ (session' = session \/ session' = Restore(run.mark))
      BY <2>1, <2>2 DEF Awaited
    <3>2. ~Active' /\ ~Calls' /\ Keep' = Len(session')
      BY <3>1 DEF Active, Calls, Keep
    <3>3. KeepInv' /\ session' \in Seq(Msg) /\ run.mark <= Len(session')
      <4>1. CASE session' = session
        <5>1. KeepInv'
          BY <3>2, <4>1, KeepSame
        <5> QED BY <1>1, <4>1, <5>1
      <4>2. CASE session' = Restore(run.mark)
        <5>1. KeepInv' /\ session' \in Seq(Msg) /\ Len(session') = run.mark
          BY <1>1, <1>4, <3>2, <4>2, KeepRestored
        <5> QED BY <1>1, <5>1
      <4> QED BY <3>1, <4>1, <4>2
    <3>4. ReplyInv'
      BY <1>0, <1>1, <3>1, <3>2, <3>3 DEF ReplyInv
    <3> QED BY <3>3, <3>4
  <2>3. CASE run.then = "call" /\ ok
    <3>1. rpc' = "reply" /\ session' = Append(session, ToolMsg) /\ run' = [run EXCEPT !.rounds = @ + 1, !.called = TRUE]
      BY <2>1, <2>3 DEF Awaited
    <3>2. Active' /\ ~Calls'
      BY <3>1 DEF Active, Calls
    <3>3. run' \in RunRecord /\ run'.mark = run.mark /\ run'.replyMark = run.replyMark /\ run'.said = run.said
      <4>1. run.rounds + 1 \in 0..MaxRounds
        BY <1>0, <1>1, <1>3, <2>3
      <4> QED BY <1>1, <3>1, <4>1 DEF RunRecord
    <3>4. ToolMsg \in Msg /\ ToolMsg.role = "tool"
      BY Messages
    <3>5. KeepInv' /\ session' \in Seq(Msg) /\ Len(session') = Len(session) + 1
      BY <1>2, <3>1, <3>2, <3>3, <3>4, KeepAdded
    <3>6. run'.mark <= run'.replyMark /\ run'.replyMark <= Len(session') /\ run'.mark <= Len(session')
      BY <1>1, <1>3, <3>3, <3>5
    <3>7. ReplyInv'
      BY <1>0, <1>3, <3>1, <3>2, <3>3, <3>5, <3>6 DEF ReplyInv
    <3> QED BY <3>5, <3>7
  <2>4. CASE run.then # "skip" /\ ~(run.then = "call" /\ ok)
    <3>1. UNCHANGED <<session, run>> /\ (rpc' = "playback" \/ (rpc' = "written" /\ run.then = "call"))
      BY <2>1, <2>4 DEF Awaited
    <3>2. Active' /\ ~Calls' /\ Keep' = Keep
      BY <1>2, <3>1 DEF Active, Calls, Keep
    <3>3. KeepInv'
      BY <3>1, <3>2, KeepSame
    <3>4. ReplyInv'
      BY <1>0, <1>1, <1>3, <2>4, <3>1, <3>2 DEF ReplyInv
    <3> QED BY <3>3, <3>4
  <2> QED BY <2>2, <2>3, <2>4
<1> QED BY <1>5, <1>6, <1>7

\* The conversation keeps what was heard of a cut reply, or nothing of one
\* that is superseded; a silence that is chosen has its message.
LEMMA SettleStep ==
  ASSUME LimitsInv, ReplyInv, KeepInv, PlaceInv, Aside, UNCHANGED <<voice, heard>>, RunSettle
  PROVE  ReplyInv' /\ KeepInv'
<1> USE DEF Aside
<1> DEFINE last == LastOf(session)
           short == [last EXCEPT !.len = Kept]
<1>0. RunRecord' = RunRecord /\ Msg' = Msg /\ MaxPieces \in Nat
  BY Fixed, Bounds
<1>1. /\ run \in RunRecord /\ session \in Seq(Msg) /\ Len(session) \in Nat /\ run.mark \in Nat
      /\ run.said \in 0..MaxPieces /\ run.from \in 0..MaxPieces /\ run.mark <= Len(session)
  BY DEF ReplyInv, RunRecord
<1>2. rpc = "settle" /\ rpc' = "finish" /\ run' = run
  BY DEF RunSettle
<1>3. Active /\ ~Active' /\ ~Calls' /\ Keep = run.mark /\ Keep' = Len(session')
  BY <1>2 DEF Active, Calls, Keep
<1>4. session # <<>> /\ last \in Msg
  BY <1>1, <1>2 DEF ReplyInv, LastOf
<1>5. Kept \in Nat
  <2>1. played \in Nat
    BY DEF PlaceInv
  <2>2. voicedAt \in Nat
    BY <1>0, <1>1, <2>1 DEF voicedAt
  <2> QED BY <1>0, <1>1, <2>2 DEF Kept
<1>6. \/ session' = Restore(run.mark) /\ silentUntil' = silentUntil
      \/ /\ session' = session \/ (last.role = "reply" /\ last.len > Kept /\ session' = Append(AllBut(session), short))
         /\ silentUntil' => silentUntil \/ last.role = "hush"
  BY DEF RunSettle, Stands, Truncate
<1>7. CASE session' = Restore(run.mark) /\ silentUntil' = silentUntil
  <2>1. KeepInv' /\ session' \in Seq(Msg) /\ Len(session') = run.mark
    BY <1>1, <1>3, <1>7, KeepRestored
  <2>2. ReplyInv'
    BY <1>0, <1>1, <1>2, <1>3, <2>1 DEF ReplyInv
  <2> QED BY <2>1, <2>2
<1>8. CASE session' = session /\ (silentUntil' => silentUntil \/ last.role = "hush")
  <2>1. \A i \in DOMAIN session' : Keep < i => session'[i].role # "note"
    BY <1>8 DEF KeepInv
  <2>2. Len(session) \in 1..Keep' /\ last = session'[Len(session)]
    BY <1>1, <1>3, <1>4, <1>8 DEF LastOf
  <2>3. session' \in Seq(Msg) /\ Keep' \in Nat /\ Keep <= Keep' /\ Keep' <= Len(session')
    BY <1>1, <1>3, <1>8
  <2>4. silentUntil' => silentUntil \/ \E i \in 1..Keep' : session'[i].role = "hush"
    BY <1>8, <2>2
  <2>5. \A i \in 1..Keep : session'[i].role = session[i].role /\ session'[i].of = session[i].of
    BY <1>8
  <2>6. KeepInv'
    BY <2>1, <2>3, <2>4, <2>5, KeepStep
  <2>7. ReplyInv'
    BY <1>0, <1>1, <1>2, <1>3, <1>8 DEF ReplyInv
  <2> QED BY <2>6, <2>7
<1>9. CASE /\ last.role = "reply" /\ last.len > Kept /\ session' = Append(AllBut(session), short)
           /\ (silentUntil' => silentUntil \/ last.role = "hush")
  <2>1. last.len \in 0..MaxPieces
    BY <1>4 DEF Msg
  <2>2. Kept \in 0..MaxPieces
    BY <1>0, <1>5, <1>9, <2>1
  <2>3. short \in Msg /\ short.role = last.role /\ short.of = last.of
    BY <1>4, <2>2 DEF Msg
  <2>4. silentUntil' => silentUntil
    BY <1>9
  <2>5. session' = Append(AllBut(session), short)
    BY <1>9
  <2> HIDE DEF short
  <2>6. KeepInv' /\ session' \in Seq(Msg) /\ Len(session') = Len(session)
    BY <1>3, <1>4, <2>3, <2>4, <2>5, KeepRewritten
  <2>7. ReplyInv'
    BY <1>0, <1>1, <1>2, <1>3, <2>6 DEF ReplyInv
  <2> QED BY <2>6, <2>7
<1> QED BY <1>6, <1>7, <1>8, <1>9

-----------------------------------------------------------------------------
\* What the steps of a reply leave alone.
LEMMA RunAside ==
  ASSUME Run, UNCHANGED limits
  PROVE  /\ Aside
         /\ RunArm \/ UNCHANGED heard
         /\ RunArm \/ RunWrite \/ (\E until, echoed \in BOOLEAN : RunStands(until, echoed)) \/ UNCHANGED voice
         /\ RunSettle \/ UNCHANGED silentUntil
         /\ RunUnhold \/ RunNothing \/ RunCalls \/ RunSpoken \/ RunPlayback \/ RunFinish \/ RunUnbusy
              \/ (\E err \in BOOLEAN : RunWritten(err)) => UNCHANGED session
<1> USE DEF talkVars, noteVars, pumpVars, Aside
<1>1. CASE RunUnhold \/ RunNothing \/ RunCalls \/ RunSpoken \/ RunPlayback
  BY <1>1 DEF RunUnhold, RunNothing, RunCalls, RunSpoken, RunPlayback
<1>2. CASE RunFinish \/ RunUnbusy \/ \E err \in BOOLEAN : RunWritten(err)
  BY <1>2 DEF RunFinish, RunUnbusy, RunWritten
<1>3. CASE RunArm
  <2>1. UNCHANGED <<notes, told, silentUntil>> /\ rpc = "arm" /\ rpc' \in {"transcribe", "spoken", "reply"}
    BY <1>3 DEF RunArm
  <2>2. ~(RunUnhold \/ RunNothing \/ RunCalls \/ RunSpoken \/ RunPlayback \/ RunFinish \/ RunUnbusy \/ \E err \in BOOLEAN : RunWritten(err))
    BY <2>1 DEF RunUnhold, RunNothing, RunCalls, RunSpoken, RunPlayback, RunFinish, RunUnbusy, RunWritten
  <2> QED BY <1>3, <2>1, <2>2
<1>4. CASE RunReply \/ RunWrite \/ RunAgain \/ (\E skip \in BOOLEAN : RunTranscribe(skip))
  <2>1. UNCHANGED <<notes, told, silentUntil, heard>> /\ (RunWrite \/ UNCHANGED voice)
    BY <1>4 DEF RunReply, RunWrite, RunAgain, RunTranscribe
  <2>2. \/ rpc = "reply" \/ (rpc = "write" /\ rpc' = "write") \/ (rpc = "written" /\ rpc' = "reply")
        \/ (rpc = "transcribe" /\ rpc' \in {"await", "reply"})
    BY <1>4 DEF RunReply, RunWrite, RunAgain, RunTranscribe
  <2>3. ~(RunUnhold \/ RunNothing \/ RunCalls \/ RunSpoken \/ RunPlayback \/ RunFinish \/ RunUnbusy \/ \E err \in BOOLEAN : RunWritten(err))
    BY <2>2 DEF RunUnhold, RunNothing, RunCalls, RunSpoken, RunPlayback, RunFinish, RunUnbusy, RunWritten
  <2> QED BY <2>1, <2>3
<1>5. CASE (\E until, echoed \in BOOLEAN : RunStands(until, echoed)) \/ RunAwait \/ RunAwake
  <2>1. UNCHANGED <<notes, told, silentUntil, heard>> /\ ((\E until, echoed \in BOOLEAN : RunStands(until, echoed)) \/ UNCHANGED voice)
    BY <1>5 DEF RunStands, RunAwait, RunAwake
  <2>2. rpc \in {"written", "await", "asleep"}
    BY <1>5 DEF RunStands, RunAwait, RunAwake
  <2>3. ~(RunUnhold \/ RunNothing \/ RunCalls \/ RunSpoken \/ RunPlayback \/ RunFinish \/ RunUnbusy \/ \E err \in BOOLEAN : RunWritten(err))
    BY <2>2 DEF RunUnhold, RunNothing, RunCalls, RunSpoken, RunPlayback, RunFinish, RunUnbusy, RunWritten
  <2> QED BY <2>1, <2>3
<1>6. CASE RunSettle
  <2>1. UNCHANGED <<notes, told, heard, voice>> /\ rpc = "settle"
    BY <1>6 DEF RunSettle
  <2>2. ~(RunUnhold \/ RunNothing \/ RunCalls \/ RunSpoken \/ RunPlayback \/ RunFinish \/ RunUnbusy \/ \E err \in BOOLEAN : RunWritten(err))
    BY <2>1 DEF RunUnhold, RunNothing, RunCalls, RunSpoken, RunPlayback, RunFinish, RunUnbusy, RunWritten
  <2> QED BY <1>6, <2>1, <2>2
<1> QED BY <1>1, <1>2, <1>3, <1>4, <1>5, <1>6 DEF Run

\* The responder keeps its place in the conversation, and the notes in it.
LEMMA ResponderKeepsTalk ==
  ASSUME LimitsInv, UNCHANGED limits, PlaceInv, JobsInv, VoiceInv, ReplyInv, KeepInv, heard \in Seq(Nat), Responder
  PROVE  ReplyInv' /\ KeepInv'
<1>1. CASE RespondJob \/ RespondNoted \/ RespondMoment \/ RespondStop
  BY <1>1, BetweenReplies
<1>2. CASE Run
  <2>0. Aside
    BY <1>2, RunAside
  <2>1. CASE RunArm
    BY <2>0, <2>1, ArmStep
  <2>2. CASE \/ RunUnhold \/ RunNothing \/ RunCalls \/ RunSpoken \/ RunPlayback \/ RunFinish \/ RunUnbusy
             \/ \E err \in BOOLEAN : RunWritten(err)
    <3>1. UNCHANGED <<session, silentUntil, voice, heard>>
      <4>1. rpc \in {"unhold", "transcribe", "write", "spoken", "playback", "finish", "unbusy"}
            /\ (rpc = "write" => rpc' # "write")
        BY <2>2 DEF RunUnhold, RunNothing, RunCalls, RunSpoken, RunPlayback, RunFinish, RunUnbusy, RunWritten
      <4>2. ~RunArm /\ ~RunWrite /\ ~(\E until, echoed \in BOOLEAN : RunStands(until, echoed)) /\ ~RunSettle
        BY <4>1 DEF RunArm, RunWrite, RunStands, RunSettle
      <4> QED BY <1>2, <2>2, <4>2, RunAside
    <3> QED BY <2>0, <2>2, <3>1, PlainStep
  <2>3. CASE RunWrite
    <3>1. UNCHANGED <<heard, silentUntil>>
      BY <2>3 DEF RunWrite, talkVars
    <3> QED BY <2>0, <2>3, <3>1, WriteStep
  <2>4. CASE RunReply
    <3>1. UNCHANGED <<voice, heard, silentUntil>>
      BY <2>4 DEF RunReply, pumpVars
    <3> QED BY <2>0, <2>4, <3>1, ReplyStep
  <2>5. CASE RunAgain
    <3>1. UNCHANGED <<voice, heard, silentUntil>>
      BY <2>5 DEF RunAgain, pumpVars
    <3> QED BY <2>0, <2>5, <3>1, AgainStep
  <2>6. CASE \E skip \in BOOLEAN : RunTranscribe(skip)
    <3>1. PICK skip \in BOOLEAN : RunTranscribe(skip)
      BY <2>6
    <3>2. UNCHANGED <<voice, heard>>
      BY <3>1 DEF RunTranscribe, pumpVars
    <3> QED BY <2>0, <3>1, <3>2, TranscribeStep
  <2>7. CASE \E until, echoed \in BOOLEAN : RunStands(until, echoed)
    <3>1. PICK until \in BOOLEAN, echoed \in BOOLEAN : RunStands(until, echoed)
      BY <2>7
    <3>2. UNCHANGED <<heard, silentUntil>>
      BY <3>1 DEF RunStands
    <3> QED BY <2>0, <3>1, <3>2, StandsStep
  <2>8. CASE RunAwait \/ RunAwake
    <3>1. UNCHANGED <<voice, heard, silentUntil>>
      BY <2>8 DEF RunAwait, RunAwake, pumpVars
    <3> QED BY <2>0, <2>8, <3>1, AwaitStep
  <2>9. CASE RunSettle
    <3>1. UNCHANGED <<voice, heard>>
      BY <2>9 DEF RunSettle, pumpVars
    <3> QED BY <2>0, <2>9, <3>1, SettleStep
  <2> QED BY <1>2, <2>1, <2>2, <2>3, <2>4, <2>5, <2>6, <2>7, <2>8, <2>9 DEF Run
<1> QED BY <1>1, <1>2 DEF Responder

-----------------------------------------------------------------------------
\* The agent begins with an empty conversation.
LEMMA InitFull == Init => FullInv
<1> SUFFICES ASSUME Init PROVE FullInv
  OBVIOUS
<1>1. LimitsInv
  BY DEF Init, LimitsInv
<1>2. /\ MaxPauses \in Nat /\ MaxUtterances \in Nat /\ MaxSays \in Nat /\ MaxNotes \in Nat /\ MaxPieces \in Nat
      /\ JobsCap \in Nat \ {0} /\ MaxRounds \in Nat \ {0}
  BY <1>1, Bounds
<1>3. 0 \in 0..MaxPauses /\ 0 \in 0..MaxUtterances /\ 0 \in 0..MaxSays /\ 0 \in 0..MaxNotes /\ 0 \in 0..MaxPieces /\ 0 \in 0..MaxRounds
  BY <1>2
<1>4. FlagInv
  BY DEF Init, FlagInv
<1>5. PlaceInv
  BY <1>3 DEF Init, PlaceInv
<1>6. EarInv
  <2>1. ear \in EarRecord /\ utt \in [gen : 0..MaxUtterances, open : BOOLEAN] /\ seq \in 0..MaxPauses
    BY <1>3 DEF Init, NoEar, EarRecord
  <2>2. lpc = "frame" /\ ~utt.open /\ ~ear.answered /\ ear.after = "frame" /\ ~ear.speaking /\ ear.talked = 0
    BY DEF Init, NoEar
  <2> QED BY <2>1, <2>2 DEF EarInv
<1>7. JobsInv
  BY <1>2 DEF Init, JobsInv
<1>8. VoiceInv
  BY <1>3 DEF Init, VoiceInv
<1>9. PlayInv
  BY DEF Init, PlayInv
<1>10. ReplyInv
  <2>1. Moment \in Job
    BY DEF Job
  <2>2. run \in RunRecord /\ run.mark = 0
    BY <1>3, <2>1 DEF Init, NoRun, RunRecord
  <2>3. rpc = "idle" /\ session = <<>> /\ ~Active /\ ~Calls
    BY DEF Init, Active, Calls
  <2> QED BY <2>2, <2>3 DEF ReplyInv
<1>11. KeepInv
  <2>1. session = <<>> /\ notes = <<>> /\ told = 0 /\ silentUntil = FALSE /\ DOMAIN session = {} /\ DOMAIN notes = {}
    BY DEF Init
  <2>2. NotesKept
    BY <2>1 DEF NotesKept
  <2> QED BY <1>3, <2>1, <2>2 DEF KeepInv
<1> QED BY <1>1, <1>4, <1>5, <1>6, <1>7, <1>8, <1>9, <1>10, <1>11, InitInv DEF FullInv

\* Every step of every goroutine keeps the whole invariant.
LEMMA NextFull == FullInv /\ [Next]_vars => FullInv'
<1> SUFFICES ASSUME FullInv, [Next]_vars PROVE FullInv'
  OBVIOUS
<1>0. /\ LimitsInv /\ FlagInv /\ PlaceInv /\ EarInv /\ JobsInv /\ VoiceInv /\ PlayInv /\ ReplyInv /\ KeepInv /\ SoundInv /\ TurnInv
  BY DEF FullInv
<1>1. SoundInv' /\ TurnInv'
  BY <1>0, NextInv
<1>2. UNCHANGED limits
  BY DEF Next, Within, vars
<1>3. LimitsInv'
  BY <1>0, <1>2 DEF LimitsInv
<1>4. CASE Application \/ Listener \/ Responder \/ Pump
  <2>1. run.job \in Job /\ heard \in Seq(Nat)
    BY <1>0 DEF ReplyInv, RunRecord, SoundInv, AudioInv
  <2>2. FlagInv' /\ PlaceInv' /\ JobsInv' /\ VoiceInv'
    BY <1>0, <1>2, <1>4, <2>1, FlagsStep, PlaceStep, JobsStep, VoiceStep
  <2>3. PlayInv' /\ (heard # <<>> => heard' # <<>>)
    BY <1>0, <1>4, PlayStep
  <2>4. EarInv'
    <3>1. CASE Listener
      BY <1>0, <1>2, <3>1, EarStep
    <3>2. CASE Application \/ Responder \/ Pump
      <4>1. UNCHANGED <<lpc, ear, utt, seq>>
        BY <3>2, TurnKept
      <4> QED BY <1>0, <1>2, <4>1, Fixed DEF EarInv
    <3> QED BY <1>4, <3>1, <3>2
  <2>5. ReplyInv' /\ KeepInv'
    BY <1>0, <1>2, <1>4, <2>1, <2>3, OthersKeepTalk, ResponderKeepsTalk
  <2> QED BY <1>1, <1>3, <2>2, <2>3, <2>4, <2>5 DEF FullInv
<1>5. CASE UNCHANGED vars
  <2>1. UNCHANGED <<held, late, resumed, release, noted, momentDue, hearing, silentUntil, busy, cancel, cut, current, pumpJobs, speakDone>>
    BY <1>5 DEF vars, audioVars, turnVars, noteVars, jobVars, listenVars, talkVars, pumpVars
  <2>2. UNCHANGED <<rpc, ppc, cpc, played, said, speaker, lastSpeaker, lpc, ear, utt, seq>>
    BY <1>5 DEF vars, audioVars, turnVars, listenVars, talkVars, respondVars, pumpVars, appVars
  <2>3. UNCHANGED <<rpc, run, jobs, voice, play, heard, session, told, notes, silentUntil>>
    BY <1>5 DEF vars, audioVars, noteVars, jobVars, talkVars, respondVars, pumpVars
  <2>4. FlagInv'
    BY <1>0, <2>1 DEF FlagInv
  <2>5. PlaceInv'
    BY <1>0, <1>2, <2>2, Fixed DEF PlaceInv
  <2>6. EarInv'
    BY <1>0, <1>2, <2>2, Fixed DEF EarInv
  <2>7. JobsInv' /\ VoiceInv' /\ PlayInv'
    BY <1>0, <1>2, <2>3, Fixed DEF JobsInv, VoiceInv, PlayInv
  <2>8. (Active' <=> Active) /\ (Calls' <=> Calls) /\ Keep' = Keep
    BY <2>3 DEF Active, Calls, Keep
  <2>9. ReplyInv'
    BY <1>0, <1>2, <2>3, <2>8, Fixed DEF ReplyInv
  <2>10. KeepInv'
    BY <1>0, <1>2, <2>3, <2>8, KeepSame
  <2> QED BY <1>1, <1>3, <2>4, <2>5, <2>6, <2>7, <2>9, <2>10 DEF FullInv
<1> QED BY <1>4, <1>5 DEF Next, Within

\* Whatever is interrupted, superseded, forgotten or said again: every note
\* of Note joins the conversation once, in the order it was told, and stays in
\* it; a silence that the agent keeps has its message there; and the queue,
\* the marks and the counts stay within their bounds.
THEOREM ConversationIsKept == Spec => []ConversationKept
<1>1. FullInv => ConversationKept
  <2> SUFFICES ASSUME FullInv PROVE ConversationKept
    OBVIOUS
  <2>0. /\ LimitsInv /\ FlagInv /\ PlaceInv /\ EarInv /\ JobsInv /\ VoiceInv /\ PlayInv /\ ReplyInv /\ KeepInv /\ SoundInv /\ TurnInv
    BY DEF FullInv
  <2>1. NotesKept /\ told \in 0..MaxNotes /\ notes \in Seq(1..told)
    BY <2>0 DEF KeepInv
  <2>2. SilenceRemembered
    <3>1. \A i \in 1..Keep : i \in DOMAIN session
      BY <2>0, KeepWithin
    <3> QED BY <2>0, <3>1 DEF KeepInv, SilenceRemembered
  <2>3. released \in 0..seq /\ seq \in 0..MaxPauses /\ called \subseteq 0..MaxPauses
    <3>1. released \in 0..seq /\ seq \in 0..MaxPauses /\ called \subseteq 0..released /\ MaxPauses \in Nat
      BY <2>0, Bounds DEF TurnInv, EarInv
    <3>2. \A i \in 0..released : i \in 0..MaxPauses
      BY <3>1
    <3> QED BY <3>1, <3>2
  <2>4. /\ run.job \in Job /\ run.mark \in 0..Len(session) /\ run.replyMark \in Nat
        /\ {run.said, run.from} \subseteq 0..MaxPieces /\ run.rounds \in 0..MaxRounds
        /\ session \in Seq(Msg)
    BY <2>0 DEF ReplyInv, RunRecord
  <2>5. heard \in Seq(Nat)
    BY <2>0 DEF SoundInv, AudioInv
  <2>6. TypeOK
    BY <2>0, <2>1, <2>3, <2>4, <2>5 DEF TypeOK, FlagInv, PlaceInv, EarInv, EarRecord, JobsInv, VoiceInv, PlayInv
  <2> QED BY <2>1, <2>2, <2>6 DEF ConversationKept
<1> QED BY <1>1, InitFull, NextFull, PTL DEF Spec

-----------------------------------------------------------------------------
\* What the steps of run do to the queue, the two flags and the job.
LEMMA RunForms ==
  ASSUME run \in RunRecord, Run
  PROVE  /\ UNCHANGED <<jobs, momentDue>>
         /\ RunUnhold \/ UNCHANGED held
         /\ RunUnbusy \/ (UNCHANGED busy /\ run'.job = run.job /\ rpc' \notin {"idle", "moment", "unhold", "exited"})
         /\ RunFinish \/ rpc' # "unbusy"
         /\ rpc \notin {"idle", "moment", "exited"}
<1> USE DEF jobVars, audioVars, noteVars, RunRecord
<1>1. CASE RunUnhold \/ RunArm \/ RunNothing \/ RunReply \/ RunWrite \/ RunCalls \/ RunAgain
  BY <1>1 DEF RunUnhold, RunArm, RunNothing, RunReply, RunWrite, RunCalls, RunAgain
<1>2. CASE \E skip \in BOOLEAN : RunTranscribe(skip)
  BY <1>2 DEF RunTranscribe
<1>3. CASE \E err \in BOOLEAN : RunWritten(err)
  BY <1>3 DEF RunWritten
<1>4. CASE \E until, echoed \in BOOLEAN : RunStands(until, echoed)
  BY <1>4 DEF RunStands
<1>5. CASE RunSpoken \/ RunPlayback \/ RunSettle \/ RunFinish \/ RunUnbusy
  BY <1>5 DEF RunSpoken, RunPlayback, RunSettle, RunFinish, RunUnbusy
<1>6. ASSUME NEW ok, Awaited(ok) PROVE run'.job = run.job /\ rpc' \in {"finish", "reply", "written", "playback"}
  BY <1>6 DEF Awaited
<1>7. CASE RunAwait \/ RunAwake
  BY <1>6, <1>7 DEF RunAwait, RunAwake
<1> QED BY <1>1, <1>2, <1>3, <1>4, <1>5, <1>7 DEF Run

\* What the application, the listener and the pump do to them.
LEMMA OtherForms ==
  ASSUME ear.after \in {"frame", "hear", "dispatch"}, Application \/ Listener \/ Pump
  PROVE  /\ Say \/ ListenSend \/ UNCHANGED jobs
         /\ ListenDispatch \/ ListenRelease \/ UNCHANGED held
         /\ ListenDispatch \/ UNCHANGED busy
         /\ ListenDispatch \/ UNCHANGED seq
         /\ (\E over \in BOOLEAN : ListenJudge(over)) \/ UNCHANGED released
         /\ ListenDispatch \/ lpc' # "send" \/ lpc = "send"
         /\ ListenCancel \/ ListenReset \/ ListenDispatch \/ lpc' \notin {"reset", "dispatch"} \/ UNCHANGED lpc
         /\ (\E over \in BOOLEAN : ListenJudge(over)) \/ lpc' # "release" \/ UNCHANGED lpc
         /\ UNCHANGED momentDue
<1> USE DEF jobVars, audioVars, turnVars, listenVars, noteVars
<1>1. CASE Application
  BY <1>1 DEF Application, StepFrame, StepCount, Say, Note, SetSpeaker, CloseCancel, CloseStop, CloseDone
<1>2. CASE Pump
  BY <1>2 DEF Pump, PumpTake, PumpRead, PumpWrite, PumpDone, PumpStop
<1>3. CASE \E speaking, recent, long \in BOOLEAN : ListenFrame(speaking, recent, long)
  BY <1>3 DEF ListenFrame
<1>4. CASE ListenCancel \/ ListenReset \/ ListenHear \/ ListenOver \/ ListenPause
  BY <1>4 DEF ListenCancel, ListenReset, ListenHear, ListenOver, ListenPause
<1>5. CASE ListenDispatch \/ ListenSend \/ ListenRelease \/ ListenStop
  BY <1>5 DEF ListenDispatch, ListenSend, ListenRelease, ListenStop
<1>6. CASE \E over \in BOOLEAN : ListenJudge(over)
  BY <1>6 DEF ListenJudge
<1> QED BY <1>1, <1>2, <1>3, <1>4, <1>5, <1>6 DEF Listener

\* A reply that is begun, a job that waits and one on the way to the queue
\* each keep busy set; finish, whose look at the queue comes first, is not
\* overtaken by a dispatch.
BusyInv ==
  /\ BusyWhileReplying
  /\ jobs # <<>> \/ lpc = "send" => busy
  /\ rpc = "unbusy" => lpc # "send" /\ (run.empty => jobs = <<>>)

LEMMA BusyStep ==
  ASSUME FullInv, BusyInv, MaxSays = 0, "busy" \notin Windows, Application \/ Listener \/ Responder \/ Pump
  PROVE  BusyInv'
<1>0. run \in RunRecord /\ said \in 0..MaxSays /\ busy \in BOOLEAN /\ ear.after \in {"frame", "hear", "dispatch"}
  BY DEF FullInv, ReplyInv, PlaceInv, FlagInv, TurnInv
<1>1. CASE Application \/ Listener \/ Pump
  <2>1. UNCHANGED <<rpc, run>> /\ ~Say
    BY <1>0, <1>1, RespondKept DEF Say
  <2>2. CASE ListenDispatch
    <3>1. busy' = TRUE /\ jobs' = jobs /\ rpc # "unbusy"
      BY <2>2 DEF ListenDispatch
    <3> QED BY <2>1, <3>1 DEF BusyInv, BusyWhileReplying
  <2>3. CASE ListenSend
    <3>1. lpc = "send" /\ lpc' = "judge" /\ UNCHANGED busy
      BY <2>3 DEF ListenSend
    <3> QED BY <2>1, <3>1 DEF BusyInv, BusyWhileReplying
  <2>4. CASE ~ListenDispatch /\ ~ListenSend
    <3>1. UNCHANGED <<jobs, busy>> /\ (lpc' # "send" \/ lpc = "send")
      BY <1>0, <1>1, <2>1, <2>4, OtherForms
    <3> QED BY <2>1, <3>1 DEF BusyInv, BusyWhileReplying
  <2> QED BY <2>2, <2>3, <2>4
<1>2. CASE Responder
  <2>0. UNCHANGED lpc
    BY <1>2, TurnKept
  <2>1. CASE RespondJob
    <3>1. jobs # <<>> /\ jobs' = <<>> /\ UNCHANGED busy /\ rpc' = "unhold"
      BY <2>1 DEF RespondJob, StartRun
    <3> QED BY <2>0, <3>1 DEF BusyInv, BusyWhileReplying
  <2>2. CASE RespondMoment
    <3>1. jobs' = jobs /\ ((busy' = TRUE /\ rpc' = "unhold") \/ (UNCHANGED busy /\ rpc' = "idle"))
      BY <2>2 DEF RespondMoment, StartRun
    <3> QED BY <2>0, <3>1 DEF BusyInv, BusyWhileReplying
  <2>3. CASE RespondNoted \/ RespondStop
    <3>1. UNCHANGED <<jobs, busy>> /\ rpc' \in {"moment", "exited"}
      BY <2>3 DEF RespondNoted, RespondStop, jobVars
    <3> QED BY <2>0, <3>1 DEF BusyInv, BusyWhileReplying
  <2>4. CASE RunFinish
    <3>1. rpc = "finish" /\ rpc' = "unbusy" /\ lpc # "send" /\ UNCHANGED <<jobs, busy>> /\ run' = [run EXCEPT !.empty = NoneWaits]
      BY <2>4 DEF RunFinish
    <3>2. run'.empty <=> jobs = <<>>
      BY <1>0, <3>1 DEF RunRecord, NoneWaits
    <3> QED BY <2>0, <3>1, <3>2 DEF BusyInv, BusyWhileReplying
  <2>5. CASE RunUnbusy
    <3>1. rpc = "unbusy" /\ rpc' \in {"idle", "moment"} /\ UNCHANGED jobs /\ busy' = (busy /\ ~run.empty)
      BY <2>5 DEF RunUnbusy
    <3>2. run.empty \in BOOLEAN
      BY <1>0 DEF RunRecord
    <3> QED BY <1>0, <2>0, <3>1, <3>2 DEF BusyInv, BusyWhileReplying
  <2>6. CASE Run /\ ~RunFinish /\ ~RunUnbusy
    <3>1. UNCHANGED <<jobs, busy>> /\ rpc' # "unbusy" /\ rpc \notin {"idle", "moment", "exited"}
      BY <1>0, <2>6, RunForms
    <3> QED BY <2>0, <3>1 DEF BusyInv, BusyWhileReplying
  <2> QED BY <1>2, <2>1, <2>2, <2>3, <2>4, <2>5, <2>6 DEF Responder, Run
<1> QED BY <1>1, <1>2

\* While nothing is queued by Say, which sets no busy, and a dispatch and
\* finish do not overtake each other, busy is set from the dispatch of an
\* answer or the beginning of a moment to the end of its reply, whatever is
\* interrupted, superseded or failed in between.
THEOREM BusyIsSet ==
  ASSUME \A l \in Limits : l.MaxSays = 0 /\ "busy" \notin l.Windows
  PROVE  Spec => []BusyWhileReplying
<1>1. Init => FullInv /\ BusyInv
  <2>1. Init => BusyInv
    BY DEF Init, BusyInv, BusyWhileReplying
  <2> QED BY <2>1, InitFull
<1>2. FullInv /\ BusyInv /\ [Next]_vars => FullInv' /\ BusyInv'
  <2> SUFFICES ASSUME FullInv, BusyInv, [Next]_vars PROVE BusyInv'
    BY NextFull
  <2>1. MaxSays = 0 /\ "busy" \notin Windows
    BY DEF FullInv, LimitsInv, MaxSays, Windows
  <2>2. CASE UNCHANGED vars
    BY <2>2 DEF BusyInv, BusyWhileReplying, vars, jobVars, listenVars, respondVars
  <2>3. CASE Application \/ Listener \/ Responder \/ Pump
    BY <2>1, <2>3, BusyStep
  <2> QED BY <2>2, <2>3 DEF Next, Within
<1>3. BusyInv => BusyWhileReplying
  BY DEF BusyInv
<1> QED BY <1>1, <1>2, <1>3, PTL DEF Spec

-----------------------------------------------------------------------------
\* The answer of a turn that is not over.
Owed(j) == j.kind = "utt" /\ released < j.id

\* While an answer whose turn is not over waits in the queue, is on the way to
\* it or is given, held is set.  No other reply takes held back meanwhile:
\* the responder, between taking a job and looking at held, finds none queued
\* behind it, and the listener does not pass interrupt.
HeldInv ==
  /\ Owed(run.job) => held
  /\ \A i \in DOMAIN jobs : Owed(jobs[i]) => held
  /\ \A i \in DOMAIN jobs : jobs[i].id <= seq
  /\ run.job.id <= seq
  /\ lpc = "send" => held
  /\ lpc = "release" => released = seq
  /\ rpc = "unhold" => lpc \notin {"reset", "dispatch", "send"} /\ \A i \in DOMAIN jobs : ~Owed(jobs[i])
  /\ ~momentDue

\* The fields of a job.
LEMMA JobFields == ASSUME LimitsInv, NEW j \in Job PROVE j.id \in Nat /\ j.kind \in {"utt", "say", "moment"}
<1>1. MaxPauses \in Nat
  BY Bounds
<1> QED BY <1>1 DEF Job, SayJob, Moment

\* The listener keeps it.
LEMMA ListenKeepsHeld == ASSUME FullInv, HeldInv, "take" \notin Windows, Listener PROVE HeldInv'
<1>0. /\ run.job \in Job /\ jobs \in Seq(Job) /\ seq \in Nat /\ released \in 0..seq /\ ear.after \in {"frame", "hear", "dispatch"}
      /\ run.job.id \in Nat /\ \A i \in DOMAIN jobs : jobs[i].id \in Nat
      /\ TurnInv
  <2>1. LimitsInv /\ run.job \in Job /\ jobs \in Seq(Job) /\ TurnInv
    BY DEF FullInv, ReplyInv, RunRecord, JobsInv
  <2>2. \A i \in DOMAIN jobs : jobs[i] \in Job
    BY <2>1
  <2> QED BY <2>1, <2>2, JobFields DEF TurnInv
<1>1. UNCHANGED <<rpc, run>> /\ UNCHANGED momentDue
  BY <1>0, RespondKept, OtherForms
<1>2. CASE ListenDispatch
  <2>1. lpc' = "send" /\ lpc = "dispatch" /\ held' = TRUE /\ seq' = seq + 1 /\ UNCHANGED <<jobs, released>>
    BY <1>2 DEF ListenDispatch
  <2> QED BY <1>0, <1>1, <2>1 DEF HeldInv, Owed
<1>3. CASE ListenSend
  <2> DEFINE j == UttJob(seq, utt.gen, speaker)
             rest == IF Len(jobs) = JobsCap THEN Tail(jobs) ELSE jobs
  <2>1. lpc = "send" /\ lpc' = "judge" /\ jobs' = Append(rest, j) /\ UNCHANGED <<held, seq, released>>
    BY <1>3 DEF ListenSend, Enqueue, audioVars, turnVars
  <2>2. held /\ rpc # "unhold"
    BY <2>1 DEF HeldInv
  <2>3. j.id = seq
    BY DEF UttJob
  <2>4. rest \in Seq(Job) /\ \A i \in DOMAIN rest : \E k \in DOMAIN jobs : rest[i] = jobs[k]
    <3>1. JobsCap \in Nat \ {0}
      BY Bounds DEF FullInv
    <3>2. CASE Len(jobs) = JobsCap
      <4>1. rest = Tail(jobs) /\ jobs # <<>>
        BY <1>0, <3>1, <3>2
      <4>2. \A i \in DOMAIN rest : i + 1 \in DOMAIN jobs /\ rest[i] = jobs[i + 1]
        BY <1>0, <4>1
      <4> QED BY <1>0, <4>1, <4>2
    <3>3. CASE Len(jobs) # JobsCap
      BY <1>0, <3>3
    <3> QED BY <3>2, <3>3
  <2> HIDE DEF j, rest
  <2>5. \A i \in DOMAIN jobs' : jobs'[i] = j \/ \E k \in DOMAIN jobs : jobs'[i] = jobs[k]
    <3>1. \A i \in DOMAIN jobs' : jobs'[i] = j \/ (i \in DOMAIN rest /\ jobs'[i] = rest[i])
      BY <2>1, <2>4
    <3> QED BY <2>4, <3>1
  <2>6. \A i \in DOMAIN jobs' : jobs'[i].id <= seq
    BY <1>0, <2>3, <2>5 DEF HeldInv
  <2> QED BY <1>1, <2>1, <2>2, <2>6 DEF HeldInv, Owed
<1>4. CASE \E over \in BOOLEAN : ListenJudge(over)
  <2>1. UNCHANGED <<jobs, held, seq>> /\ lpc' \in {"release", "frame"} /\ (lpc' # "release" => UNCHANGED released)
        /\ (lpc' = "release" => released' = ear.pending /\ lpc = "judge" /\ ear.talked = 2)
    BY <1>4 DEF ListenJudge, jobVars, audioVars
  <2>2. released' \in Nat /\ released <= released' /\ (lpc' = "release" => released' = seq)
    BY <1>0, <2>1 DEF TurnInv
  <2>3. \A j \in Job : j.id \in Nat
    BY JobFields DEF FullInv
  <2>4. \A j \in Job : released' < j.id => released < j.id
    BY <1>0, <2>2, <2>3
  <2>5. run.job \in Job /\ \A i \in DOMAIN jobs : jobs[i] \in Job
    BY <1>0
  <2> QED BY <1>1, <2>1, <2>2, <2>4, <2>5 DEF HeldInv, Owed
<1>5. CASE ListenRelease
  <2>1. lpc = "release" /\ lpc' = "frame" /\ UNCHANGED <<jobs, seq, released>>
    BY <1>5 DEF ListenRelease, jobVars
  <2>2. released = seq
    BY <2>1 DEF HeldInv
  <2>3. ~Owed(run.job) /\ \A i \in DOMAIN jobs : ~Owed(jobs[i])
    BY <1>0, <2>2 DEF HeldInv, Owed
  <2> QED BY <1>1, <2>1, <2>3 DEF HeldInv, Owed
<1>6. CASE ListenCancel \/ ListenReset
  <2>1. UNCHANGED <<jobs, held, seq, released>>
    BY <1>6 DEF ListenCancel, ListenReset, audioVars, turnVars, jobVars
  <2>2. lpc' \in {"reset", "frame", "hear", "dispatch"} /\ rpc # "unhold"
    BY <1>0, <1>6 DEF ListenCancel, ListenReset, HeldInv
  <2> QED BY <1>1, <2>1, <2>2 DEF HeldInv, Owed
<1>7. CASE ~ListenDispatch /\ ~ListenSend /\ ~(\E over \in BOOLEAN : ListenJudge(over)) /\ ~ListenRelease /\ ~ListenCancel /\ ~ListenReset
  <2>0. ~Say \/ UNCHANGED lpc
    BY DEF Say, listenVars
  <2>1. UNCHANGED <<jobs, held, seq, released>> /\ (lpc' \notin {"reset", "dispatch", "send", "release"} \/ UNCHANGED lpc)
    <3>1. CASE \E speaking, recent, long \in BOOLEAN : ListenFrame(speaking, recent, long)
      BY <3>1 DEF ListenFrame, audioVars, jobVars
    <3>2. CASE ListenHear \/ ListenOver \/ ListenPause \/ ListenStop
      BY <3>2 DEF ListenHear, ListenOver, ListenPause, ListenStop, audioVars, jobVars, turnVars
    <3> QED BY <1>7, <3>1, <3>2 DEF Listener
  <2> QED BY <1>1, <2>1 DEF HeldInv, Owed
<1> QED BY <1>2, <1>3, <1>4, <1>5, <1>6, <1>7

\* So do the others.
LEMMA OthersKeepHeld ==
  ASSUME FullInv, HeldInv, MaxNotes = 0, "take" \notin Windows, Application \/ Responder \/ Pump
  PROVE  HeldInv'
<1>0. /\ run \in RunRecord /\ run.job \in Job /\ jobs \in Seq(Job) /\ seq \in Nat /\ ear.after \in {"frame", "hear", "dispatch"}
      /\ run.job.kind \in {"utt", "say", "moment"}
  BY JobFields DEF FullInv, ReplyInv, RunRecord, JobsInv, TurnInv
<1>1. UNCHANGED <<lpc, seq, released>>
  BY TurnKept
<1>2. notes = <<>>
  <2>1. told = 0 /\ notes \in Seq(1..told)
    BY DEF FullInv, KeepInv
  <2> QED BY <2>1
<1>3. CASE Application \/ Pump
  <2>1. UNCHANGED <<rpc, run, held, momentDue>>
    BY <1>3, RespondKept DEF Application, StepFrame, StepCount, Say, Note, SetSpeaker, CloseCancel, CloseStop, CloseDone,
       Pump, PumpTake, PumpRead, PumpWrite, PumpDone, PumpStop, audioVars, noteVars
  <2>2. \A i \in DOMAIN jobs' : jobs'[i] = SayJob \/ (i \in DOMAIN jobs /\ jobs'[i] = jobs[i])
    <3>1. jobs' = jobs \/ jobs' = Append(jobs, SayJob)
      BY <1>3 DEF Application, StepFrame, StepCount, Say, Note, SetSpeaker, CloseCancel, CloseStop, CloseDone,
         Pump, PumpTake, PumpRead, PumpWrite, PumpDone, PumpStop, jobVars
    <3>2. SayJob \in Job
      BY DEF Job
    <3> QED BY <1>0, <3>1, <3>2
  <2>3. SayJob.kind = "say" /\ SayJob.id = 0
    BY DEF SayJob
  <2> QED BY <1>0, <1>1, <2>1, <2>2, <2>3 DEF HeldInv, Owed
<1>4. CASE RespondJob
  <2>1. /\ rpc' = "unhold" /\ lpc \notin {"reset", "dispatch", "send"} /\ jobs # <<>> /\ jobs' = <<>> /\ momentDue' = FALSE
        /\ run' = [NoRun EXCEPT !.job = LastOf(jobs)] /\ UNCHANGED held
    BY <1>4 DEF RespondJob, StartRun, audioVars
  <2>2. run'.job = jobs[Len(jobs)] /\ Len(jobs) \in DOMAIN jobs
    BY <1>0, <2>1 DEF NoRun, LastOf
  <2> QED BY <1>1, <2>1, <2>2 DEF HeldInv, Owed
<1>5. CASE RespondNoted \/ RespondMoment \/ RespondStop
  <2>1. rpc' \in {"moment", "idle", "exited"} /\ UNCHANGED <<run, jobs, held>> /\ ~momentDue'
    <3>1. ~momentDue
      BY DEF HeldInv
    <3>2. CASE RespondNoted
      <4>1. momentDue' = (momentDue \/ notes # <<>>)
        BY <3>2 DEF RespondNoted
      <4>2. ~momentDue'
        BY <1>2, <3>1, <4>1
      <4> QED BY <3>2, <4>2 DEF RespondNoted, audioVars, jobVars
    <3>3. CASE RespondMoment
      BY <3>1, <3>3 DEF RespondMoment, audioVars
    <3>4. CASE RespondStop
      BY <3>1, <3>4 DEF RespondStop, audioVars, jobVars, noteVars
    <3> QED BY <1>5, <3>2, <3>3, <3>4
  <2> QED BY <1>1, <2>1 DEF HeldInv, Owed
<1>6. CASE RunUnhold
  <2>1. rpc = "unhold" /\ rpc' = "arm" /\ UNCHANGED <<run, jobs, momentDue>> /\ held' = Unhold(run.job)
    BY <1>6 DEF RunUnhold, jobVars, noteVars
  <2>2. CASE run.job.kind = "utt"
    <3>1. held' = held
      BY <2>1, <2>2 DEF Unhold
    <3> QED BY <1>1, <2>1, <3>1 DEF HeldInv, Owed
  <2>3. CASE run.job.kind # "utt"
    <3>1. lpc \notin {"reset", "dispatch", "send"} /\ \A i \in DOMAIN jobs : ~Owed(jobs[i])
      BY <2>1 DEF HeldInv
    <3> QED BY <1>1, <2>1, <2>3, <3>1 DEF HeldInv, Owed
  <2> QED BY <2>2, <2>3
<1>7. CASE RunUnbusy
  <2>1. run' = NoRun /\ rpc' \in {"idle", "moment"} /\ UNCHANGED <<jobs, held, momentDue>>
    BY <1>7 DEF RunUnbusy, audioVars, noteVars
  <2>2. run'.job.kind = "moment" /\ run'.job.id = 0
    BY <2>1 DEF NoRun, Moment
  <2> QED BY <1>0, <1>1, <2>1, <2>2 DEF HeldInv, Owed
<1>8. CASE Run /\ ~RunUnhold /\ ~RunUnbusy
  <2>1. UNCHANGED <<jobs, held, momentDue>> /\ run'.job = run.job /\ rpc' # "unhold"
    BY <1>0, <1>8, RunForms
  <2> QED BY <1>1, <2>1 DEF HeldInv, Owed
<1> QED BY <1>3, <1>4, <1>5, <1>6, <1>7, <1>8 DEF Responder

\* Whatever is said, queued or superseded, and however often the speaker
\* pauses: audio of an answer is played only once its turn is released, unless
\* a note's moment, or a job taken while the listener interrupts, comes
\* between the two halves of a dispatch.
THEOREM AnswersAreHeld ==
  ASSUME \A l \in Limits : l.MaxNotes = 0 /\ "take" \notin l.Windows
  PROVE  Spec => []HeldUntilReleased
<1>1. Init => FullInv /\ HeldInv
  <2>1. Init => HeldInv
    BY DEF Init, HeldInv, Owed, NoRun, Moment
  <2> QED BY <2>1, InitFull
<1>2. FullInv /\ HeldInv /\ [Next]_vars => FullInv' /\ HeldInv'
  <2> SUFFICES ASSUME FullInv, HeldInv, [Next]_vars PROVE HeldInv'
    BY NextFull
  <2>1. MaxNotes = 0 /\ "take" \notin Windows
    BY DEF FullInv, LimitsInv, MaxNotes, Windows
  <2>2. CASE UNCHANGED vars
    BY <2>2 DEF HeldInv, Owed, vars, audioVars, turnVars, noteVars, jobVars, listenVars, respondVars
  <2>3. CASE Application \/ Listener \/ Responder \/ Pump
    BY <2>1, <2>3, ListenKeepsHeld, OthersKeepHeld
  <2> QED BY <2>2, <2>3 DEF Next, Within
<1>3. HeldInv => HeldUntilReleased
  BY DEF HeldInv, HeldUntilReleased, Owed
<1> QED BY <1>1, <1>2, <1>3, PTL DEF Spec

-----------------------------------------------------------------------------
\* The behaviours that only answer utterances, in one round each, with lanes
\* that do not fail or repeat the message, an agent that is not closed, and a
\* frame counted, and playback emptied, before anything else is done.
Plain ==
  /\ MaxSays = 0 /\ MaxNotes = 0 /\ MaxRounds = 1 /\ ~Echoes /\ ~Faults /\ ~Closing
  /\ "count" \notin Windows /\ "reset" \notin Windows

\* Then every job is an answer, and its reply one message, spoken from its
\* first piece on.
AnswersOnly ==
  /\ \A i \in DOMAIN jobs : jobs[i].kind = "utt"
  /\ rpc \notin {"idle", "moment", "exited"} => run.job.kind = "utt"
  /\ ~momentDue /\ ~late /\ cpc = "open"
  /\ run.then # "call" /\ ~run.called /\ ~run.echoed /\ run.from = 0
  /\ run.voicing <=> run.said # 0
  /\ rpc \in {"unhold", "arm", "transcribe", "reply"} => run.said = 0

\* The other goroutines.
LEMMA OthersOnlyAnswer ==
  ASSUME FullInv, Plain, AnswersOnly, Application \/ Listener \/ Pump
  PROVE  AnswersOnly'
<1>0. /\ jobs \in Seq(Job) /\ said \in 0..MaxSays /\ ear.after \in {"frame", "hear", "dispatch"} /\ JobsCap \in Nat \ {0}
      /\ MaxSays = 0
  BY Bounds DEF FullInv, JobsInv, PlaceInv, TurnInv, Plain
<1>1. UNCHANGED <<rpc, run>> /\ UNCHANGED momentDue
  BY <1>0, RespondKept, OtherForms
<1>2. ~Say
  BY <1>0 DEF Say
<1>3. late' = late /\ cpc' = cpc
  <2>1. CASE Application
    BY <2>1 DEF Application, StepFrame, StepCount, Say, Note, SetSpeaker, CloseCancel, CloseStop, CloseDone, AnswersOnly, Plain,
       audioVars, appVars
  <2>2. CASE Listener
    <3> USE DEF audioVars, appVars
    <3>1. CASE \E speaking, recent, long \in BOOLEAN : ListenFrame(speaking, recent, long)
      BY <3>1 DEF ListenFrame
    <3>2. CASE ListenCancel \/ ListenReset \/ ListenHear \/ ListenOver \/ ListenPause
      BY <3>2 DEF ListenCancel, ListenReset, ListenHear, ListenOver, ListenPause
    <3>3. CASE ListenDispatch \/ ListenSend \/ ListenRelease \/ ListenStop \/ \E over \in BOOLEAN : ListenJudge(over)
      BY <3>3 DEF ListenDispatch, ListenSend, ListenRelease, ListenStop, ListenJudge
    <3> QED BY <2>2, <3>1, <3>2, <3>3 DEF Listener
  <2>3. CASE Pump
    BY <2>3 DEF Pump, PumpTake, PumpRead, PumpWrite, PumpDone, PumpStop, audioVars, appVars
  <2> QED BY <2>1, <2>2, <2>3
<1>4. \A i \in DOMAIN jobs' : jobs'[i].kind = "utt"
  <2>1. CASE ListenSend
    <3> DEFINE j == UttJob(seq, utt.gen, speaker)
               rest == IF Len(jobs) = JobsCap THEN Tail(jobs) ELSE jobs
    <3>1. jobs' = Append(rest, j)
      BY <2>1 DEF ListenSend, Enqueue
    <3>2. j.kind = "utt"
      BY DEF UttJob
    <3>3. rest \in Seq(Job) /\ \A i \in DOMAIN rest : rest[i].kind = "utt"
      <4>1. CASE Len(jobs) = JobsCap
        <5>1. rest = Tail(jobs) /\ jobs # <<>>
          BY <1>0, <4>1
        <5>2. rest \in Seq(Job) /\ \A i \in DOMAIN rest : i + 1 \in DOMAIN jobs /\ rest[i] = jobs[i + 1]
          BY <1>0, <5>1
        <5> QED BY <5>2 DEF AnswersOnly
      <4>2. CASE Len(jobs) # JobsCap
        BY <1>0, <4>2 DEF AnswersOnly
      <4> QED BY <4>1, <4>2
    <3> HIDE DEF j, rest
    <3>4. \A i \in DOMAIN jobs' : jobs'[i] = j \/ (i \in DOMAIN rest /\ jobs'[i] = rest[i])
      BY <3>1, <3>3
    <3> QED BY <3>2, <3>3, <3>4
  <2>2. CASE ~ListenSend
    BY <1>0, <1>2, <2>2, OtherForms DEF AnswersOnly
  <2> QED BY <2>1, <2>2
<1> QED BY <1>1, <1>3, <1>4 DEF AnswersOnly

\* The responder.
LEMMA ResponderOnlyAnswers ==
  ASSUME FullInv, Plain, AnswersOnly, Responder
  PROVE  AnswersOnly'
<1>0. /\ run \in RunRecord /\ run.said \in Nat /\ jobs \in Seq(Job)
      /\ MaxSays = 0 /\ MaxRounds = 1 /\ ~Echoes
  BY Bounds DEF FullInv, ReplyInv, RunRecord, JobsInv, Plain
<1>1. late' = late /\ cpc' = cpc
  BY DEF Responder, RespondJob, RespondNoted, RespondMoment, RespondStop, StartRun, Run, RunUnhold, RunArm, RunNothing, RunReply, RunWrite,
     RunCalls, RunAgain, RunTranscribe, RunWritten, RunStands, RunSpoken, RunAwait, RunAwake, RunPlayback, RunSettle, RunFinish, RunUnbusy,
     audioVars, appVars
<1>2. CASE RespondJob
  <2>1. /\ rpc' = "unhold" /\ jobs # <<>> /\ jobs' = <<>> /\ momentDue' = FALSE
        /\ run' = [NoRun EXCEPT !.job = LastOf(jobs)]
    BY <1>2 DEF RespondJob, StartRun
  <2>2. run'.job = jobs[Len(jobs)] /\ Len(jobs) \in DOMAIN jobs
    BY <1>0, <2>1 DEF NoRun, LastOf
  <2>3. run'.then = "finish" /\ ~run'.called /\ ~run'.echoed /\ run'.from = 0 /\ ~run'.voicing /\ run'.said = 0
    BY <2>1 DEF NoRun
  <2> QED BY <1>1, <2>1, <2>2, <2>3 DEF AnswersOnly
<1>3. CASE RespondNoted \/ RespondMoment \/ RespondStop
  <2>0. notes = <<>>
    <3>1. told = 0 /\ notes \in Seq(1..told)
      BY DEF FullInv, KeepInv, Plain
    <3> QED BY <3>1
  <2>1. rpc' \in {"moment", "idle", "exited"} /\ UNCHANGED <<run, jobs>> /\ ~momentDue'
    <3>1. ~momentDue
      BY DEF AnswersOnly
    <3>2. CASE RespondNoted
      <4>1. momentDue' = (momentDue \/ notes # <<>>)
        BY <3>2 DEF RespondNoted
      <4>2. ~momentDue'
        BY <2>0, <3>1, <4>1
      <4> QED BY <3>2, <4>2 DEF RespondNoted, jobVars
    <3>3. CASE RespondMoment
      BY <3>1, <3>3 DEF RespondMoment
    <3>4. CASE RespondStop
      BY <3>1, <3>4 DEF RespondStop, jobVars, noteVars
    <3> QED BY <1>3, <3>2, <3>3, <3>4
  <2> QED BY <1>1, <2>1 DEF AnswersOnly
<1>4. CASE RunUnbusy
  <2>1. run' = NoRun /\ rpc' \in {"idle", "moment"} /\ UNCHANGED <<jobs, momentDue>>
    BY <1>4 DEF RunUnbusy, noteVars
  <2>2. run'.then = "finish" /\ ~run'.called /\ ~run'.echoed /\ run'.from = 0 /\ ~run'.voicing /\ run'.said = 0
    BY <2>1 DEF NoRun
  <2> QED BY <1>1, <2>1, <2>2 DEF AnswersOnly
<1>5. CASE Run /\ ~RunUnbusy
  <2>0. UNCHANGED <<jobs, momentDue>> /\ run'.job = run.job /\ run.job.kind = "utt"
    BY <1>0, <1>5, RunForms DEF AnswersOnly
  <2>1. /\ run'.then # "call" /\ ~run'.called /\ ~run'.echoed /\ run'.from = 0 /\ (run'.voicing <=> run'.said # 0)
        /\ rpc' \in {"unhold", "arm", "transcribe", "reply"} => run'.said = 0
    <3> USE DEF RunRecord
    <3>1. CASE RunUnhold \/ RunNothing \/ RunSpoken \/ RunPlayback \/ RunSettle
      BY <3>1 DEF RunUnhold, RunNothing, RunSpoken, RunPlayback, RunSettle, AnswersOnly
    <3>2. CASE RunArm
      <4>1. run.job.kind # "say"
        BY <2>0
      <4>2. run' = [run EXCEPT !.mark = Mark, !.replyMark = Len(session), !.voicing = FALSE, !.said = 0]
        BY <3>2, <4>1 DEF RunArm
      <4> QED BY <1>0, <4>2 DEF AnswersOnly
    <3>3. CASE RunReply \/ RunFinish
      BY <1>0, <3>3 DEF RunReply, RunFinish, AnswersOnly
    <3>4. CASE RunWrite
      BY <1>0, <3>4 DEF RunWrite, AnswersOnly
    <3>5. CASE RunCalls
      <4>1. run.rounds + 1 < 1 /\ run.rounds \in Nat
        BY <1>0, <3>5 DEF RunCalls
      <4> QED BY <4>1
    <3>6. CASE RunAgain
      <4>1. run' = [run EXCEPT !.overruled = TRUE, !.called = FALSE, !.rounds = 0] /\ run.said = 0
        BY <3>6 DEF RunAgain, AnswersOnly, silent
      <4> QED BY <1>0, <4>1 DEF AnswersOnly
    <3>7. CASE \E skip \in BOOLEAN : RunTranscribe(skip)
      <4>1. PICK skip \in BOOLEAN : RunTranscribe(skip)
        BY <3>7
      <4>2. run' = [run EXCEPT !.replyMark = Len(session'), !.then = IF skip THEN "skip" ELSE @] /\ rpc = "transcribe"
        BY <4>1 DEF RunTranscribe
      <4> QED BY <1>0, <4>2 DEF AnswersOnly
    <3>8. CASE \E err \in BOOLEAN : RunWritten(err)
      BY <1>0, <3>8 DEF RunWritten, AnswersOnly
    <3>9. CASE \E until, echoed \in BOOLEAN : RunStands(until, echoed)
      <4>1. PICK until \in BOOLEAN, echoed \in BOOLEAN : RunStands(until, echoed)
        BY <3>9
      <4>2. ~echoed /\ run' = [run EXCEPT !.echoed = echoed, !.then = "playback"] /\ rpc' \in {"spoken", "await", "playback"}
        BY <1>0, <4>1 DEF RunStands
      <4> QED BY <1>0, <4>2 DEF AnswersOnly
    <3>10. ASSUME NEW ok, Awaited(ok) PROVE UNCHANGED run /\ rpc' \in {"finish", "playback"}
      BY <3>10 DEF Awaited, AnswersOnly
    <3>11. CASE RunAwait \/ RunAwake
      BY <3>10, <3>11 DEF RunAwait, RunAwake, AnswersOnly
    <3> QED BY <1>5, <3>1, <3>2, <3>3, <3>4, <3>5, <3>6, <3>7, <3>8, <3>9, <3>11 DEF Run
  <2> QED BY <1>1, <2>0, <2>1 DEF AnswersOnly
<1> QED BY <1>2, <1>3, <1>4, <1>5 DEF Responder

-----------------------------------------------------------------------------
\* A reply under way can be cut, and playback is emptied under it only once it
\* is; until then the pump writes what it reads.
CutInv ==
  /\ Active => cut \/ cancel
  /\ Active /\ lpc = "reset" => cut
  /\ Pumping /\ ~cut => current

LEMMA CutStep ==
  ASSUME FullInv, Plain, AnswersOnly, CutInv, Application \/ Listener \/ Responder \/ Pump
  PROVE  CutInv'
<1>0. /\ cut \in BOOLEAN /\ cancel \in BOOLEAN /\ current \in BOOLEAN /\ ear.after \in {"frame", "hear", "dispatch"}
      /\ (Pumping => Active) /\ ~Closing /\ "reset" \notin Windows /\ PumpInv
  BY DEF FullInv, FlagInv, TurnInv, SoundInv, PumpInv, Speaks, Active, Plain
<1>1. CASE Application
  <2>1. UNCHANGED <<rpc, lpc, cut, cancel, ppc, current>>
    BY <1>0, <1>1 DEF Application, StepFrame, StepCount, Say, Note, SetSpeaker, CloseCancel, CloseStop, CloseDone,
       respondVars, listenVars, jobVars, pumpVars
  <2> QED BY <2>1 DEF CutInv, Active, Pumping
<1>2. CASE ListenCancel
  <2>1. UNCHANGED <<rpc, ppc, current>> /\ cut' = (cut \/ cancel)
    BY <1>2 DEF ListenCancel, respondVars, pumpVars
  <2>2. Active => cut'
    BY <1>0, <2>1 DEF CutInv
  <2>3. Active' = Active /\ Pumping' = Pumping
    BY <2>1 DEF Active, Pumping
  <2> QED BY <1>0, <2>2, <2>3 DEF CutInv
<1>3. CASE ListenReset
  <2>1. UNCHANGED <<rpc, ppc, cut, cancel>> /\ lpc = "reset" /\ lpc' # "reset"
    BY <1>0, <1>3 DEF ListenReset, respondVars, jobVars
  <2> QED BY <1>0, <2>1 DEF CutInv, Active, Pumping
<1>4. CASE Listener /\ ~ListenCancel /\ ~ListenReset
  <2>1. UNCHANGED <<rpc, ppc, cut, current, cancel>> /\ (lpc' = "reset" => lpc = "reset")
    <3> USE DEF respondVars, jobVars, pumpVars
    <3>1. CASE \E speaking, recent, long \in BOOLEAN : ListenFrame(speaking, recent, long)
      BY <3>1 DEF ListenFrame
    <3>2. CASE ListenHear \/ ListenOver \/ ListenPause \/ \E over \in BOOLEAN : ListenJudge(over)
      BY <3>2 DEF ListenHear, ListenOver, ListenPause, ListenJudge
    <3>3. CASE ListenDispatch \/ ListenSend \/ ListenRelease \/ ListenStop
      BY <3>3 DEF ListenDispatch, ListenSend, ListenRelease, ListenStop
    <3> QED BY <1>4, <3>1, <3>2, <3>3 DEF Listener
  <2> QED BY <2>1 DEF CutInv, Active, Pumping
<1>5. CASE Pump
  <2>1. UNCHANGED <<rpc, lpc, cut, cancel>>
    BY <1>5 DEF Pump, PumpTake, PumpRead, PumpWrite, PumpDone, PumpStop, respondVars, listenVars, jobVars
  <2>2. Pumping' => current' = TRUE \/ (Pumping /\ current' = current)
    BY <1>5 DEF Pump, PumpTake, PumpRead, PumpWrite, PumpDone, PumpStop, Pumping
  <2> QED BY <2>1, <2>2 DEF CutInv, Active
<1>6. CASE RunArm
  <2>1. UNCHANGED <<lpc, ppc, current>> /\ cancel' = TRUE /\ lpc # "reset" /\ rpc = "arm"
    BY <1>0, <1>6 DEF RunArm, listenVars
  <2>2. ~Pumping
    BY <1>0, <2>1 DEF Active
  <2> QED BY <2>1, <2>2 DEF CutInv, Pumping
<1>7. CASE RunFinish
  <2>1. cut' = TRUE /\ rpc' = "unbusy"
    BY <1>7 DEF RunFinish
  <2> QED BY <2>1 DEF CutInv, Active
<1>8. CASE Responder /\ ~RunArm /\ ~RunFinish
  <2>1. UNCHANGED <<lpc, ppc, current, cut, cancel>>
    BY <1>8 DEF Responder, RespondJob, RespondNoted, RespondMoment, RespondStop, StartRun, Run, RunUnhold, RunNothing, RunReply, RunWrite,
       RunCalls, RunAgain, RunTranscribe, RunWritten, RunStands, RunSpoken, RunAwait, RunAwake, RunPlayback, RunSettle, RunUnbusy,
       listenVars, pumpVars, jobVars
  <2>2. Active' => Active
    <3>1. CASE RespondJob \/ RespondNoted \/ RespondMoment \/ RespondStop \/ RunUnhold \/ RunNothing \/ RunUnbusy
      BY <3>1 DEF RespondJob, RespondNoted, RespondMoment, RespondStop, StartRun, RunUnhold, RunNothing, RunUnbusy, Active
    <3>2. CASE Run /\ ~RunArm /\ ~RunUnhold /\ ~RunNothing /\ ~RunUnbusy /\ ~RunFinish
      BY <3>2 DEF Run, RunReply, RunWrite, RunCalls, RunAgain, RunTranscribe, RunWritten, RunStands, RunSpoken, RunAwait, RunAwake,
         RunPlayback, RunSettle, Active
    <3> QED BY <1>8, <3>1, <3>2 DEF Responder
  <2> QED BY <2>1, <2>2 DEF CutInv, Pumping
<1> QED BY <1>1, <1>2, <1>3, <1>4, <1>5, <1>6, <1>7, <1>8

-----------------------------------------------------------------------------
\* Frames on their way: played, in playback, or read and not yet written.
\* Until a reply is cut they are those the voice gave, and a voice that is
\* done has given all of its text.
Frame == IF ppc = "write" THEN 1 ELSE 0
CountInv ==
  /\ \A i \in DOMAIN play : play[i] = Reply
  /\ Active => played <= heard[Reply]
  /\ Active /\ ~cut => heard[Reply] + Len(play) + Frame = voice.read
  /\ voice.ended => rpc \notin {"transcribe", "reply", "write", "written"}
  /\ (ppc = "done" \/ speakDone) /\ ~cut => voice.ended /\ voice.read = voice.written
  /\ rpc = "playback" /\ ~cut => voice.read = voice.written
  /\ rpc = "settle" /\ ~cut => run.said <= heard[Reply]

\* Step takes a frame of the current reply.
LEMMA FrameTaken ==
  ASSUME play \in Seq(1..Len(heard)), heard \in Seq(Nat), played \in Nat, ~late, "count" \notin Windows,
         \A i \in DOMAIN play : play[i] = Reply, StepFrame
  PROVE  /\ Reply \in DOMAIN heard /\ Reply' = Reply /\ heard' \in Seq(Nat) /\ DOMAIN heard' = DOMAIN heard
         /\ heard'[Reply] = heard[Reply] + 1 /\ heard[Reply] \in Nat /\ \A n \in DOMAIN heard : n # Reply => heard'[n] = heard[n]
         /\ Len(play) \in Nat \ {0} /\ Len(play') = Len(play) - 1 /\ \A i \in DOMAIN play' : play'[i] = Reply
         /\ played' = played + 1
<1>1. play # <<>> /\ play' = Tail(play) /\ heard' = [heard EXCEPT ![Head(play)] = @ + 1] /\ played' = played + 1
  BY DEF StepFrame
<1>2. Len(play) \in Nat \ {0} /\ Head(play) = play[1] /\ 1 \in DOMAIN play
  BY <1>1
<1>3. Head(play) = Reply /\ Reply \in 1..Len(heard) /\ DOMAIN heard = 1..Len(heard)
  BY <1>2
<1>4. heard' \in Seq(Nat) /\ Len(heard') = Len(heard)
  BY StepFrames, StepFrame, play \in Seq(Nat)
<1>5. DOMAIN heard' = DOMAIN heard
  BY <1>1
<1>6. heard'[Reply] = heard[Reply] + 1 /\ \A n \in DOMAIN heard : n # Reply => heard'[n] = heard[n]
  BY <1>1, <1>3
<1>7. Len(play') = Len(play) - 1 /\ \A i \in DOMAIN play' : play'[i] = Reply
  <2>1. /\ Len(Tail(play)) = Len(play) - 1 /\ DOMAIN Tail(play) = 1..(Len(play) - 1) /\ DOMAIN play = 1..Len(play)
        /\ \A i \in 1..(Len(play) - 1) : Tail(play)[i] = play[i + 1]
    BY <1>1
  <2>2. \A i \in 1..(Len(play) - 1) : i + 1 \in DOMAIN play
    BY <1>2, <2>1
  <2> QED BY <1>1, <2>1, <2>2
<1> QED BY <1>1, <1>2, <1>3, <1>4, <1>5, <1>6, <1>7 DEF Reply

\* What the sound is counted in.
CountVars == <<rpc, run, cut, play, played, heard, voice, ppc, speakDone>>

\* The application, the listener and the pump keep the count.
LEMMA OthersKeepCount ==
  ASSUME FullInv, Plain, AnswersOnly, CutInv, CountInv, Application \/ Listener \/ Pump
  PROVE  CountInv'
<1>0. /\ play \in Seq(1..Len(heard)) /\ heard \in Seq(Nat) /\ played \in Nat /\ ~late /\ "count" \notin Windows /\ ~Closing /\ ~Faults
      /\ cut \in BOOLEAN /\ cancel \in BOOLEAN /\ voice \in [written : 0..MaxPieces, read : 0..MaxPieces, ended : BOOLEAN] /\ MaxPieces \in Nat
      /\ (Pumping \/ speakDone => Active) /\ (Active => Reply \in DOMAIN heard /\ heard[Reply] \in Nat) /\ Reply \in Nat
  <2>1. /\ PlayInv /\ AudioInv /\ PlaceInv /\ FlagInv /\ VoiceInv /\ ReplyInv /\ PumpInv /\ MaxPieces \in Nat
    BY Bounds DEF FullInv, SoundInv
  <2>2. Active => Reply \in DOMAIN heard /\ heard[Reply] \in Nat
    BY <2>1 DEF ReplyInv, AudioInv, Reply
  <2>3. Pumping \/ speakDone => Active
    BY <2>1 DEF PumpInv, Speaks, Active
  <2> QED BY <2>1, <2>2, <2>3 DEF PlayInv, AudioInv, PlaceInv, FlagInv, VoiceInv, Plain, AnswersOnly, Reply
<1>1. UNCHANGED <<rpc, run>> /\ (Active' <=> Active)
  BY RespondKept DEF Active
<1>2. CASE StepFrame
  <2>1. UNCHANGED <<cut, voice, ppc, speakDone>>
    BY <1>2 DEF StepFrame, jobVars, pumpVars
  <2>2. /\ Reply \in DOMAIN heard /\ Reply' = Reply /\ heard'[Reply] = heard[Reply] + 1 /\ heard[Reply] \in Nat
        /\ Len(play) \in Nat \ {0} /\ Len(play') = Len(play) - 1 /\ \A i \in DOMAIN play' : play'[i] = Reply
        /\ played' = played + 1
    BY <1>0, <1>2, FrameTaken DEF CountInv
  <2>3. Frame' = Frame /\ Frame \in Nat
    BY <2>1 DEF Frame
  <2>4. Active' => played' <= heard'[Reply']
    BY <1>0, <1>1, <2>2 DEF CountInv
  <2>5. Active' /\ ~cut' => heard'[Reply'] + Len(play') + Frame' = voice'.read
    BY <1>0, <1>1, <2>1, <2>2, <2>3 DEF CountInv
  <2>6. rpc' = "settle" /\ ~cut' => run'.said <= heard'[Reply']
    <3>1. run.said \in Nat
      BY <1>0 DEF FullInv, ReplyInv, RunRecord
    <3> QED BY <1>1, <2>1, <2>2, <3>1 DEF CountInv
  <2> QED BY <1>1, <2>1, <2>2, <2>4, <2>5, <2>6 DEF CountInv
<1>3. CASE ListenReset
  <2>1. play' = <<>> /\ UNCHANGED <<cut, voice, ppc, speakDone, played, heard>> /\ lpc = "reset"
    BY <1>3 DEF ListenReset, jobVars
  <2>2. Active => cut
    BY <2>1 DEF CutInv
  <2> QED BY <1>1, <2>1, <2>2 DEF CountInv, Reply
<1>4. CASE ListenCancel
  <2>1. UNCHANGED <<play, played, heard, voice, ppc, speakDone>> /\ (cut => cut')
    BY <1>0, <1>4 DEF ListenCancel, audioVars, pumpVars
  <2> QED BY <1>1, <2>1 DEF CountInv, Reply, Frame
<1>5. CASE (Application \/ Listener) /\ ~StepFrame /\ ~ListenReset /\ ~ListenCancel
  <2>1. UNCHANGED CountVars
    <3>1. ~CloseCancel /\ ~StepCount
      BY <1>0 DEF CloseCancel, StepCount
    <3>2. UNCHANGED <<cut, play, heard, ppc, speakDone>>
      BY <1>5, <3>1, ListenSound
    <3>3. UNCHANGED <<played, voice>>
      <4>1. CASE Application
        BY <1>5, <3>1, <4>1 DEF Application, Say, Note, SetSpeaker, CloseStop, CloseDone, audioVars, pumpVars
      <4>2. CASE Listener
        <5> USE DEF audioVars, pumpVars
        <5>1. CASE \E speaking, recent, long \in BOOLEAN : ListenFrame(speaking, recent, long)
          BY <5>1 DEF ListenFrame
        <5>2. CASE ListenHear \/ ListenOver \/ ListenPause
          BY <5>2 DEF ListenHear, ListenOver, ListenPause
        <5>3. CASE ListenDispatch \/ ListenSend \/ ListenRelease \/ ListenStop \/ \E over \in BOOLEAN : ListenJudge(over)
          BY <5>3 DEF ListenDispatch, ListenSend, ListenRelease, ListenStop, ListenJudge
        <5> QED BY <1>5, <4>2, <5>1, <5>2, <5>3 DEF Listener
      <4> QED BY <1>5, <4>1, <4>2
    <3> QED BY <1>1, <3>2, <3>3 DEF CountVars
  <2> QED BY <2>1 DEF CountInv, CountVars, Reply, Frame, Active
<1>6. CASE Pump
  <2>0. UNCHANGED <<cut, played, heard>> /\ Reply' = Reply
    BY <1>6 DEF Pump, PumpTake, PumpRead, PumpWrite, PumpDone, PumpStop, jobVars, audioVars, Reply
  <2>1. CASE PumpTake \/ PumpStop
    <3>1. UNCHANGED <<play, voice, speakDone>> /\ ppc = "idle" /\ ppc' \in {"read", "exited"}
      BY <2>1 DEF PumpTake, PumpStop, audioVars
    <3> QED BY <1>1, <2>0, <3>1 DEF CountInv, Frame
  <2>2. CASE PumpRead
    <3>1. ppc = "read" /\ UNCHANGED <<play, speakDone>>
      BY <2>2 DEF PumpRead, audioVars
    <3>2. CASE ppc' = "write" /\ ~cut /\ voice.read < voice.written /\ voice' = [voice EXCEPT !.read = @ + 1]
      <4>1. voice'.read = voice.read + 1 /\ voice'.written = voice.written /\ voice'.ended = voice.ended
        BY <1>0, <3>2
      <4>2. Active /\ Frame = 0 /\ Frame' = 1
        BY <1>0, <3>1, <3>2 DEF Pumping, Frame
      <4>3. heard[Reply] + Len(play) + Frame = voice.read /\ heard[Reply] \in Nat /\ Len(play) \in Nat
        BY <1>0, <3>2, <4>2 DEF CountInv
      <4>4. heard'[Reply'] + Len(play') + Frame' = voice'.read
        BY <2>0, <3>1, <4>1, <4>2, <4>3
      <4>5. ~speakDone /\ rpc # "playback"
        BY <3>1 DEF FullInv, SoundInv, PumpInv, Pumping, Speaks
      <4> QED BY <1>1, <2>0, <3>1, <3>2, <4>1, <4>4, <4>5 DEF CountInv
    <3>3. CASE ppc' = "done" /\ UNCHANGED voice /\ (cut \/ Faults \/ (voice.ended /\ voice.read = voice.written))
      <4>1. Frame' = Frame
        BY <3>1, <3>3 DEF Frame
      <4> QED BY <1>0, <1>1, <2>0, <3>1, <3>3, <4>1 DEF CountInv
    <3> QED BY <2>2, <3>2, <3>3 DEF PumpRead
  <2>3. CASE PumpWrite
    <3>1. ppc = "write" /\ ppc' = "read" /\ play' = WriteAt(Reply) /\ UNCHANGED <<voice, speakDone>>
      BY <2>3 DEF PumpWrite
    <3>2. Active /\ Frame = 1 /\ Frame' = 0
      BY <1>0, <3>1 DEF Pumping, Frame
    <3>3. ~cut => current
      BY <3>1 DEF CutInv, Pumping
    <3>4. play \in Seq(Nat) /\ Reply \in Nat
      BY <1>0
    <3>5. \A i \in DOMAIN play' : play'[i] = Reply
      <4>1. CASE current
        <5>1. play' = Append(play, Reply)
          BY <3>1, <4>1 DEF WriteAt
        <5>2. \A i \in DOMAIN play' : (i \in DOMAIN play /\ play'[i] = play[i]) \/ play'[i] = Reply
          BY <3>4, <5>1
        <5> QED BY <5>2 DEF CountInv
      <4>2. CASE ~current
        BY <3>1, <4>2 DEF WriteAt, CountInv
      <4> QED BY <4>1, <4>2
    <3>6. ~cut => heard[Reply] + Len(play') + Frame' = voice.read
      <4> SUFFICES ASSUME ~cut PROVE heard[Reply] + Len(play') + Frame' = voice.read
        OBVIOUS
      <4>1. play' = Append(play, Reply)
        BY <3>1, <3>3 DEF WriteAt
      <4>2. Len(play') = Len(play) + 1 /\ Len(play) \in Nat
        BY <3>4, <4>1
      <4>3. heard[Reply] + Len(play) + Frame = voice.read /\ heard[Reply] \in Nat
        BY <1>0, <3>2 DEF CountInv
      <4> QED BY <3>2, <4>2, <4>3
    <3> QED BY <1>1, <2>0, <3>1, <3>2, <3>5, <3>6 DEF CountInv
  <2>4. CASE PumpDone
    <3>1. ppc = "done" /\ ppc' = "idle" /\ UNCHANGED <<play, voice>>
      BY <2>4 DEF PumpDone, audioVars
    <3>2. Frame' = Frame
      BY <3>1 DEF Frame
    <3> QED BY <1>1, <2>0, <3>1, <3>2 DEF CountInv
  <2> QED BY <1>6, <2>1, <2>2, <2>3, <2>4 DEF Pump
<1> QED BY <1>2, <1>3, <1>4, <1>5, <1>6

\* The responder keeps the count.
LEMMA ResponderKeepsCount ==
  ASSUME FullInv, Plain, AnswersOnly, CutInv, CountInv, Responder
  PROVE  CountInv'
<1>0. /\ run \in RunRecord /\ run.said \in Nat /\ heard \in Seq(Nat) /\ cut \in BOOLEAN /\ MaxPieces \in Nat /\ Reply \in Nat
      /\ voice \in [written : 0..MaxPieces, read : 0..MaxPieces, ended : BOOLEAN] /\ voice.read <= voice.written
      /\ (Active => voice.written = run.said /\ Reply \in DOMAIN heard /\ heard[Reply] \in Nat)
      /\ PumpInv /\ AudioInv /\ ReplyInv
  <2>1. /\ AudioInv /\ FlagInv /\ VoiceInv /\ ReplyInv /\ PumpInv /\ MaxPieces \in Nat
    BY Bounds DEF FullInv, SoundInv
  <2>2. Active => Reply \in DOMAIN heard /\ heard[Reply] \in Nat /\ voice.written = run.said
    BY <2>1 DEF ReplyInv, AudioInv, Reply
  <2>3. run \in RunRecord /\ run.said \in Nat
    BY <2>1 DEF ReplyInv, RunRecord
  <2> QED BY <2>1, <2>2, <2>3 DEF AudioInv, FlagInv, VoiceInv, Reply
<1>1. CASE RunArm
  <2>0. run.job.kind = "utt" /\ rpc = "arm"
    BY <1>1 DEF RunArm, AnswersOnly
  <2>1. /\ rpc' = "transcribe" /\ lpc # "reset" /\ cpc = "open" /\ played' = 0 /\ heard' = Append(heard, 0)
        /\ voice' = [written |-> 0, read |-> 0, ended |-> FALSE] /\ UNCHANGED <<play, ppc, speakDone>>
    BY <1>1, <2>0 DEF RunArm, Plain, AnswersOnly
  <2>2. play = <<>> /\ ppc # "write" /\ ppc # "done" /\ ~speakDone
    BY <1>0, <2>0, <2>1 DEF AudioInv, Clean, Speaks, PumpInv, Pumping
  <2>3. Reply' = Reply + 1 /\ heard'[Reply'] = 0
    BY <1>0, <2>1 DEF Reply
  <2>4. Frame' = 0 /\ Len(play') = 0
    BY <2>1, <2>2 DEF Frame
  <2>5. voice'.read = 0 /\ voice'.written = 0 /\ ~voice'.ended /\ DOMAIN play' = {}
    BY <2>1, <2>2
  <2>6. heard'[Reply'] + Len(play') + Frame' = voice'.read /\ played' <= heard'[Reply']
    <3>1. heard'[Reply'] = 0 /\ Len(play') = 0 /\ Frame' = 0 /\ voice'.read = 0
      BY <2>3, <2>4, <2>5
    <3>2. played' = 0
      BY <2>1
    <3> QED BY <3>1, <3>2
  <2> QED BY <2>1, <2>2, <2>5, <2>6 DEF CountInv
<1>2. CASE RunFinish \/ RunUnbusy \/ RunNothing \/ RunUnhold \/ RespondJob \/ RespondNoted \/ RespondMoment \/ RespondStop
  <2>1. /\ rpc' \in {"unbusy", "idle", "moment", "finish", "arm", "unhold", "exited"} /\ (cut => cut')
        /\ UNCHANGED <<play, played, heard, voice, ppc, speakDone>>
    BY <1>2 DEF RunFinish, RunUnbusy, RunNothing, RunUnhold, RespondJob, RespondNoted, RespondMoment, RespondStop, StartRun,
       audioVars, pumpVars, jobVars
  <2> QED BY <2>1 DEF CountInv, Active, Reply, Frame
<1>3. CASE Run /\ ~RunArm /\ ~RunFinish /\ ~RunUnbusy /\ ~RunNothing /\ ~RunUnhold
  <2>0. Active
    BY <1>3 DEF Run, RunReply, RunWrite, RunCalls, RunAgain, RunTranscribe, RunWritten, RunStands, RunSpoken, RunAwait, RunAwake,
       RunPlayback, RunSettle, Active
  <2>1. UNCHANGED <<cut, play, played, heard, ppc>> /\ Reply' = Reply /\ Frame' = Frame
    BY <1>3 DEF Run, RunReply, RunWrite, RunCalls, RunAgain, RunTranscribe, RunWritten, RunStands, RunSpoken, RunAwait, RunAwake,
       RunPlayback, RunSettle, audioVars, jobVars, pumpVars, Reply, Frame
  <2>2. CASE RunReply \/ RunAgain \/ RunCalls \/ (\E skip \in BOOLEAN : RunTranscribe(skip)) \/ (\E err \in BOOLEAN : RunWritten(err))
    <3>1. /\ UNCHANGED <<voice, speakDone>> /\ rpc \in {"reply", "written", "write", "transcribe"}
          /\ rpc' \in {"write", "reply", "await", "written"}
      BY <2>2 DEF RunReply, RunAgain, RunCalls, RunTranscribe, RunWritten, pumpVars
    <3> QED BY <2>0, <2>1, <3>1 DEF CountInv
  <2>3. CASE RunWrite
    <3>1. voice' = [voice EXCEPT !.written = @ + 1] /\ UNCHANGED speakDone /\ rpc = "write" /\ rpc' = "write" /\ ~cut
      BY <2>3 DEF RunWrite
    <3>2. voice'.read = voice.read /\ voice'.ended = voice.ended
      BY <1>0, <3>1
    <3>3. ~voice.ended
      BY <3>1 DEF CountInv
    <3> QED BY <2>0, <2>1, <3>1, <3>2, <3>3 DEF CountInv
  <2>4. CASE \E until, echoed \in BOOLEAN : RunStands(until, echoed)
    <3>1. /\ voice' = [voice EXCEPT !.ended = run.voicing] /\ UNCHANGED speakDone /\ rpc = "written"
          /\ rpc' = IF run.voicing THEN "spoken" ELSE IF run.job.kind = "utt" THEN "await" ELSE "playback"
      BY <2>4 DEF RunStands
    <3>2. voice'.read = voice.read /\ voice'.written = voice.written
      BY <1>0, <3>1
    <3>3. ~voice.ended
      BY <3>1 DEF CountInv
    <3>4. rpc' \in {"spoken", "await"}
      BY <3>1 DEF AnswersOnly
    <3> QED BY <2>0, <2>1, <3>1, <3>2, <3>3, <3>4 DEF CountInv
  <2>5. CASE RunSpoken
    <3>1. UNCHANGED voice /\ speakDone /\ speakDone' = FALSE /\ rpc' = "playback" /\ ppc # "done"
      BY <1>0, <2>5 DEF RunSpoken, PumpInv, Pumping
    <3> QED BY <2>0, <2>1, <3>1 DEF CountInv
  <2>6. CASE RunAwait \/ RunAwake
    <3>1. UNCHANGED <<voice, speakDone, run>> /\ rpc \in {"await", "asleep"} /\ rpc' \in {"finish", "playback", "asleep", "await"}
          /\ (rpc' = "playback" => run.then # "call")
      <4>1. ASSUME NEW ok, Awaited(ok) PROVE UNCHANGED run /\ rpc' \in {"finish", "playback"}
        BY <4>1 DEF Awaited, AnswersOnly
      <4> QED BY <2>6, <4>1 DEF RunAwait, RunAwake, pumpVars, AnswersOnly
    <3>2. ~run.voicing
      BY <3>1 DEF FullInv, SoundInv, RunInv, AnswersOnly
    <3>3. voice.written = 0 /\ voice.read = 0
      BY <1>0, <2>0, <3>2 DEF AnswersOnly
    <3> QED BY <2>0, <2>1, <3>1, <3>3 DEF CountInv, Active
  <2>7. CASE RunPlayback
    <3>1. UNCHANGED <<voice, speakDone, run>> /\ rpc = "playback" /\ rpc' = "settle" /\ (cut \/ play = <<>>)
      BY <2>7 DEF RunPlayback, pumpVars
    <3>2. ppc # "write" /\ ~speakDone /\ ppc # "done"
      BY <1>0, <3>1 DEF PumpInv, Pumping, Speaks
    <3>3. ~cut => run.said <= heard[Reply]
      <4> SUFFICES ASSUME ~cut PROVE run.said <= heard[Reply]
        OBVIOUS
      <4>1. Len(play) = 0 /\ Frame = 0
        BY <3>1, <3>2 DEF Frame
      <4>2. heard[Reply] + Len(play) + Frame = voice.read /\ voice.read = voice.written /\ voice.written = run.said
        BY <1>0, <2>0, <3>1 DEF CountInv
      <4> QED BY <1>0, <2>0, <4>1, <4>2
    <3> QED BY <2>0, <2>1, <3>1, <3>3 DEF CountInv
  <2>8. CASE RunSettle
    <3>1. UNCHANGED <<voice, speakDone>> /\ rpc' = "finish"
      BY <2>8 DEF RunSettle, pumpVars
    <3> QED BY <2>0, <2>1, <3>1 DEF CountInv, Active
  <2> QED BY <1>3, <2>2, <2>3, <2>4, <2>5, <2>6, <2>7, <2>8 DEF Run
<1> QED BY <1>1, <1>2, <1>3 DEF Responder

-----------------------------------------------------------------------------
\* No more of a reply is remembered than Step took of it, but for the message
\* of the reply under way, which is the last one and holds what was written.
Remembered(h, m) == m.role \in {"reply", "added"} => m.of \in DOMAIN h /\ m.len <= h[m.of]
Written(m) == m.role = "reply" /\ m.of = Reply /\ m.len = run.said
Opened == rpc \in {"write", "written", "spoken", "playback", "settle"} \/ (rpc \in {"await", "asleep"} /\ run.then # "skip")
MemoryInv ==
  /\ \A i \in DOMAIN session : Remembered(heard, session[i]) \/ (Opened /\ i = Len(session) /\ Written(session[i]))
  /\ rpc \in {"write", "written"} => Written(LastOf(session))
  /\ Opened => run.replyMark < Len(session)

\* What was heard of a reply is not forgotten.
LEMMA StillRemembered ==
  ASSUME heard \in Seq(Nat), NEW h \in Seq(Nat), DOMAIN heard \subseteq DOMAIN h, \A n \in DOMAIN heard : heard[n] <= h[n],
         NEW m \in Msg, MaxPieces \in Nat, Remembered(heard, m)
  PROVE  Remembered(h, m)
<1>1. m.len \in Nat
  BY DEF Msg
<1> SUFFICES ASSUME m.role \in {"reply", "added"} PROVE m.of \in DOMAIN h /\ m.len <= h[m.of]
  BY DEF Remembered
<1>2. m.of \in DOMAIN heard /\ m.len <= heard[m.of]
  BY DEF Remembered
<1>3. heard[m.of] \in Nat /\ h[m.of] \in Nat /\ heard[m.of] <= h[m.of] /\ m.of \in DOMAIN h
  BY <1>2
<1> QED BY <1>1, <1>2, <1>3

\* The other goroutines do not touch the conversation; Step only adds to what
\* was heard.
LEMMA OthersRemember ==
  ASSUME FullInv, Plain, AnswersOnly, CountInv, MemoryInv, Application \/ Listener \/ Pump
  PROVE  MemoryInv'
<1>0. /\ play \in Seq(1..Len(heard)) /\ heard \in Seq(Nat) /\ played \in Nat /\ ~late /\ "count" \notin Windows
      /\ session \in Seq(Msg) /\ MaxPieces \in Nat
  BY Bounds DEF FullInv, PlayInv, SoundInv, AudioInv, PlaceInv, Plain, AnswersOnly, ReplyInv
<1>1. UNCHANGED <<rpc, run, session>>
  BY RespondKept, TalkKept
<1>2. CASE StepFrame
  <2>1. /\ Reply \in DOMAIN heard /\ Reply' = Reply /\ heard' \in Seq(Nat) /\ DOMAIN heard' = DOMAIN heard
        /\ heard'[Reply] = heard[Reply] + 1 /\ heard[Reply] \in Nat /\ \A n \in DOMAIN heard : n # Reply => heard'[n] = heard[n]
    BY <1>0, <1>2, FrameTaken DEF CountInv
  <2>2. \A n \in DOMAIN heard : heard[n] <= heard'[n]
    <3> SUFFICES ASSUME NEW n \in DOMAIN heard PROVE heard[n] <= heard'[n]
      OBVIOUS
    <3>1. heard[n] \in Nat
      BY <1>0
    <3>2. CASE n = Reply
      BY <2>1, <3>2
    <3>3. CASE n # Reply
      BY <2>1, <3>1, <3>3
    <3> QED BY <3>2, <3>3
  <2>3. \A i \in DOMAIN session : Remembered(heard, session[i]) => Remembered(heard', session[i])
    <3> SUFFICES ASSUME NEW i \in DOMAIN session, Remembered(heard, session[i]) PROVE Remembered(heard', session[i])
      OBVIOUS
    <3>1. session[i] \in Msg
      BY <1>0
    <3> QED BY <1>0, <2>1, <2>2, <3>1, StillRemembered
  <2>4. \A i \in DOMAIN session : Written(session[i]) => Written(session[i])'
    BY <1>1, <2>1 DEF Written
  <2>5. Written(LastOf(session)) => Written(LastOf(session))'
    BY <1>1, <2>1 DEF Written, LastOf
  <2>6. Opened' <=> Opened
    BY <1>1 DEF Opened
  <2> QED BY <1>1, <2>3, <2>4, <2>5, <2>6 DEF MemoryInv
<1>3. CASE ~StepFrame
  <2>1. UNCHANGED heard
    <3>1. CASE Application \/ Listener
      BY <1>3, <3>1, ListenSound
    <3>2. CASE Pump
      BY <3>2 DEF Pump, PumpTake, PumpRead, PumpWrite, PumpDone, PumpStop
    <3> QED BY <3>1, <3>2
  <2> QED BY <1>1, <2>1 DEF MemoryInv, Opened, Written, Reply, LastOf
<1> QED BY <1>2, <1>3

\* No notes are told, so none join the conversation.
LEMMA NothingNoted ==
  ASSUME FullInv, Plain
  PROVE  Noted = session
<1>1. told = 0 /\ notes \in Seq(1..told)
  BY DEF FullInv, KeepInv, Plain
<1>2. notes = <<>>
  BY <1>1
<1>3. session \in Seq(Msg)
  BY DEF FullInv, ReplyInv
<1>4. [i \in DOMAIN notes |-> NoteMsg(notes[i])] = <<>>
  BY <1>2
<1> QED BY <1>3, <1>4 DEF Noted

\* The responder, while no message of a reply is open.
LEMMA ClosedRemembers ==
  ASSUME FullInv, Plain, AnswersOnly, CountInv, MemoryInv, ~Opened,
         RunFinish \/ RunUnbusy \/ RunNothing \/ RunUnhold \/ RespondJob \/ RespondNoted \/ RespondMoment \/ RespondStop \/ RunArm
  PROVE  MemoryInv'
<1>0. session \in Seq(Msg) /\ heard \in Seq(Nat) /\ MaxPieces \in Nat
  BY Bounds DEF FullInv, ReplyInv, SoundInv, AudioInv
<1>1. \A i \in DOMAIN session : Remembered(heard, session[i])
  BY DEF MemoryInv
<1>2. CASE RunArm
  <2>0. run.job.kind = "utt"
    BY <1>2 DEF RunArm, AnswersOnly
  <2>1. heard' = Append(heard, 0) /\ session' = session /\ rpc' = "transcribe"
    BY <1>2, <2>0 DEF RunArm
  <2>2. heard' \in Seq(Nat) /\ DOMAIN heard \subseteq DOMAIN heard' /\ \A n \in DOMAIN heard : heard[n] <= heard'[n]
    <3>1. heard' \in Seq(Nat) /\ Len(heard') = Len(heard) + 1 /\ \A n \in 1..Len(heard) : heard'[n] = heard[n]
      BY <1>0, <2>1, Appended
    <3>a. DOMAIN heard = 1..Len(heard) /\ DOMAIN heard' = 1..Len(heard') /\ Len(heard) \in Nat
      BY <1>0, <3>1
    <3>b. \A n \in 1..Len(heard) : heard[n] \in Nat
      BY <1>0
    <3>2. \A n \in DOMAIN heard : n \in DOMAIN heard' /\ heard'[n] = heard[n] /\ heard[n] \in Nat
      BY <3>1, <3>a, <3>b
    <3> QED BY <3>1, <3>2
  <2>3. \A i \in DOMAIN session : Remembered(heard', session[i])
    <3> SUFFICES ASSUME NEW i \in DOMAIN session PROVE Remembered(heard', session[i])
      OBVIOUS
    <3>1. session[i] \in Msg
      BY <1>0
    <3> QED BY <1>0, <1>1, <2>2, <3>1, StillRemembered
  <2> QED BY <2>1, <2>3 DEF MemoryInv, Opened
<1>3. CASE ~RunArm
  <2>1. rpc' \in {"unbusy", "idle", "moment", "finish", "arm", "unhold", "exited"} /\ heard' = heard /\ session' \in {session, Noted}
    BY <1>3 DEF RunFinish, RunUnbusy, RunNothing, RunUnhold, RespondJob, RespondNoted, RespondMoment, RespondStop, StartRun, talkVars
  <2>2. session' = session
    BY <2>1, NothingNoted
  <2> QED BY <1>1, <2>1, <2>2 DEF MemoryInv, Opened
<1> QED BY <1>2, <1>3

\* A message more, or fewer, while none is open.
LEMMA MessageMore ==
  ASSUME session \in Seq(Msg), NEW m \in Msg, \A i \in DOMAIN session : Remembered(heard, session[i])
  PROVE  /\ Append(session, m) \in Seq(Msg) /\ Len(Append(session, m)) = Len(session) + 1
         /\ LastOf(Append(session, m)) = m /\ Len(session) \in Nat
         /\ \A i \in DOMAIN Append(session, m) : Remembered(heard, Append(session, m)[i]) \/ (i = Len(session) + 1 /\ Append(session, m)[i] = m)
<1> DEFINE s == Append(session, m)
<1>1. s \in Seq(Msg) /\ Len(s) = Len(session) + 1 /\ Len(session) \in Nat /\ s[Len(session) + 1] = m /\ \A i \in 1..Len(session) : s[i] = session[i]
  BY Appended
<1> HIDE DEF s
<1>2. \A i \in DOMAIN s : i \in 1..Len(session) \/ i = Len(session) + 1
  BY <1>1
<1>3. \A i \in 1..Len(session) : i \in DOMAIN session
  OBVIOUS
<1>4. \A i \in DOMAIN s : Remembered(heard, s[i]) \/ (i = Len(session) + 1 /\ s[i] = m)
  BY <1>1, <1>2, <1>3
<1>5. LastOf(s) = m
  BY <1>1 DEF LastOf
<1> QED BY <1>1, <1>4, <1>5 DEF s

LEMMA MessagesFewer ==
  ASSUME session \in Seq(Msg), NEW n \in Nat, n <= Len(session), MemoryInv, Opened => n < Len(session)
  PROVE  \A i \in DOMAIN Restore(n) : Remembered(heard, Restore(n)[i])
<1>1. n \in 0..Len(session) /\ Len(session) \in Nat
  OBVIOUS
<1>2. Restore(n) \in Seq(Msg) /\ Len(Restore(n)) = n /\ \A i \in 1..n : Restore(n)[i] = session[i]
  BY <1>1, Prefix DEF Restore
<1>3. \A i \in DOMAIN Restore(n) : i \in 1..n /\ i \in DOMAIN session /\ (Opened => i # Len(session))
  BY <1>1, <1>2
<1> QED BY <1>2, <1>3 DEF MemoryInv

\* What RunSettle keeps of a cut reply was played.
LEMMA KeptIsPlayed ==
  ASSUME run \in RunRecord, MaxPieces \in Nat, AnswersOnly, played \in Nat
  PROVE  Kept \in Nat /\ Kept <= played /\ Kept <= run.said
<1>1. run.said \in Nat /\ run.from = 0 /\ ~run.echoed
  BY DEF RunRecord, AnswersOnly
<1>2. voicedAt \in Nat /\ voicedAt <= played /\ voicedAt <= run.said
  BY <1>1 DEF voicedAt
<1>3. Kept = voicedAt
  BY <1>1, <1>2 DEF Kept
<1> QED BY <1>2, <1>3

\* The steps of a reply.
LEMMA ReplyRemembers ==
  ASSUME FullInv, Plain, AnswersOnly, CountInv, MemoryInv, Run,
         ~RunArm, ~RunFinish, ~RunUnbusy, ~RunNothing, ~RunUnhold
  PROVE  MemoryInv'
<1>0. /\ session \in Seq(Msg) /\ run \in RunRecord /\ heard \in Seq(Nat) /\ MaxPieces \in Nat
      /\ LimitsInv /\ ReplyInv /\ played \in Nat /\ MaxRounds = 1 /\ ~Echoes
  BY Bounds DEF FullInv, ReplyInv, SoundInv, AudioInv, PlaceInv, Plain
<1>1. /\ Active /\ Reply \in Nat /\ Reply \in DOMAIN heard /\ heard[Reply] \in Nat /\ Len(session) \in Nat
      /\ run.replyMark \in Nat /\ run.mark \in Nat /\ run.said \in 0..MaxPieces
      /\ run.mark <= run.replyMark /\ run.replyMark <= Len(session) /\ run.job \in Job
  <2>1. Active
    BY DEF Run, RunReply, RunWrite, RunCalls, RunAgain, RunTranscribe, RunWritten, RunStands, RunSpoken, RunAwait, RunAwake,
       RunPlayback, RunSettle, Active
  <2> QED BY <1>0, <2>1 DEF ReplyInv, RunRecord, Reply
<1>2. UNCHANGED heard /\ Reply' = Reply
  BY DEF Run, RunReply, RunWrite, RunCalls, RunAgain, RunTranscribe, RunWritten, RunStands, RunSpoken, RunAwait, RunAwake,
     RunPlayback, RunSettle, Reply
<1>3. ~Opened => \A i \in DOMAIN session : Remembered(heard, session[i])
  BY DEF MemoryInv
<1>4. CASE \E skip \in BOOLEAN : RunTranscribe(skip)
  <2>1. PICK skip \in BOOLEAN : RunTranscribe(skip)
    BY <1>4
  <2> DEFINE named == run.job.who \notin {NoOne, lastSpeaker}
             intro == IF named THEN Append(session, SpeakerMsg(run.job.who)) ELSE session
  <2>2. /\ session' = Append(intro, UserMsg(run.job)) /\ rpc = "transcribe" /\ rpc' \in {"await", "reply"}
        /\ run' = [run EXCEPT !.replyMark = Len(session'), !.then = IF skip THEN "skip" ELSE @]
        /\ rpc' = IF skip THEN "await" ELSE "reply"
    BY <2>1 DEF RunTranscribe
  <2>3. ~Opened /\ ~Opened'
    BY <1>0, <2>2 DEF Opened, RunRecord
  <2>4. UserMsg(run.job) \in Msg /\ UserMsg(run.job).role = "user" /\ SpeakerMsg(run.job.who) \in Msg /\ SpeakerMsg(run.job.who).role = "speaker"
    <3>1. run.job.who \in Speaker \cup {NoOne}
      BY <1>1 DEF Job, SayJob, Moment
    <3> QED BY <1>0, <1>1, <3>1, Messages
  <2>5. intro \in Seq(Msg) /\ \A i \in DOMAIN intro : Remembered(heard, intro[i])
    <3>1. CASE named
      <4>1. intro = Append(session, SpeakerMsg(run.job.who))
        BY <3>1
      <4>2. Remembered(heard, SpeakerMsg(run.job.who))
        BY <2>4 DEF Remembered
      <4>3. /\ Append(session, SpeakerMsg(run.job.who)) \in Seq(Msg)
            /\ \A i \in DOMAIN Append(session, SpeakerMsg(run.job.who)) : Remembered(heard, Append(session, SpeakerMsg(run.job.who))[i])
        BY <1>0, <1>3, <2>3, <2>4, <4>2, MessageMore
      <4> QED BY <4>1, <4>3
    <3>2. CASE ~named
      BY <1>0, <1>3, <2>3, <3>2
    <3> QED BY <3>1, <3>2
  <2> HIDE DEF intro
  <2>6. Remembered(heard, UserMsg(run.job))
    BY <2>4 DEF Remembered
  <2>7. \A i \in DOMAIN session' : Remembered(heard, session'[i])
    <3>1. /\ Len(session') = Len(intro) + 1 /\ Len(intro) \in Nat /\ session'[Len(intro) + 1] = UserMsg(run.job) /\ session' \in Seq(Msg)
          /\ \A i \in 1..Len(intro) : session'[i] = intro[i]
      BY <2>2, <2>4, <2>5, Appended
    <3>2. \A i \in DOMAIN session' : i = Len(intro) + 1 \/ i \in 1..Len(intro)
      BY <3>1
    <3>3. \A i \in 1..Len(intro) : i \in DOMAIN intro
      BY <2>5
    <3> QED BY <2>5, <2>6, <3>1, <3>2, <3>3
  <2> QED BY <1>2, <2>2, <2>3, <2>7 DEF MemoryInv
<1>5. CASE RunReply
  <2> DEFINE m == ReplyMsg("reply", Reply, 0)
  <2>1. session' = Append(session, m) /\ run' = [run EXCEPT !.from = run.said] /\ rpc = "reply" /\ rpc' = "write"
    BY <1>5 DEF RunReply
  <2>2. m \in Msg /\ m.role = "reply" /\ m.of = Reply /\ m.len = 0
    BY <1>0, <1>1 DEF ReplyMsg, Msg
  <2>3. run.said = 0 /\ run'.said = 0 /\ run'.replyMark = run.replyMark
    BY <1>0, <2>1 DEF AnswersOnly, RunRecord
  <2> HIDE DEF m
  <2>4. ~Opened /\ Opened'
    BY <2>1 DEF Opened
  <2>5. /\ Len(session') = Len(session) + 1 /\ LastOf(session') = m
        /\ \A i \in DOMAIN session' : Remembered(heard, session'[i]) \/ (i = Len(session) + 1 /\ session'[i] = m)
    BY <1>0, <1>3, <2>1, <2>2, <2>4, MessageMore
  <2>6. m.role = "reply" /\ m.of = Reply' /\ m.len = run'.said
    BY <1>2, <2>2, <2>3
  <2>7. \A i \in DOMAIN session' : Remembered(heard, session'[i]) \/ (i = Len(session') /\ Written(session[i])')
    BY <2>5, <2>6 DEF Written
  <2>8. Written(LastOf(session))'
    BY <2>5, <2>6 DEF Written
  <2>9. run'.replyMark < Len(session')
    BY <1>1, <2>3, <2>5
  <2> QED BY <1>2, <2>4, <2>7, <2>8, <2>9 DEF MemoryInv
<1>6. CASE RunWrite
  <2> DEFINE m == [LastOf(session) EXCEPT !.len = @ + 1]
  <2>1. /\ session' = Append(AllBut(session), m) /\ rpc = "write" /\ rpc' = "write"
        /\ run' = [run EXCEPT !.said = @ + 1, !.voicing = TRUE] /\ run.said < MaxPieces
    BY <1>6 DEF RunWrite
  <2>2. run'.said = run.said + 1 /\ run'.replyMark = run.replyMark
    BY <1>0, <2>1 DEF RunRecord
  <2>3. session # <<>> /\ run.replyMark < Len(session)
    <3>1. run.replyMark < Len(session)
      BY <2>1 DEF MemoryInv, Opened
    <3>2. Len(session) # 0
      BY <1>1, <3>1
    <3> QED BY <3>1, <3>2
  <2>4. LastOf(session) \in Msg /\ Written(LastOf(session)) /\ LastOf(session).len + 1 \in 0..MaxPieces
    <3>0. LastOf(session) \in Msg
      BY <1>0, <2>3 DEF LastOf
    <3>1. LastOf(session) \in Msg /\ Written(LastOf(session))
      BY <2>1, <3>0 DEF MemoryInv
    <3>2. LastOf(session).len = run.said
      BY <3>1 DEF Written
    <3>3. run.said + 1 \in 0..MaxPieces
      <4>1. MaxPieces \in Nat /\ run.said \in 0..MaxPieces
        BY <1>0, <1>1
      <4>2. run.said < MaxPieces
        BY <2>1
      <4> QED BY <4>1, <4>2
    <3> QED BY <3>1, <3>2, <3>3
  <2>5. m \in Msg /\ m.role = "reply" /\ m.of = Reply /\ m.len = run.said + 1
    BY <2>4 DEF Msg, Written
  <2> HIDE DEF m
  <2>6. /\ session' \in Seq(Msg) /\ Len(session') = Len(session) /\ Len(session) \in Nat \ {0}
        /\ session'[Len(session)] = m /\ \A i \in 1..(Len(session) - 1) : session'[i] = session[i]
    BY <1>0, <2>1, <2>3, <2>5, LastMessage
  <2>7. \A i \in DOMAIN session' : i = Len(session) \/ (i \in 1..(Len(session) - 1) /\ i \in DOMAIN session /\ i # Len(session))
    BY <1>0, <2>6
  <2>8. m.role = "reply" /\ m.of = Reply' /\ m.len = run'.said
    BY <1>2, <2>2, <2>5
  <2>9. \A i \in DOMAIN session' : Remembered(heard, session'[i]) \/ (i = Len(session') /\ Written(session[i])')
    BY <2>6, <2>7, <2>8 DEF Written, MemoryInv
  <2>10. Written(LastOf(session))'
    BY <2>6, <2>8 DEF Written, LastOf
  <2>11. Opened' /\ run'.replyMark < Len(session')
    BY <2>1, <2>2, <2>3, <2>6 DEF Opened
  <2> QED BY <1>2, <2>9, <2>10, <2>11 DEF MemoryInv
<1>7. CASE RunCalls
  <2>1. run.rounds + 1 < 1 /\ run.rounds \in Nat
    BY <1>0, <1>7 DEF RunCalls, RunRecord
  <2> QED BY <2>1
<1>8. CASE RunAgain
  <2>1. session' = Restore(run.replyMark) /\ rpc = "written" /\ rpc' = "reply"
    BY <1>8 DEF RunAgain, AnswersOnly
  <2>2. Opened /\ run.replyMark < Len(session) /\ ~Opened'
    BY <2>1 DEF Opened, MemoryInv
  <2>3. \A i \in DOMAIN session' : Remembered(heard, session'[i])
    BY <1>0, <1>1, <2>1, <2>2, MessagesFewer
  <2> QED BY <1>2, <2>1, <2>2, <2>3 DEF MemoryInv
<1>9. CASE \E err \in BOOLEAN : RunWritten(err)
  <2>1. PICK err \in BOOLEAN : RunWritten(err)
    BY <1>9
  <2>2. rpc = "write" /\ rpc' = "written" /\ UNCHANGED session /\ run' = [run EXCEPT !.err = err]
    BY <2>1 DEF RunWritten, talkVars
  <2>3. run'.said = run.said /\ run'.replyMark = run.replyMark
    BY <1>0, <2>2 DEF RunRecord
  <2>4. Opened /\ Opened'
    BY <2>2 DEF Opened
  <2>5. LastOf(session)' = LastOf(session)
    BY <2>2 DEF LastOf
  <2> QED BY <1>2, <2>2, <2>3, <2>4, <2>5 DEF MemoryInv, Written
<1>10. CASE \E until, echoed \in BOOLEAN : RunStands(until, echoed)
  <2>1. PICK until \in BOOLEAN, echoed \in BOOLEAN : RunStands(until, echoed)
    BY <1>10
  <2> DEFINE m == [LastOf(session) EXCEPT !.role = "hush"]
  <2>2. /\ rpc = "written" /\ rpc' \in {"spoken", "await", "playback"} /\ ~echoed
        /\ run' = [run EXCEPT !.echoed = echoed, !.then = "playback"]
        /\ session' = IF until THEN Append(AllBut(session), m) ELSE session
    BY <1>0, <2>1 DEF RunStands
  <2>3. run'.said = run.said /\ run'.replyMark = run.replyMark /\ run'.then = "playback"
    BY <1>0, <2>2 DEF RunRecord
  <2>4. Opened /\ Opened' /\ rpc' \notin {"write", "written"} /\ run.replyMark < Len(session) /\ session # <<>>
    <3>1. Opened /\ Opened' /\ rpc' \notin {"write", "written"}
      BY <2>2, <2>3 DEF Opened
    <3>2. run.replyMark < Len(session)
      BY <3>1 DEF MemoryInv
    <3>3. Len(session) # 0
      BY <1>1, <3>2
    <3> QED BY <3>1, <3>2, <3>3
  <2>5. CASE until
    <3>1. LastOf(session) \in Msg
      BY <1>0, <2>4 DEF LastOf
    <3>2. m \in Msg /\ m.role = "hush"
      BY <3>1 DEF Msg
    <3>3. session' = Append(AllBut(session), m)
      BY <2>2, <2>5
    <3> HIDE DEF m
    <3>4. /\ session' \in Seq(Msg) /\ Len(session') = Len(session) /\ Len(session) \in Nat \ {0}
          /\ session'[Len(session)] = m /\ \A i \in 1..(Len(session) - 1) : session'[i] = session[i]
      BY <1>0, <2>4, <3>2, <3>3, LastMessage
    <3>5. \A i \in DOMAIN session' : i = Len(session) \/ (i \in 1..(Len(session) - 1) /\ i \in DOMAIN session /\ i # Len(session))
      BY <1>0, <3>4
    <3>6. Remembered(heard, m)
      BY <3>2 DEF Remembered
    <3>7. \A i \in DOMAIN session' : Remembered(heard, session'[i])
      BY <3>4, <3>5, <3>6 DEF MemoryInv
    <3> QED BY <1>2, <2>3, <2>4, <3>4, <3>7 DEF MemoryInv
  <2>6. CASE ~until
    <3>1. session' = session
      BY <2>2, <2>6
    <3> QED BY <1>2, <2>3, <2>4, <3>1 DEF MemoryInv, Written
  <2> QED BY <2>5, <2>6
<1>11. CASE RunSpoken \/ RunPlayback
  <2>1. UNCHANGED <<session, run>> /\ Opened /\ Opened' /\ rpc' \notin {"write", "written"}
    BY <1>11 DEF RunSpoken, RunPlayback, Opened, talkVars
  <2> QED BY <1>2, <2>1 DEF MemoryInv, Written
<1>12. CASE RunAwait \/ RunAwake
  <2>1. /\ rpc \in {"await", "asleep"} /\ run' = run
        /\ \/ rpc' \in {"await", "asleep"} /\ session' = session
           \/ run.then # "skip" /\ rpc' = "playback" /\ session' = session
           \/ run.then = "skip" /\ rpc' = "finish" /\ session' \in {session, Restore(run.mark)}
    <3>1. ASSUME NEW ok, Awaited(ok)
          PROVE  /\ run' = run
                 /\ \/ run.then # "skip" /\ rpc' = "playback" /\ session' = session
                    \/ run.then = "skip" /\ rpc' = "finish" /\ session' \in {session, Restore(run.mark)}
      BY <3>1 DEF Awaited, AnswersOnly
    <3> QED BY <1>12, <3>1 DEF RunAwait, RunAwake
  <2>2. CASE session' = session /\ (Opened' <=> Opened)
    BY <1>2, <2>1, <2>2 DEF MemoryInv, Written
  <2>3. CASE run.then = "skip" /\ rpc' = "finish" /\ session' \in {session, Restore(run.mark)}
    <3>1. ~Opened /\ ~Opened'
      BY <2>1, <2>3 DEF Opened
    <3>2. \A i \in DOMAIN Restore(run.mark) : Remembered(heard, Restore(run.mark)[i])
      <4>1. run.mark \in Nat /\ run.mark <= Len(session)
        BY <1>1
      <4> QED BY <1>0, <3>1, <4>1, MessagesFewer
    <3>3. \A i \in DOMAIN session' : Remembered(heard, session'[i])
      BY <1>3, <2>3, <3>1, <3>2
    <3> QED BY <1>2, <2>3, <3>1, <3>3 DEF MemoryInv
  <2> QED BY <2>1, <2>2, <2>3 DEF Opened
<1>13. CASE RunSettle
  <2>1. /\ rpc = "settle" /\ rpc' = "finish"
        /\ session' = IF Superseded THEN Restore(run.mark)
                      ELSE IF cut /\ run.job.kind = "utt" THEN Truncate(Kept)
                      ELSE session
    BY <1>13 DEF RunSettle
  <2>2. Opened /\ ~Opened' /\ run.job.kind = "utt" /\ run.replyMark < Len(session) /\ session # <<>>
    <3>1. Opened /\ ~Opened' /\ run.job.kind = "utt"
      BY <2>1 DEF Opened, AnswersOnly
    <3> QED BY <1>0, <1>1, <3>1 DEF MemoryInv
  <2> SUFFICES \A i \in DOMAIN session' : Remembered(heard, session'[i])
    BY <1>2, <2>1, <2>2 DEF MemoryInv
  <2>3. CASE Superseded
    <3>1. run.mark < Len(session) /\ run.mark <= Len(session)
      BY <1>1, <2>2
    <3>2. session' = Restore(run.mark)
      BY <2>1, <2>3
    <3>3. \A i \in DOMAIN Restore(run.mark) : Remembered(heard, Restore(run.mark)[i])
      BY <1>0, <1>1, <3>1, MessagesFewer
    <3> QED BY <3>2, <3>3
  <2>4. /\ DOMAIN session = 1..Len(session) /\ Len(session) \in Nat \ {0} /\ LastOf(session) = session[Len(session)] /\ LastOf(session) \in Msg
        /\ \A i \in 1..(Len(session) - 1) : i \in DOMAIN session /\ Remembered(heard, session[i])
    <3>1. /\ DOMAIN session = 1..Len(session) /\ Len(session) \in Nat \ {0} /\ LastOf(session) = session[Len(session)] /\ LastOf(session) \in Msg
      BY <1>0, <2>2 DEF LastOf
    <3>2. \A n \in Nat \ {0} : \A i \in 1..(n - 1) : i \in 1..n /\ i # n
      OBVIOUS
    <3>3. \A i \in 1..(Len(session) - 1) : i \in DOMAIN session /\ i # Len(session)
      BY <3>1, <3>2, Zenon
    <3> QED BY <3>1, <3>3 DEF MemoryInv
  <2>5. Remembered(heard, LastOf(session)) \/ Written(LastOf(session))
    <3>1. Len(session) \in DOMAIN session
      BY <2>4
    <3> QED BY <2>4, <3>1 DEF MemoryInv
  <2>6. LastOf(session).len \in Nat
    BY <1>0, <2>4 DEF Msg
  <2>7. CASE ~Superseded /\ ~cut
    <3>1. session' = session /\ run.said <= heard[Reply]
      BY <2>1, <2>7 DEF CountInv
    <3>2. Remembered(heard, LastOf(session))
      BY <1>1, <2>5, <3>1 DEF Remembered, Written
    <3>3. \A i \in DOMAIN session : i = Len(session) \/ i \in 1..(Len(session) - 1)
      BY <2>4
    <3> QED BY <2>4, <3>1, <3>2, <3>3
  <2>8. CASE ~Superseded /\ cut
    <3>1. session' = Truncate(Kept)
      BY <2>1, <2>2, <2>8
    <3>2. Kept \in Nat /\ Kept <= played /\ played <= heard[Reply]
      BY <1>0, <1>1, KeptIsPlayed DEF CountInv
    <3>3. Kept <= heard[Reply]
      BY <1>0, <1>1, <3>2
    <3>4. CASE LastOf(session).role = "reply" /\ LastOf(session).len > Kept
      <4> DEFINE m == [LastOf(session) EXCEPT !.len = Kept]
      <4>1. session' = Append(AllBut(session), m)
        BY <2>2, <3>1, <3>4 DEF Truncate
      <4>2. m \in Msg /\ m.role = "reply" /\ m.of = LastOf(session).of /\ m.len = Kept
        <5>1. LastOf(session).len \in 0..MaxPieces
          BY <2>4 DEF Msg
        <5>2. Kept \in 0..MaxPieces
          BY <1>0, <2>6, <3>2, <3>4, <5>1
        <5> QED BY <2>4, <3>4, <5>2 DEF Msg
      <4> HIDE DEF m
      <4>3. /\ session' \in Seq(Msg) /\ Len(session') = Len(session)
            /\ session'[Len(session)] = m /\ \A i \in 1..(Len(session) - 1) : session'[i] = session[i]
        BY <1>0, <2>2, <4>1, <4>2, LastMessage
      <4>4. \A i \in DOMAIN session' : i = Len(session) \/ i \in 1..(Len(session) - 1)
        BY <2>4, <4>3
      <4>5. Remembered(heard, m)
        <5>1. CASE Written(LastOf(session))
          BY <1>1, <3>3, <4>2, <5>1 DEF Remembered, Written
        <5>2. CASE Remembered(heard, LastOf(session))
          <6>1. LastOf(session).of \in DOMAIN heard /\ LastOf(session).len <= heard[LastOf(session).of]
            BY <3>4, <5>2 DEF Remembered
          <6>2. heard[LastOf(session).of] \in Nat
            BY <1>0, <6>1
          <6>3. Kept <= heard[LastOf(session).of]
            BY <2>6, <3>2, <3>4, <6>1, <6>2
          <6> QED BY <4>2, <6>1, <6>3 DEF Remembered
        <5> QED BY <2>5, <5>1, <5>2
      <4> QED BY <2>4, <4>3, <4>4, <4>5
    <3>5. CASE ~(LastOf(session).role = "reply" /\ LastOf(session).len > Kept)
      <4>1. session' = session
        BY <3>1, <3>5 DEF Truncate
      <4>2. Remembered(heard, LastOf(session))
        <5> SUFFICES ASSUME Written(LastOf(session)) PROVE Remembered(heard, LastOf(session))
          BY <2>5
        <5>1. LastOf(session).role = "reply" /\ LastOf(session).of = Reply
          BY DEF Written
        <5>2. LastOf(session).len <= Kept
          BY <2>6, <3>2, <3>5, <5>1
        <5>3. LastOf(session).len <= heard[Reply]
          BY <1>1, <2>6, <3>2, <3>3, <5>2
        <5> QED BY <1>1, <5>1, <5>3 DEF Remembered
      <4>3. \A i \in DOMAIN session : i = Len(session) \/ i \in 1..(Len(session) - 1)
        BY <2>4
      <4> QED BY <2>4, <4>1, <4>2, <4>3
    <3> QED BY <3>4, <3>5
  <2> QED BY <2>3, <2>7, <2>8
<1> QED BY <1>4, <1>5, <1>6, <1>7, <1>8, <1>9, <1>10, <1>11, <1>12, <1>13 DEF Run

\* The responder keeps the conversation to what was heard.
LEMMA ResponderRemembers ==
  ASSUME FullInv, Plain, AnswersOnly, CountInv, MemoryInv, Responder
  PROVE  MemoryInv'
<1>1. CASE RunFinish \/ RunUnbusy \/ RunNothing \/ RunUnhold \/ RespondJob \/ RespondNoted \/ RespondMoment \/ RespondStop \/ RunArm
  <2>1. ~Opened
    BY <1>1 DEF RunFinish, RunUnbusy, RunNothing, RunUnhold, RespondJob, RespondNoted, RespondMoment, RespondStop, RunArm, Opened
  <2> QED BY <1>1, <2>1, ClosedRemembers
<1>2. CASE Run /\ ~RunArm /\ ~RunFinish /\ ~RunUnbusy /\ ~RunNothing /\ ~RunUnhold
  BY <1>2, ReplyRemembers
<1> QED BY <1>1, <1>2 DEF Responder

\* In behaviours that only answer utterances, in one round each, the
\* conversation holds no more of a reply that is over than Step took of it:
\* RunSettle forgets a superseded reply whole, and keeps of a cut one what was
\* played of it, however the listener, the pump and Step interleave.
THEOREM RepliesAreHeard ==
  ASSUME \A l \in Limits : /\ l.MaxSays = 0 /\ l.MaxNotes = 0 /\ l.MaxRounds = 1 /\ ~l.Echoes /\ ~l.Faults /\ ~l.Closing
                           /\ "count" \notin l.Windows /\ "reset" \notin l.Windows
  PROVE  Spec => []RememberedIsHeard
<1> DEFINE HeardInv == FullInv /\ AnswersOnly /\ CutInv /\ CountInv /\ MemoryInv
<1>1. Init => HeardInv
  <2> SUFFICES ASSUME Init PROVE AnswersOnly /\ CutInv /\ CountInv /\ MemoryInv
    BY InitFull
  <2>1. AnswersOnly
    BY DEF Init, AnswersOnly, NoRun
  <2>2. CutInv /\ CountInv
    BY DEF Init, CutInv, CountInv, Active, Pumping
  <2>3. MemoryInv
    BY DEF Init, MemoryInv, Opened
  <2> QED BY <2>1, <2>2, <2>3
<1>2. HeardInv /\ [Next]_vars => HeardInv'
  <2> SUFFICES ASSUME HeardInv, [Next]_vars PROVE AnswersOnly' /\ CutInv' /\ CountInv' /\ MemoryInv'
    BY NextFull
  <2>1. Plain
    BY DEF FullInv, LimitsInv, Plain, MaxSays, MaxNotes, MaxRounds, Echoes, Faults, Closing, Windows
  <2>2. CASE UNCHANGED vars
    <3>1. UNCHANGED <<rpc, run, jobs, momentDue, late, cpc, cut, cancel, lpc, ppc, current, play, played, heard, voice, speakDone, session>>
      BY <2>2 DEF vars, audioVars, noteVars, jobVars, listenVars, talkVars, respondVars, pumpVars, appVars
    <3>2. AnswersOnly'
      BY <3>1 DEF AnswersOnly
    <3>3. CutInv'
      BY <3>1 DEF CutInv, Active, Pumping
    <3>4. CountInv'
      BY <3>1 DEF CountInv, Active, Reply, Frame
    <3>5. MemoryInv'
      BY <3>1 DEF MemoryInv, Opened, Written, Reply, LastOf
    <3> QED BY <3>2, <3>3, <3>4, <3>5
  <2>3. CASE Application \/ Listener \/ Responder \/ Pump
    BY <2>1, <2>3, OthersOnlyAnswer, ResponderOnlyAnswers, CutStep, OthersKeepCount, ResponderKeepsCount, OthersRemember, ResponderRemembers
  <2> QED BY <2>2, <2>3 DEF Next, Within
<1>3. HeardInv => RememberedIsHeard
  <2> SUFFICES ASSUME HeardInv, NEW i \in DOMAIN session, session[i].role \in {"reply", "added"},
                      session[i].of # Reply \/ rpc \in {"idle", "moment"}
               PROVE  session[i].len <= heard[session[i].of]
    BY DEF RememberedIsHeard
  <2>1. ~(Opened /\ Written(session[i]))
    BY DEF Opened, Written
  <2> QED BY <2>1 DEF MemoryInv, Remembered
<1> QED BY <1>1, <1>2, <1>3, PTL DEF Spec

=============================================================================
