------------------------------ MODULE Cascade ------------------------------
(***************************************************************************)
(* duplex.Cascade (duplex/cascade.go): the agent that listens, thinks and   *)
(* speaks at once.  Its goroutines are the application's (Step, Say, Note,  *)
(* Speaker, Close), the listener (listen), the responder (respond, run) and *)
(* the pump (pump); they share atomics, one-slot channels, the job queue    *)
(* and the playback ring.  One action is one access of shared state, with   *)
(* the local computation around it.                                         *)
(*                                                                          *)
(* Time and sound are choices: whether a frame holds speech, whether a      *)
(* pause ends the turn, what the classifiers answer, how much the model     *)
(* writes.  Words count in pieces, and the voice speaks a piece in one      *)
(* frame, so the samples of a reply and the pieces of its text have the     *)
(* same numbers.  The scribe, which only warms the transcriber and the      *)
(* session, is left out, and so are the hints the cascade adds for the      *)
(* model alone (a reminder of its silence, a request to answer after all).  *)
(***************************************************************************)
EXTENDS Naturals, Sequences, FiniteSets

CONSTANTS
  NoOne,   \* the empty name
  Limits   \* the bounds of the instances checked: see limits

VARIABLE limits  \* the bounds of this behaviour, chosen once

Speaker == limits.Speaker              \* names the application gives to Speaker()
JobsCap == limits.JobsCap              \* capacity of the job queue (4 in the code)
MaxPauses == limits.MaxPauses          \* bound on the answers the listener dispatches
MaxUtterances == limits.MaxUtterances  \* bound on the utterances begun
MaxSays == limits.MaxSays              \* bound on the calls of Say that are accepted
MaxNotes == limits.MaxNotes            \* bound on the notes: Note, planned and idle moments
MaxPieces == limits.MaxPieces          \* pieces of a reply
MaxRounds == limits.MaxRounds          \* maxToolRounds: replies of one moment while tools are called
Echoes == limits.Echoes                \* whether the model may begin a reply by repeating the message
Faults == limits.Faults                \* whether the lanes may fail
Windows == limits.Windows              \* the short windows in which a goroutine may be overtaken; see below
Closing == limits.Closing              \* whether the application calls Close

ASSUME CascadeAssumption ==
  \A l \in Limits :
    /\ NoOne \notin l.Speaker
    /\ {l.JobsCap, l.MaxRounds} \subseteq Nat \ {0}
    /\ l.Windows \subseteq {"count", "reset", "take", "busy"}
    /\ {l.MaxPauses, l.MaxUtterances, l.MaxSays, l.MaxNotes, l.MaxPieces} \subseteq Nat
    /\ {l.Echoes, l.Faults, l.Closing} \subseteq BOOLEAN

VARIABLES
  \* Step's side
  play,        \* the ring of synthesized frames, each the number of its reply
  played,      \* frames of the current reply played
  held,        \* the reply prepared at a pause is not to be played yet
  late,        \* Step read a frame and has not counted it
  \* turns
  resumed,     \* the current reply was cut by its speaker going on
  seq,         \* the last job's id
  released,    \* the id of the job whose turn ended
  release,     \* the channel that signals released holds a token
  \* moments
  speaker,     \* who is speaking, as the application says
  notes,       \* notes to add at the next moment
  noted,       \* the channel that signals notes holds a token
  momentDue,   \* a note moment waits for the speaker to finish
  hearing,     \* speech is being heard
  \* replies
  jobs,        \* the job queue
  busy,        \* a reply is being prepared or spoken
  cancel,      \* c.cancel is set
  cut,         \* the context of the current reply is done
  \* goroutines
  lpc, ear,    \* the listener: where it is, its local variables
  utt,         \* the utterance being heard: its generation, whether it has audio
  rpc, run,    \* the responder: where it is, the locals and reply fields of run
  session,     \* the conversation
  lastSpeaker, \* the speaker last announced to the conversation
  silentUntil, \* the model keeps a silence until something happens
  ppc,         \* the pump
  current,     \* play was not reset since the pump took its generation
  pumpJobs,    \* the channel to the pump holds the reply
  speakDone,   \* the channel back holds its end
  voice,       \* the synthesizer: pieces written and read, whether the text ended
  cpc,         \* Close: where it is
  \* history
  said,        \* number of calls of Say accepted
  told,        \* number of notes so far
  heard,       \* frames of each reply that Step took
  called       \* jobs whose tools ran

audioVars == <<play, played, held, late>>
turnVars == <<resumed, seq, released, release>>
noteVars == <<notes, noted, momentDue, told>>
jobVars == <<jobs, busy, cancel, cut>>
listenVars == <<lpc, ear, utt, hearing>>
talkVars == <<session, lastSpeaker, silentUntil>>
respondVars == <<rpc, run, called>>
pumpVars == <<ppc, current, pumpJobs, speakDone, voice>>
appVars == <<speaker, said, cpc>>
vars == <<audioVars, turnVars, noteVars, jobVars, listenVars, talkVars, respondVars,
          pumpVars, appVars, heard, limits>>

------------------------------------------------------------------------------
(* The windows.  Some statements of the code follow each other so closely    *)
(* that another goroutine hardly ever comes in between, yet nothing keeps it *)
(* out:                                                                      *)
(*   "count"  Step has read a frame of playback and not yet counted it;      *)
(*   "reset"  interrupt has cancelled a reply and not yet emptied playback,  *)
(*            and the responder begins the next one;                         *)
(*   "take"   the responder takes a job from the queue while the listener    *)
(*            interrupts or dispatches, or has taken one and not yet set     *)
(*            cancel when the listener interrupts;                           *)
(*   "busy"   finish has looked at the queue and not yet cleared busy, or    *)
(*            dispatch has set busy and not yet queued its job.              *)
(* Windows is the set of those the scheduler may use.                        *)
------------------------------------------------------------------------------
\* Jobs, messages and the conversation.

UttJob(id, gen, who) == [kind |-> "utt", id |-> id, utt |-> gen, who |-> who]
SayJob == [kind |-> "say", id |-> 0, utt |-> 0, who |-> NoOne]
Moment == [kind |-> "moment", id |-> 0, utt |-> 0, who |-> NoOne]

NoteMsg(n) == [role |-> "note", of |-> n, len |-> 0, who |-> NoOne]
SpeakerMsg(s) == [role |-> "speaker", of |-> 0, len |-> 0, who |-> s]
UserMsg(j) == [role |-> "user", of |-> j.utt, len |-> 0, who |-> j.who]
ToolMsg == [role |-> "tool", of |-> 0, len |-> 0, who |-> NoOne]
\* A message of reply n: "reply" is one that Reply wrote, "added" one that
\* the cascade added as said, "hush" a silence until something happens.
ReplyMsg(role, n, len) == [role |-> role, of |-> n, len |-> len, who |-> NoOne]

LastOf(s) == s[Len(s)]
AllBut(s) == SubSeq(s, 1, Len(s) - 1)
Reply == Len(heard)  \* the number of the current reply

\* Session.Restore: everything added since the mark is forgotten.
Restore(mark) == SubSeq(session, 1, mark)

\* Session.Truncate shortens the last message if Reply wrote it; otherwise it
\* fails, and the cascade drops the error.
Truncate(n) ==
  IF session # <<>> /\ LastOf(session).role = "reply" /\ LastOf(session).len > n
  THEN Append(AllBut(session), [LastOf(session) EXCEPT !.len = n])
  ELSE session

\* run's view of a reply not begun.
NoRun == [job |-> Moment, mark |-> 0, replyMark |-> 0, said |-> 0, rounds |-> 0,
          from |-> 0, voicing |-> FALSE, called |-> FALSE, retried |-> FALSE,
          overruled |-> FALSE, echoed |-> FALSE, err |-> FALSE, then |-> "finish",
          empty |-> FALSE]

NoEar == [speaking |-> FALSE, audible |-> FALSE, talked |-> 0, pending |-> 0,
          answered |-> FALSE, stopped |-> FALSE, after |-> "frame"]

Init ==
  /\ limits \in Limits
  /\ play = <<>> /\ played = 0 /\ held = FALSE /\ late = FALSE
  /\ resumed = FALSE /\ seq = 0 /\ released = 0 /\ release = FALSE
  /\ speaker = NoOne /\ notes = <<>> /\ noted = FALSE /\ momentDue = FALSE
  /\ hearing = FALSE /\ jobs = <<>> /\ busy = FALSE /\ cancel = FALSE /\ cut = FALSE
  /\ lpc = "frame" /\ ear = NoEar /\ utt = [gen |-> 0, open |-> FALSE]
  /\ rpc = "idle" /\ run = NoRun
  /\ session = <<>> /\ lastSpeaker = NoOne /\ silentUntil = FALSE
  /\ ppc = "idle" /\ current = FALSE /\ pumpJobs = FALSE /\ speakDone = FALSE
  /\ voice = [written |-> 0, read |-> 0, ended |-> FALSE]
  /\ cpc = "open"
  /\ said = 0 /\ told = 0 /\ heard = <<>> /\ called = {}

------------------------------------------------------------------------------
\* The application.

\* Step takes a frame from playback unless the reply is held, and counts it.
StepFrame ==
  /\ ~late /\ ~held /\ play # <<>>
  /\ play' = Tail(play)
  /\ heard' = [heard EXCEPT ![Head(play)] = @ + 1]
  /\ IF "count" \in Windows THEN late' = TRUE /\ UNCHANGED played
                  ELSE played' = played + 1 /\ UNCHANGED late
  /\ UNCHANGED <<held, turnVars, noteVars, jobVars, listenVars, talkVars, respondVars,
                 pumpVars, appVars>>

StepCount ==
  /\ late
  /\ late' = FALSE /\ played' = played + 1
  /\ UNCHANGED <<play, held, turnVars, noteVars, jobVars, listenVars, talkVars,
                 respondVars, pumpVars, appVars, heard>>

\* Say queues the text, or reports that too many replies are queued.
Say ==
  /\ said < MaxSays /\ Len(jobs) < JobsCap
  /\ jobs' = Append(jobs, SayJob) /\ said' = said + 1
  /\ UNCHANGED <<audioVars, turnVars, noteVars, busy, cancel, cut, listenVars, talkVars,
                 respondVars, pumpVars, speaker, cpc, heard>>

\* Note, and the timers of planned and idle moments.
Note ==
  /\ told < MaxNotes /\ cpc = "open"
  /\ told' = told + 1
  /\ notes' = Append(notes, told + 1) /\ noted' = TRUE
  /\ UNCHANGED <<audioVars, turnVars, momentDue, jobVars, listenVars, talkVars,
                 respondVars, pumpVars, appVars, heard>>

SetSpeaker(s) ==
  /\ speaker # s /\ speaker' = s
  /\ UNCHANGED <<audioVars, turnVars, noteVars, jobVars, listenVars, talkVars,
                 respondVars, pumpVars, said, cpc, heard>>

\* Close cancels the current reply, stops the workers and waits for them.
CloseCancel ==
  /\ Closing /\ cpc = "open"
  /\ cpc' = "stop"
  /\ cut' = (cut \/ cancel)
  /\ UNCHANGED <<audioVars, turnVars, noteVars, jobs, busy, cancel, listenVars, talkVars,
                 respondVars, pumpVars, speaker, said, heard>>

CloseStop ==
  /\ cpc = "stop" /\ cpc' = "wait"
  /\ UNCHANGED <<audioVars, turnVars, noteVars, jobVars, listenVars, talkVars,
                 respondVars, pumpVars, speaker, said, heard>>

CloseDone ==
  /\ cpc = "wait" /\ {lpc, rpc, ppc} = {"exited"}
  /\ cpc' = "closed"
  /\ UNCHANGED <<audioVars, turnVars, noteVars, jobVars, listenVars, talkVars,
                 respondVars, pumpVars, speaker, said, heard>>

\* The stop channel is closed, before Close waits.
stop == cpc \in {"wait", "closed"}

------------------------------------------------------------------------------
\* The listener.

audible == busy /\ ~held /\ (played > 0 \/ play # <<>>)

\* The local part of reset: the utterance is over.
Forget(e) == [e EXCEPT !.talked = 0, !.pending = 0, !.answered = FALSE]

\* The shared part of reset, with the moment that waited for the speaker.
resetUtterance ==
  /\ utt' = [gen |-> utt.gen + 1, open |-> FALSE]
  /\ hearing' = FALSE
  /\ noted' = (noted \/ momentDue)

\* Back to the next frame.
Rest(e) == [e EXCEPT !.speaking = FALSE, !.audible = FALSE, !.after = "frame"]

\* A frame: whether it holds speech, whether the voice became audible less
\* than resumeWindow ago (recent), and whether the speech has gone on for
\* resume (long), are its choices.  The answer under way ends the utterance;
\* speech while an answer is pending, or as it begins, drops the answer.
ListenFrame(speaking, recent, long) ==
  LET fresh == audible /\ recent
      done == ear.answered /\ ((audible /\ ~fresh) \/ ~busy)
      e == [(IF done THEN Forget(ear) ELSE ear) EXCEPT
              !.speaking = speaking, !.audible = audible, !.stopped = @ /\ audible]
      goesOn == e.answered /\ busy /\ (~audible \/ fresh) /\ long
  IN /\ lpc = "frame"
     /\ speaking => /\ seq < MaxPauses
                    /\ (~utt.open \/ done) => utt.gen + (IF done THEN 1 ELSE 0) < MaxUtterances
     /\ long => speaking
     /\ recent => audible
     /\ IF done THEN resetUtterance ELSE UNCHANGED <<utt, hearing, noted>>
     /\ IF speaking /\ e.pending # 0
        THEN /\ ear' = [e EXCEPT !.pending = 0, !.after = "hear"]
             /\ lpc' = "cancel" /\ UNCHANGED resumed
        ELSE IF goesOn
        THEN /\ ear' = [e EXCEPT !.answered = FALSE, !.stopped = TRUE, !.after = "hear"]
             /\ lpc' = "cancel" /\ resumed' = TRUE
        ELSE /\ UNCHANGED resumed
             /\ IF speaking \/ utt'.open
                THEN ear' = e /\ lpc' = "hear"
                ELSE ear' = Rest(e) /\ lpc' = "frame"
     /\ UNCHANGED <<audioVars, seq, released, release, notes, momentDue, told, jobVars,
                    talkVars, respondVars, pumpVars, appVars, heard>>

\* interrupt, in its two steps: the reply is cancelled, then playback emptied.
ListenCancel ==
  /\ lpc = "cancel" /\ lpc' = "reset"
  /\ rpc \in {"unhold", "arm"} => "take" \in Windows
  /\ cut' = (cut \/ cancel) /\ cancel' = FALSE
  /\ UNCHANGED <<audioVars, turnVars, noteVars, jobs, busy, ear, utt, hearing, talkVars,
                 respondVars, pumpVars, appVars, heard>>

ListenReset ==
  /\ lpc = "reset" /\ lpc' = ear.after
  /\ ear' = IF ear.after = "frame" THEN Rest(ear) ELSE ear
  /\ play' = <<>> /\ current' = FALSE
  /\ UNCHANGED <<played, held, late, turnVars, noteVars, jobVars, utt, hearing, talkVars,
                 respondVars, ppc, pumpJobs, speakDone, voice, appVars, heard>>

\* The frame joins the utterance.  talked is 1 for less speech than shortest
\* (or, over the agent, less than overlapPeek), 2 for more.
ListenHear ==
  /\ lpc = "hear"
  /\ utt' = [utt EXCEPT !.open = TRUE]
  /\ hearing' = (hearing \/ ~utt.open)
  /\ \E t \in IF ear.speaking THEN {1, 2} ELSE {ear.talked} :
       LET e == [ear EXCEPT !.talked = t]
       IN /\ t >= ear.talked
          /\ IF e.audible /\ ~e.stopped /\ ~e.answered THEN ear' = e /\ lpc' = "over"
             ELSE IF e.speaking \/ e.answered THEN ear' = Rest(e) /\ lpc' = "frame"
             ELSE ear' = e /\ lpc' = "pause"
  /\ UNCHANGED <<audioVars, turnVars, noteVars, jobVars, talkVars, respondVars, pumpVars,
                 appVars, heard>>

\* Speech over the agent: too early to judge; judged, or long enough, to stop
\* it; or, at its end, an acknowledgement.
ListenOver ==
  /\ lpc = "over"
  /\ \/ /\ ear' = Rest(ear) /\ lpc' = "frame" /\ UNCHANGED <<utt, hearing, noted>>
     \/ /\ ear.speaking => ear.talked = 2
        /\ ear' = [ear EXCEPT !.stopped = TRUE] /\ lpc' = "cancel"
        /\ UNCHANGED <<utt, hearing, noted>>
     \/ /\ ~ear.speaking
        /\ ear' = Rest(Forget(ear)) /\ lpc' = "frame" /\ resetUtterance
  /\ UNCHANGED <<audioVars, turnVars, notes, momentDue, told, jobVars, talkVars,
                 respondVars, pumpVars, appVars, heard>>

\* The speaker paused: the answer is prepared now.  dispatch begins with
\* interrupt.
ListenPause ==
  /\ lpc = "pause"
  /\ IF ear.pending = 0 /\ ear.talked = 2
     THEN ear' = [ear EXCEPT !.after = "dispatch"] /\ lpc' = "cancel"
     ELSE ear' = ear /\ lpc' = "judge"
  /\ UNCHANGED <<audioVars, turnVars, noteVars, jobVars, utt, hearing, talkVars,
                 respondVars, pumpVars, appVars, heard>>

ListenDispatch ==
  /\ lpc = "dispatch" /\ lpc' = "send"
  /\ rpc = "unbusy" => "busy" \in Windows
  /\ seq' = seq + 1 /\ held' = TRUE /\ busy' = TRUE
  /\ UNCHANGED <<play, played, late, resumed, released, release, noteVars, jobs, cancel,
                 cut, ear, utt, hearing, talkVars, respondVars, pumpVars, appVars, heard>>

\* A full queue loses its oldest job.
Enqueue(j) == Append(IF Len(jobs) = JobsCap THEN Tail(jobs) ELSE jobs, j)

ListenSend ==
  /\ lpc = "send" /\ lpc' = "judge"
  /\ jobs' = Enqueue(UttJob(seq, utt.gen, speaker))
  /\ ear' = [ear EXCEPT !.pending = seq, !.after = "frame"]
  /\ UNCHANGED <<audioVars, turnVars, noteVars, busy, cancel, cut, utt, hearing, talkVars,
                 respondVars, pumpVars, appVars, heard>>

\* The pause ends the turn, or is too short to tell.
ListenJudge(over) ==
  /\ lpc = "judge"
  /\ IF over /\ ear.talked = 2
     THEN /\ released' = ear.pending /\ lpc' = "release"
          /\ UNCHANGED <<ear, utt, hearing, noted>>
     ELSE /\ lpc' = "frame" /\ UNCHANGED released
          /\ IF over THEN ear' = Rest(Forget(ear)) /\ resetUtterance
                     ELSE ear' = Rest(ear) /\ UNCHANGED <<utt, hearing, noted>>
  /\ UNCHANGED <<audioVars, resumed, seq, release, notes, momentDue, told, jobVars,
                 talkVars, respondVars, pumpVars, appVars, heard>>

\* The non-blocking send to the one-slot channel leaves a token in it.
BugSignal == release
Signal == TRUE

\* The rest of releaseTurn: the answer may play, and its responder is told.
ListenRelease ==
  /\ lpc = "release" /\ lpc' = "frame"
  /\ held' = FALSE /\ release' = Signal /\ hearing' = FALSE
  /\ ear' = Rest([ear EXCEPT !.pending = 0, !.answered = TRUE])
  /\ UNCHANGED <<play, played, late, resumed, seq, released, noteVars, jobVars, utt,
                 talkVars, respondVars, pumpVars, appVars, heard>>

ListenStop ==
  /\ lpc = "frame" /\ stop /\ lpc' = "exited"
  /\ UNCHANGED <<audioVars, turnVars, noteVars, jobVars, ear, utt, hearing, talkVars,
                 respondVars, pumpVars, appVars, heard>>

------------------------------------------------------------------------------
\* The responder.

\* What addNotes leaves in the conversation.
Noted == session \o [i \in DOMAIN notes |-> NoteMsg(notes[i])]

\* The first statements of run: the notes join the conversation, and this
\* reply answers them too.
StartRun(j) ==
  /\ session' = Noted /\ notes' = <<>> /\ momentDue' = FALSE
  /\ resumed' = FALSE
  /\ run' = [NoRun EXCEPT !.job = j] /\ rpc' = "unhold"

\* The newest job waiting supersedes the others.
RespondJob ==
  /\ rpc = "idle" /\ jobs # <<>>
  /\ lpc \in {"cancel", "reset", "dispatch", "send"} => "take" \in Windows
  /\ StartRun(LastOf(jobs)) /\ jobs' = <<>>
  /\ UNCHANGED <<audioVars, seq, released, release, noted, told, busy, cancel, cut,
                 listenVars, lastSpeaker, silentUntil, called, pumpVars, appVars,
                 heard>>

RespondNoted ==
  /\ rpc = "idle" /\ noted
  /\ noted' = FALSE
  /\ session' = Noted /\ notes' = <<>> /\ momentDue' = (momentDue \/ notes # <<>>)
  /\ rpc' = "moment"
  /\ UNCHANGED <<audioVars, turnVars, told, jobVars, listenVars, lastSpeaker, silentUntil,
                 run, called, pumpVars, appVars, heard>>

\* A moment runs once the speaker is done and no job waits.
RespondMoment ==
  /\ rpc = "moment"
  /\ IF momentDue /\ ~hearing /\ jobs = <<>>
     THEN busy' = TRUE /\ StartRun(Moment)
     ELSE rpc' = "idle" /\ UNCHANGED <<busy, session, notes, momentDue, resumed, run>>
  /\ UNCHANGED <<audioVars, seq, released, release, noted, told, jobs, cancel, cut,
                 listenVars, lastSpeaker, silentUntil, called, pumpVars, appVars,
                 heard>>

RespondStop ==
  /\ rpc = "idle" /\ stop /\ rpc' = "exited"
  /\ UNCHANGED <<audioVars, turnVars, noteVars, jobVars, listenVars, talkVars, run,
                 called, pumpVars, appVars, heard>>

\* Only the answer to an utterance is held.
BugUnhold(j) == FALSE
Unhold(j) == IF j.kind = "utt" THEN held ELSE FALSE

RunUnhold ==
  /\ rpc = "unhold" /\ rpc' = "arm"
  /\ held' = Unhold(run.job)
  /\ UNCHANGED <<play, played, late, turnVars, noteVars, jobVars, listenVars, talkVars,
                 run, called, pumpVars, appVars, heard>>

\* Where Restore returns to when the reply is superseded: the notes stay.
BugMark == IF session # <<>> /\ LastOf(session).role = "note" THEN Len(session) - 1 ELSE Len(session)
Mark == Len(session)

\* The reply's context, and its place in the conversation.  The text of Say
\* is written to the voice at once, and joins the conversation.
RunArm ==
  LET j == run.job
      say == j.kind = "say"
  IN /\ rpc = "arm" /\ (lpc = "reset" => "reset" \in Windows)
     /\ cancel' = TRUE /\ cut' = FALSE /\ played' = 0
     /\ heard' = Append(heard, 0)
     /\ voice' = [written |-> IF say THEN MaxPieces ELSE 0, read |-> 0, ended |-> say]
     /\ run' = [run EXCEPT !.mark = Mark, !.replyMark = Len(session), !.voicing = say,
                           !.said = IF say THEN MaxPieces ELSE 0]
     /\ pumpJobs' = say
     /\ session' = IF say THEN Append(session, ReplyMsg("added", Reply + 1, MaxPieces)) ELSE session
     /\ rpc' = CASE j.kind = "utt" -> "transcribe" [] say -> "spoken" [] OTHER -> "reply"
     /\ UNCHANGED <<play, held, late, turnVars, noteVars, jobs, busy, listenVars,
                    lastSpeaker, silentUntil, called, ppc, current, speakDone, appVars>>

\* The utterance is transcribed and judged, and its words join the
\* conversation.  While the model keeps a silence, words that Wake finds do not end it
\* are skipped.
RunTranscribe(skip) ==
  LET j == run.job
      named == j.who \notin {NoOne, lastSpeaker}
      intro == IF named THEN Append(session, SpeakerMsg(j.who)) ELSE session
  IN /\ rpc = "transcribe" /\ (skip => silentUntil)
     /\ session' = Append(intro, UserMsg(j))
     /\ lastSpeaker' = IF named THEN j.who ELSE lastSpeaker
     /\ run' = [run EXCEPT !.replyMark = Len(session'), !.then = IF skip THEN "skip" ELSE @]
     /\ rpc' = IF skip THEN "await" ELSE "reply"
     /\ UNCHANGED <<audioVars, turnVars, noteVars, jobVars, listenVars, silentUntil,
                    called, pumpVars, appVars, heard>>

\* Superseded, failed, or nothing was said: run returns early.
RunNothing ==
  /\ rpc = "transcribe" /\ rpc' = "finish"
  /\ UNCHANGED <<audioVars, turnVars, noteVars, jobVars, listenVars, talkVars, run,
                 called, pumpVars, appVars, heard>>

\* Session.Reply begins the assistant's message.
RunReply ==
  /\ rpc = "reply" /\ rpc' = "write"
  /\ session' = Append(session, ReplyMsg("reply", Reply, 0))
  /\ run' = [run EXCEPT !.from = run.said]
  /\ UNCHANGED <<audioVars, turnVars, noteVars, jobVars, listenVars, lastSpeaker,
                 silentUntil, called, pumpVars, appVars, heard>>

\* replyWriter.Write: a piece of the reply goes to the voice, which the first
\* one begins.
RunWrite ==
  /\ rpc = "write" /\ ~cut /\ run.said < MaxPieces
  /\ session' = Append(AllBut(session), [LastOf(session) EXCEPT !.len = @ + 1])
  /\ voice' = [voice EXCEPT !.written = @ + 1]
  /\ pumpJobs' = (pumpJobs \/ ~run.voicing)
  /\ run' = [run EXCEPT !.said = @ + 1, !.voicing = TRUE]
  /\ UNCHANGED <<audioVars, turnVars, noteVars, jobVars, listenVars, lastSpeaker,
                 silentUntil, rpc, called, ppc, current, speakDone, appVars, heard>>

\* The reply ends with tool calls, which wait for the turn to be over.
RunCalls ==
  /\ rpc = "write" /\ ~cut /\ run.rounds + 1 < MaxRounds
  /\ run' = [run EXCEPT !.then = "call"] /\ rpc' = "await"
  /\ UNCHANGED <<audioVars, turnVars, noteVars, jobVars, listenVars, talkVars,
                 called, pumpVars, appVars, heard>>

\* The reply ends: the model ended it, the context was done, or it failed.
RunWritten(err) ==
  /\ rpc = "write" /\ rpc' = "written"
  /\ err => Faults \/ cut
  /\ run' = [run EXCEPT !.err = err]
  /\ UNCHANGED <<audioVars, turnVars, noteVars, jobVars, listenVars, talkVars,
                 called, pumpVars, appVars, heard>>

silent == run.said = 0

\* A silent reply to a tool's result is asked for again; so is, once, a
\* silence that nobody asked for, which the conversation forgets.
RunAgain ==
  /\ rpc = "written" /\ silent /\ ~run.err /\ ~cut
  /\ \/ /\ run.called /\ ~run.retried
        /\ run' = [run EXCEPT !.retried = TRUE, !.called = FALSE, !.rounds = 0]
        /\ UNCHANGED session
     \/ /\ ~(run.called /\ ~run.retried)
        /\ run.job.kind = "utt" /\ ~run.overruled
        /\ run' = [run EXCEPT !.overruled = TRUE, !.called = FALSE, !.rounds = 0]
        /\ session' = Restore(run.replyMark)
  /\ rpc' = "reply"
  /\ UNCHANGED <<audioVars, turnVars, noteVars, jobVars, listenVars, lastSpeaker,
                 silentUntil, called, pumpVars, appVars, heard>>

\* The reply stands as written: with a silence until something happens, or
\* with the repetition it began with cut, when the conversation keeps what
\* was said instead.  The voice is told that the text is complete.
RunStands(until, echoed) ==
  LET ok == ~run.err /\ ~cut
      last == LastOf(session)
  IN /\ rpc = "written"
     /\ ~(ok /\ silent /\ run.called /\ ~run.retried)
     /\ until => (ok /\ silent)
     /\ echoed => (Echoes /\ ok /\ ~silent /\ run.job.kind = "utt")
     /\ session' = CASE echoed -> Append(Restore(run.replyMark), ReplyMsg("added", Reply, run.said))
                     [] until -> Append(AllBut(session), [last EXCEPT !.role = "hush"])
                     [] OTHER -> session
     /\ run' = [run EXCEPT !.echoed = echoed, !.then = "playback"]
     /\ voice' = [voice EXCEPT !.ended = run.voicing]
     /\ rpc' = IF run.voicing THEN "spoken"
               ELSE IF run.job.kind = "utt" THEN "await" ELSE "playback"
     /\ UNCHANGED <<audioVars, turnVars, noteVars, jobVars, listenVars, lastSpeaker,
                    silentUntil, called, ppc, current, pumpJobs, speakDone, appVars,
                    heard>>

\* Voice.End, and the end of the utterance at the pump.
RunSpoken ==
  /\ rpc = "spoken" /\ speakDone
  /\ speakDone' = FALSE /\ rpc' = "playback"
  /\ UNCHANGED <<audioVars, turnVars, noteVars, jobVars, listenVars, talkVars, run,
                 called, ppc, current, pumpJobs, voice, appVars, heard>>

\* What follows awaitTurn: a skipped message stays or is forgotten; the
\* tools run, their results join the conversation and the model answers
\* again; a silent reply is over.
Awaited(ok) ==
  CASE run.then = "skip" ->
         /\ rpc' = "finish" /\ UNCHANGED <<run, called>>
         /\ session' = IF ok THEN session ELSE Restore(run.mark)
    [] run.then = "call" ->
         IF ok THEN /\ rpc' = "reply"
                    /\ session' = Append(session, ToolMsg)
                    /\ run' = [run EXCEPT !.rounds = @ + 1, !.called = TRUE]
                    /\ called' = called \cup {run.job.id}
         ELSE rpc' = "written" /\ UNCHANGED <<session, run, called>>
    [] OTHER -> rpc' = "playback" /\ UNCHANGED <<session, run, called>>

\* awaitTurn: a job without a turn waits for nothing; others look at
\* released again after each signal.
BugTurnOver(id) == id = 0 \/ released # 0
TurnOver(id) == id = 0 \/ released = id

RunAwait ==
  /\ rpc = "await"
  /\ IF TurnOver(run.job.id) THEN Awaited(run.job.id # 0 \/ ~cut)
                             ELSE rpc' = "asleep" /\ UNCHANGED <<session, run, called>>
  /\ UNCHANGED <<audioVars, turnVars, noteVars, jobVars, listenVars, lastSpeaker,
                 silentUntil, pumpVars, appVars, heard>>

RunAwake ==
  /\ rpc = "asleep"
  /\ \/ /\ release /\ release' = FALSE /\ rpc' = "await"
        /\ UNCHANGED <<session, run, called>>
     \/ cut /\ Awaited(FALSE) /\ UNCHANGED release
  /\ UNCHANGED <<audioVars, resumed, seq, released, noteVars, jobVars, listenVars,
                 lastSpeaker, silentUntil, pumpVars, appVars, heard>>

\* waitPlayback: until the reply is heard, or cut.
RunPlayback ==
  /\ rpc = "playback" /\ (cut \/ play = <<>>) /\ rpc' = "settle"
  /\ UNCHANGED <<audioVars, turnVars, noteVars, jobVars, listenVars, talkVars, run,
                 called, pumpVars, appVars, heard>>

\* The pieces of the text that the frames played have spoken, and of those
\* the ones the last reply of the conversation holds.
BugVoicedAt == IF run.voicing THEN voice.read ELSE 0
voicedAt == IF ~run.voicing THEN 0 ELSE IF played < run.said THEN played ELSE run.said
Kept == IF run.echoed THEN voicedAt ELSE IF voicedAt < run.from THEN 0 ELSE voicedAt - run.from

\* A cut reply is superseded when nothing of it was played, or when its
\* speaker went on.
Superseded == cut /\ (played = 0 \/ resumed)

\* Only a reply that stands changes the silence.
Stands == ~Superseded /\ ~run.err

\* The conversation keeps what was heard of a cut reply.
RunSettle ==
  /\ rpc = "settle" /\ rpc' = "finish"
  /\ session' = IF Superseded THEN Restore(run.mark)
                ELSE IF cut /\ run.job.kind = "utt" THEN Truncate(Kept)
                ELSE session
  /\ silentUntil' = IF ~Stands THEN silentUntil
                    ELSE silent /\ (silentUntil \/ LastOf(session).role = "hush")
  /\ UNCHANGED <<audioVars, turnVars, noteVars, jobVars, listenVars, lastSpeaker, run,
                 called, pumpVars, appVars, heard>>

\* finish, whose look at the queue comes before its store to busy.
BugNoneWaits == TRUE
NoneWaits == jobs = <<>>

RunFinish ==
  /\ rpc = "finish" /\ rpc' = "unbusy" /\ (lpc = "send" => "busy" \in Windows)
  /\ cut' = TRUE /\ cancel' = FALSE
  /\ run' = [run EXCEPT !.empty = NoneWaits]
  /\ UNCHANGED <<audioVars, turnVars, noteVars, jobs, busy, listenVars, talkVars,
                 called, pumpVars, appVars, heard>>

RunUnbusy ==
  /\ rpc = "unbusy"
  /\ busy' = (busy /\ ~run.empty)
  /\ rpc' = IF run.job.kind = "moment" THEN "idle" ELSE "moment"
  /\ run' = NoRun
  /\ UNCHANGED <<audioVars, turnVars, noteVars, jobs, cancel, cut, listenVars, talkVars,
                 called, pumpVars, appVars, heard>>

------------------------------------------------------------------------------
\* The pump and the voice.

\* The pump takes the reply, and the generation of playback.
PumpTake ==
  /\ ppc = "idle" /\ pumpJobs
  /\ pumpJobs' = FALSE /\ current' = TRUE /\ ppc' = "read"
  /\ UNCHANGED <<audioVars, turnVars, noteVars, jobVars, listenVars, talkVars, respondVars,
                 speakDone, voice, appVars, heard>>

\* Voice.Read gives the next frame, or ends once the utterance is cut, spoken
\* or failed.
PumpRead ==
  /\ ppc = "read"
  /\ \/ /\ ~cut /\ voice.read < voice.written
        /\ voice' = [voice EXCEPT !.read = @ + 1] /\ ppc' = "write"
     \/ /\ cut \/ Faults \/ (voice.ended /\ voice.read = voice.written)
        /\ ppc' = "done" /\ UNCHANGED voice
  /\ UNCHANGED <<audioVars, turnVars, noteVars, jobVars, listenVars, talkVars, respondVars,
                 current, pumpJobs, speakDone, appVars, heard>>

\* ring.writeAt: a frame read before a reset is dropped.
BugWriteAt(frame) == Append(play, frame)
WriteAt(frame) == IF current THEN Append(play, frame) ELSE play

PumpWrite ==
  /\ ppc = "write" /\ ppc' = "read"
  /\ play' = WriteAt(Reply)
  /\ UNCHANGED <<played, held, late, turnVars, noteVars, jobVars, listenVars, talkVars,
                 respondVars, current, pumpJobs, speakDone, voice, appVars, heard>>

PumpDone ==
  /\ ppc = "done" /\ ppc' = "idle"
  /\ speakDone' = TRUE /\ current' = FALSE
  /\ UNCHANGED <<audioVars, turnVars, noteVars, jobVars, listenVars, talkVars, respondVars,
                 pumpJobs, voice, appVars, heard>>

PumpStop ==
  /\ ppc = "idle" /\ stop /\ ppc' = "exited"
  /\ UNCHANGED <<audioVars, turnVars, noteVars, jobVars, listenVars, talkVars, respondVars,
                 current, pumpJobs, speakDone, voice, appVars, heard>>

------------------------------------------------------------------------------
Application == \/ StepFrame \/ StepCount \/ Say \/ Note
               \/ \E s \in Speaker : SetSpeaker(s)
               \/ CloseCancel \/ CloseStop \/ CloseDone

Listener == \/ \E speaking, recent, long \in BOOLEAN : ListenFrame(speaking, recent, long)
            \/ ListenCancel \/ ListenReset \/ ListenHear \/ ListenOver \/ ListenPause
            \/ ListenDispatch \/ ListenSend \/ ListenRelease \/ ListenStop
            \/ \E over \in BOOLEAN : ListenJudge(over)

Run == \/ RunUnhold \/ RunArm \/ RunNothing \/ RunReply \/ RunWrite \/ RunCalls \/ RunAgain
       \/ \E skip \in BOOLEAN : RunTranscribe(skip)
       \/ \E err \in BOOLEAN : RunWritten(err)
       \/ \E until, echoed \in BOOLEAN : RunStands(until, echoed)
       \/ RunSpoken \/ RunAwait \/ RunAwake \/ RunPlayback \/ RunSettle \/ RunFinish
       \/ RunUnbusy

Responder == RespondJob \/ RespondNoted \/ RespondMoment \/ RespondStop \/ Run

Pump == PumpTake \/ PumpRead \/ PumpWrite \/ PumpDone \/ PumpStop

Within(A) == A /\ UNCHANGED limits

Next == Within(Application \/ Listener \/ Responder \/ Pump)

Spec == Init /\ [][Next]_vars

\* The application calls Step for every frame; the goroutines run; a speaker
\* pauses sooner or later, and a pause that lasts giveUpUnfinished ends the
\* turn; a select that finds its stop channel closed again and again takes it.
Fairness ==
  /\ WF_vars(Within(StepFrame)) /\ WF_vars(Within(StepCount))
  /\ WF_vars(Within(CloseStop)) /\ WF_vars(Within(CloseDone))
  /\ WF_vars(Within(Listener)) /\ WF_vars(Within(Responder)) /\ WF_vars(Within(Pump))
  /\ SF_vars(Within(\E recent \in BOOLEAN : ListenFrame(FALSE, recent, FALSE)))
  /\ SF_vars(Within(ListenJudge(TRUE)))
  /\ SF_vars(Within(ListenStop)) /\ SF_vars(Within(RespondStop)) /\ SF_vars(Within(PumpStop))

FairSpec == Spec /\ Fairness

------------------------------------------------------------------------------
\* Properties.

Job == [kind : {"utt"}, id : 1..MaxPauses, utt : 0..MaxUtterances, who : Speaker \cup {NoOne}]
         \cup {SayJob, Moment}

Msg == [role : {"note", "speaker", "user", "tool", "reply", "added", "hush"}, of : Nat,
        len : 0..MaxPieces, who : Speaker \cup {NoOne}]

\* The types of the fields of Cascade and of the locals of its goroutines;
\* the job queue never holds more than its capacity.
TypeOK ==
  /\ play \in Seq(1..Len(heard)) /\ played \in Nat /\ held \in BOOLEAN /\ late \in BOOLEAN
  /\ resumed \in BOOLEAN /\ release \in BOOLEAN /\ seq \in 0..MaxPauses /\ released \in 0..seq
  /\ speaker \in Speaker \cup {NoOne} /\ lastSpeaker \in Speaker \cup {NoOne}
  /\ notes \in Seq(1..told) /\ told \in 0..MaxNotes
  /\ noted \in BOOLEAN /\ momentDue \in BOOLEAN /\ hearing \in BOOLEAN /\ silentUntil \in BOOLEAN
  /\ busy \in BOOLEAN /\ cancel \in BOOLEAN /\ cut \in BOOLEAN
  /\ jobs \in Seq(Job) /\ Len(jobs) <= JobsCap
  /\ lpc \in {"frame", "cancel", "reset", "hear", "over", "pause", "dispatch", "send",
               "judge", "release", "exited"}
  /\ ear \in [speaking : BOOLEAN, audible : BOOLEAN, talked : 0..2, pending : 0..MaxPauses,
              answered : BOOLEAN, stopped : BOOLEAN, after : {"frame", "hear", "dispatch"}]
  /\ utt \in [gen : 0..MaxUtterances, open : BOOLEAN]
  /\ rpc \in {"idle", "moment", "unhold", "arm", "transcribe", "reply", "write", "written",
               "await", "asleep", "spoken", "playback", "settle", "finish", "unbusy", "exited"}
  /\ run.job \in Job /\ run.mark \in 0..Len(session) /\ run.replyMark \in Nat
  /\ {run.said, run.from} \subseteq 0..MaxPieces /\ run.rounds \in 0..MaxRounds
  /\ session \in Seq(Msg) /\ heard \in Seq(Nat)
  /\ ppc \in {"idle", "read", "write", "done", "exited"}
  /\ current \in BOOLEAN /\ pumpJobs \in BOOLEAN /\ speakDone \in BOOLEAN
  /\ voice \in [written : 0..MaxPieces, read : 0..MaxPieces, ended : BOOLEAN]
  /\ cpc \in {"open", "stop", "wait", "closed"}
  /\ said \in 0..MaxSays /\ called \subseteq 0..MaxPauses

\* Audio read after an interruption never plays: once interrupt is done,
\* playback holds frames of the current reply only, and none of a cut one.
NoStaleAudio ==
  lpc # "reset" /\ cpc = "open" => \A i \in DOMAIN play : play[i] = Reply /\ ~cut

\* A held job plays only once its turn is released: while playback has
\* frames of an answer whose turn is not over, Step must find held set.
HeldUntilReleased ==
  play # <<>> /\ run.job.kind = "utt" /\ released < run.job.id => held

\* Tools act on the world: those of an answer run only once the turn that
\* asked for them is over, whatever stale signal awaitTurn finds.
ToolsAfterTurn == \A id \in called : id <= released

\* Every note joins the conversation once, in the order it was told, and no
\* reply that is dropped takes it along.
NotesKept ==
  LET joined == told - Len(notes)
      IsNote(i) == session[i].role = "note"
  IN /\ Len(notes) <= told /\ \A k \in DOMAIN notes : notes[k] = joined + k
     /\ \A n \in 1..joined : \E i \in DOMAIN session : IsNote(i) /\ session[i].of = n
     /\ \A i \in DOMAIN session : IsNote(i) => session[i].of \in 1..joined
     /\ \A i, k \in DOMAIN session : i < k /\ IsNote(i) /\ IsNote(k) => session[i].of < session[k].of

\* The conversation remembers only what was actually heard: of a reply that
\* is over, no more pieces than Step took frames.
RememberedIsHeard ==
  \A i \in DOMAIN session :
    LET m == session[i]
    IN m.role \in {"reply", "added"} /\ (m.of # Reply \/ rpc \in {"idle", "moment"})
         => m.len <= heard[m.of]

\* While the agent keeps a silence until something happens, the conversation
\* holds the reply that chose it.
SilenceRemembered == silentUntil => \E i \in DOMAIN session : session[i].role = "hush"

\* busy is set while a reply is prepared or spoken.
BusyWhileReplying == rpc \notin {"idle", "moment", "exited"} => busy

\* An utterance that goes on after its answer began is heard again whole, and
\* the first hearing is forgotten: the conversation has no utterance twice.
UtteranceOnce ==
  \A i, k \in DOMAIN session :
    session[i].role = "user" /\ session[k].role = "user" /\ session[i].of = session[k].of => i = k

\* Every reply ends, unless the agent is closed meanwhile: it is heard, cut or
\* dropped.
ReplyEnds == rpc = "arm" ~> (rpc = "finish" \/ cpc # "open")

\* Once Close has closed stop, the listener and the pump return whatever they
\* were doing: only a responder that waits for its turn, its voice or its
\* playback can keep Close from returning.
OnlyReplyHoldsClose ==
  cpc = "stop" ~> (cpc = "closed" \/ ({lpc, ppc} = {"exited"} /\ rpc \in {"asleep", "spoken", "playback"}))

\* The conversation keeps what it was told and what it decided: every note
\* once and in order, and the silence it chose.
ConversationKept == TypeOK /\ NotesKept /\ SilenceRemembered

\* Replies end, and so do the goroutines once the agent is closed.
EverythingEnds == ReplyEnds /\ OnlyReplyHoldsClose

=============================================================================
