------------------------------ MODULE Hearing ------------------------------
(***************************************************************************)
(* How the cascade hears a turn (duplex/cascade.go): the listener grows    *)
(* the utterance frame by frame, prepares an answer at a pause and decides *)
(* when the turn is over; the scribe transcribes the utterance while it is *)
(* spoken, each pass continuing the last; the responder transcribes the    *)
(* audio of the answer and records what it heard of the turn.  The three   *)
(* share the utterance, the scribe's partial transcript, the judgment of   *)
(* the turn and one transcriber, each under a mutex of its own, and use    *)
(* after an unlock what they copied before it.                             *)
(*                                                                         *)
(* A transcript is the utterance it is of and how much of its speech it    *)
(* has read.  What the models judge is a choice.  The replies themselves   *)
(* are the subject of Cascade, and are reduced here to the moments at      *)
(* which they start and end.                                               *)
(***************************************************************************)
EXTENDS Integers, FiniteSetsExt

CONSTANTS Hears,         \* whether the transcriber judges turns itself; else a detector and the words do
          MaxSpeech,     \* bound: frames of speech
          MaxUtts,       \* bound: utterances
          LongestUtt,    \* longest: frames of an utterance that are kept
          Shortest,      \* shortest: frames of speech that are worth an answer
          ScribeFirst, ScribeStep,  \* scribeFirst and scribeStep
          Check,         \* check: pauses at which the detector is asked
          PauseTime, UnfinishedPause, \* pause, and the 500 ms that unfinished words wait for a sure detector
          Rejudge,       \* rejudge: the pauses at which a turn is judged again
          GiveUpPause, GiveUpUnfinished, \* the pauses that end a turn whatever was judged
          MaxDetectorFaults         \* bound: failures of the detector

ASSUME HearingAssumption ==
    /\ {MaxSpeech, MaxUtts, LongestUtt, Shortest, ScribeFirst, ScribeStep, GiveUpPause, GiveUpUnfinished, MaxDetectorFaults} \subseteq Nat
    /\ Hears \subseteq BOOLEAN /\ Check \in Nat \ {0} /\ {PauseTime, UnfinishedPause} \subseteq Nat /\ Rejudge \subseteq 1 .. GiveUpPause /\ Rejudge # {}
    /\ GiveUpPause <= GiveUpUnfinished

VARIABLES hears,   \* the mode
          utt,     \* gen, n frames and words, the speech among them; guarded by utt.mu
          ear,     \* the listener: where it is, talked, silence, pending, answered, and the copy it transcribes with
          ready,   \* the tokens of uttReady and prefill
          seq,
          scribe,  \* the scribe: gen, done, what it has of the utterance, and its pass: n, words and the copy's utterance
          partial, \* the scribe's latest transcript and whose; guarded by partialMu
          judged,  \* turn or words, and the job it is of; guarded by wordsMu
          jobs,    \* the newest job waiting
          resp,    \* the responder: the job it transcribes, and with which partial
          live,    \* the job that no interrupt has dropped
          asr,     \* who holds the transcriber
          spoke, faults  \* bounds: frames spoken and detector failures so far
hearingVars == <<hears, utt, ear, ready, seq, scribe, partial, judged, jobs, resp, live, asr, spoke, faults>>

NoText == [gen |-> 0, words |-> 0]
Text(g, w) == [gen |-> g, words |-> w]
NoAnswer == [id |-> 0, gen |-> 0, words |-> 0]
NoRun == [at |-> "idle", job |-> NoAnswer, with |-> NoText]
Judgments == {"sure", "complete", "unsure", "unfinished"}

\* heardOver and turnOver decide whether a pause ends the turn.
FirstRejudge == Min(Rejudge)
heardOver(silence, p, known) ==
    \/ silence >= GiveUpUnfinished
    \/ known /\ p = "sure"
    \/ known /\ p = "complete" /\ silence >= FirstRejudge
    \/ (~known \/ p \in {"complete", "unsure"}) /\ silence >= GiveUpPause
\* The detector's p against the words, judged finished ("sure"), in between
\* or unfinished.
turnOver(silence, p, words, known) ==
    \/ silence >= GiveUpUnfinished
    \/ ~known /\ (silence >= GiveUpPause \/ (silence >= PauseTime /\ p \in {"sure", "complete"}))
    \/ known /\ words = "sure" /\ (p # "unfinished" \/ silence >= 4 * Check)
    \/ known /\ words \in {"complete", "unsure"} /\ (silence >= GiveUpPause \/ (silence >= 2 * Check /\ p \in {"sure", "complete"}))
    \/ known /\ words = "unfinished" /\ silence >= UnfinishedPause /\ p = "sure"

\* partialFor returns the partial of utterance gen, if there is one.
BugPartialFor(gen) == partial.text
partialFor(gen) == IF partial.of = gen THEN partial.text ELSE NoText

\* turnOf and wordsOf: the judgment of job id, once there is one.
Known(id) == id # 0 /\ judged.job = id

-----------------------------------------------------------------------------
\* utterance.append drops what exceeds longest.
Heard(speaking) ==
    IF utt.n = LongestUtt THEN utt ELSE [utt EXCEPT !.n = @ + 1, !.words = IF speaking THEN utt.n + 1 ELSE @]

\* A frame of speech: an answer prepared at the pause is dropped, and one the
\* agent is about to give too, as the speaker goes on.
GoesOn == [pending |-> 0, live |-> IF ear.pending # 0 \/ ear.answered THEN 0 ELSE live]
Speak ==
    /\ ear.at = "frame" /\ spoke < MaxSpeech /\ spoke' = spoke + 1
    /\ utt' = Heard(TRUE)
    /\ ear' = [ear EXCEPT !.talked = Min({@ + 1, Shortest}), !.silence = 0, !.pending = GoesOn.pending, !.answered = FALSE]
    /\ ready' = ready \cup {"utt"} /\ live' = GoesOn.live
    /\ UNCHANGED <<hears, seq, scribe, partial, judged, jobs, resp, asr, faults>>

\* A silent frame of an utterance: at a pause the answer is prepared.
Quiet ==
    /\ ear.at = "frame" /\ utt.n > 0 /\ ~ear.answered
    /\ utt' = Heard(FALSE)
    /\ LET prepare == ear.pending = 0 /\ ear.talked >= Shortest IN
        /\ seq' = IF prepare THEN seq + 1 ELSE seq
        /\ jobs' = IF prepare THEN [id |-> seq', gen |-> utt.gen, words |-> utt.words] ELSE jobs
        /\ live' = IF prepare THEN seq' ELSE live
        /\ ear' = [ear EXCEPT !.at = "judge", !.silence = @ + 1, !.pending = IF prepare THEN seq' ELSE @]
    /\ UNCHANGED <<hears, ready, scribe, partial, judged, resp, asr, spoke, faults>>

\* A pause that ends the turn releases the answer prepared for it; a click is
\* forgotten.  basis is what the judgment has heard, if there was one.
Decide(over, basis) ==
    CASE ~over -> ear' = [ear EXCEPT !.at = "frame", !.with = NoText] /\ UNCHANGED utt
      [] over /\ ear.talked < Shortest ->
            /\ utt' = [gen |-> utt.gen + 1, n |-> 0, words |-> 0]
            /\ ear' = [ear EXCEPT !.at = "frame", !.talked = 0, !.silence = 0, !.pending = 0]
      [] OTHER -> ear' = [ear EXCEPT !.at = "frame", !.pending = 0, !.answered = TRUE, !.with = NoText, !.basis = basis] /\ UNCHANGED utt

Basis == IF Known(ear.pending) THEN Text(judged.gen, judged.words) ELSE NoText

\* The transcriber's judgment decides, made again at some pauses while it is
\* not sure.
JudgeHeard ==
    /\ ear.at = "judge" /\ hears
    /\ IF Known(ear.pending) /\ judged.p # "sure" /\ ear.silence \in Rejudge
       THEN ear' = [ear EXCEPT !.at = "listen", !.with = partialFor(utt.gen)] /\ UNCHANGED utt
       ELSE Decide(heardOver(ear.silence, judged.p, Known(ear.pending)), Basis)
    /\ UNCHANGED <<hears, ready, seq, scribe, partial, judged, jobs, resp, live, asr, spoke, faults>>

\* Speech over the agent, whose reply may be sounding, is transcribed too.
ListenOver ==
    /\ ear.at = "frame" /\ live # 0 /\ utt.n > 0 /\ ear.pending = 0 /\ ~ear.answered
    /\ ear' = [ear EXCEPT !.at = "over", !.with = partialFor(utt.gen)]
    /\ UNCHANGED <<hears, utt, ready, seq, scribe, partial, judged, jobs, resp, live, asr, spoke, faults>>

\* judge: noise and acknowledgements let the agent go on, stop words stop it,
\* and a classifier or the number of words decides about the others.
judge(heard, stops) == heard = "stop" \/ (heard = "words" /\ stops)

\* interrupts stops the agent, or lets it go on and forgets the utterance if
\* it has paused; it stops the agent when it cannot hear.
interrupts ==
    /\ ear.at = "overAsr" /\ asr' = "none"
    /\ \E heard \in {"nothing", "acknowledgement", "stop", "words", "error"}, stops, paused \in BOOLEAN :
        LET stop == heard = "error" \/ judge(heard, stops)
            forget == ~stop /\ paused
        IN /\ live' = IF stop THEN 0 ELSE live
           /\ utt' = IF forget THEN [gen |-> utt.gen + 1, n |-> 0, words |-> 0] ELSE utt
           /\ ear' = [ear EXCEPT !.at = "frame", !.with = NoText, !.talked = IF forget THEN 0 ELSE @, !.silence = IF forget THEN 0 ELSE @]
    /\ UNCHANGED <<hears, ready, seq, scribe, partial, judged, jobs, resp, spoke, faults>>

\* judgeTurn transcribes the utterance so far, the pause included; when that
\* fails the judgment there is decides.
ListenAsr ==
    /\ ear.at \in {"listen", "over"} /\ asr = "none" /\ asr' = "ear"
    /\ ear' = [ear EXCEPT !.at = IF @ = "over" THEN "overAsr" ELSE "asr"]
    /\ UNCHANGED <<hears, utt, ready, seq, scribe, partial, judged, jobs, resp, live, spoke, faults>>
judgeTurn ==
    /\ ear.at = "asr" /\ asr' = "none"
    /\ \/ \E p \in Judgments :
            /\ judged' = [job |-> ear.pending, gen |-> utt.gen, words |-> utt.words, p |-> p]
            /\ Decide(heardOver(ear.silence, p, TRUE), Text(utt.gen, utt.words))
       \/ Decide(heardOver(ear.silence, judged.p, Known(ear.pending)), Basis) /\ UNCHANGED judged
    /\ UNCHANGED <<hears, ready, seq, scribe, partial, jobs, resp, live, spoke, faults>>

\* The detector and the words decide; nothing does while the detector fails.
JudgeWords ==
    /\ ear.at = "judge" /\ ~hears
    /\ IF ear.silence % Check # 0 /\ ear.silence < GiveUpPause THEN Decide(FALSE, NoText)
       ELSE \E p \in Judgments : Decide(turnOver(ear.silence, p, judged.p, Known(ear.pending)), Basis)
    /\ UNCHANGED <<hears, ready, seq, scribe, partial, judged, jobs, resp, live, asr, spoke, faults>>
DetectorFails ==
    /\ ear.at = "judge" /\ ~hears /\ faults < MaxDetectorFaults /\ faults' = faults + 1
    /\ Decide(FALSE, NoText)
    /\ UNCHANGED <<hears, ready, seq, scribe, partial, judged, jobs, resp, live, asr, spoke>>

\* The reply is under way, or over: the utterance is done.
ListenReset ==
    /\ ear.at = "frame" /\ ear.answered /\ utt.gen < MaxUtts
    /\ utt' = [gen |-> utt.gen + 1, n |-> 0, words |-> 0]
    /\ ear' = [ear EXCEPT !.talked = 0, !.silence = 0, !.answered = FALSE, !.basis = NoText]
    /\ UNCHANGED <<hears, ready, seq, scribe, partial, judged, jobs, resp, live, asr, spoke, faults>>

-----------------------------------------------------------------------------
\* A wake-up of the scribe: a new utterance starts over, and enough new audio
\* starts a pass on a copy of it.
NewUtterance == IF utt.gen = scribe.gen THEN scribe ELSE [scribe EXCEPT !.gen = utt.gen, !.done = 0, !.prev = NoText]
ScribeWakes ==
    /\ scribe.at = "idle" /\ "utt" \in ready /\ ready' = ready \ {"utt"}
    /\ scribe' = IF utt.n < ScribeFirst \/ utt.n - NewUtterance.done < ScribeStep THEN NewUtterance
                 ELSE [NewUtterance EXCEPT !.at = "pass", !.n = utt.n, !.of = utt.gen, !.words = utt.words]
    /\ UNCHANGED <<hears, utt, ear, seq, partial, judged, jobs, resp, live, asr, spoke, faults>>
ScribeAsr ==
    /\ scribe.at = "pass" /\ asr = "none" /\ asr' = "scribe" /\ scribe' = [scribe EXCEPT !.at = "asr"]
    /\ UNCHANGED <<hears, utt, ear, ready, seq, partial, judged, jobs, resp, live, spoke, faults>>
\* The pass ends, or is aborted by a pause since it began (passContext.Err) or
\* by an error: its transcript is the next one's beginning, and published.
ScribePass ==
    /\ scribe.at = "asr" /\ asr' = "none"
    /\ \/ scribe' = [scribe EXCEPT !.at = "publish", !.done = scribe.n, !.prev = Text(scribe.of, scribe.words), !.n = 0, !.of = 0, !.words = 0]
       \/ scribe' = [scribe EXCEPT !.at = "idle", !.n = 0, !.of = 0, !.words = 0]
    /\ UNCHANGED <<hears, utt, ear, ready, seq, partial, judged, jobs, resp, live, spoke, faults>>
ScribePublish ==
    /\ scribe.at = "publish" /\ scribe' = [scribe EXCEPT !.at = "idle"]
    /\ partial' = [of |-> scribe.gen, text |-> scribe.prev]
    /\ ready' = IF partial' # partial THEN ready \cup {"prefill"} ELSE ready
    /\ UNCHANGED <<hears, utt, ear, seq, judged, jobs, resp, live, asr, spoke, faults>>

-----------------------------------------------------------------------------
\* run takes the newest job and the scribe's partial of its utterance.
RespondTake ==
    /\ resp.at = "idle" /\ jobs # NoAnswer /\ jobs' = NoAnswer
    /\ resp' = [at |-> "lock", job |-> jobs, with |-> partialFor(jobs.gen)]
    /\ UNCHANGED <<hears, utt, ear, ready, seq, scribe, partial, judged, live, asr, spoke, faults>>
RespondAsr ==
    /\ resp.at = "lock" /\ asr = "none" /\ asr' = "resp" /\ resp' = [resp EXCEPT !.at = "asr"]
    /\ UNCHANGED <<hears, utt, ear, ready, seq, scribe, partial, judged, jobs, live, spoke, faults>>
\* It records its judgment of the turn, or of the words; one that is dropped
\* meanwhile, fails or has no words records none.
RespondJudges ==
    /\ resp.at = "asr" /\ asr' = "none" /\ resp' = NoRun
    /\ \/ \E p \in Judgments : judged' = [job |-> resp.job.id, gen |-> resp.job.gen, words |-> resp.job.words, p |-> p]
       \/ UNCHANGED judged
    /\ UNCHANGED <<hears, utt, ear, ready, seq, scribe, partial, jobs, live, spoke, faults>>
RespondPrefill ==
    /\ resp.at = "idle" /\ "prefill" \in ready /\ ready' = ready \ {"prefill"}
    /\ UNCHANGED <<hears, utt, ear, seq, scribe, partial, judged, jobs, resp, live, asr, spoke, faults>>

HearingInit ==
    /\ hears \in Hears
    /\ utt = [gen |-> 1, n |-> 0, words |-> 0]
    /\ ear = [at |-> "frame", talked |-> 0, silence |-> 0, pending |-> 0, answered |-> FALSE, with |-> NoText, basis |-> NoText]
    /\ ready = {} /\ seq = 0
    /\ scribe = [at |-> "idle", gen |-> 0, done |-> 0, of |-> 0, n |-> 0, words |-> 0, prev |-> NoText]
    /\ partial = [of |-> 0, text |-> NoText] /\ judged = [job |-> 0, gen |-> 0, words |-> 0, p |-> "unsure"]
    /\ jobs = NoAnswer /\ resp = NoRun
    /\ live = 0 /\ asr = "none" /\ spoke = 0 /\ faults = 0

EarStep == Quiet \/ JudgeHeard \/ ListenAsr \/ interrupts \/ judgeTurn \/ JudgeWords \/ DetectorFails \/ ListenReset
ScribeRuns == ScribeWakes \/ ScribeAsr \/ ScribePass \/ ScribePublish
RespondStep == RespondTake \/ RespondAsr \/ RespondJudges \/ RespondPrefill
HearingNext == Speak \/ ListenOver \/ EarStep \/ ScribeRuns \/ RespondStep
HearingSpec == HearingInit /\ [][HearingNext]_hearingVars

-----------------------------------------------------------------------------
\* A partial transcript handed to the transcriber is of the same utterance as
\* the audio, and has read no speech the audio does not hold, unless the
\* answer was dropped meanwhile: whatever generation the scribe was in when
\* it published (partialFor 990, scribe 938).
PartialFits ==
    /\ scribe.at \in {"pass", "asr"} /\ scribe.prev # NoText => scribe.prev.gen = scribe.of /\ scribe.prev.words <= scribe.words
    /\ ear.at # "frame" /\ ear.with # NoText => ear.with.gen = utt.gen /\ ear.with.words <= utt.words
    /\ resp.at \in {"lock", "asr"} /\ resp.with # NoText =>
        /\ resp.with.gen = resp.job.gen
        /\ resp.with.words <= resp.job.words \/ live # resp.job.id

\* The judgment that ends a turn has heard all the speaker said in it: it is
\* not of an answer prepared at an earlier pause (turnOf 912, wordsOf 905).
JudgedWhole == ear.answered /\ ear.basis # NoText => ear.basis = Text(utt.gen, utt.words)

\* The speaker's silence ends the turn: nobody waits for a turn to end.
HearingQuiet == ear.pending = 0 /\ ear.at = "frame" /\ asr = "none"

\* What is judged and continued is of the utterance being heard, and all of
\* it.
HearingSafe == PartialFits /\ JudgedWhole

=============================================================================
