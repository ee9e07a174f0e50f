------------------------------ MODULE Scenario ------------------------------
(***************************************************************************)
(* The scenario runner (scenario.Run): a script is played line by line     *)
(* against an agent while the runner's own goroutine steps the agent on a  *)
(* 20 ms clock, feeds it the user's audio and collects what it speaks.     *)
(*                                                                         *)
(* The agent is external: each frame it listens, thinks or speaks, aloud   *)
(* or not, and it may fail.  A frame collected is marked "new", and turns  *)
(* "old" when a stimulus makes it part of an earlier reply, and "before"   *)
(* when the user's words stopped it.                                       *)
(***************************************************************************)
EXTENDS Naturals, Sequences, FiniteSets, SequencesExt

CONSTANTS
    Scripts,        \* sequences of lines [kind, dur]
    Longest,        \* the longest time a line names, in frames
    LineFrames,     \* frames of a user's line
    QuietGap,       \* frames without sound before the agent is not speaking
    OverGap,        \* and before its reply is over
    Busy,           \* frames in which the agent is not listening, in a run
    LanesMayFail,   \* the voice, the ears or the judge may
    MayCancel       \* the caller may cancel the context

ASSUME GapAssumption == QuietGap \in Nat /\ OverGap \in Nat

VARIABLES
    play,           \* the goroutine that plays the script
    run             \* what both goroutines share under mu, and the clock

scenarioVars == <<play, run>>

None == <<"none">>
Never == 99
Directives == {"note", "chat", "join", "leave", "say"}
Assertions == {"speaks", "says", "repeats", "captions"}

ScenarioInit ==
    /\ \E s \in Scripts : play = [script |-> s, line |-> 1, phase |-> "line", waited |-> 0, fresh |-> FALSE,
                                  pcm |-> None, ok |-> TRUE, result |-> "none"]
    /\ run = [queue |-> 0, fed |-> 0, lead |-> 0, began |-> FALSE, sinceBegan |-> 0, interrupted |-> Never,
              spoke |-> <<>>, speaking |-> FALSE, state |-> "listening", sinceSound |-> OverGap + 1,
              quiet |-> FALSE, quietMark |-> 0, busy |-> Busy, loop |-> "running", cancelled |-> FALSE]

Line == play.script[play.line]
Capped(n, top) == IF n < top THEN n + 1 ELSE top

(* A line that waits for time to pass counts it.                           *)
TimePasses == IF play.phase \in {"watching", "waiting"} THEN [play EXCEPT !.waited = Capped(@, Longest)] ELSE play

-----------------------------------------------------------------------------
(* The agent's clock: loop, one frame a step.                              *)

(* The user's audio of this frame, and what it tells of the user's line.   *)
Fed(r) ==
    LET n == IF r.queue > 0 THEN 1 ELSE 0
        begins == n > 0 /\ r.fed + n > r.lead /\ ~r.began
    IN  [r EXCEPT !.queue = @ - n, !.fed = @ + n, !.began = @ \/ begins,
                  !.sinceBegan = IF begins THEN 0 ELSE IF r.began THEN Capped(@, Longest) ELSE 0]

(* What the frame the agent gave back changes.                             *)
Collected(r, state, loud) ==
    LET stops == r.state = "speaking" /\ state # "speaking"
        marked == IF stops THEN [r EXCEPT !.quiet = r.began, !.quietMark = Len(r.spoke)] ELSE r
    IN  IF loud
        THEN [marked EXCEPT !.state = state, !.speaking = TRUE, !.sinceSound = 0, !.spoke = Append(@, "new")]
        ELSE [marked EXCEPT !.state = state, !.sinceSound = Capped(@, OverGap + 1),
                            !.speaking = @ /\ Capped(r.sinceSound, OverGap + 1) <= QuietGap]

(* Speech over the agent stops it, which the captions observe.             *)
Interrupts(r, state) == r.began /\ r.state = "speaking" /\ state = "listening"

Tick ==
    /\ run.loop = "running"
    /\ ~run.cancelled
    /\ \E state \in {"listening", "thinking", "speaking"}, loud \in BOOLEAN, over \in BOOLEAN :
         /\ loud => state = "speaking"
         /\ state # "listening" => run.busy > 0
         /\ LET heard == Fed(run)
                spent == [heard EXCEPT !.busy = IF state = "listening" THEN @ ELSE @ - 1]
            IN  /\ over => Interrupts(heard, state)
                /\ run' = Collected([spent EXCEPT !.interrupted = IF over /\ @ = Never THEN heard.sinceBegan ELSE @],
                                    state, loud)
    /\ play' = TimePasses

(* Step returns an error: the loop ends, and nothing tells the script.     *)
StepFails ==
    /\ run.loop = "running"
    /\ ~run.cancelled
    /\ run' = [Fed(run) EXCEPT !.loop = "failed"]
    /\ UNCHANGED play

LoopStops ==
    /\ run.loop = "running"
    /\ run.cancelled
    /\ run' = [run EXCEPT !.loop = "ended"]
    /\ UNCHANGED play

(* Time goes on without the loop.                                          *)
Pass ==
    /\ run.loop # "running"
    /\ play.result = "none"
    /\ play' = TimePasses
    /\ run' = [run EXCEPT !.sinceSound = Capped(@, OverGap + 1), !.sinceBegan = IF run.began THEN Capped(@, Longest) ELSE @]

CancelRun ==
    /\ MayCancel
    /\ ~run.cancelled
    /\ play.result = "none"
    /\ run' = [run EXCEPT !.cancelled = TRUE]
    /\ UNCHANGED play

-----------------------------------------------------------------------------
(* The script.                                                             *)

AtLine(kinds) == play.result = "none" /\ play.line <= Len(play.script) /\ play.phase = "line" /\ Line.kind \in kinds
In(phase) == play.result = "none" /\ play.phase = phase

(* A line is over, with its outcome.                                       *)
Outcome(p, ok) == [p EXCEPT !.line = @ + 1, !.phase = "line", !.waited = 0, !.ok = ok]

(* Run returns an error: the harness itself failed.                        *)
Fails(p) == [p EXCEPT !.result = "error"]

(* stimulus: the next assertion waits for a new reply, and what the agent  *)
(* said before is not part of it.                                          *)
Forgets(r) == [r EXCEPT !.spoke = <<>>]

Aged(spoke, mark) == [i \in DOMAIN spoke |-> mark]

Stimulate(p) == [p EXCEPT !.fresh = TRUE, !.pcm = IF @ = None THEN @ ELSE Aged(@, "old")]
Stimulated(r) == LET f == Forgets(r) IN [f EXCEPT !.spoke = Aged(@, "old")]

(* user: the line is synthesized, which may fail, and queued.              *)
Queued(r, lead) ==
    [r EXCEPT !.queue = @ + LineFrames, !.spoke = <<>>, !.lead = lead, !.fed = 0, !.began = FALSE, !.sinceBegan = 0,
              !.interrupted = Never, !.quiet = FALSE]

UserLine ==
    /\ AtLine({"user"})
    /\ \/ \E lead \in 0 .. LineFrames :
            /\ run' = Queued(Stimulated(run), lead)
            /\ play' = [Stimulate(play) EXCEPT !.phase = "feeding"]
       \/ /\ LanesMayFail \/ run.cancelled
          /\ run' = Stimulated(run)
          /\ play' = Fails(Stimulate(play))

(* speak returns once the queue has been fed.                              *)
UserHeard ==
    /\ In("feeding")
    /\ UNCHANGED run
    /\ IF run.queue = 0 THEN play' = Outcome(play, TRUE) ELSE run.cancelled /\ play' = Fails(play)

WaitLine ==
    /\ AtLine({"wait"})
    /\ play' = [Stimulate(play) EXCEPT !.phase = "waiting", !.waited = 0]
    /\ run' = Stimulated(run)

Waited ==
    /\ In("waiting")
    /\ UNCHANGED run
    /\ \/ play.waited >= Line.dur /\ play' = Outcome(play, TRUE)
       \/ run.cancelled /\ play' = Fails(play)

(* note, chat, join, leave and say: the agent is told, or refuses.         *)
Directive ==
    /\ AtLine(Directives)
    /\ \E ok \in BOOLEAN : play' = Outcome(Stimulate(play), ok)
    /\ run' = Stimulated(run)

(* The waiting loops of silent, starts and speaks all watch for a sound    *)
(* until their time is over.                                               *)
Watch(kinds) ==
    /\ AtLine(kinds)
    /\ play' = [play EXCEPT !.phase = "watching", !.waited = 0]
    /\ UNCHANGED run

SilentLine == Watch({"silent"})
StartsLine == Watch({"starts"})

(* An assertion about the reply under examination waits for none.          *)
AssertionLine ==
    /\ AtLine(Assertions)
    /\ UNCHANGED run
    /\ IF play.fresh \/ play.pcm = None THEN play' = [play EXCEPT !.phase = "watching", !.waited = 0]
       ELSE play' = [play EXCEPT !.phase = "judging"]

GoesOnLine ==
    /\ AtLine({"goes on"})
    /\ UNCHANGED run
    /\ IF run.began THEN play' = [play EXCEPT !.phase = "watching", !.waited = 0] ELSE play' = Outcome(play, FALSE)

(* goes on: the user's words did not stop the agent.                       *)
WentOn ==
    IF run.interrupted = Never THEN Outcome([play EXCEPT !.fresh = TRUE, !.pcm = None], TRUE) ELSE Outcome(play, FALSE)

Sounded ==
    /\ In("watching")
    /\ run.speaking
    /\ IF Line.kind = "starts"
       THEN play' = Outcome([play EXCEPT !.fresh = TRUE, !.pcm = None], TRUE) /\ UNCHANGED run
       ELSE IF Line.kind = "silent"
       THEN play' = [Stimulate(play) EXCEPT !.phase = "replying"] /\ run' = Stimulated(run)
       ELSE play' = [play EXCEPT !.phase = "replying"] /\ UNCHANGED run

NothingHeard ==
    /\ In("watching")
    /\ ~run.speaking
    /\ IF Line.kind = "silent"
       THEN /\ play.waited >= Line.dur
            /\ play' = Outcome(Stimulate(play), TRUE) /\ run' = Stimulated(run)
       ELSE IF Line.kind = "goes on"
       THEN /\ play.waited >= Line.dur
            /\ play' = WentOn
            /\ UNCHANGED run
       ELSE play.waited >= Line.dur /\ play' = Outcome(play, FALSE) /\ UNCHANGED run

WatchCancelled ==
    /\ In("watching")
    /\ run.cancelled
    /\ ~run.speaking
    /\ play' = Fails(play)
    /\ UNCHANGED run

(* The reply is over: the agent listens again and has been quiet.  Its     *)
(* audio is taken.                                                         *)
BugReplyOver(r) == ~r.speaking /\ r.state = "listening" /\ r.sinceSound >= OverGap + 1 /\ r.spoke # <<>>
ReplyOver(r) == ~r.speaking /\ r.state = "listening" /\ r.sinceSound >= OverGap + 1

ReplyEnds ==
    /\ In("replying")
    /\ ReplyOver(run)
    /\ run' = [run EXCEPT !.spoke = <<>>]
    /\ CASE Line.kind = "silent" -> play' = Outcome(play, FALSE)
         [] Line.kind = "goes on" -> play' = WentOn
         [] OTHER ->
              play' = IF run.spoke = <<>> THEN Outcome(play, FALSE)
                      ELSE [play EXCEPT !.phase = "judging", !.pcm = run.spoke, !.fresh = FALSE]

(* silent takes no error of its speaks; the next line meets it.            *)
ReplyCancelled ==
    /\ In("replying")
    /\ run.cancelled
    /\ ~ReplyOver(run)
    /\ play' = IF Line.kind = "silent" THEN Outcome(play, FALSE) ELSE Fails(play)
    /\ UNCHANGED run

(* The reply is transcribed and judged; what it says decides.              *)
Judge ==
    /\ In("judging")
    /\ UNCHANGED run
    /\ \/ \E ok \in BOOLEAN : (Line.kind = "speaks" => ok) /\ play' = Outcome(play, ok)
       \/ (LanesMayFail \/ run.cancelled) /\ play' = Fails(play)

(* stops: the user's words stopped the agent in time.  What it said before *)
(* them is cut from what is collected.                                     *)
AnswerOnly(r) ==
    IF ~r.quiet THEN r.spoke
    ELSE SubSeq(r.spoke, (IF r.quietMark < Len(r.spoke) THEN r.quietMark ELSE Len(r.spoke)) + 1, Len(r.spoke))

Before(r) ==
    IF ~r.quiet THEN r.spoke
    ELSE [i \in DOMAIN r.spoke |-> IF i <= r.quietMark THEN "before" ELSE r.spoke[i]]

StopsLine ==
    /\ AtLine({"stops"})
    /\ IF ~run.began THEN play' = Outcome(play, FALSE) /\ UNCHANGED run
       ELSE \/ /\ run.sinceBegan >= Line.dur
               /\ run.interrupted <= Line.dur
               /\ run' = [run EXCEPT !.spoke = AnswerOnly([run EXCEPT !.spoke = Before(run)])]
               /\ play' = Outcome([play EXCEPT !.fresh = TRUE, !.pcm = None], TRUE)
            \/ /\ run.sinceBegan >= Line.dur
               /\ run.interrupted > Line.dur
               /\ play' = Outcome(play, FALSE)
               /\ UNCHANGED run
            \/ run.cancelled /\ run.sinceBegan < Line.dur /\ play' = Fails(play) /\ UNCHANGED run

(* Run returns its report; stop cancels the loop and waits for it.         *)
Report ==
    /\ play.result = "none"
    /\ play.line > Len(play.script)
    /\ play' = [play EXCEPT !.result = "report"]
    /\ UNCHANGED run

Stop ==
    /\ play.result # "none"
    /\ ~run.cancelled
    /\ run' = [run EXCEPT !.cancelled = TRUE]
    /\ UNCHANGED play

Returned == play.result # "none" /\ run.loop # "running"

PlayNext ==
    \/ UserLine \/ UserHeard \/ WaitLine \/ Waited \/ Directive \/ SilentLine \/ StartsLine \/ AssertionLine
    \/ GoesOnLine \/ Sounded \/ NothingHeard \/ WatchCancelled \/ ReplyEnds \/ ReplyCancelled \/ Judge \/ StopsLine
    \/ Report \/ Stop

LoopNext == Tick \/ StepFails \/ LoopStops

ScenarioNext == LoopNext \/ Pass \/ CancelRun \/ PlayNext

-----------------------------------------------------------------------------
(* An assertion examines one reply: none of its audio was spoken before    *)
(* the stimulus it answers, nor, after words that stopped the agent,       *)
(* before they did.                                                        *)
ReplyIsNew == In("judging") => \A i \in DOMAIN play.pcm : play.pcm[i] = "new"
=============================================================================
