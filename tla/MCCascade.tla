----------------------------- MODULE MCCascade -----------------------------
(* Small instances of Cascade for TLC. *)
EXTENDS Cascade

CONSTANT Ann  \* a speaker's name

\* Two pauses of two utterances, answered with two pieces, and nothing that
\* fails or comes in between.
TurnLimits ==
  [Speaker |-> {}, JobsCap |-> 2, MaxPauses |-> 2, MaxUtterances |-> 2, MaxSays |-> 0, MaxNotes |-> 0, MaxPieces |-> 2,
   MaxRounds |-> 1, Echoes |-> FALSE, Faults |-> FALSE, Windows |-> {}, Closing |-> FALSE]

AllWindows == {"count", "reset", "take", "busy"}

\* One pause, failing lanes, a queue of one and echoes, with Say, with a note
\* and with both, but then without the windows; and two turns whose answers
\* call tools or choose silence.
OneLimits ==
  [TurnLimits EXCEPT !.JobsCap = 1, !.MaxPauses = 1, !.MaxUtterances = 1, !.MaxPieces = 1, !.Echoes = TRUE, !.Faults = TRUE]

MCRaces ==
  {[OneLimits EXCEPT !.MaxSays = 1, !.Windows = AllWindows], [OneLimits EXCEPT !.MaxNotes = 1, !.Windows = AllWindows],
   [OneLimits EXCEPT !.MaxSays = 1, !.MaxNotes = 1],
   [TurnLimits EXCEPT !.MaxPieces = 1, !.MaxRounds = 2, !.Windows = {"take", "busy"}]}

\* An utterance answered twice, with two pieces; two utterances, answered
\* twice; and a named speaker's turn during which the application closes.
MCTurns ==
  {[TurnLimits EXCEPT !.MaxUtterances = 1], [TurnLimits EXCEPT !.MaxPieces = 1],
   [TurnLimits EXCEPT !.Speaker = {Ann}, !.MaxPauses = 1, !.MaxUtterances = 1, !.MaxPieces = 1, !.Closing = TRUE]}

MCOnce == {TurnLimits}
=============================================================================
