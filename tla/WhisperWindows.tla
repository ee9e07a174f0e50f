-------------------------- MODULE WhisperWindows --------------------------
(***************************************************************************)
(* The long-form transcription of whisper/transcribe_full.go with the      *)
(* greedy policy of whisper/greedy.go: mel windows decoded one after the   *)
(* other, from where the timestamps of the one before say.                 *)
(*                                                                         *)
(* A token is a number: 0 .. Ticks are timestamps, the others below them,  *)
(* as in the vocabulary.  What the model likes best is a choice; the       *)
(* policy says what it may be.  Frames are mel frames, two for a tick; a   *)
(* token of text has one byte, and offsets are from a window's start.      *)
(***************************************************************************)
EXTENDS Integers, Sequences, FiniteSets, SequencesExt, FiniteSetsExt

CONSTANTS
    Windows,       \* lengths of recordings, in frames
    MelFrames,     \* frames of a window
    TextContext,   \* textContext: positions of the decoder
    FirstTicks     \* maxInitialTimestampIndex

ASSUME WhisperAssumption == MelFrames \in Nat \ {0} /\ TextContext \in Nat /\ Windows \subseteq Nat /\ FirstTicks \in Nat

Ticks == MelFrames \div 2
EOT == -1
Blank == -2
Letter == -3
TextToken == {Blank, Letter}
IsTime(id) == id >= 0

VARIABLES
    rules,     \* whether the policy applies the timestamp rules
    content,   \* contentFrames
    seek,
    window,    \* the window being decoded: its phase, tokens, and what it knows
    history,   \* the tokens kept for the next prompt, counted
    text,      \* the text of the window
    segments,  \* its segments
    aligned,   \* alignTokens and alignOffsets
    misplaced  \* whether the decoder was given a position it does not have

whisperVars == <<rules, content, seek, window, history, text, segments, aligned, misplaced>>

Phase(p) == window.phase = p
NoWindow == [phase |-> "next", tokens |-> <<>>, prompt |-> 0, at |-> 0, frames |-> 0, slices |-> <<>>, pair |-> FALSE]

WhisperInit ==
    /\ rules \in BOOLEAN /\ content \in Windows /\ seek = 0 /\ window = NoWindow
    /\ history = 0 /\ text = <<>> /\ segments = <<>> /\ aligned = [tokens |-> <<>>, offsets |-> <<0>>] /\ misplaced = FALSE

-----------------------------------------------------------------------------
(* The prompt, and the choice of a token.                                  *)

\* PromptInto: the last tokens of the history behind a mark, the start and,
\* without timestamps, what says so.
PromptLength(n) ==
    LET kept == Min({n, TextContext \div 2 - 1}) IN 1 + (IF kept = 0 THEN 0 ELSE 1 + kept) + (IF rules THEN 0 ELSE 1)

\* The least timestamp that may follow: one that opens a segment may repeat
\* the one that ended the last.
Least(seq) ==
    LET times == {i \in DOMAIN seq : IsTime(seq[i])}
        last == seq[Max(times)]
        opens == IsTime(Last(seq)) /\ ~(Len(seq) < 2 \/ IsTime(seq[Len(seq) - 1]))
    IN IF times = {} THEN 0 ELSE IF opens THEN last ELSE last + 1

\* applyTimestampRules: timestamps come in pairs, go forward, and the first
\* token is one of the first second's.
Allowed(seq) ==
    LET lastTime == seq # <<>> /\ IsTime(Last(seq))
        pair == Len(seq) < 2 \/ IsTime(seq[Len(seq) - 1])
        times == {t \in 0 .. Ticks : t >= Least(seq)}
    IN IF seq = <<>> THEN {t \in times : t <= FirstTicks}
       ELSE IF lastTime /\ pair THEN TextToken \cup {EOT}
       ELSE IF lastTime THEN times \cup {EOT}
       ELSE times \cup TextToken \cup {EOT}

\* selectNextInto: the suppressed tokens are not among the choices, and the
\* first one is neither blank nor the end.
Selects(seq) ==
    (IF rules THEN Allowed(seq) ELSE TextToken \cup {EOT} \cup 0 .. Ticks) \ (IF seq = <<>> THEN {EOT, Blank} ELSE {})

\* A window: its frames, padded, are encoded, and the prompt decoded.
BeginWindow ==
    /\ Phase("next") /\ seek < content
    /\ window' = [NoWindow EXCEPT !.phase = "decode", !.prompt = PromptLength(history), !.at = seek,
                                  !.frames = Min({MelFrames, content - seek})]
    /\ misplaced' = (misplaced \/ PromptLength(history) > TextContext)
    /\ text' = <<>> /\ segments' = <<>> /\ aligned' = [tokens |-> <<>>, offsets |-> <<0>>]
    /\ UNCHANGED <<rules, content, seek, history>>

\* A token, and the position of the next one.
Generate ==
    LET total == window.prompt + Len(window.tokens) IN
    /\ Phase("decode")
    /\ \E id \in Selects(window.tokens) :
          LET ends == id = EOT \/ Len(window.tokens) + 1 >= TextContext \div 2 \/ total + 1 > TextContext IN
          /\ window' = [window EXCEPT !.tokens = IF id = EOT THEN @ ELSE Append(@, id), !.phase = IF ends THEN "seek" ELSE "decode"]
          /\ misplaced' = (misplaced \/ (~ends /\ total >= TextContext))
    /\ UNCHANGED <<rules, content, seek, history, text, segments, aligned>>

\* The window is silent: noSpeech is high and its text unlikely.
SkipSilence ==
    /\ Phase("seek")
    /\ seek' = seek + window.frames /\ window' = NoWindow
    /\ UNCHANGED <<rules, content, history, text, segments, aligned, misplaced>>

-----------------------------------------------------------------------------
(* Where the next window starts, and the segments of this one.             *)

Pairs(tokens) == {i \in 2 .. Len(tokens) : IsTime(tokens[i - 1]) /\ IsTime(tokens[i])}

Advance(ticks) == Max({1, 2 * ticks})

\* timestampSeek.
TimestampSeek(tokens, frames) ==
    LET n == Len(tokens)
        single == n >= 2 /\ IsTime(tokens[n]) /\ ~IsTime(tokens[n - 1])
        last == Max(Pairs(tokens))
    IN IF Pairs(tokens) = {} THEN [accepted |-> tokens, advance |-> frames, pair |-> FALSE]
       ELSE IF single THEN [accepted |-> tokens, advance |-> frames, pair |-> TRUE]
       ELSE [accepted |-> SubSeq(tokens, 1, last - 1), advance |-> Advance(tokens[last - 1]), pair |-> TRUE]

\* The slices of appendTranscribedSegmentsAt, one before each second
\* timestamp of a pair and the rest.
Slices(tokens) ==
    LET cuts == SelectSeq([i \in 1 .. Len(tokens) + 1 |-> i], LAMBDA i : i \in Pairs(tokens) \cup {1, Len(tokens) + 1})
    IN IF tokens = <<>> THEN <<>> ELSE [i \in 1 .. Len(cuts) - 1 |-> SubSeq(tokens, cuts[i], cuts[i + 1] - 1)]

\* The frames of a slice in its window: those of its timestamps with a pair,
\* and up to the last timestamp without.
Span(slice, pair, frames) ==
    LET times == {i \in DOMAIN slice : IsTime(slice[i])} IN
    IF pair THEN [start |-> IF IsTime(Head(slice)) THEN 2 * Head(slice) ELSE 0, end |-> IF IsTime(Last(slice)) THEN 2 * Last(slice) ELSE frames]
    ELSE [start |-> 0, end |-> IF times # {} /\ slice[Max(times)] # 0 THEN 2 * slice[Max(times)] ELSE frames]

Words(slice) == SelectSeq(slice, LAMBDA id : ~IsTime(id))

\* appendOneSegmentAt drops a slice without duration or text.
Dropped(slice, pair, span) ==
    \/ pair /\ Len(slice) > 1 /\ IsTime(Head(slice)) /\ Head(slice) = Last(slice)
    \/ span.start = span.end
    \/ \A i \in DOMAIN slice : slice[i] # Letter

\* The tokens and offsets that the words of a kept segment are aligned by.
Align(a, slice, kept) ==
    LET words == Words(slice) IN
    IF kept THEN [tokens |-> a.tokens \o words, offsets |-> a.offsets \o [i \in DOMAIN words |-> Last(a.offsets) + i]] ELSE a

\* appendOneSegmentAt: the text, the segment and the tokens of a slice.
AppendSegment(slice, pair) ==
    LET span == Span(slice, pair, window.frames)
        words == Words(slice)
        kept == ~Dropped(slice, pair, span)
    IN /\ text' = IF kept THEN text \o words ELSE text
       /\ history' = Min({TextContext, history + (IF kept THEN Len(slice) ELSE 0)})
       /\ aligned' = Align(aligned, slice, kept)
       /\ segments' = IF kept
                      THEN Append(segments, [start |-> window.at + span.start, end |-> window.at + span.end, textStart |-> Len(text),
                                             textEnd |-> Len(text) + Len(words),
                                             tokenStart |-> Len(aligned.tokens), tokenEnd |-> Len(aligned.tokens) + Len(words)])
                      ELSE segments

\* The next window starts where the timestamps say; what is accepted is cut.
CutWindow ==
    LET s == TimestampSeek(window.tokens, window.frames) IN
    /\ Phase("seek")
    /\ seek' = seek + s.advance
    /\ window' = [window EXCEPT !.phase = "slices", !.tokens = <<>>, !.slices = Slices(s.accepted), !.pair = s.pair \/ Len(Slices(s.accepted)) > 1]
    /\ UNCHANGED <<rules, content, history, text, segments, aligned, misplaced>>

\* The segments of the accepted tokens, in order.
TakeSlice ==
    /\ Phase("slices") /\ window.slices # <<>>
    /\ AppendSegment(Head(window.slices), window.pair)
    /\ window' = [window EXCEPT !.slices = Tail(@)]
    /\ UNCHANGED <<rules, content, seek, misplaced>>

EndWindow ==
    /\ Phase("slices") /\ window.slices = <<>>
    /\ window' = [NoWindow EXCEPT !.at = window.at]
    /\ UNCHANGED <<rules, content, seek, history, text, segments, aligned, misplaced>>

WhisperNext == BeginWindow \/ Generate \/ SkipSilence \/ CutWindow \/ TakeSlice \/ EndWindow

-----------------------------------------------------------------------------
\* A transcription is over when no frames are left.
WhisperDone == Phase("next") /\ seek >= content

\* The decoder never gets a position beyond its context, however long the
\* history that prompts it.
PositionsFit == ~misplaced

\* Every window moves the transcription on, and by no more than a window: it
\* can neither stay where it is nor leave frames out.
SeeksForward == [][Phase("seek") => seek' > seek /\ seek' <= seek + MelFrames]_whisperVars

\* The segments of a window tile its text, and the tokens its words are
\* aligned by are those of its text, at their offsets.
SegmentsTile ==
    Phase("next") =>
        /\ \A i \in DOMAIN segments :
              /\ segments[i].textStart = (IF i = 1 THEN 0 ELSE segments[i - 1].textEnd)
              /\ \A j \in segments[i].tokenStart + 1 .. segments[i].tokenEnd :
                    /\ aligned.offsets[j] \in segments[i].textStart .. segments[i].textEnd - 1
                    /\ aligned.tokens[j] = text[aligned.offsets[j] + 1]
        /\ Len(text) = (IF segments = <<>> THEN 0 ELSE Last(segments).textEnd)

\* With the timestamp rules the segments go forward in time, none before its
\* window or the segment it follows.
SegmentsForward ==
    rules => \A i \in DOMAIN segments :
        /\ segments[i].start < segments[i].end /\ segments[i].start >= window.at
        /\ i > 1 => segments[i - 1].end <= segments[i].start
=============================================================================
