----------------------------- MODULE LongAudio -----------------------------
(***************************************************************************)
(* qwen3asr on long audio and on what the model writes of it (qwen3asr/    *)
(* transcriber.go, Transcribe and quietCut; text.go): audio over a limit   *)
(* is transcribed in pieces cut where it is quietest, and each piece's raw *)
(* answer is freed of runaway repetitions and split into a language and a  *)
(* text.                                                                   *)
(*                                                                         *)
(* A sample is its loudness, an exact number: the code's sums are floats.  *)
(* A raw answer is a sequence of symbols: characters, and the whole of     *)
(* "language X" and of the tag as one each; what the model writes of a     *)
(* piece is a choice.  The pass over one piece, transcribe, is the subject *)
(* of AsrLane.  Behaviours of kind "raw" parse one answer.                 *)
(***************************************************************************)
EXTENDS Integers, SequencesExt, FiniteSetsExt

CONSTANTS Recordings,     \* audio: loudness by sample
          Calls,          \* calls of Transcribe: options, and the lane they come to
          RawAnswers,     \* what parse is given
          PieceAnswers,   \* what the model writes of a piece
          Announced,      \* the language that each "language X" names
          ModelLanguages, \* the languages of the model
          ChunkSamples, ChunkExpand, ChunkWindow, \* maxChunkSamples, and quietCut's expand and win
          MinSamples,     \* minChunkSamples
          FrameSamples,   \* samples of the shortest audio with a frame
          RepeatThreshold, MaxPattern,
          ForcedLanguage,  \* a language the caller may force
          UnknownLanguage

ASSUME LongAudioAssumption ==
    /\ {ChunkSamples, ChunkExpand, ChunkWindow, MinSamples, FrameSamples, RepeatThreshold, MaxPattern} \subseteq Nat \ {0}
    /\ FrameSamples <= MinSamples

VARIABLE long
longVars == long

Tag == "tag"
NoLanguage == "language None"
Blanks == {" ", "newline"}
Loud(pcm, from, n) == FoldLeft(+, 0, SubSeq(pcm, from + 1, from + n))

\* The quietest sample of the quietest window near the limit; the sum of
\* the window that starts at left + i follows from the one before.
Sums(pcm, left, right) ==
    LET sum[i \in 0 .. right - left - ChunkWindow] ==
            IF i = 0 THEN Loud(pcm, left, ChunkWindow) ELSE sum[i - 1] + pcm[left + i + ChunkWindow] - pcm[left + i]
    IN sum
FirstLeast(f) == Min({i \in DOMAIN f : \A j \in DOMAIN f : f[i] <= f[j]})
quietCut(pcm, start) ==
    LET cut == start + ChunkSamples
        left == Max({start, cut - ChunkExpand})
        right == Min({Len(pcm), cut + ChunkExpand})
        best == left + FirstLeast(Sums(pcm, left, right))
        inner == FirstLeast([i \in 0 .. ChunkWindow - 1 |-> pcm[best + i + 1]])
    IN IF right - left <= ChunkWindow THEN cut ELSE Min({Max({best + inner, start + 1}), Len(pcm)})

-----------------------------------------------------------------------------
\* fixCharRepeats: a run of more than RepeatThreshold equal characters is one.
RunLength(s, i) == Min({n \in 1 .. Len(s) : i + n > Len(s) \/ s[i + n] # s[i]})
fixCharRepeats(s) ==
    LET rest[i \in 1 .. Len(s) + 1] ==
            IF i > Len(s) THEN <<>>
            ELSE LET n == RunLength(s, i) IN (IF n > RepeatThreshold THEN <<s[i]>> ELSE SubSeq(s, i, i + n - 1)) \o rest[i + n]
    IN rest[1]

\* s repeats its k characters from i on at least m times.
Copies(s, i, k, m) == i + m * k - 1 <= Len(s) /\ \A j \in i .. i + (m - 1) * k - 1 : s[j] = s[j + k]
patternAt(s, i) == {k \in 1 .. MaxPattern : Copies(s, i, k, RepeatThreshold)}

\* fixPatternRepeats: the first pattern repeated RepeatThreshold times is one,
\* and so on in the rest of s, while that is long enough to look at.
fixPatternRepeats(s) ==
    LET rest[i \in 1 .. Len(s) + 1] ==
            IF Len(s) - i + 1 < 2 * RepeatThreshold THEN SubSeq(s, i, Len(s))
            ELSE IF patternAt(s, i) = {} THEN <<s[i]>> \o rest[i + 1]
            ELSE LET k == Min(patternAt(s, i))
                     m == Max({m \in 1 .. Len(s) : Copies(s, i, k, m)})
                 IN SubSeq(s, i, i + k - 1) \o rest[i + k * m]
    IN rest[1]

\* s without the blanks around it.
Trim(s) ==
    LET kept == {i \in DOMAIN s : s[i] \notin Blanks} IN IF kept = {} THEN <<>> ELSE SubSeq(s, Min(kept), Max(kept))

\* The language of what precedes the tag: of its first line that announces
\* one, the line being nothing else; none if "language None" is in it.
LineAt(meta, i) == SubSeq(meta, i, Min({j \in i .. Len(meta) : meta[j] = "newline"} \cup {Len(meta)}))
LanguageOf(meta) ==
    LET starts == {i \in DOMAIN meta : (i = 1 \/ meta[i - 1] = "newline") /\ Trim(LineAt(meta, i)) # <<>>}
        announcing == {i \in starts : Trim(LineAt(meta, i))[1] \in DOMAIN Announced}
        line == Trim(LineAt(meta, Min(announcing)))
    IN IF Contains(meta, NoLanguage) \/ announcing = {} \/ Len(line) > 1 THEN UnknownLanguage ELSE Announced[line[1]]

\* parse: the language the model named before the tag, or the one forced, and
\* the text after it.
parse(raw, forced) ==
    LET fixed == fixPatternRepeats(fixCharRepeats(Trim(raw)))
        tag == Min({i \in DOMAIN fixed : fixed[i] = Tag})
    IN IF Trim(raw) = <<>> THEN [language |-> forced, text |-> <<>>]
       ELSE IF forced # UnknownLanguage THEN [language |-> forced, text |-> fixed]
       ELSE IF ~Contains(fixed, Tag) THEN [language |-> UnknownLanguage, text |-> Trim(fixed)]
       ELSE [language |-> LanguageOf(SubSeq(fixed, 1, tag - 1)), text |-> Trim(SubSeq(fixed, tag + 1, Len(fixed)))]

-----------------------------------------------------------------------------
NoTranscript == [text |-> <<>>, segments |-> <<>>, language |-> UnknownLanguage, turn |-> 0]

\* The language a call forces: the one it names, or the only one it allows.
Wanted(call) ==
    IF call.language = UnknownLanguage /\ Cardinality(call.languages) = 1 THEN CHOOSE l \in call.languages : TRUE ELSE call.language
\* The languages its passes are limited to; none of them: no limit.
Limits(call) ==
    IF Wanted(call) # UnknownLanguage THEN {Wanted(call)} ELSE IF Cardinality(call.languages) > 1 THEN call.languages ELSE {}
Refused(call) == call.closed \/ call.words \/ (call.turn /\ ~call.head) \/ ~(Limits(call) \subseteq ModelLanguages)

Running(phase) == long.kind = "audio" /\ long.phase = phase

\* A call is refused, leaving the transcript of an earlier one, or begins.
BeginTranscribe ==
    /\ Running("called")
    /\ long' = IF Refused(long.call) THEN [long EXCEPT !.phase = "refused"] ELSE [long EXCEPT !.phase = "pieces", !.out = NoTranscript]

\* What is transcribed next: cut at a quiet point unless the rest fits, and
\* filled up with silence if it was cut.
PieceEnd == IF Len(long.pcm) - long.start > ChunkSamples THEN quietCut(long.pcm, long.start) ELSE Len(long.pcm)
Alone == long.start = 0 /\ PieceEnd = Len(long.pcm)
Piece ==
    LET piece == SubSeq(long.pcm, long.start + 1, PieceEnd)
    IN IF Alone THEN piece ELSE piece \o [i \in 1 .. Max({0, MinSamples - Len(piece)}) |-> 0]

\* The pass over it: too short to hold speech, or an answer in the languages
\* allowed, with the state that ended it.
Allows(answer) == Wanted(long.call) # UnknownLanguage \/ Limits(long.call) = {} \/ answer.language \in Limits(long.call) \cup {UnknownLanguage}
Passes ==
    IF Len(Piece) < FrameSamples THEN {[language |-> UnknownLanguage, text |-> <<>>]}
    ELSE {answer \in {parse(raw, Wanted(long.call)) : raw \in PieceAnswers} : Allows(answer)}

With(out, answer) ==
    LET to == Len(out.text) + Len(answer.text)
        segment == [start |-> long.start, end |-> PieceEnd, textStart |-> Len(out.text), textEnd |-> to]
    IN [out EXCEPT !.text = @ \o answer.text,
                   !.segments = IF long.call.segments /\ answer.text # <<>> THEN Append(@, segment) ELSE @,
                   !.language = IF @ = UnknownLanguage THEN answer.language ELSE @]

TranscribePiece ==
    /\ Running("pieces") /\ long.start < Len(long.pcm)
    /\ \E answer \in Passes :
         long' = [long EXCEPT !.start = PieceEnd, !.out = With(@, answer),
                              !.hidden = IF Len(Piece) < FrameSamples THEN @ ELSE PieceEnd,
                              !.pieces = Append(@, [samples |-> Piece, partial |-> Alone /\ long.call.partial])]
PieceFails ==
    /\ Running("pieces") /\ long.start < Len(long.pcm)
    /\ long' = [long EXCEPT !.phase = "failed"]

\* The turn is judged from the state the last pass left.
EndTranscribe ==
    /\ Running("pieces") /\ long.start = Len(long.pcm)
    /\ long' = [long EXCEPT !.phase = "done", !.out.turn = IF long.call.turn /\ long.out.text # <<>> THEN long.hidden ELSE 0]

ParseAnswer ==
    /\ long.kind = "raw" /\ ~long.done
    /\ \E forced \in {ForcedLanguage, UnknownLanguage} : long' = [long EXCEPT !.done = TRUE, !.forced = forced, !.out = parse(long.raw, forced)]

LongInit ==
    \/ \E pcm \in Recordings, call \in Calls :
         long = [kind |-> "audio", pcm |-> pcm, call |-> call, phase |-> "called", start |-> 0, hidden |-> 0, pieces |-> <<>>,
                 out |-> [NoTranscript EXCEPT !.text = <<"old">>, !.language = ForcedLanguage]]
    \/ \E raw \in RawAnswers : long = [kind |-> "raw", raw |-> raw, forced |-> UnknownLanguage, done |-> FALSE,
                                       out |-> [language |-> UnknownLanguage, text |-> <<>>]]
LongNext == BeginTranscribe \/ TranscribePiece \/ PieceFails \/ EndTranscribe \/ ParseAnswer

-----------------------------------------------------------------------------
\* A cut goes forward, stays within the audio and near the limit, and no
\* window there is quieter than one that holds it: the sums that are updated
\* sample by sample are those of the windows (quietCut 245).
CutQuiet ==
    Running("pieces") /\ Len(long.pcm) - long.start > ChunkSamples =>
        LET cut == quietCut(long.pcm, long.start)
            left == Max({long.start, long.start + ChunkSamples - ChunkExpand})
            right == Min({Len(long.pcm), long.start + ChunkSamples + ChunkExpand})
            windows == left .. right - ChunkWindow
        IN /\ cut \in long.start + 1 .. right
           /\ right - left > ChunkWindow =>
                \E w \in windows : /\ w <= cut /\ cut <= w + ChunkWindow
                                   /\ \A v \in windows : Loud(long.pcm, w, ChunkWindow) <= Loud(long.pcm, v, ChunkWindow)

\* Whatever its pieces answered, a transcript is of the whole audio: the
\* pieces join to it but for the silence they end in, none is too short to be
\* heard, and a partial transcript is of all of it; the segments hold the
\* whole text in order, and the turn is judged from a state that heard the
\* end (Transcribe 200-239).
PiecesWhole ==
    Running("done") =>
        LET out == long.out
            heard == FlattenSeq([i \in DOMAIN long.pieces |-> long.pieces[i].samples])
            loud == SelectSeq(heard, LAMBDA v : v > 0) = SelectSeq(long.pcm, LAMBDA v : v > 0)
        IN /\ loud /\ Len(heard) >= Len(long.pcm)
           /\ Len(long.pieces) > 1 => \A i \in DOMAIN long.pieces : Len(long.pieces[i].samples) >= FrameSamples /\ ~long.pieces[i].partial
           /\ long.call.segments =>
                /\ out.segments = <<>> <=> out.text = <<>>
                /\ \A i \in DOMAIN out.segments :
                     LET before == IF i = 1 THEN [end |-> 0, textEnd |-> 0] ELSE out.segments[i - 1]
                     IN out.segments[i].start >= before.end /\ out.segments[i].textStart = before.textEnd
                /\ out.segments # <<>> => Last(out.segments).textEnd = Len(out.text)
           /\ out.turn \in {0, Len(long.pcm)} /\ (out.turn # 0 <=> long.call.turn /\ out.text # <<>>)
           /\ Limits(long.call) # {} => out.language \in Limits(long.call) \cup {UnknownLanguage}

\* The text of s from i on can become out from j on by giving up nothing but
\* the repetitions of a pattern.
Explains(s, out) ==
    LET ok[i \in 1 .. Len(s) + 1, j \in 1 .. Len(out) + 1] ==
            \/ i > Len(s) /\ j > Len(out)
            \/ i <= Len(s) /\ j <= Len(out) /\ s[i] = out[j] /\ ok[i + 1, j + 1]
            \/ \E k \in 1 .. MaxPattern, m \in RepeatThreshold .. Len(s) :
                 /\ i <= Len(s) /\ Copies(s, i, k, m) /\ j + k - 1 <= Len(out)
                 /\ SubSeq(s, i, i + k - 1) = SubSeq(out, j, j + k - 1) /\ ok[i + k * m, j + k]
    IN ok[1, 1]

\* Only runaway repetitions are taken out of an answer, and one that is
\* nothing else is left as its pattern (fixCharRepeats 100, fixPatternRepeats
\* 120).
OnlyRunaways ==
    long.kind = "raw" /\ long.done /\ (long.forced = ForcedLanguage \/ ~Contains(long.raw, Tag)) =>
        LET raw == Trim(long.raw)
            once == fixCharRepeats(raw)
        IN /\ Explains(raw, once) /\ Explains(once, long.out.text)
           /\ \A k \in 1 .. MaxPattern :
                Len(once) >= 2 * RepeatThreshold /\ Len(once) % k = 0 /\ Len(once) \div k >= RepeatThreshold /\ Copies(once, 1, k, Len(once) \div k)
                    => Len(long.out.text) <= k
=============================================================================
