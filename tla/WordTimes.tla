----------------------------- MODULE WordTimes -----------------------------
(***************************************************************************)
(* When each word of a Whisper window was said: alignmentJumps warps the   *)
(* attention of the window's tokens onto its audio frames,                 *)
(* alignWordsForWindow cuts the tokens of each segment into words, and     *)
(* refineWordBoundaries adjusts words that are too long and the edges of   *)
(* the segments.                                                           *)
(*                                                                         *)
(* Time is counted in quarter frames, so that the halves the code takes    *)
(* stay whole; a token is the class of its first and only byte.            *)
(***************************************************************************)
EXTENDS Integers, Sequences, FiniteSets, SequencesExt

CONSTANTS
    Matrices,       \* attention: sequences of rows of frame weights
    TokenClasses,   \* "space" begins a word, "in" continues one, "comma", "stop"
    SegmentEdges,   \* pairs of times a segment may be given by its timestamps
    LastSpeech,     \* where the speech of earlier windows ended
    EdgeSlack,      \* half a second
    MedianCap       \* 0.7 seconds

Infinite == 100000       \* more than any sum of weights

VARIABLE words      \* the alignment under way

wordsVars == <<words>>

Punctuation(c) == c \in {"comma", "stop"}
WordBreak(c) == c = "space" \/ Punctuation(c)

TokenRows == Len(words.matrix)
AudioFrames == Len(words.matrix[1])

WordsInit ==
    \E m \in Matrices :
        words = [phase |-> "cost", matrix |-> m, previous |-> [j \in 0 .. Len(m[1]) |-> IF j = 0 THEN 0 ELSE Infinite],
                 trace |-> <<>>, at |-> <<0, 0>>, jumps |-> <<>>, tokens |-> <<>>, segments |-> <<>>, list |-> <<>>,
                 last |-> 0, next |-> 0]

-----------------------------------------------------------------------------
(* Which neighbour a cell is reached from; a tie goes to the left.         *)
Direction(diagonal, up, left) ==
    IF diagonal < up /\ diagonal < left THEN "diagonal" ELSE IF up < diagonal /\ up < left THEN "up" ELSE "left"

CheapestOf(diagonal, up, left) ==
    CASE Direction(diagonal, up, left) = "diagonal" -> diagonal [] Direction(diagonal, up, left) = "up" -> up [] OTHER -> left

(* One row of costs, from the row before it.                               *)
CostRow ==
    /\ words.phase = "cost"
    /\ Len(words.trace) < TokenRows
    /\ LET weights == words.matrix[Len(words.trace) + 1]
           before == words.previous
           cost[j \in 0 .. AudioFrames] ==
               IF j = 0 THEN Infinite ELSE LET left == cost[j - 1] IN CheapestOf(before[j - 1], before[j], left) - weights[j]
           row == [j \in 0 .. AudioFrames |-> cost[j]]
       IN  words' = [words EXCEPT !.previous = row,
                                  !.trace = Append(@, [j \in 1 .. AudioFrames |-> Direction(before[j - 1], before[j], row[j - 1])])]

(* The path back begins at the last cell.                                  *)
BeginTrace ==
    /\ words.phase = "cost"
    /\ Len(words.trace) = TokenRows
    /\ words' = [words EXCEPT !.phase = "trace", !.at = <<TokenRows, AudioFrames>>, !.jumps = [i \in 1 .. TokenRows |-> 0]]

(* A row's jump is the last written, so the earliest frame of the row.     *)
JumpWritten(jumps, i, j) == IF i > 0 /\ j > 0 THEN [jumps EXCEPT ![i] = j - 1] ELSE jumps

StepBack(trace, i, j) ==
    CASE i = 0 -> <<i, j - 1>>
      [] i > 0 /\ j = 0 -> <<i - 1, j>>
      [] i > 0 /\ j > 0 -> CASE trace[i][j] = "diagonal" -> <<i - 1, j - 1>> [] trace[i][j] = "up" -> <<i - 1, j>>
                             [] OTHER -> <<i, j - 1>>

TraceBack ==
    /\ words.phase = "trace"
    /\ words.at # <<0, 0>>
    /\ words' = [words EXCEPT !.jumps = JumpWritten(@, words.at[1], words.at[2]),
                              !.at = StepBack(words.trace, words.at[1], words.at[2])]

-----------------------------------------------------------------------------
(* The segments of a window share out its tokens, in order, each with the  *)
(* times of its timestamp tokens.                                          *)
SegmentsOf(n) ==
    {<<[start |-> e[1], end |-> e[2], from |-> 1, to |-> n + 1, first |-> 1, last |-> 1]>> : e \in SegmentEdges} \cup
    {<<[start |-> e[1], end |-> e[2], from |-> 1, to |-> k, first |-> 1, last |-> 1],
       [start |-> f[1], end |-> f[2], from |-> k, to |-> n + 1, first |-> 1, last |-> 1]>> :
          k \in 1 .. n, e \in SegmentEdges, f \in {g \in SegmentEdges : \E h \in SegmentEdges : g[1] >= h[2]}}

InOrder(segments) == \A i \in 1 .. Len(segments) - 1 : segments[i].end <= segments[i + 1].start

BeginWords ==
    /\ words.phase = "trace"
    /\ words.at = <<0, 0>>
    /\ \E tokens \in [1 .. TokenRows - 1 -> TokenClasses], segments \in SegmentsOf(TokenRows - 1), last \in LastSpeech :
         /\ InOrder(segments)
         /\ words' = [words EXCEPT !.phase = "words", !.tokens = tokens, !.segments = segments, !.last = last, !.next = 1,
                                   !.matrix = <<>>, !.previous = <<>>, !.trace = <<>>]

(* The end of the word whose first token is at begin: the next token that  *)
(* breaks, or the segment's last.                                          *)
WordEnd(tokens, begin, to) ==
    CHOOSE e \in begin + 1 .. to : (\A k \in begin + 1 .. e - 1 : ~WordBreak(tokens[k])) /\ (e = to \/ WordBreak(tokens[e]))

Trailing(tokens, begin, end) == end - begin <= 3 /\ \A k \in begin .. end - 1 : Punctuation(tokens[k])

(* The segment's words after those it already has: punctuation alone joins *)
(* the word before it.                                                     *)
WordOf(begin, end) == [start |-> 4 * words.jumps[begin], end |-> 4 * words.jumps[end], from |-> begin, to |-> end]

Joined(list, first, word) ==
    IF Len(list) >= first /\ Trailing(words.tokens, word.from, word.to)
    THEN [list EXCEPT ![Len(list)] = [@ EXCEPT !.to = word.to, !.end = word.end]]
    ELSE Append(list, word)

(* Each segment's words, in one pass over its tokens; words.next is the    *)
(* next token, and an open segment is the first whose tokens are not all   *)
(* taken.                                                                  *)
OpenSegment == {s \in DOMAIN words.segments : words.segments[s].to > words.next /\ words.segments[s].from <= words.next}

TakeWord ==
    /\ words.phase = "words"
    /\ \E s \in OpenSegment :
         LET seg == words.segments[s]
             end == WordEnd(words.tokens, words.next, seg.to)
             first == IF words.next = seg.from THEN Len(words.list) + 1 ELSE seg.first
             list == Joined(words.list, first, WordOf(words.next, end))
         IN  words' = [words EXCEPT !.list = list, !.next = end,
                                    !.segments[s] = [@ EXCEPT !.first = first, !.last = Len(list)]]

-----------------------------------------------------------------------------
(* refineWordBoundaries.                                                   *)

Earlier(a, b) == IF a < b THEN a ELSE b
Later(a, b) == IF a > b THEN a ELSE b

(* The median of the durations that are not zero, capped.                  *)
Median(list) ==
    LET at == {i \in DOMAIN list : list[i].end > list[i].start}
        duration(i) == list[i].end - list[i].start
        n == Cardinality(at)
        \* the duration with k smaller or equal ones before it
        nth(k) == CHOOSE d \in {duration(i) : i \in at} :
                      /\ Cardinality({i \in at : duration(i) < d}) < k
                      /\ Cardinality({i \in at : duration(i) <= d}) >= k
    IN  IF n = 0 THEN 0
        ELSE Earlier(MedianCap, IF n % 2 = 1 THEN nth(n \div 2 + 1) ELSE (nth(n \div 2) + nth(n \div 2 + 1)) \div 2)

Stops(word) == words.tokens[word.to - 1] = "stop"

(* A word longer than twice the median ends early when it ends a sentence, *)
(* and begins late when the one before does.                               *)
Shortened(list, maximum) ==
    [i \in DOMAIN list |->
        IF maximum = 0 \/ list[i].end - list[i].start <= maximum THEN list[i]
        ELSE IF Stops(list[i]) THEN [list[i] EXCEPT !.end = list[i].start + maximum]
        ELSE IF i > 1 /\ Stops(list[i - 1]) THEN [list[i] EXCEPT !.start = list[i].end - maximum]
        ELSE list[i]]

Shorten ==
    /\ words.phase = "words"
    /\ OpenSegment = {}
    /\ words' = [words EXCEPT !.phase = "refine", !.list = Shortened(@, 2 * Median(@)), !.next = 1,
                              !.jumps = <<Median(words.list)>>]

(* The first word of a segment after a pause, too long by itself or with   *)
(* the second, is cut at its end.                                          *)
AfterPause(list, seg, median, last) ==
    LET first == list[seg.first]
        maximum == 2 * median
        more == seg.last > seg.first
        second == list[seg.first + 1]
        boundary == Later(second.end \div 2, second.end - maximum)
        split == more /\ second.end - second.start > maximum
        end == IF split THEN boundary ELSE first.end
    IN  IF /\ maximum > 0
           /\ first.end - last > 4 * median
           /\ first.end - first.start > maximum \/ (more /\ second.end - first.start > 2 * maximum)
        THEN [i \in DOMAIN list |->
                CASE i = seg.first -> [first EXCEPT !.end = end, !.start = Later(0, end - maximum)]
                  [] i = seg.first + 1 -> IF split THEN [second EXCEPT !.start = boundary] ELSE list[i]
                  [] OTHER -> list[i]]
        ELSE list

(* Then the edges of the segment and of its words are made to agree: the   *)
(* word gives way when it is half a second beyond the segment's time.      *)
KeepStart(seg, first) == seg.start < first.end /\ seg.start - EdgeSlack > first.start
KeepEnd(seg, last) == seg.end > last.start /\ seg.end + EdgeSlack < last.end

RefineSegment ==
    /\ words.phase = "refine"
    /\ words.next <= Len(words.segments)
    /\ LET seg == words.segments[words.next]
           median == words.jumps[1]
           list == AfterPause(words.list, seg, median, words.last)
           first == list[seg.first]
           begun == IF KeepStart(seg, first)
                    THEN [list EXCEPT ![seg.first].start = Later(0, Earlier(first.end - median, seg.start))] ELSE list
           last == begun[seg.last]
           ended == IF KeepEnd(seg, last)
                    THEN [begun EXCEPT ![seg.last].end = Later(last.start + median, seg.end)] ELSE begun
           moved == [seg EXCEPT !.start = IF KeepStart(seg, first) THEN seg.start ELSE first.start,
                                !.end = IF KeepEnd(seg, last) THEN seg.end ELSE last.end]
       IN  IF seg.from = seg.to THEN words' = [words EXCEPT !.next = @ + 1]
           ELSE words' = [words EXCEPT !.next = @ + 1, !.list = ended, !.segments[words.next] = moved, !.last = moved.end]

WordsNext == CostRow \/ BeginTrace \/ TraceBack \/ BeginWords \/ TakeWord \/ Shorten \/ RefineSegment

-----------------------------------------------------------------------------
(* The path back leaves every row at a frame of its own window, no earlier *)
(* than the row before: no tie and no border sends it out of the matrix.   *)
JumpsForward ==
    words.phase \in {"trace", "words"} /\ words.at = <<0, 0>> =>
        /\ words.jumps[1] = 0
        /\ \A i \in 1 .. Len(words.jumps) - 1 : words.jumps[i] <= words.jumps[i + 1]

(* Refined or not, a word ends no earlier than it begins, never before the *)
(* audio does, and so does every segment whose edges were made to agree    *)
(* with its words.                                                         *)
WordsForward ==
    /\ \A i \in DOMAIN words.list : 0 <= words.list[i].start /\ words.list[i].start <= words.list[i].end
    /\ words.phase = "refine" =>
         \A s \in DOMAIN words.segments : s < words.next => words.segments[s].start <= words.segments[s].end

(* The words of a segment share out its tokens and no others, in order:    *)
(* punctuation never joins a word of the segment before.                   *)
WordsTile ==
    words.phase = "refine" =>
        \A s \in DOMAIN words.segments :
            LET seg == words.segments[s]
            IN  seg.from < seg.to =>
                    /\ words.list[seg.first].from = seg.from
                    /\ words.list[seg.last].to = seg.to
                    /\ \A i \in seg.first .. seg.last - 1 : words.list[i].to = words.list[i + 1].from
=============================================================================
