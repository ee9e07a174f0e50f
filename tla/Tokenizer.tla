----------------------------- MODULE Tokenizer -----------------------------
(***************************************************************************)
(* The text side of the two tokenizers: how qwen3lm.Tokenizer and          *)
(* whisper's tokenizer cut a text into pieces, how each merges the bytes   *)
(* of a piece, and how decoded bytes become UTF-8 again, at once           *)
(* (appendReplacingInvalid, repairTranscriptionUTF8) or while a reply      *)
(* streams (session.emit).                                                 *)
(*                                                                         *)
(* Each piece of work is a job; one step takes one piece, one merge, one   *)
(* UTF-8 sequence or one write.  A text to be cut is a sequence of         *)
(* character classes, a text to be repaired a sequence of bytes.           *)
(***************************************************************************)
EXTENDS Naturals, Sequences, FiniteSets, SequencesExt

CONSTANTS
    CutTexts,          \* texts to cut: sequences of the classes below
    Contractions,   \* what may follow an apostrophe: 's, 'll, ...
    AddedTokens,    \* contents of added tokens, matched before anything else
    BpePieces,      \* pieces to merge: sequences of byte tokens
    MergeTables,    \* functions from a pair of tokens to [rank, token]
    ByteTexts,      \* texts to repair: sequences of bytes
    MaxPiece        \* bytes one token of a streamed reply brings

Letters == {"s", "l"}
Spaces == {"space", "tab", "newline"}

VARIABLE job

tokenizerVars == <<job>>

-----------------------------------------------------------------------------
(* Classes.  "mark" is a combining mark, "quote" the apostrophe, "lt" any  *)
(* other punctuation.                                                      *)

QwenLetter(c, marks) == c \in Letters \/ (marks /\ c = "mark")
QwenPunctuation(c, marks) == c \notin Spaces /\ ~QwenLetter(c, marks) /\ c # "number"

RuneClass(c) ==
    CASE c \in Letters -> "letter" [] c = "number" -> "number" [] c \in Spaces -> "space" [] OTHER -> "other"

(* The first index from i on whose character fails P, or the end of s: the *)
(* loops that walk a run of one class.                                     *)
RunEnd(s, i, P(_)) == CHOOSE j \in i .. Len(s) + 1 : (\A k \in i .. j - 1 : P(s[k])) /\ (j > Len(s) \/ ~P(s[j]))

(* The suffixes that follow an apostrophe at i.                            *)
ContractionAt(s, i) ==
    IF s[i] # "quote" THEN {} ELSE {c \in Contractions : i + Len(c) <= Len(s) /\ SubSeq(s, i + 1, i + Len(c)) = c}

(* Spaces that run from i to w leave their last to the piece that follows, *)
(* unless they end the text or are only one.                               *)
LeaveLast(w, i, n) == IF w = n + 1 \/ w = i + 1 THEN w ELSE w - 1

(* The end of the piece that begins at i, one past its last character.     *)
QwenNextPiece(s, i, marks) ==
    LET n == Len(s)
        Letter(c) == QwenLetter(c, marks)
        Punct(c) == QwenPunctuation(c, marks)
        Space(c) == c \in Spaces
        Newline(c) == c = "newline"
        j == IF s[i] # "newline" /\ s[i] \notin Letters /\ s[i] # "number" /\ i < n /\ Letter(s[i + 1]) THEN i + 1 ELSE i
        p == IF s[i] = "space" THEN i + 1 ELSE i
        w == RunEnd(s, i, Space)
        newlines == {k \in i .. w - 1 : s[k] = "newline"}
    IN  IF ContractionAt(s, i) # {} THEN i + 1 + Len(CHOOSE c \in ContractionAt(s, i) : TRUE)
        ELSE IF Letter(s[j]) THEN RunEnd(s, j, Letter)
        ELSE IF s[i] = "number" THEN i + 1
        ELSE IF p <= n /\ Punct(s[p]) THEN RunEnd(s, RunEnd(s, p, Punct), Newline)
        ELSE IF newlines # {} THEN (CHOOSE k \in newlines : \A m \in newlines : m <= k) + 1
        ELSE LeaveLast(w, i, n)

NextPieceEnd(s, i) ==
    LET n == Len(s)
        first == IF s[i] = "space" /\ i < n /\ s[i + 1] \notin Spaces THEN i + 1 ELSE i
        class == RuneClass(s[first])
        Same(c) == RuneClass(c) = class
        w == RunEnd(s, first, Same)
    IN  IF ContractionAt(s, i) # {} THEN i + 1 + Len(CHOOSE c \in ContractionAt(s, i) : TRUE)
        ELSE IF class = "space" THEN LeaveLast(w, i, n)
        ELSE w

(* matchAdded: the longest added token that begins at i, by its length; 0  *)
(* when there is none.                                                     *)
MatchAdded(s, i) ==
    LET lengths == {Len(a) : a \in {b \in AddedTokens : i + Len(b) - 1 <= Len(s) /\ SubSeq(s, i, i + Len(b) - 1) = b}}
    IN  IF lengths = {} THEN 0 ELSE CHOOSE k \in lengths : \A m \in lengths : m <= k

(* Where the gap that begins at i ends: the first added token after i.     *)
GapEnd(s, i) ==
    CHOOSE j \in i .. Len(s) + 1 : (\A k \in i .. j - 1 : MatchAdded(s, k) = 0) /\ (j > Len(s) \/ MatchAdded(s, j) # 0)

-----------------------------------------------------------------------------
(* Merging: qwen3lm keeps candidate merges in a binary heap of keys, rank  *)
(* first and then position, over a doubly linked list of tokens.  A key is *)
(* rank * Wide + position, as rank<<32 | position.                         *)

Wide == 16

KeyOf(merges, left, right, at) == merges[<<left, right>>].rank * Wide + at

Push(heap, key) ==
    LET h == Append(heap, key)
        \* the hole climbs from i (counted from 0) past the larger ancestors
        path[i \in 0 .. Len(heap)] ==
            IF i > 0 /\ h[(i - 1) \div 2 + 1] > key THEN <<i>> \o path[(i - 1) \div 2] ELSE <<i>>
        holes == path[Len(heap)]
        top == holes[Len(holes)]
    IN  [k \in 1 .. Len(h) |-> IF k - 1 = top THEN key
                               ELSE IF k - 1 \in ToSet(holes) THEN h[(k - 2) \div 2 + 1] ELSE h[k]]

Pop(heap) ==
    LET n == Len(heap) - 1
        last == heap[n + 1]
        h == SubSeq(heap, 1, n)
        smaller[i \in 0 .. n] ==
            LET left == 2 * i + 1 IN IF left + 1 < n /\ h[left + 2] < h[left + 1] THEN left + 1 ELSE left
        path[i \in 0 .. n] ==
            IF 2 * i + 1 >= n \/ h[smaller[i] + 1] >= last THEN <<i>> ELSE <<i>> \o path[smaller[i]]
        holes == path[0]
    IN  IF n = 0 THEN <<>>
        ELSE [k \in 1 .. n |-> IF k - 1 = holes[Len(holes)] THEN last
                               ELSE IF k - 1 \in ToSet(holes) THEN h[smaller[k - 1] + 1] ELSE h[k]]

(* The tokens of the linked list, from the first.                          *)
Live(b) ==
    LET from[i \in 1 .. Len(b.token)] == <<b.token[i]>> \o (IF b.next[i] = 0 THEN <<>> ELSE from[b.next[i]])
    IN  IF b.token = <<>> THEN <<>> ELSE from[1]

(* encodePiece before its loop: one node per byte; a pair that merges is   *)
(* pushed by Seed, in order.                                               *)
Nodes(piece) ==
    [token |-> piece, prev |-> [i \in 1 .. Len(piece) |-> i - 1],
     next |-> [i \in 1 .. Len(piece) |-> IF i = Len(piece) THEN 0 ELSE i + 1], heap |-> <<>>]

PushPair(b, merges, left) ==
    LET right == b.next[left]
    IN  IF right = 0 \/ <<b.token[left], b.token[right]>> \notin DOMAIN merges THEN b
        ELSE [b EXCEPT !.heap = Push(@, KeyOf(merges, b.token[left], b.token[right], left))]

(* The key is still what the pair at its position would be given.          *)
Fresh(b, merges, key) ==
    LET left == key % Wide
        right == b.next[left]
    IN  /\ right # 0
        /\ <<b.token[left], b.token[right]>> \in DOMAIN merges
        /\ KeyOf(merges, b.token[left], b.token[right], left) = key

(* The right node leaves the list, and both its neighbours' pairs are new. *)
BugUnlink(b, left, right) ==
    [b EXCEPT !.next = [@ EXCEPT ![left] = b.next[right]],
              !.prev = [i \in DOMAIN @ |-> IF i = b.next[right] THEN left ELSE IF i = right THEN 0 ELSE @[i]]]
Unlink(b, left, right) ==
    [b EXCEPT !.next = [@ EXCEPT ![left] = b.next[right], ![right] = 0],
              !.prev = [i \in DOMAIN @ |-> IF i = b.next[right] THEN left ELSE IF i = right THEN 0 ELSE @[i]]]

MergeAt(b, merges, left) ==
    LET right == b.next[left]
        joined == Unlink([b EXCEPT !.token[left] = merges[<<b.token[left], b.token[right]>>].token], left, right)
        before == IF joined.prev[left] = 0 THEN joined ELSE PushPair(joined, merges, joined.prev[left])
    IN  PushPair(before, merges, left)

(* One round of whisper's EncodeInto over the same piece: the pair whose   *)
(* merge has the least id, the leftmost of equals.                         *)
ScanMerge(tokens, merges) ==
    LET at == {i \in 1 .. Len(tokens) - 1 : <<tokens[i], tokens[i + 1]>> \in DOMAIN merges}
        id(i) == merges[<<tokens[i], tokens[i + 1]>>].token
        best == CHOOSE i \in at : \A k \in at : id(i) < id(k) \/ (id(i) = id(k) /\ i <= k)
    IN  IF at = {} THEN tokens
        ELSE SubSeq(tokens, 1, best - 1) \o <<id(best)>> \o SubSeq(tokens, best + 2, Len(tokens))

-----------------------------------------------------------------------------
(* UTF-8: bytes are their values.  The second byte of E0, ED, F0 and F4    *)
(* has a narrower range than the other continuations.                      *)

Width(lead) ==
    IF lead \in 194 .. 223 THEN 2 ELSE IF lead \in 224 .. 239 THEN 3 ELSE IF lead \in 240 .. 244 THEN 4 ELSE 1
SecondBytes(lead) ==
    CASE lead = 224 -> 160 .. 191 [] lead = 237 -> 128 .. 159 [] lead = 240 -> 144 .. 191 [] lead = 244 -> 128 .. 143
      [] OTHER -> 128 .. 191

(* How many bytes from i on agree with a sequence that its first byte      *)
(* begins: the loops of invalidUTF8Span and of utf8Prefix.                 *)
Agreeing(b, i) ==
    LET most == Width(b[i])
        Follows(k) == i + k <= Len(b) /\ b[i + k] \in (IF k = 1 THEN SecondBytes(b[i]) ELSE 128 .. 191)
    IN  CHOOSE n \in 1 .. most : (\A k \in 1 .. n - 1 : Follows(k)) /\ (n = most \/ ~Follows(n))

InvalidSpan(b, i) == Agreeing(b, i)

(* utf8Prefix: how many bytes, and whether they are a whole sequence.      *)
Utf8Prefix(b, i) ==
    [width |-> Agreeing(b, i), valid |-> (b[i] < 128 \/ (Width(b[i]) > 1 /\ Agreeing(b, i) = Width(b[i])))]

(* utf8.DecodeRune of the library: the size of the sequence at i, 0 when   *)
(* it is not well formed.                                                  *)
DecodeRune(b, i) ==
    LET w == Width(b[i])
    IN  IF /\ b[i] < 128 \/ w > 1
           /\ i + w - 1 <= Len(b)
           /\ \A k \in 1 .. w - 1 : b[i + k] \in (IF k = 1 THEN SecondBytes(b[i]) ELSE 128 .. 191)
        THEN w ELSE 0

(* utf8.FullRune of the library: false when more bytes may still complete  *)
(* the sequence.                                                           *)
FullRune(b) == Width(b[1]) = 1 \/ Len(b) >= Width(b[1]) \/ Agreeing(b, 1) < Len(b)

RuneStart(x) == x \notin 128 .. 191

LookBack == 3

(* completeUTF8: how much of the text may be written.                      *)
CompleteUTF8(b) ==
    LET starts == {k \in 1 .. Len(b) : k > Len(b) - LookBack /\ RuneStart(b[k])}
        last == CHOOSE k \in starts : \A m \in starts : m <= k
    IN  IF starts = {} \/ b[last] < 128 \/ FullRune(SubSeq(b, last, Len(b))) THEN Len(b) ELSE last - 1

(* A start within a sequence moves before it, an end behind it.            *)
Outward(within, end, before, behind) == IF within /\ ~end THEN before ELSE behind

(* remapUTF8Boundary: a place in the raw bytes as a place in the repaired  *)
(* text; units are the [width, out] of the raw bytes.                      *)
RemapBoundary(units, boundary, end) ==
    LET old == [k \in 0 .. Len(units) |-> FoldLeft(LAMBDA a, u : a + u.width, 0, SubSeq(units, 1, k))]
        new == [k \in 0 .. Len(units) |-> FoldLeft(LAMBDA a, u : a + u.out, 0, SubSeq(units, 1, k))]
        k == CHOOSE k \in 1 .. Len(units) : boundary <= old[k] /\ boundary > old[k - 1]
    IN  IF boundary <= 0 THEN 0
        ELSE IF boundary > old[Len(units)] THEN new[Len(units)]
        ELSE Outward(boundary < old[k], end, new[k - 1], new[k])

-----------------------------------------------------------------------------
(* The jobs.                                                               *)

CutJobs == {[kind |-> k, text |-> t, at |-> 1, pieces |-> <<>>] : k \in {"qwen", "marks", "whisper"}, t \in CutTexts}
MergeJobs ==
    {[kind |-> "merge", merges |-> m, nodes |-> Nodes(p), seeded |-> 0, scanned |-> p] : p \in BpePieces, m \in MergeTables}
RepairJobs ==
    {[kind |-> "repair", bytes |-> b, at |-> 1, appended |-> <<>>, whisperAt |-> 1, units |-> <<>>] : b \in ByteTexts}
StreamJobs == {[kind |-> "stream", bytes |-> b, at |-> 1, held |-> <<>>, writes |-> <<>>] : b \in ByteTexts}

TokenizerInit == job \in CutJobs \cup MergeJobs \cup RepairJobs \cup StreamJobs

(* EncodeInto of qwen3lm: an added token is one piece, and the gap before  *)
(* it is cut by the pattern, which sees nothing past the gap.              *)
CutQwen ==
    /\ job.kind \in {"qwen", "marks"}
    /\ job.at <= Len(job.text)
    /\ LET added == MatchAdded(job.text, job.at)
           gap == SubSeq(job.text, 1, GapEnd(job.text, job.at) - 1)
           end == IF added > 0 THEN job.at + added ELSE QwenNextPiece(gap, job.at, job.kind = "marks")
       IN  job' = [job EXCEPT !.at = end, !.pieces = Append(@, [from |-> job.at, to |-> end, added |-> added > 0])]

(* EncodeInto of whisper refuses a text that holds a special token, and    *)
(* cuts the others.                                                        *)
CutWhisper ==
    /\ job.kind = "whisper"
    /\ \A i \in 1 .. Len(job.text) : MatchAdded(job.text, i) = 0
    /\ job.at <= Len(job.text)
    /\ LET end == NextPieceEnd(job.text, job.at)
       IN  job' = [job EXCEPT !.at = end, !.pieces = Append(@, [from |-> job.at, to |-> end, added |-> FALSE])]

(* The pairs of a piece are pushed from left to right.                     *)
Seed ==
    /\ job.kind = "merge"
    /\ job.seeded < Len(job.nodes.token)
    /\ job' = [job EXCEPT !.seeded = @ + 1, !.nodes = PushPair(@, job.merges, job.seeded + 1)]

(* The least key is popped; a stale one is dropped, a fresh one merges.    *)
(* Beside it whisper's scan makes the same merge.                          *)
MergePair ==
    /\ job.kind = "merge"
    /\ job.seeded = Len(job.nodes.token)
    /\ job.nodes.heap # <<>>
    /\ LET key == Head(job.nodes.heap)
           popped == [job.nodes EXCEPT !.heap = Pop(@)]
       IN  IF Fresh(popped, job.merges, key)
           THEN job' = [job EXCEPT !.nodes = MergeAt(popped, job.merges, key % Wide), !.scanned = ScanMerge(@, job.merges)]
           ELSE job' = [job EXCEPT !.nodes = popped]

(* appendReplacingInvalid takes one sequence, or one maximal subpart of an *)
(* ill-formed one, at a time.                                              *)
AppendReplacing ==
    /\ job.kind = "repair"
    /\ job.at <= Len(job.bytes)
    /\ LET size == DecodeRune(job.bytes, job.at)
           step == IF size > 0 THEN size ELSE InvalidSpan(job.bytes, job.at)
       IN  job' = [job EXCEPT !.at = @ + step, !.appended = Append(@, [width |-> step, out |-> IF size > 0 THEN size ELSE 3])]

(* repairTranscriptionUTF8 does the same with its own table.               *)
RepairTranscription ==
    /\ job.kind = "repair"
    /\ job.at > Len(job.bytes)
    /\ job.whisperAt <= Len(job.bytes)
    /\ LET u == Utf8Prefix(job.bytes, job.whisperAt)
       IN  job' = [job EXCEPT !.whisperAt = @ + u.width,
                              !.units = Append(@, [width |-> u.width, out |-> IF u.valid THEN u.width ELSE 3])]

(* emit: a token's bytes join what is held, and the whole sequences are    *)
(* written.                                                                *)
EmitPiece ==
    /\ job.kind = "stream"
    /\ job.at <= Len(job.bytes)
    /\ \E n \in 1 .. MaxPiece :
         /\ job.at + n - 1 <= Len(job.bytes)
         /\ LET text == job.held \o SubSeq(job.bytes, job.at, job.at + n - 1)
                cut == CompleteUTF8(text)
            IN  job' = [job EXCEPT !.at = @ + n, !.held = SubSeq(text, cut + 1, Len(text)),
                                   !.writes = IF cut = 0 THEN @ ELSE Append(@, SubSeq(text, 1, cut))]

TokenizerNext == CutQwen \/ CutWhisper \/ Seed \/ MergePair \/ AppendReplacing \/ RepairTranscription \/ EmitPiece

-----------------------------------------------------------------------------
(* What the code must compute, stated apart from how it does.              *)

(* Whether the characters from i to j - 1 match an alternative of Qwen's   *)
(* expression, in their order: qwenSplitPattern and qwenMarksSplitPattern. *)
QwenAlternatives(s, i, j, marks) ==
    LET All(a, b, C(_)) == \A k \in a .. b : C(s[k])
        L(c) == QwenLetter(c, marks)
        P(c) == QwenPunctuation(c, marks)
        S(c) == c \in Spaces
        Newline(c) == c = "newline"
    IN  <<s[i] = "quote" /\ SubSeq(s, i + 1, j - 1) \in Contractions,
          \/ All(i, j - 1, L)
          \/ s[i] \notin Letters \cup {"newline", "number"} /\ j > i + 1 /\ All(i + 1, j - 1, L),
          s[i] = "number" /\ j = i + 1,
          \E a \in {i, i + 1}, b \in i + 1 .. j :
              (a = i \/ s[i] = "space") /\ b > a /\ All(a, b - 1, P) /\ All(b, j - 1, Newline),
          All(i, j - 1, S) /\ s[j - 1] = "newline",
          All(i, j - 1, S) /\ (j > Len(s) \/ S(s[j])),
          All(i, j - 1, S)>>

(* The same of the expression Whisper's reference uses.                    *)
WhisperAlternatives(s, i, j) ==
    LET Class(a, class) == a < j /\ \A k \in a .. j - 1 : RuneClass(s[k]) = class
        Run(class) == Class(i, class) \/ (s[i] = "space" /\ Class(i + 1, class))
    IN  <<s[i] = "quote" /\ SubSeq(s, i + 1, j - 1) \in Contractions, Run("letter"), Run("number"), Run("other"),
          Class(i, "space") /\ (j > Len(s) \/ s[j] \in Spaces), Class(i, "space")>>

(* j ends the longest match of the first alternative that matches at i.    *)
FirstMatch(s, i, j, Matches(_)) ==
    \E k \in DOMAIN Matches(j) :
        /\ Matches(j)[k]
        /\ \A m \in i + 1 .. Len(s) + 1 : \A a \in 1 .. k : Matches(m)[a] => (a = k /\ m <= j)

(* An added token is taken whole and the longest of those that begin where *)
(* it does; every other piece is what the pattern's first alternative that *)
(* matches takes, in a gap that holds no added token.                      *)
PieceOfPattern ==
    job.kind \in {"qwen", "marks", "whisper"} /\ job.pieces # <<>> =>
        LET piece == Last(job.pieces)
            gap == SubSeq(job.text, 1, GapEnd(job.text, piece.from) - 1)
            Qwen(j) == QwenAlternatives(gap, piece.from, j, job.kind = "marks")
            Whisper(j) == WhisperAlternatives(gap, piece.from, j)
        IN  IF piece.added
            THEN /\ SubSeq(job.text, piece.from, piece.to - 1) \in AddedTokens
                 /\ \A j \in piece.to .. Len(job.text) : SubSeq(job.text, piece.from, j) \notin AddedTokens
            ELSE /\ piece.from < piece.to /\ piece.to - 1 <= Len(gap)
                 /\ IF job.kind = "whisper" THEN FirstMatch(gap, piece.from, piece.to, Whisper)
                    ELSE FirstMatch(gap, piece.from, piece.to, Qwen)

(* The heap and its linked list hold, after every merge, what whisper's    *)
(* scan of the whole piece holds, whatever stale keys the heap still has;  *)
(* and when the heap is empty no pair is left to merge.                    *)
MergesAgree ==
    job.kind = "merge" =>
        /\ Live(job.nodes) = job.scanned
        /\ job.seeded = Len(job.nodes.token) /\ job.nodes.heap = <<>> =>
             \A i \in 1 .. Len(job.scanned) - 1 : <<job.scanned[i], job.scanned[i + 1]>> \notin DOMAIN job.merges

(* The well-formed byte sequences of Unicode, by the range of each byte.   *)
WellFormed ==
    LET T == 128 .. 191
    IN  {<<0 .. 127>>, <<194 .. 223, T>>, <<{224}, 160 .. 191, T>>, <<225 .. 236, T, T>>, <<{237}, 128 .. 159, T>>,
         <<238 .. 239, T, T>>, <<{240}, 144 .. 191, T, T>>, <<241 .. 243, T, T, T>>, <<{244}, 128 .. 143, T, T>>}
Begins(b, r) == Len(b) <= Len(r) /\ \A k \in 1 .. Len(b) : b[k] \in r[k]
Whole(b) == \E r \in WellFormed : Begins(b, r) /\ Len(b) = Len(r)
Partial(b) == \E r \in WellFormed : Begins(b, r) /\ Len(b) < Len(r)

(* A sequence that is repaired is whole, or the longest that begins some   *)
(* sequence but is not one, or a byte that begins none.                    *)
UnitsOf(bytes, units) ==
    \A k \in 1 .. Len(units) :
        LET from == FoldLeft(LAMBDA a, u : a + u.width, 1, SubSeq(units, 1, k - 1))
            unit == SubSeq(bytes, from, from + units[k].width - 1)
            end == from + units[k].width
        IN  IF Whole(unit) THEN units[k].out = units[k].width
            ELSE /\ units[k].out = 3
                 /\ Partial(unit) \/ (Len(unit) = 1 /\ ~Partial(unit))
                 /\ Partial(unit) /\ end <= Len(bytes) => ~Partial(SubSeq(bytes, from, end)) /\ ~Whole(SubSeq(bytes, from, end))

(* Both repairs replace each maximal ill-formed part by one U+FFFD and     *)
(* keep every whole sequence, and so give the same text.                   *)
RepairedAlike ==
    job.kind = "repair" =>
        /\ UnitsOf(job.bytes, job.appended)
        /\ UnitsOf(job.bytes, job.units)
        /\ job.whisperAt > Len(job.bytes) => job.units = job.appended

(* A segment's or a word's bytes, remapped into the repaired text, begin   *)
(* and end between sequences and hold every sequence they touch.           *)
BoundariesWhole ==
    job.kind = "repair" /\ job.whisperAt > Len(job.bytes) =>
        LET old(k) == FoldLeft(LAMBDA a, u : a + u.width, 0, SubSeq(job.units, 1, k))
            new(k) == FoldLeft(LAMBDA a, u : a + u.out, 0, SubSeq(job.units, 1, k))
            places == {new(k) : k \in 0 .. Len(job.units)}
        IN  \A a \in 0 .. Len(job.bytes) : \A b \in a .. Len(job.bytes) :
                LET from == RemapBoundary(job.units, a, FALSE)
                    to == RemapBoundary(job.units, b, TRUE)
                IN  /\ from \in places /\ to \in places
                    /\ \A k \in 1 .. Len(job.units) :
                          old(k) > a /\ old(k - 1) < b => from <= new(k - 1) /\ new(k) <= to

(* Written so far and still held are the bytes so far; what is held may    *)
(* yet become a whole sequence, and no write ends within one.              *)
WritesWhole ==
    job.kind = "stream" =>
        /\ FlattenSeq(job.writes) \o job.held = SubSeq(job.bytes, 1, job.at - 1)
        /\ job.held # <<>> => Partial(job.held)
        /\ \A k \in 1 .. Len(job.writes) :
             LET done == Len(FlattenSeq(SubSeq(job.writes, 1, k)))
             IN  \A i \in 1 .. done : \A j \in done + 1 .. Len(job.bytes) : ~Whole(SubSeq(job.bytes, i, j))
=============================================================================
