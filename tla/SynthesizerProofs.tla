------------------------- MODULE SynthesizerProofs -------------------------
(***************************************************************************)
(* Proofs about Synthesizer: whatever the sizes of the ring, of a frame    *)
(* and of a read, the ring holds the samples of the current utterance in   *)
(* order, every sample has a mark, the marks never go back while it is     *)
(* spoken, and an utterance is ended by its own worker.                    *)
(***************************************************************************)
EXTENDS Synthesizer, SequenceTheorems, TLAPS

Words == 0..MaxWords
WorkerRecord ==
    [text : Words, pending : Words, textAt : Words, textDone : BOOLEAN, at : Words, first : BOOLEAN,
     inFlight : BOOLEAN, flight : Words, phase : {"prompt", "feed"}, step : 0..MaxFrames,
     then : {"end", "send", "ctx", "finish"}, err : Errors]

\* Between two utterances.
Resting == wpc \in {"idle", "start", "stopped"}

\* A step of generate is under way, which feed will end.
InStep == \/ wpc \in {"send", "ctx", "feed"}
          \/ wpc \in {"take", "takeWait"} /\ w.phase = "feed"
          \/ wpc \in {"queue", "roomWait"} /\ w.then \in {"send", "ctx"}

\* Where the worker is tells what its fields hold.
WorkInv ==
    /\ wpc = "prefill" => w.text > 0
    /\ wpc \in {"queue", "roomWait"} => w.then # "end" /\ w.inFlight
    /\ InStep => w.step < MaxFrames
    /\ w.err = "dropped" => id # cur
    /\ ~Resting /\ id = cur => w.text + w.pending <= taken

\* An utterance its worker has not started has no samples and no end.
NewInv ==
    /\ cur # id => marks = <<>> /\ taken = 0 /\ held = 0 /\ read = 0 /\ ~over
    /\ Resting /\ cur = id => over \/ marks = <<>>
    /\ err # "dropped"

\* The marks grow, up to the word that is spoken.
MarkInv ==
    ~over =>
      /\ \A i, j \in DOMAIN marks : i <= j => marks[i] <= marks[j]
      /\ ~Resting /\ id = cur => \A i \in DOMAIN marks : marks[i] <= voicedAt
      /\ ~Resting /\ id = cur /\ w.inFlight =>
           w.flight <= voicedAt /\ \A i \in DOMAIN marks : marks[i] <= w.flight

\* The inductive invariant.
Control == w \in WorkerRecord /\ WorkInv /\ NewInv
Samples == MarksCount /\ RingHolds
IInv == TypeOK /\ Control /\ Samples /\ MarkInv

-----------------------------------------------------------------------------
\* The sizes.
LEMMA Sizes ==
    /\ Ring \in Nat \ {0} /\ FrameSamples \in Nat \ {0} /\ PcmLen \in Nat \ {0}
    /\ MaxFrames \in Nat \ {0} /\ MinFrames \in Nat /\ MaxBegins \in Nat /\ MaxWords \in Nat
BY SynthAssumption DEF Ring

\* Positions around the ring.
LEMMA Around ==
    ASSUME NEW R \in Nat \ {0}, NEW a \in Int
    PROVE  /\ a % R \in 0..R - 1
           /\ 0 <= a /\ a < R => a % R = a
           /\ R <= a /\ a < 2 * R => a % R = a - R
           /\ -R <= a /\ a < 0 => a % R = a + R
<1>1. a % R \in 0..R - 1
  OBVIOUS
<1>2. 0 <= a /\ a < R => a % R = a
  OBVIOUS
<1>3. R <= a /\ a < 2 * R => a % R = a - R
  OBVIOUS
<1>4. -R <= a /\ a < 0 => a % R = a + R
  OBVIOUS
<1> QED BY <1>1, <1>2, <1>3, <1>4

\* The word that is spoken is one of the text.
LEMMA VoicedType == ASSUME w \in WorkerRecord, Sizes PROVE voicedAt \in Words
BY DEF WorkerRecord, voicedAt, Words

\* The worker's record after Fail.
LEMMA FailKeeps ==
    ASSUME w \in WorkerRecord, NEW e \in Errors, Fail(e)
    PROVE  w' \in WorkerRecord /\ wpc' = "finish" /\ w'.err = e /\ ~w'.inFlight /\ w'.text = w.text /\ w'.pending = w.pending
           /\ w'.at = w.at /\ w'.flight = w.flight
BY DEF Fail, WorkerRecord

-----------------------------------------------------------------------------
\* TypeOK by what changes together.
IdType == id \in 0..MaxBegins /\ cur \in 0..id /\ cut \subseteq 1..id /\ rctx \in 0..id
TextType == taken \in 0..MaxWords /\ written \in taken..MaxWords
FlagType == /\ ended \in BOOLEAN /\ over \in BOOLEAN /\ closed \in BOOLEAN /\ waking \in BOOLEAN /\ eof \in BOOLEAN
            /\ err \in Errors /\ tokens \subseteq {"begun", "wrote", "queued", "room"} /\ rpc \in {"idle", "wait"}
PlaceType == wpc \in {"idle", "start", "take", "takeWait", "prefill", "frame", "send", "queue", "roomWait",
                      "ctx", "feed", "finish", "stopped"}
RingType == /\ audio \in [0..Ring - 1 -> Nat \X Nat]
            /\ head \in 0..Ring - 1 /\ held \in 0..Ring /\ read \in Nat
            /\ marks \in Seq(0..MaxWords)

\* The parts make up TypeOK, given the type of the worker's locals.
LEMMA TypeParts ==
    ASSUME w \in WorkerRecord
    PROVE  TypeOK <=> IdType /\ TextType /\ FlagType /\ PlaceType /\ RingType
BY DEF TypeOK, IdType, TextType, FlagType, PlaceType, RingType, WorkerRecord, Words

\* The same after a step.
LEMMA TypePartsAfter ==
    ASSUME w' \in WorkerRecord
    PROVE  TypeOK' <=> IdType' /\ TextType' /\ FlagType' /\ PlaceType' /\ RingType'
BY DEF TypeOK, IdType, TextType, FlagType, PlaceType, RingType, WorkerRecord, Words

\* The parts of the inductive invariant.
LEMMA Parts ==
    ASSUME IInv
    PROVE  /\ IdType /\ TextType /\ FlagType /\ PlaceType /\ RingType /\ w \in WorkerRecord
           /\ WorkInv /\ NewInv /\ MarksCount /\ RingHolds /\ MarkInv
BY TypeParts DEF IInv, Control, Samples

\* The utterances stay in order.
LEMMA IdTypeKept == ASSUME IInv, Next PROVE IdType'
<1> USE DEF shared, readerVars, workerVars
<1>0. IdType
  BY Parts
<1>1. CASE Begin
  <2>1. id' = id + 1 /\ id < MaxBegins /\ UNCHANGED <<cur, cut, rctx>>
    BY <1>1 DEF Begin
  <2>2. id' \in 0..MaxBegins /\ cur' \in 0..id' /\ rctx' \in 0..id'
    BY <1>0, <2>1, Sizes DEF IdType
  <2>3. cut' \subseteq 1..id'
    BY <1>0, <2>1, Sizes DEF IdType
  <2> QED BY <2>2, <2>3 DEF IdType
<1>2. CASE Cancel
  BY <1>0, <1>2, Sizes DEF IdType, Cancel
<1>3. CASE WorkStart
  BY <1>0, <1>3, Sizes DEF IdType, WorkStart
<1>4. CASE ReadNothing
  BY <1>0, <1>4, Sizes DEF IdType, ReadNothing
<1>5. CASE BeginWakes \/ Write \/ End \/ Close \/ ReadSamples \/ ReadWake
  BY <1>0, <1>5 DEF IdType, BeginWakes, Write, End, Close, ReadSamples, ReadWake
<1>6. CASE Worker /\ ~WorkStart
  <2>1. UNCHANGED <<id, cur, cut, rctx>>
    BY <1>6 DEF Worker, WorkBegun, TakeText, TakeFails, TakeWake, Prefill, GenerateFrame, EmitSend,
       QueueFrame, QueueFails, QueueWake, CheckContext, Feed, WorkFinish
  <2> QED BY <1>0, <2>1 DEF IdType
<1> QED BY <1>1, <1>2, <1>3, <1>4, <1>5, <1>6 DEF Next, Caller, Reader

\* The worker takes no more text than is written.
LEMMA TextTypeKept == ASSUME IInv, Next PROVE TextType'
<1> USE DEF shared, readerVars, workerVars
<1>0. TextType
  BY Parts
<1>1. CASE Begin
  BY <1>1, Sizes DEF Begin, BeginReset, TextType
<1>2. CASE Write
  BY <1>0, <1>2, Sizes DEF Write, TextType
<1>3. CASE TakeText
  <2>1. taken' \in {taken, written} /\ written' = written
    BY <1>3 DEF TakeText
  <2> QED BY <1>0, <2>1, Sizes DEF TextType
<1>4. CASE BeginWakes \/ End \/ Cancel \/ Close \/ Reader
  BY <1>0, <1>4 DEF TextType, BeginWakes, End, Cancel, Close, Reader, ReadNothing, ReadSamples, ReadWake
<1>5. CASE Worker /\ ~TakeText
  <2>1. UNCHANGED <<written, taken>>
    BY <1>5 DEF Worker, WorkBegun, WorkStart, TakeFails, TakeWake, Prefill, GenerateFrame, EmitSend,
       QueueFrame, QueueFails, QueueWake, CheckContext, Feed, WorkFinish
  <2> QED BY <1>0, <2>1 DEF TextType
<1> QED BY <1>1, <1>2, <1>3, <1>4, <1>5 DEF Next, Caller

\* Flags, wake-ups and the reader's place.
LEMMA FlagTypeKept == ASSUME IInv, Next PROVE FlagType'
<1> USE DEF shared, readerVars, workerVars, wake, FlagType
<1>0. FlagType /\ w.err \in Errors
  BY Parts DEF WorkerRecord
<1>1. CASE BeginWakes \/ Begin
  BY <1>0, <1>1 DEF BeginWakes, Begin, BeginReset, Errors
<1>2. CASE Write \/ End \/ Cancel \/ Close
  BY <1>0, <1>2 DEF Write, End, Cancel, Close
<1>3. CASE ReadNothing
  BY <1>0, <1>3 DEF ReadNothing
<1>4. CASE ReadSamples \/ ReadWake
  BY <1>0, <1>4 DEF ReadSamples, ReadWake
<1>5. CASE WorkBegun \/ WorkStart \/ TakeText \/ TakeFails \/ TakeWake
  <2>1. tokens' \subseteq tokens /\ UNCHANGED <<ended, over, closed, waking, eof, err, rpc>>
    BY <1>5 DEF WorkBegun, WorkStart, TakeText, TakeFails, TakeWake
  <2> QED BY <1>0, <2>1
<1>6. CASE Prefill \/ GenerateFrame \/ EmitSend \/ QueueFrame \/ QueueFails
  <2>1. tokens' \subseteq tokens \cup {"queued"} /\ UNCHANGED <<ended, over, closed, waking, eof, err, rpc>>
    BY <1>6 DEF Prefill, GenerateFrame, EmitSend, QueueFrame, QueueFails
  <2> QED BY <1>0, <2>1
<1>7. CASE QueueWake \/ CheckContext \/ Feed \/ WorkFinish
  <2>1. tokens' \subseteq tokens \cup {"queued"} /\ UNCHANGED <<ended, closed, waking, eof, rpc>>
    BY <1>7 DEF QueueWake, CheckContext, Feed, WorkFinish
  <2>2. over' \in {over, TRUE} /\ err' \in {err, w.err}
    BY <1>7 DEF QueueWake, CheckContext, Feed, WorkFinish
  <2> QED BY <1>0, <2>1, <2>2
<1> QED BY <1>1, <1>2, <1>3, <1>4, <1>5, <1>6, <1>7 DEF Next, Caller, Reader, Worker

\* What tokenize leaves: the text grows by what is no longer pending.
LEMMA TokenizedType ==
    ASSUME w \in WorkerRecord, NEW done \in BOOLEAN, NEW p \in Nat, done \/ p > 0, w.text + p <= MaxWords
    PROVE  /\ Tokenized(done, p) \in WorkerRecord
           /\ Tokenized(done, p).text >= w.text
           /\ Tokenized(done, p).text + Tokenized(done, p).pending = w.text + p
           /\ Tokenized(done, p).textDone = done
           /\ \A f \in {"textAt", "at", "first", "inFlight", "flight", "phase", "step", "then", "err"} :
                Tokenized(done, p)[f] = w[f]
<1> DEFINE n == IF done THEN p ELSE IF w.text = 0 /\ p = 1 THEN 1 ELSE p - 1
           v == [w EXCEPT !.text = w.text + n, !.pending = p - n, !.textDone = done]
<1>1. n \in 0..p /\ w.text \in Words /\ MaxWords \in Nat
  BY Sizes DEF WorkerRecord, Words
<1>2. w.text + n \in Words /\ p - n \in Words /\ w.text + n >= w.text /\ w.text + n + (p - n) = w.text + p
  BY <1>1 DEF Words
<1> HIDE DEF n
<1>3. v \in WorkerRecord
  BY <1>2 DEF WorkerRecord
<1>4. v.text = w.text + n /\ v.pending = p - n /\ v.textDone = done
  BY DEF WorkerRecord
<1>5. \A f \in {"textAt", "at", "first", "inFlight", "flight", "phase", "step", "then", "err"} : v[f] = w[f]
  BY DEF WorkerRecord
<1>6. Tokenized(done, p) = v
  BY DEF Tokenized, n
<1> HIDE DEF v
<1> QED BY <1>2, <1>3, <1>4, <1>5, <1>6

\* What TakeText does to the worker's fields.
LEMMA TakeTextKeeps ==
    ASSUME IInv, TakeText
    PROVE  /\ w' \in WorkerRecord
           /\ w'.text >= w.text /\ w'.text + w'.pending <= taken'
           /\ w'.at = w.at /\ w'.inFlight = w.inFlight /\ w'.flight = w.flight /\ w'.phase = w.phase
           /\ w'.step = w.step /\ w'.then = w.then /\ w'.err = w.err
           /\ taken' \in {taken, written}
           /\ \/ wpc' \in {"finish", "take", "prefill"} /\ w.phase = "prompt"
                 /\ (wpc' = "prefill" => w'.text > 0)
              \/ wpc' \in {"take", "feed"} /\ w.phase = "feed"
              \/ wpc' = "takeWait"
<1>0. /\ TextType /\ w \in WorkerRecord /\ wpc = "take" /\ id = cur
      /\ w.text + w.pending <= taken
  BY Parts DEF TakeText, WorkInv, Resting
<1>1. CASE taken < written /\ taken' = written /\ w' = Tokenized(FALSE, w.pending + (written - taken)) /\ AfterPull(w')
  <2> DEFINE p == w.pending + (written - taken)
  <2>1. p \in Nat /\ p > 0 /\ w.text + p <= written /\ w.text + p <= MaxWords
    BY <1>0, <1>1, Sizes DEF TextType, WorkerRecord, Words
  <2> HIDE DEF p
  <2>2. /\ w' \in WorkerRecord
        /\ w'.text >= w.text
        /\ w'.text + w'.pending = w.text + p
        /\ \A f \in {"textAt", "at", "first", "inFlight", "flight", "phase", "step", "then", "err"} :
                w'[f] = w[f]
    BY <1>0, <1>1, <2>1, TokenizedType DEF p
  <2>3. w'.text \in Words /\ w'.phase = w.phase /\ w.phase \in {"prompt", "feed"}
    BY <1>0, <2>2 DEF WorkerRecord
  <2>4. w'.text # 0 => w'.text > 0
    BY <2>3, Sizes DEF Words
  <2>5. \/ wpc' \in {"finish", "take", "prefill"} /\ w.phase = "prompt"
                 /\ (wpc' = "prefill" => w'.text > 0)
        \/ wpc' \in {"take", "feed"} /\ w.phase = "feed"
    BY <1>1, <2>3, <2>4 DEF AfterPull
  <2> QED BY <1>1, <2>1, <2>2, <2>5
<1>2. CASE taken = written /\ ended /\ w' = Tokenized(TRUE, w.pending) /\ AfterPull(w') /\ UNCHANGED taken
  <2> DEFINE p == w.pending
  <2>1. p \in Nat /\ w.text + p <= taken /\ w.text + p <= MaxWords
    BY <1>0, <1>2, Sizes DEF TextType, WorkerRecord, Words
  <2> HIDE DEF p
  <2>2. /\ w' \in WorkerRecord
        /\ w'.text >= w.text
        /\ w'.text + w'.pending = w.text + p
        /\ \A f \in {"textAt", "at", "first", "inFlight", "flight", "phase", "step", "then", "err"} :
                w'[f] = w[f]
    BY <1>0, <1>2, <2>1, TokenizedType DEF p
  <2>3. w'.text \in Words /\ w'.phase = w.phase /\ w.phase \in {"prompt", "feed"}
    BY <1>0, <2>2 DEF WorkerRecord
  <2>4. w'.text # 0 => w'.text > 0
    BY <2>3, Sizes DEF Words
  <2>5. \/ wpc' \in {"finish", "take", "prefill"} /\ w.phase = "prompt"
                 /\ (wpc' = "prefill" => w'.text > 0)
        \/ wpc' \in {"take", "feed"} /\ w.phase = "feed"
    BY <1>2, <2>3, <2>4 DEF AfterPull
  <2> QED BY <1>2, <2>1, <2>2, <2>5
<1>3. CASE taken = written /\ ~ended /\ wpc' = "takeWait" /\ UNCHANGED <<taken, w>>
  BY <1>0, <1>3 DEF WorkerRecord, Words
<1> QED BY <1>1, <1>2, <1>3 DEF TakeText

\* What Feed does to them.
LEMMA FeedKeeps ==
    ASSUME IInv, Feed, wpc' = "frame"
    PROVE  /\ w' \in WorkerRecord
           /\ w'.at >= w.at
           /\ w'.text = w.text /\ w'.pending = w.pending /\ w'.inFlight = w.inFlight /\ w'.flight = w.flight
           /\ w'.phase = w.phase /\ w'.then = w.then /\ w'.err = w.err
<1>0. w \in WorkerRecord /\ wpc = "feed" /\ w.step < MaxFrames
  BY Parts DEF Feed, WorkInv, InStep
<1>1. PICK move \in 0..1 :
        w' = [w EXCEPT !.textAt = IF w.textAt < w.text THEN w.textAt + 1 ELSE w.textAt,
                       !.at = IF w.at < MaxWords THEN w.at + move ELSE w.at,
                       !.step = w.step + 1]
  BY DEF Feed, Fail
<1> DEFINE a == IF w.textAt < w.text THEN w.textAt + 1 ELSE w.textAt
           b == IF w.at < MaxWords THEN w.at + move ELSE w.at
           c == w.step + 1
<1>2. a \in Words /\ b \in Words /\ b >= w.at /\ c \in 0..MaxFrames
  <2>1. w.textAt \in Words /\ w.text \in Words /\ w.at \in Words /\ w.step \in 0..MaxFrames
    BY <1>0 DEF WorkerRecord
  <2> QED BY <1>0, <2>1, Sizes DEF Words
<1>3. w' = [w EXCEPT !.textAt = a, !.at = b, !.step = c]
  BY <1>1
<1> HIDE DEF a, b, c
<1> QED BY <1>0, <1>2, <1>3 DEF WorkerRecord

\* The worker's record after any step.
LEMMA RecordKept == ASSUME IInv, Next PROVE w' \in WorkerRecord
<1> USE DEF shared, readerVars, workerVars
<1>0. w \in WorkerRecord /\ WorkInv
  BY Parts
<1>1. CASE Caller \/ Reader \/ Cancel \/ Close
  BY <1>0, <1>1 DEF Caller, Reader, Cancel, Close, BeginWakes, Begin, Write, End, ReadNothing, ReadSamples, ReadWake
<1>2. CASE WorkBegun \/ QueueWake \/ WorkFinish
  BY <1>0, <1>2 DEF WorkBegun, QueueWake, WorkFinish
<1>3. CASE WorkStart
  BY <1>3, Sizes DEF WorkStart, Fresh, WorkerRecord, Words, Errors
<1>4. CASE TakeText
  BY <1>4, TakeTextKeeps
<1>5. CASE TakeFails \/ QueueFails
  BY <1>0, <1>5, FailKeeps DEF TakeFails, QueueFails, Errors
<1>6. CASE TakeWake
  BY <1>0, <1>6, FailKeeps DEF TakeWake, Errors
<1>7. CASE Prefill
  <2>1. CASE Fail("model")
    BY <1>0, <2>1, FailKeeps DEF Errors
  <2>2. CASE w' = [w EXCEPT !.textAt = 1]
    <3>1. 1 \in Words
      BY <1>0, <1>7, Sizes DEF WorkInv, Prefill, WorkerRecord, Words
    <3> QED BY <1>0, <2>2, <3>1 DEF WorkerRecord
  <2> QED BY <1>7, <2>1, <2>2 DEF Prefill
<1>8. CASE GenerateFrame
  <2>1. CASE Fail("model")
    BY <1>0, <2>1, FailKeeps DEF Errors
  <2>2. CASE w' = [w EXCEPT !.then = "finish"] \/ w' = [w EXCEPT !.then = "send"]
    BY <1>0, <2>2 DEF WorkerRecord
  <2> QED BY <1>8, <2>1, <2>2 DEF GenerateFrame, Finish
<1>9. CASE EmitSend
  <2>1. voicedAt \in Words
    BY <1>0, Sizes, VoicedType
  <2>2. w' = [w EXCEPT !.inFlight = TRUE, !.flight = voicedAt, !.first = FALSE, !.then = "ctx"]
    BY <1>9 DEF EmitSend
  <2> QED BY <1>0, <2>1, <2>2 DEF WorkerRecord
<1>10. CASE QueueFrame
  <2>1. w' = [w EXCEPT !.inFlight = FALSE] \/ w' = w
    BY <1>10 DEF QueueFrame
  <2> QED BY <1>0, <2>1 DEF WorkerRecord
<1>11. CASE CheckContext
  <2>1. CASE Fail("ctx")
    BY <1>0, <2>1, FailKeeps DEF Errors
  <2>2. CASE w' = [w EXCEPT !.phase = "feed"]
    BY <1>0, <2>2 DEF WorkerRecord
  <2> QED BY <1>11, <2>1, <2>2 DEF CheckContext
<1>12. CASE Feed
  <2>1. CASE Fail("model")
    BY <1>0, <2>1, FailKeeps DEF Errors
  <2>2. CASE wpc' = "frame"
    BY <1>12, <2>2, FeedKeeps
  <2> QED BY <1>12, <2>1, <2>2 DEF Feed
<1> QED BY <1>1, <1>2, <1>3, <1>4, <1>5, <1>6, <1>7, <1>8, <1>9, <1>10, <1>11, <1>12 DEF Next, Worker

\* Where the worker is after any step.
LEMMA PlaceTypeKept == ASSUME IInv, Next PROVE PlaceType'
<1> USE DEF shared, readerVars, workerVars
<1>0. PlaceType /\ w \in WorkerRecord /\ WorkInv
  BY Parts
<1>1. CASE Caller \/ Reader \/ Cancel \/ Close
  BY <1>0, <1>1 DEF Caller, Reader, Cancel, Close, BeginWakes, Begin, Write, End, ReadNothing, ReadSamples, ReadWake,
     PlaceType
<1>2. CASE WorkBegun \/ QueueWake \/ WorkFinish \/ WorkStart \/ EmitSend
  BY <1>2 DEF WorkBegun, QueueWake, WorkFinish, WorkStart, EmitSend, PlaceType
<1>3. CASE TakeText
  BY <1>3, TakeTextKeeps DEF PlaceType
<1>4. CASE TakeFails \/ QueueFails \/ TakeWake \/ Prefill
  BY <1>4 DEF TakeFails, QueueFails, TakeWake, Prefill, Fail, PlaceType
<1>5. CASE GenerateFrame \/ Feed
  BY <1>5 DEF GenerateFrame, Feed, Fail, Finish, PlaceType
<1>6. CASE QueueFrame
  <2>1. w.then \in {"send", "ctx", "finish"}
    BY <1>0, <1>6 DEF QueueFrame, WorkInv, WorkerRecord
  <2> QED BY <1>6, <2>1 DEF QueueFrame, PlaceType
<1>7. CASE CheckContext
  BY <1>7 DEF CheckContext, AfterPull, Fail, PlaceType
<1> QED BY <1>1, <1>2, <1>3, <1>4, <1>5, <1>6, <1>7 DEF Next, Worker

-----------------------------------------------------------------------------
\* The samples.

\* A position within two rounds.
LEMMA TwoRounds ==
    ASSUME NEW R \in Nat \ {0}, NEW a \in Int, 0 <= a, a < 2 * R
    PROVE  a % R = IF a < R THEN a ELSE a - R
<1>1. CASE a < R
  BY <1>1, Around
<1>2. CASE R <= a
  BY <1>2, Around
<1> QED BY <1>1, <1>2

\* A position counted from a later head.
LEMMA Shift ==
    ASSUME NEW R \in Nat \ {0}, NEW h \in 0..R - 1, NEW n \in 0..R, NEW i \in Nat, n + i < R
    PROVE  (((h + n) % R) + i) % R = (h + (n + i)) % R
<1> DEFINE a == h + n
           b == h + (n + i)
           c == a - R + i
<1>0. /\ a \in Int /\ 0 <= a /\ a < 2 * R /\ b \in Int /\ 0 <= b /\ b < 2 * R
      /\ a + i = b /\ c = b - R /\ c \in Int /\ c < R
  OBVIOUS
<1> HIDE DEF a, b, c
<1>1. CASE a < R
  <2>1. a % R = a
    BY <1>0, <1>1, TwoRounds
  <2> QED BY <1>0, <2>1 DEF a, b
<1>2. CASE a >= R
  <2>1. a % R = a - R
    BY <1>0, <1>2
  <2>2. b >= R /\ c >= 0
    BY <1>0, <1>2 DEF c
  <2>3. b % R = b - R
    BY <1>0, <2>2
  <2>4. c % R = c
    BY <1>0, <2>2
  <2>5. (a - R + i) % R = b - R
    BY <1>0, <2>4 DEF c
  <2> QED BY <2>1, <2>3, <2>5 DEF a, b
<1> QED BY <1>0, <1>1, <1>2

\* How far behind the last sample held a position is.
LEMMA Offset ==
    ASSUME NEW R \in Nat \ {0}, NEW h \in 0..R - 1, NEW n \in 0..R - 1, NEW i \in 0..R - 1
    PROVE  (((h + i) % R) - ((h + n) % R)) % R = IF i < n THEN R + i - n ELSE i - n
<1> DEFINE a == h + i
           b == h + n
           d == (a % R) - (b % R)
<1>0. a \in Int /\ 0 <= a /\ a < 2 * R /\ b \in Int /\ 0 <= b /\ b < 2 * R /\ a - b = i - n
  OBVIOUS
<1> HIDE DEF a, b
<1>1. a % R = IF a < R THEN a ELSE a - R
  BY <1>0, TwoRounds
<1>2. b % R = IF b < R THEN b ELSE b - R
  BY <1>0, TwoRounds
<1>3. d \in Int /\ d \in {i - n, i - n - R, i - n + R} /\ -R < d /\ d < R
  BY <1>0, <1>1, <1>2
<1> HIDE DEF d
<1>4. d >= 0 => d % R = d
  BY <1>3, Around
<1>5. d < 0 => d % R = d + R
  BY <1>3
<1>6. d % R = IF i < n THEN R + i - n ELSE i - n
  BY <1>3, <1>4, <1>5
<1> QED BY <1>6 DEF a, b, d

\* One frame more.
LEMMA OneMore == ASSUME NEW f \in Nat, NEW n \in Nat PROVE f * (n + 1) = f * n + f /\ f * n \in Nat
OBVIOUS

\* What a step may do to the ring: nothing, Begin, a read or a frame.
LEMMA RingSteps ==
    ASSUME Next
    PROVE  \/ UNCHANGED <<id, audio, head, held, read, marks>>
           \/ Begin
           \/ ReadSamples
           \/ QueueFrame
<1> USE DEF shared, readerVars, workerVars
<1>1. CASE Caller \/ Reader \/ Cancel \/ Close
  BY <1>1 DEF Caller, Reader, Cancel, Close, BeginWakes, Write, End, ReadNothing, ReadWake
<1>2. CASE WorkBegun \/ WorkStart \/ TakeText \/ TakeFails \/ TakeWake \/ Prefill \/ GenerateFrame
  BY <1>2 DEF WorkBegun, WorkStart, TakeText, TakeFails, TakeWake, Prefill, GenerateFrame
<1>3. CASE EmitSend \/ QueueFails \/ QueueWake \/ CheckContext \/ Feed \/ WorkFinish
  BY <1>3 DEF EmitSend, QueueFails, QueueWake, CheckContext, Feed, WorkFinish
<1> QED BY <1>1, <1>2, <1>3 DEF Next, Worker

\* A frame that finds room.
FrameStored ==
    /\ Ring - held >= FrameSamples
    /\ audio' = Stored
    /\ held' = held + FrameSamples
    /\ marks' = Append(marks, w.flight)
    /\ UNCHANGED <<id, head, read, over, cur>>
    /\ id = cur

\* QueueFrame stores the frame, or leaves the ring alone and waits for room.
LEMMA QueueSteps ==
    ASSUME QueueFrame
    PROVE  FrameStored \/ UNCHANGED <<id, audio, head, held, read, marks>>
BY DEF QueueFrame, FrameStored

\* Begin empties the ring.
LEMMA BeginEmpties ==
    ASSUME Begin
    PROVE  id' = id + 1 /\ head' = 0 /\ held' = 0 /\ read' = 0 /\ marks' = <<>> /\ UNCHANGED audio
BY DEF Begin, BeginReset

\* What a read takes.
LEMMA ReadTakes ==
    ASSUME IInv, ReadSamples
    PROVE  \E n \in 1..held : /\ head' = (head + n) % Ring /\ held' = held - n /\ read' = read + n
                              /\ UNCHANGED <<id, audio, marks>>
<1> DEFINE n == IF held < PcmLen THEN held ELSE PcmLen
<1>1. n \in 1..held
  <2>1. held \in Nat /\ held > 0 /\ PcmLen \in Nat /\ PcmLen > 0
    BY Parts, Sizes DEF ReadSamples, RingType
  <2> QED BY <2>1
<1>2. /\ head' = (head + n) % Ring /\ held' = held - n /\ read' = read + n
      /\ UNCHANGED <<id, audio, marks>>
  BY DEF ReadSamples
<1> QED BY <1>1, <1>2

\* The ring's types.
LEMMA RingTypeKept == ASSUME IInv, Next PROVE RingType'
<1>0. RingType /\ IdType /\ w \in WorkerRecord /\ Ring \in Nat \ {0} /\ FrameSamples \in Nat
  BY Parts, Sizes
<1>1. CASE UNCHANGED <<id, audio, head, held, read, marks>>
  BY <1>0, <1>1 DEF RingType
<1>2. CASE Begin
  BY <1>0, <1>2, BeginEmpties DEF RingType
<1>3. CASE ReadSamples
  <2>1. PICK n \in 1..held : head' = (head + n) % Ring /\ held' = held - n /\ read' = read + n /\ UNCHANGED <<id, audio, marks>>
    BY <1>3, ReadTakes
  <2>2. head + n \in Int /\ held - n \in 0..Ring /\ read + n \in Nat
    BY <1>0 DEF RingType
  <2>3. (head + n) % Ring \in 0..Ring - 1
    BY <1>0, <2>2, Around
  <2> QED BY <1>0, <2>1, <2>2, <2>3 DEF RingType
<1>4. CASE FrameStored
  <2>1. held' \in 0..Ring /\ head' \in 0..Ring - 1 /\ read' \in Nat
    BY <1>0, <1>4 DEF RingType, FrameStored
  <2>2. marks' \in Seq(0..MaxWords)
    BY <1>0, <1>4 DEF RingType, FrameStored, WorkerRecord, Words
  <2>3. audio' \in [0..Ring - 1 -> Nat \X Nat]
    <3>1. Len(marks) \in Nat /\ FrameSamples * Len(marks) \in Nat /\ cur \in Nat
      BY <1>0, OneMore DEF RingType, IdType
    <3>2. QueueAt \in Int
      BY <1>0, Around DEF QueueAt, RingType
    <3>3. ASSUME NEW i \in 0..Ring - 1 PROVE (i - QueueAt) % Ring \in Nat
      BY <1>0, <3>2, Around
    <3>4. ASSUME NEW i \in 0..Ring - 1
          PROVE  FrameSamples * Len(marks) + ((i - QueueAt) % Ring) + 1 \in Nat
      <4> DEFINE k == (i - QueueAt) % Ring
      <4>1. k \in Nat
        BY <3>3
      <4> HIDE DEF k
      <4>2. FrameSamples * Len(marks) + k + 1 \in Nat
        BY <3>1, <4>1
      <4> QED BY <4>2 DEF k
    <3>5. \A i \in 0..Ring - 1 : audio[i] \in Nat \X Nat
      BY <1>0 DEF RingType
    <3>6. \A i \in 0..Ring - 1 : Stored[i] \in Nat \X Nat
      <4> SUFFICES ASSUME NEW i \in 0..Ring - 1 PROVE Stored[i] \in Nat \X Nat
        OBVIOUS
      <4> DEFINE s == FrameSamples * Len(marks) + ((i - QueueAt) % Ring) + 1
      <4>1. Stored[i] = <<cur, s>> \/ Stored[i] = audio[i]
        <5> DEFINE k == (i - QueueAt) % Ring
        <5>1. Stored[i] = IF k < FrameSamples THEN <<cur, s>> ELSE audio[i]
          BY DEF Stored
        <5> QED BY <5>1
      <4>2. s \in Nat
        BY <3>4
      <4> HIDE DEF s
      <4> QED BY <3>1, <3>5, <4>1, <4>2, SMTT(20)
    <3>7. Stored \in [0..Ring - 1 -> Nat \X Nat]
      BY <3>6 DEF Stored
    <3> QED BY <1>4, <3>7 DEF FrameStored
  <2> QED BY <2>1, <2>2, <2>3 DEF RingType
<1> QED BY <1>1, <1>2, <1>3, <1>4, RingSteps, QueueSteps

\* A mark for every frame.
LEMMA MarksCountKept == ASSUME IInv, Next PROVE MarksCount'
<1>0. RingType /\ MarksCount /\ FrameSamples \in Nat
  BY Parts, Sizes
<1>1. CASE UNCHANGED <<id, audio, head, held, read, marks>>
  BY <1>0, <1>1 DEF MarksCount
<1>2. CASE Begin
  BY <1>0, <1>2, BeginEmpties DEF MarksCount
<1>3. CASE ReadSamples
  <2>1. PICK n \in 1..held : head' = (head + n) % Ring /\ held' = held - n /\ read' = read + n /\ UNCHANGED <<id, audio, marks>>
    BY <1>3, ReadTakes
  <2> QED BY <1>0, <2>1, SMTT(20) DEF MarksCount, RingType
<1>4. CASE FrameStored
  <2>1. Len(marks) \in Nat /\ Len(marks') = Len(marks) + 1
    BY <1>0, <1>4 DEF FrameStored, RingType
  <2>2. FrameSamples * (Len(marks) + 1) = FrameSamples * Len(marks) + FrameSamples /\ FrameSamples * Len(marks) \in Nat
    BY <1>0, <2>1, OneMore
  <2> QED BY <1>0, <1>4, <2>1, <2>2, SMTT(20) DEF FrameStored, RingType, MarksCount
<1> QED BY <1>1, <1>2, <1>3, <1>4, RingSteps, QueueSteps

\* The samples held are the next ones of the utterance.
LEMMA RingHoldsKept == ASSUME IInv, Next PROVE RingHolds'
<1>0. RingType /\ MarksCount /\ RingHolds /\ FrameSamples \in Nat \ {0} /\ Ring \in Nat \ {0}
  BY Parts, Sizes
<1>1. CASE UNCHANGED <<id, audio, head, held, read, marks>>
  BY <1>0, <1>1 DEF RingHolds
<1>2. CASE Begin
  <2>1. held' = 0
    BY <1>2, BeginEmpties
  <2> QED BY <2>1 DEF RingHolds
<1>3. CASE ReadSamples
  <2>1. PICK n \in 1..held : head' = (head + n) % Ring /\ held' = held - n /\ read' = read + n /\ UNCHANGED <<id, audio, marks>>
    BY <1>3, ReadTakes
  <2>2. ASSUME NEW i \in 0..held' - 1 PROVE audio'[(head' + i) % Ring] = <<id', read' + i + 1>>
    <3>1. n + i \in 0..held - 1 /\ n \in 0..Ring /\ n + i < Ring /\ i \in Nat /\ head \in 0..Ring - 1
      BY <1>0, <2>1 DEF RingType
    <3>2. (head' + i) % Ring = (head + (n + i)) % Ring
      BY <1>0, <2>1, <3>1, Shift
    <3>3. audio[(head + (n + i)) % Ring] = <<id, read + (n + i) + 1>>
      BY <1>0, <3>1 DEF RingHolds
    <3>4. read + (n + i) + 1 = read' + i + 1
      BY <1>0, <2>1, <3>1 DEF RingType
    <3> QED BY <2>1, <3>2, <3>3, <3>4
  <2> QED BY <2>2 DEF RingHolds
<1>4. CASE FrameStored
  <2>1. ASSUME NEW i \in 0..held' - 1 PROVE audio'[(head' + i) % Ring] = <<id', read' + i + 1>>
    <3> DEFINE pos == (head + i) % Ring
               k == (pos - QueueAt) % Ring
    <3>1. /\ i \in 0..Ring - 1 /\ held \in 0..Ring - 1 /\ head \in 0..Ring - 1 /\ head' = head /\ read' = read
          /\ id' = id /\ id = cur /\ held + FrameSamples <= Ring /\ i < held + FrameSamples /\ read \in Nat
      BY <1>0, <1>4 DEF RingType, FrameStored
    <3>2. k = IF i < held THEN Ring + i - held ELSE i - held
      BY <1>0, <3>1, Offset DEF QueueAt
    <3>3. pos \in 0..Ring - 1
      BY <1>0, <3>1, Around
    <3>4. audio'[pos] = IF k < FrameSamples THEN <<cur, FrameSamples * Len(marks) + k + 1>> ELSE audio[pos]
      BY <1>4, <3>3 DEF FrameStored, Stored
    <3>5. CASE i < held
      <4>1. audio'[pos] = audio[pos]
        BY <1>0, <3>1, <3>2, <3>4, <3>5
      <4> QED BY <1>0, <3>1, <3>5, <4>1 DEF RingHolds
    <3>6. CASE i >= held
      <4>1. k < FrameSamples /\ read + held + k + 1 = read + i + 1
        BY <1>0, <3>1, <3>2, <3>6
      <4>2. audio'[pos] = <<cur, FrameSamples * Len(marks) + k + 1>>
        BY <3>4, <4>1
      <4> QED BY <1>0, <3>1, <4>1, <4>2 DEF MarksCount
    <3> QED BY <3>1, <3>5, <3>6
  <2> QED BY <2>1 DEF RingHolds
<1> QED BY <1>1, <1>2, <1>3, <1>4, RingSteps, QueueSteps

-----------------------------------------------------------------------------
\* The worker's places and fields.

\* What else the steps of the callers do to the worker.
LEMMA OthersKeep ==
    ASSUME Caller \/ Reader \/ Cancel \/ Close
    PROVE  UNCHANGED <<cur, wpc, w>> /\ (Begin \/ UNCHANGED <<id, taken, over, err>>)
BY DEF Caller, Reader, Cancel, Close, BeginWakes, Begin, Write, End, ReadNothing, ReadSamples, ReadWake,
   shared, readerVars, workerVars

\* What the steps of the worker leave alone.
LEMMA WorkerKeeps ==
    ASSUME Worker
    PROVE  /\ id' = id
           /\ WorkStart \/ cur' = cur
           /\ TakeText \/ taken' = taken
           /\ WorkFinish \/ UNCHANGED <<over, err>>
           /\ QueueFrame \/ UNCHANGED <<held, read, marks>>
<1> USE DEF shared, readerVars, workerVars
<1>1. CASE WorkBegun \/ WorkStart \/ TakeText \/ TakeFails \/ TakeWake \/ Prefill \/ GenerateFrame
  BY <1>1 DEF WorkBegun, WorkStart, TakeText, TakeFails, TakeWake, Prefill, GenerateFrame
<1>2. CASE EmitSend \/ QueueFrame \/ QueueFails \/ QueueWake \/ CheckContext \/ Feed \/ WorkFinish
  BY <1>2 DEF EmitSend, QueueFrame, QueueFails, QueueWake, CheckContext, Feed, WorkFinish
<1> QED BY <1>1, <1>2 DEF Worker

\* Begin leaves the worker behind.
LEMMA BeginLeaves == ASSUME IInv, Begin PROVE id' # cur' /\ UNCHANGED <<cur, wpc, w>>
BY Parts, Sizes DEF Begin, IdType

\* The places and fields agree after any step.
LEMMA WorkInvKept == ASSUME IInv, Next PROVE WorkInv'
<1> USE DEF WorkInv, InStep, Resting
<1>0. w \in WorkerRecord /\ WorkInv /\ w' \in WorkerRecord /\ IdType /\ TextType
  BY Parts, RecordKept
<1>1. CASE Begin
  BY <1>0, <1>1, BeginLeaves
<1>2. CASE (Caller \/ Reader \/ Cancel \/ Close) /\ ~Begin
  BY <1>0, <1>2, OthersKeep
<1>3. ASSUME Worker PROVE id' = id /\ (WorkStart \/ cur' = cur) /\ (TakeText \/ taken' = taken)
  BY <1>3, WorkerKeeps
<1>4. CASE WorkStart
  BY <1>4, <1>0 DEF WorkStart, Fresh, TextType, workerVars
<1>5. CASE WorkBegun \/ QueueWake \/ WorkFinish
  <2>1. UNCHANGED <<w, cur, id, taken>>
    BY <1>5 DEF WorkBegun, QueueWake, WorkFinish, shared, workerVars
  <2> QED BY <1>0, <1>5, <2>1 DEF WorkBegun, QueueWake, WorkFinish
<1>6. CASE TakeText
  <2>1. wpc = "take" /\ id = cur /\ id' = id /\ cur' = cur
    BY <1>6 DEF TakeText, shared
  <2> QED BY <1>0, <1>6, <2>1, TakeTextKeeps
<1>7. ASSUME NEW e \in Errors, Fail(e), e = "dropped" => id # cur, UNCHANGED <<id, cur, taken>>, ~Resting
      PROVE  WorkInv'
  <2>1. w' \in WorkerRecord /\ wpc' = "finish" /\ w'.err = e /\ w'.text = w.text /\ w'.pending = w.pending
    BY <1>0, <1>7, FailKeeps
  <2> QED BY <1>0, <1>7, <2>1
<1>8. CASE TakeFails \/ QueueFails
  BY <1>0, <1>7, <1>8 DEF TakeFails, QueueFails, Errors, shared, workerVars
<1>9. CASE TakeWake
  <2>1. CASE Fail("ctx")
    BY <1>7, <1>9, <2>1 DEF TakeWake, Errors, shared
  <2>2. CASE wpc' = "take" /\ UNCHANGED w
    BY <1>0, <1>9, <2>2 DEF TakeWake, shared
  <2> QED BY <1>9, <2>1, <2>2 DEF TakeWake
<1>10. CASE Prefill
  <2>1. CASE Fail("model")
    BY <1>7, <1>10, <2>1 DEF Prefill, Errors, shared
  <2>2. CASE wpc' = "frame" /\ w' = [w EXCEPT !.textAt = 1]
    <3>1. w'.err = w.err /\ w'.text = w.text /\ w'.pending = w.pending
      BY <1>0, <2>2 DEF WorkerRecord
    <3> QED BY <1>0, <1>10, <2>2, <3>1 DEF Prefill, shared
  <2> QED BY <1>10, <2>1, <2>2 DEF Prefill
<1>11. CASE GenerateFrame
  <2>1. CASE Fail("model")
    BY <1>7, <1>11, <2>1 DEF GenerateFrame, Errors, shared
  <2>2. ASSUME NEW t \in {"finish", "send"}, w' = [w EXCEPT !.then = t],
               wpc' = IF w.inFlight THEN "queue" ELSE t, t = "send" => w.step < MaxFrames
        PROVE  WorkInv'
    <3>1. w'.err = w.err /\ w'.text = w.text /\ w'.pending = w.pending /\ w'.then = t /\ w'.inFlight = w.inFlight
          /\ w'.step = w.step
      BY <1>0, <2>2 DEF WorkerRecord
    <3> QED BY <1>0, <1>11, <2>2, <3>1 DEF GenerateFrame, shared
  <2> QED BY <1>11, <2>1, <2>2 DEF GenerateFrame, Finish
<1>12. CASE EmitSend
  <2>1. w'.err = w.err /\ w'.text = w.text /\ w'.pending = w.pending /\ w'.then = "ctx" /\ w'.inFlight = TRUE
        /\ w'.step = w.step
    BY <1>0, <1>12 DEF EmitSend, WorkerRecord
  <2> QED BY <1>0, <1>12, <2>1 DEF EmitSend, shared
<1>13. CASE QueueFrame
  <2>1. CASE w' = [w EXCEPT !.inFlight = FALSE] /\ wpc' = w.then
    <3>1. w'.err = w.err /\ w'.text = w.text /\ w'.pending = w.pending /\ w'.then = w.then /\ w'.step = w.step
      BY <1>0, <2>1 DEF WorkerRecord
    <3>2. w.then \in {"send", "ctx", "finish"}
      BY <1>0, <1>13 DEF QueueFrame, WorkerRecord
    <3> QED BY <1>0, <1>13, <2>1, <3>1, <3>2 DEF QueueFrame
  <2>2. CASE wpc' = "roomWait" /\ UNCHANGED w
    BY <1>0, <1>13, <2>2 DEF QueueFrame
  <2> QED BY <1>13, <2>1, <2>2 DEF QueueFrame
<1>14. CASE CheckContext
  <2>1. CASE Fail("ctx")
    BY <1>7, <1>14, <2>1 DEF CheckContext, Errors, shared
  <2>2. CASE w' = [w EXCEPT !.phase = "feed"] /\ AfterPull(w')
    <3>1. w'.err = w.err /\ w'.text = w.text /\ w'.pending = w.pending /\ w'.phase = "feed" /\ w'.step = w.step
      BY <1>0, <2>2 DEF WorkerRecord
    <3>2. wpc' \in {"take", "feed"}
      BY <2>2, <3>1 DEF AfterPull
    <3> QED BY <1>0, <1>14, <3>1, <3>2 DEF CheckContext, shared
  <2> QED BY <1>14, <2>1, <2>2 DEF CheckContext
<1>15. CASE Feed
  <2>1. CASE Fail("model")
    BY <1>7, <1>15, <2>1 DEF Feed, Errors, shared
  <2>2. CASE wpc' = "frame"
    <3>1. w'.err = w.err /\ w'.text = w.text /\ w'.pending = w.pending
      BY <1>15, <2>2, FeedKeeps
    <3> QED BY <1>0, <1>15, <2>2, <3>1 DEF Feed, shared
  <2> QED BY <1>15, <2>1, <2>2 DEF Feed
<1> QED BY <1>1, <1>2, <1>4, <1>5, <1>6, <1>8, <1>9, <1>10, <1>11, <1>12, <1>13, <1>14, <1>15 DEF Next, Worker

\* The worker rests only where WorkBegun, WorkFinish or a caller leaves it.
LEMMA RestSteps == ASSUME IInv, Worker, Resting' PROVE WorkBegun \/ WorkFinish
<1>0. w \in WorkerRecord /\ WorkInv
  BY Parts
<1>1. CASE WorkStart \/ EmitSend \/ QueueWake
  BY <1>1 DEF WorkStart, EmitSend, QueueWake, Resting
<1>2. CASE TakeText
  BY <1>2, TakeTextKeeps DEF Resting
<1>3. CASE TakeFails \/ TakeWake \/ Prefill \/ GenerateFrame \/ QueueFails \/ Feed
  BY <1>3 DEF TakeFails, TakeWake, Prefill, GenerateFrame, QueueFails, Feed, Fail, Finish, Resting
<1>4. CASE QueueFrame
  <2>1. w.then \in {"send", "ctx", "finish"}
    BY <1>0, <1>4 DEF QueueFrame, WorkerRecord, WorkInv
  <2> QED BY <1>4, <2>1 DEF QueueFrame, Resting
<1>5. CASE CheckContext
  BY <1>5 DEF CheckContext, Fail, AfterPull, Resting
<1> QED BY <1>1, <1>2, <1>3, <1>4, <1>5 DEF Worker

\* An utterance not started stays empty.
LEMMA NewInvKept == ASSUME IInv, Next PROVE NewInv'
<1> USE DEF NewInv
<1>0. w \in WorkerRecord /\ WorkInv /\ NewInv /\ IdType /\ RingType
  BY Parts
<1>1. CASE Begin
  <2>1. id' # cur' /\ marks' = <<>> /\ taken' = 0 /\ held' = 0 /\ read' = 0 /\ over' = FALSE /\ err' = "none"
    BY <1>1, BeginLeaves DEF Begin, BeginReset
  <2> QED BY <2>1
<1>2. CASE (Caller \/ Reader \/ Cancel \/ Close) /\ ~Begin
  <2>1. UNCHANGED <<cur, wpc, w, id, taken, over, err>>
    BY <1>2, OthersKeep
  <2>2. ReadSamples \/ UNCHANGED <<held, read>>
    BY <1>2 DEF Caller, Reader, Cancel, Close, BeginWakes, Write, End, ReadNothing, ReadWake, shared
  <2>3. UNCHANGED marks
    BY <1>2 DEF Caller, Reader, Cancel, Close, BeginWakes, Write, End, ReadNothing, ReadSamples, ReadWake, shared
  <2>4. ReadSamples => held > 0
    BY DEF ReadSamples
  <2>5. cur = id \/ UNCHANGED <<held, read>>
    BY <1>0, <2>2, <2>4 DEF RingType
  <2> QED BY <1>0, <2>1, <2>3, <2>5 DEF Resting
<1>3. CASE WorkStart
  <2>1. cur' = id' /\ ~Resting' /\ UNCHANGED err
    BY <1>3 DEF WorkStart, Resting, shared
  <2> QED BY <1>0, <2>1
<1>4. CASE WorkBegun
  <2>1. UNCHANGED <<id, cur, marks, taken, held, read, over, err>> /\ Resting
    BY <1>4 DEF WorkBegun, Resting, shared
  <2> QED BY <1>0, <2>1
<1>5. CASE WorkFinish
  <2>1. UNCHANGED <<id, cur, marks, taken, held, read>>
    BY <1>5 DEF WorkFinish
  <2>2. CASE id = cur
    <3>1. over' = TRUE /\ err' = w.err
      BY <1>5, <2>2 DEF WorkFinish, Current
    <3> QED BY <1>0, <2>1, <2>2, <3>1 DEF WorkInv
  <2>3. CASE id # cur
    <3>1. UNCHANGED <<over, err>>
      BY <1>5, <2>3 DEF WorkFinish, Current
    <3> QED BY <1>0, <2>1, <2>3, <3>1
  <2> QED BY <2>2, <2>3
<1>6. CASE QueueFrame \/ TakeText
  <2>1. id' = id /\ cur' = cur /\ id = cur /\ UNCHANGED err
    BY <1>6 DEF QueueFrame, TakeText, shared
  <2>2. ~Resting'
    <3>1. Worker /\ ~WorkBegun /\ ~WorkFinish
      BY <1>6 DEF Worker, QueueFrame, TakeText, WorkBegun, WorkFinish
    <3> QED BY <3>1, RestSteps
  <2> QED BY <1>0, <2>1, <2>2
<1>7. CASE Worker /\ ~WorkStart /\ ~WorkBegun /\ ~WorkFinish /\ ~QueueFrame /\ ~TakeText
  <2>1. UNCHANGED <<id, cur, marks, taken, held, read, over, err>>
    BY <1>7, WorkerKeeps
  <2>2. ~Resting'
    BY <1>7, RestSteps
  <2> QED BY <1>0, <2>1, <2>2
<1> QED BY <1>1, <1>2, <1>3, <1>4, <1>5, <1>6, <1>7 DEF Next, Worker

-----------------------------------------------------------------------------
\* The marks.

\* The word that is spoken only moves on.
LEMMA VoicedMoves ==
    ASSUME w \in WorkerRecord, w' \in WorkerRecord, w'.at >= w.at, w'.text >= w.text
    PROVE  voicedAt' >= voicedAt /\ voicedAt' \in Nat /\ voicedAt \in Nat
<1>1. w.at \in Nat /\ w.text \in Nat /\ w'.at \in Nat /\ w'.text \in Nat
  BY Sizes DEF WorkerRecord, Words
<1> QED BY <1>1 DEF voicedAt

\* A step within an utterance that stores no frame and sends none.
LEMMA MarksStay ==
    ASSUME IInv, w' \in WorkerRecord, UNCHANGED <<id, cur, over, marks>>, ~Resting,
           w'.at >= w.at, w'.text >= w.text,
           w'.inFlight => w.inFlight /\ w'.flight = w.flight
    PROVE  MarkInv'
<1>0. w \in WorkerRecord /\ MarkInv /\ RingType
  BY Parts
<1>1. voicedAt' >= voicedAt /\ voicedAt' \in Nat /\ voicedAt \in Nat
  BY <1>0, VoicedMoves
<1>2. \A i \in DOMAIN marks : marks[i] \in Nat
  BY <1>0, Sizes DEF RingType
<1>3. w.flight \in Nat
  BY <1>0, Sizes DEF WorkerRecord, Words
<1> SUFFICES ASSUME ~over' PROVE MarkInv'
  BY DEF MarkInv
<1>4. \A i, j \in DOMAIN marks' : i <= j => marks'[i] <= marks'[j]
  BY <1>0 DEF MarkInv
<1>5. ASSUME id' = cur' PROVE \A i \in DOMAIN marks' : marks'[i] <= voicedAt'
  <2>1. \A i \in DOMAIN marks : marks[i] <= voicedAt
    BY <1>0, <1>5 DEF MarkInv
  <2> QED BY <1>1, <1>2, <2>1
<1>6. ASSUME id' = cur', w'.inFlight
      PROVE  w'.flight <= voicedAt' /\ \A i \in DOMAIN marks' : marks'[i] <= w'.flight
  <2>1. w.flight <= voicedAt /\ \A i \in DOMAIN marks : marks[i] <= w.flight
    BY <1>0, <1>6 DEF MarkInv
  <2>2. w.flight <= voicedAt'
    BY <1>1, <1>3, <2>1
  <2> QED BY <1>6, <2>1, <2>2
<1> QED BY <1>4, <1>5, <1>6 DEF MarkInv

\* A step that leaves no marks of the current utterance, or leaves the worker at rest.
LEMMA MarksNone == ASSUME marks' = <<>>, w'.inFlight = FALSE \/ id' # cur' PROVE MarkInv'
BY DEF MarkInv

\* A failure.
LEMMA MarksFail ==
    ASSUME IInv, NEW e \in Errors, Fail(e), UNCHANGED <<id, cur, over, marks>>, ~Resting
    PROVE  MarkInv'
<1>1. w \in WorkerRecord
  BY Parts
<1>2. w' \in WorkerRecord /\ ~w'.inFlight /\ w'.text = w.text /\ w'.at = w.at
  BY <1>1, FailKeeps
<1>3. w'.text >= w.text /\ w'.at >= w.at
  BY <1>1, <1>2, Sizes DEF WorkerRecord, Words
<1> QED BY <1>2, <1>3, MarksStay

\* The frame in flight becomes a mark.
LEMMA MarksStored ==
    ASSUME IInv, wpc = "queue", FrameStored, w' = [w EXCEPT !.inFlight = FALSE]
    PROVE  MarkInv'
<1>0. w \in WorkerRecord /\ MarkInv /\ WorkInv /\ RingType
  BY Parts
<1>1. w.inFlight /\ ~Resting /\ id = cur
  BY <1>0 DEF WorkInv, Resting, FrameStored
<1> SUFFICES ASSUME ~over' PROVE MarkInv'
  BY DEF MarkInv
<1>2. ~over
  BY DEF FrameStored
<1>3. /\ \A i, j \in DOMAIN marks : i <= j => marks[i] <= marks[j]
      /\ w.flight <= voicedAt /\ \A i \in DOMAIN marks : marks[i] <= w.flight
      /\ \A i \in DOMAIN marks : marks[i] <= voicedAt
  BY <1>0, <1>1, <1>2 DEF MarkInv
<1>4. marks \in Seq(0..MaxWords) /\ w.flight \in 0..MaxWords /\ w.flight \in Nat
  BY <1>0, Sizes DEF RingType, WorkerRecord, Words
<1>5. marks' = Append(marks, w.flight)
  BY DEF FrameStored
<1>6. /\ DOMAIN marks = 1..Len(marks) /\ Len(marks) \in Nat /\ DOMAIN marks' = 1..Len(marks) + 1
      /\ marks'[Len(marks) + 1] = w.flight
      /\ \A i \in 1..Len(marks) : marks'[i] = marks[i]
  BY <1>4, <1>5
<1>7. \A i \in DOMAIN marks' : i \in DOMAIN marks \/ i = Len(marks) + 1
  BY <1>6
<1>8. ASSUME NEW i \in DOMAIN marks', NEW j \in DOMAIN marks', i <= j PROVE marks'[i] <= marks'[j]
  BY <1>3, <1>4, <1>6, <1>7, <1>8
<1>9. \A i \in DOMAIN marks' : marks'[i] <= voicedAt
  BY <1>3, <1>6, <1>7
<1>10. voicedAt' = voicedAt /\ w'.inFlight = FALSE
  BY <1>0 DEF voicedAt, WorkerRecord
<1> QED BY <1>8, <1>9, <1>10 DEF MarkInv

\* The next frame is sent: it speaks the word that is spoken.
LEMMA MarksSent == ASSUME IInv, EmitSend PROVE MarkInv'
<1>0. w \in WorkerRecord /\ MarkInv /\ ~Resting /\ UNCHANGED <<id, cur, over, marks>>
  BY Parts DEF EmitSend, Resting, shared
<1>1. w'.flight = voicedAt /\ w'.at = w.at /\ w'.text = w.text
  BY <1>0 DEF EmitSend, WorkerRecord
<1>2. voicedAt' = voicedAt
  BY <1>1 DEF voicedAt
<1>3. voicedAt \in Nat
  BY <1>0, Sizes, VoicedType DEF Words
<1> SUFFICES ASSUME ~over' PROVE MarkInv'
  BY DEF MarkInv
<1>4. /\ \A i, j \in DOMAIN marks : i <= j => marks[i] <= marks[j]
      /\ id = cur => \A i \in DOMAIN marks : marks[i] <= voicedAt
  BY <1>0 DEF MarkInv
<1>5. voicedAt <= voicedAt
  BY <1>3
<1> QED BY <1>0, <1>1, <1>2, <1>4, <1>5 DEF MarkInv

\* The marks are in order after any step.
LEMMA MarkInvKept == ASSUME IInv, Next PROVE MarkInv'
<1>0. /\ w \in WorkerRecord /\ WorkInv /\ NewInv /\ MarkInv /\ w' \in WorkerRecord
      /\ w.at \in Nat /\ w.text \in Nat
  BY Parts, RecordKept, Sizes DEF WorkerRecord, Words
<1>1. CASE Begin
  BY <1>1, BeginLeaves, BeginEmpties, MarksNone
<1>2. CASE (Caller \/ Reader \/ Cancel \/ Close) /\ ~Begin
  <2>1. UNCHANGED <<cur, wpc, w, id, over>>
    BY <1>2, OthersKeep
  <2>2. UNCHANGED marks
    BY <1>2 DEF Caller, Reader, Cancel, Close, BeginWakes, Write, End, ReadNothing, ReadSamples, ReadWake, shared
  <2> QED BY <1>0, <2>1, <2>2 DEF MarkInv, Resting, voicedAt
<1>3. CASE WorkStart
  <2>1. Resting /\ UNCHANGED <<id, over, marks>> /\ w'.inFlight = FALSE
    BY <1>3 DEF WorkStart, Fresh, Resting, shared
  <2>2. CASE over
    BY <2>1, <2>2 DEF MarkInv
  <2>3. CASE ~over
    <3>1. marks' = <<>>
      BY <1>0, <2>1, <2>3 DEF NewInv
    <3> QED BY <2>1, <3>1, MarksNone
  <2> QED BY <2>2, <2>3
<1>4. CASE WorkBegun \/ WorkFinish
  <2>1. Resting' /\ UNCHANGED marks /\ (~over' => ~over)
    BY <1>4 DEF WorkBegun, WorkFinish, Resting, shared
  <2> QED BY <1>0, <2>1 DEF MarkInv
<1>5. CASE EmitSend
  BY <1>5, MarksSent
<1>6. CASE QueueFrame
  <2>1. ~Resting /\ wpc = "queue" /\ UNCHANGED <<id, cur, over>>
    BY <1>6 DEF QueueFrame, Resting
  <2>2. CASE FrameStored /\ w' = [w EXCEPT !.inFlight = FALSE]
    BY <2>1, <2>2, MarksStored
  <2>3. CASE UNCHANGED <<marks, w>>
    BY <1>0, <2>1, <2>3, MarksStay
  <2> QED BY <1>6, <2>2, <2>3 DEF QueueFrame, FrameStored
<1>7. ASSUME TakeText \/ TakeFails \/ TakeWake \/ Prefill \/ GenerateFrame \/ QueueFails \/ QueueWake \/ CheckContext \/ Feed
      PROVE  ~Resting /\ UNCHANGED <<id, cur, over, marks>>
  BY <1>7 DEF TakeText, TakeFails, TakeWake, Prefill, GenerateFrame, QueueFails, QueueWake, CheckContext, Feed,
     Resting, shared
<1>8. CASE TakeText
  <2>1. w'.at = w.at /\ w'.text >= w.text /\ w'.inFlight = w.inFlight /\ w'.flight = w.flight
    BY <1>8, TakeTextKeeps
  <2> QED BY <1>0, <1>7, <1>8, <2>1, MarksStay
<1>9. CASE TakeFails \/ QueueFails
  BY <1>7, <1>9, MarksFail DEF TakeFails, QueueFails, Errors
<1>10. CASE TakeWake \/ QueueWake
  <2>1. Fail("ctx") \/ w' = w
    BY <1>10 DEF TakeWake, QueueWake, workerVars
  <2>2. CASE Fail("ctx")
    BY <1>7, <1>10, <2>2, MarksFail DEF Errors
  <2>3. CASE w' = w
    BY <1>0, <1>7, <1>10, <2>3, MarksStay
  <2> QED BY <2>1, <2>2, <2>3
<1>11. CASE Prefill \/ GenerateFrame \/ CheckContext
  <2>1. \/ Fail("model") \/ Fail("ctx")
        \/ w' = [w EXCEPT !.textAt = 1] \/ w' = [w EXCEPT !.phase = "feed"]
        \/ w' = [w EXCEPT !.then = "finish"] \/ w' = [w EXCEPT !.then = "send"]
    BY <1>11 DEF Prefill, GenerateFrame, Finish, CheckContext
  <2>2. CASE Fail("model") \/ Fail("ctx")
    BY <1>7, <1>11, <2>2, MarksFail DEF Errors
  <2>3. CASE ~(Fail("model") \/ Fail("ctx"))
    <3>1. w'.at = w.at /\ w'.text = w.text /\ w'.inFlight = w.inFlight /\ w'.flight = w.flight
      BY <1>0, <2>1, <2>3 DEF WorkerRecord
    <3> QED BY <1>0, <1>7, <1>11, <3>1, MarksStay
  <2> QED BY <2>2, <2>3
<1>12. CASE Feed
  <2>1. CASE Fail("model")
    BY <1>7, <1>12, <2>1, MarksFail DEF Errors
  <2>2. CASE wpc' = "frame"
    <3>1. w'.at >= w.at /\ w'.text = w.text /\ w'.inFlight = w.inFlight /\ w'.flight = w.flight
      BY <1>12, <2>2, FeedKeeps
    <3> QED BY <1>0, <1>7, <1>12, <3>1, MarksStay
  <2> QED BY <1>12, <2>1, <2>2 DEF Feed
<1> QED BY <1>1, <1>2, <1>3, <1>4, <1>5, <1>6, <1>8, <1>9, <1>10, <1>11, <1>12 DEF Next, Worker

-----------------------------------------------------------------------------
\* Voiced reads the mark of the frame a sample is in.
LEMMA VoicedMark ==
    ASSUME IInv, ~over, NEW n \in 1..read + held
    PROVE  /\ ((n - 1) \div FrameSamples) + 1 \in 1..Len(marks)
           /\ Voiced(n) = marks[((n - 1) \div FrameSamples) + 1]
<1>0. /\ RingType /\ MarksCount /\ FrameSamples \in Nat \ {0} /\ Len(marks) \in Nat
      /\ read \in Nat /\ held \in Nat
  BY Parts, Sizes, SMTT(20) DEF RingType
<1> DEFINE a == n - 1
           L == Len(marks)
<1>1. a \in Nat /\ a < FrameSamples * L
  BY <1>0 DEF MarksCount
<1>2. a \div FrameSamples \in Nat /\ a \div FrameSamples < L
  <2> HIDE DEF a, L
  <2>1. L \in Nat
    BY <1>0 DEF L
  <2> QED BY <1>0, <1>1, <2>1
<1>3. (IF n < read + held THEN n - 1 ELSE read + held - 1) = a
  BY <1>0
<1>4. marks # <<>>
  BY <1>0, <1>2
<1>5. Voiced(n) = marks[(a \div FrameSamples) + 1]
  BY <1>0, <1>3, <1>4 DEF Voiced
<1>6. (a \div FrameSamples) + 1 \in 1..L
  BY <1>0, <1>2
<1> QED BY <1>5, <1>6

\* Voiced never goes back while an utterance is spoken.
LEMMA VoicedIsMonotone == IInv => VoicedGrows
<1> SUFFICES ASSUME IInv, ~over, NEW n \in 1..read + held PROVE Voiced(n - 1) <= Voiced(n)
  BY DEF VoicedGrows
<1>0. /\ RingType /\ MarkInv /\ FrameSamples \in Nat \ {0} /\ read \in Nat /\ held \in Nat
      /\ \A i \in 1..Len(marks) : marks[i] \in Nat
      /\ DOMAIN marks = 1..Len(marks)
  <2>1. RingType /\ MarkInv
    BY Parts
  <2>2. read \in Nat /\ held \in Nat /\ marks \in Seq(0..MaxWords)
    BY <2>1, Sizes DEF RingType
  <2>3. \A i \in 1..Len(marks) : marks[i] \in Nat
    BY <2>2, Sizes
  <2> QED BY <2>1, <2>2, <2>3, Sizes
<1> DEFINE ix(m) == ((m - 1) \div FrameSamples) + 1
<1>1. ix(n) \in 1..Len(marks) /\ Voiced(n) = marks[ix(n)]
  BY VoicedMark
<1>2. CASE n = 1
  <2>1. Voiced(n - 1) = 0
    BY <1>2 DEF Voiced
  <2> QED BY <1>0, <1>1, <2>1
<1>3. CASE n > 1
  <2>1. n - 1 \in 1..read + held
    BY <1>0, <1>3
  <2>2. ix(n - 1) \in 1..Len(marks) /\ Voiced(n - 1) = marks[ix(n - 1)]
    BY <2>1, VoicedMark
  <2>3. ix(n - 1) <= ix(n)
    <3> DEFINE a == n - 1 - 1
               b == n - 1
    <3>1. a \in Nat /\ b \in Nat /\ a <= b
      BY <1>3
    <3> HIDE DEF a, b
    <3>2. a \div FrameSamples <= b \div FrameSamples
      BY <1>0, <3>1
    <3>3. a \div FrameSamples \in Int /\ b \div FrameSamples \in Int
      BY <1>0, <3>1
    <3>4. (a \div FrameSamples) + 1 <= (b \div FrameSamples) + 1
      BY <3>2, <3>3
    <3> QED BY <3>4 DEF a, b
  <2> HIDE DEF ix
  <2>4. marks[ix(n - 1)] <= marks[ix(n)]
    BY <1>0, <1>1, <2>2, <2>3 DEF MarkInv
  <2> QED BY <1>1, <2>2, <2>4
<1> QED BY <1>0, <1>2, <1>3

\* The inductive invariant holds at first.
LEMMA InitIInv == Init => IInv
<1> SUFFICES ASSUME Init PROVE IInv
  OBVIOUS
<1>1. w \in WorkerRecord
  BY Sizes DEF Init, Fresh, WorkerRecord, Words, Errors
<1>2. IdType /\ TextType /\ FlagType /\ PlaceType
  BY Sizes DEF Init, IdType, TextType, FlagType, PlaceType, Errors
<1>3. RingType
  BY Sizes DEF Init, RingType
<1>4. WorkInv /\ NewInv
  BY DEF Init, WorkInv, NewInv, InStep, Resting, Fresh
<1>5. MarksCount /\ RingHolds
  BY Sizes DEF Init, MarksCount, RingHolds
<1>6. MarkInv
  BY DEF Init, MarkInv, Resting, Fresh
<1> QED BY <1>1, <1>2, <1>3, <1>4, <1>5, <1>6, TypeParts DEF IInv, Control, Samples

\* The inductive invariant survives a step.
LEMMA NextIInv == IInv /\ [Next]_vars => IInv'
<1>1. ASSUME IInv, Next PROVE IInv'
  <2>1. TypeOK'
    BY <1>1, RecordKept, IdTypeKept, TextTypeKept, FlagTypeKept, PlaceTypeKept, RingTypeKept, TypePartsAfter
  <2>2. Control'
    BY <1>1, RecordKept, WorkInvKept, NewInvKept DEF Control
  <2>3. Samples'
    BY <1>1, MarksCountKept, RingHoldsKept DEF Samples
  <2> QED BY <1>1, <2>1, <2>2, <2>3, MarkInvKept DEF IInv
<1>2. ASSUME IInv, UNCHANGED vars PROVE IInv'
  <2> USE <1>2 DEF vars, shared, readerVars, workerVars
  <2>1. IInv
    BY <1>2
  <2>2. TypeOK'
    BY <2>1 DEF IInv, TypeOK
  <2>3. Control'
    BY <2>1 DEF IInv, Control, WorkInv, NewInv, InStep, Resting
  <2>4. Samples'
    BY <2>1 DEF IInv, Samples, MarksCount, RingHolds
  <2>5. MarkInv'
    BY <2>1 DEF IInv, MarkInv, Resting, voicedAt
  <2> QED BY <2>2, <2>3, <2>4, <2>5 DEF IInv
<1> QED BY <1>1, <1>2

\* qwen3tts.Synthesizer, Read and Voiced: the samples a Read will return are
\* those of the current utterance from the first unread one, in order; every
\* one has the mark of its frame; Voiced never decreases while it is spoken.
THEOREM SamplesAlwaysFollow == Spec => []SamplesFollow
<1>1. IInv => SamplesFollow
  BY VoicedIsMonotone DEF IInv, Samples, SamplesFollow
<1> QED BY <1>1, InitIInv, NextIInv, PTL DEF Spec

\* qwen3tts.Synthesizer.work: an utterance is ended by its own worker, and
\* never with the error of the one that Begin dropped.
THEOREM EndsAreOwn == Spec => []OwnEnd
<1>1. IInv => OwnEnd
  BY DEF IInv, Control, NewInv, OwnEnd
<1> QED BY <1>1, InitIInv, NextIInv, PTL DEF Spec
=============================================================================
