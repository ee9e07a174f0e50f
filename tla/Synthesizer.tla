---------------------------- MODULE Synthesizer ----------------------------
(***************************************************************************)
(* qwen3tts.Synthesizer (qwen3tts/synth.go): one lane of speech.  One      *)
(* goroutine begins utterances and writes their text, another reads the    *)
(* samples, a worker speaks; Begin replaces an utterance wherever the      *)
(* worker is in it.  They share the fields under mu and four channels that *)
(* each hold one wake-up.                                                  *)
(*                                                                         *)
(* An action is one critical section of mu, one channel operation, or one  *)
(* piece of work between two of those.  Text is counted in words, each a   *)
(* token; a frame has FrameSamples samples, and a sample is the utterance  *)
(* it belongs to and its number.  What the models answer is a choice: the  *)
(* end of speech, an error, how far the alignment moves.  The codec's      *)
(* goroutine only ever answers the worker, which waits for it, so decoding *)
(* is part of the worker's step.  The rows fed to the talker are the       *)
(* subject of Talker.                                                      *)
(***************************************************************************)
EXTENDS Integers, Sequences

CONSTANTS MinFrames,     \* minFrames
          MaxFrames,     \* maxFrames
          AudioFrames,   \* audioFrames: frames the ring holds
          FrameSamples,  \* FrameSamples
          PcmLen,        \* samples asked of Read
          MaxBegins,     \* bound: utterances
          MaxWords       \* bound: words of an utterance

ASSUME SynthAssumption ==
    /\ MinFrames \in Nat /\ MaxFrames \in Nat \ {0} /\ MaxBegins \in Nat /\ MaxWords \in Nat
    /\ AudioFrames \in Nat \ {0} /\ FrameSamples \in Nat \ {0} /\ PcmLen \in Nat \ {0}

Ring == AudioFrames * FrameSamples

VARIABLES
    id, cur,               \* utterances begun, and the one the worker speaks
    cut,                   \* the utterances whose context is done
    written, ended, taken, \* the text, in words
    over, err,             \* the worker is done, and what cut the utterance
    audio, head, held, read, marks,
    closed,
    tokens,                \* the wake-ups held by begun, wrote, queued and room
    waking,                \* Begin has yet to wake the worker
    rpc, rctx,             \* Read: where it is, and the context it waits on
    eof,                   \* history: Read has reported the end of this utterance
    wpc, w                 \* the worker, and its fields and locals

shared == <<id, written, ended, over, err, audio, head, held, read, marks>>
readerVars == <<rpc, rctx, eof>>
workerVars == <<cur, taken, wpc, w>>
vars == <<shared, cut, closed, tokens, waking, readerVars, workerVars>>

Errors == {"none", "dropped", "closed", "ctx", "model"}

\* Worker fields: text, pending (words), textAt, textDone, at (alignment),
\* first, inFlight, flight; locals: phase (who called pull), step,
\* then (where flush returns), err.
Fresh == [text |-> 0, pending |-> 0, textAt |-> 0, textDone |-> FALSE, at |-> 0,
          first |-> TRUE, inFlight |-> FALSE, flight |-> 0,
          phase |-> "prompt", step |-> 0, then |-> "end", err |-> "none"]

TypeOK ==
    /\ id \in 0..MaxBegins /\ cur \in 0..id /\ cut \subseteq 1..id
    /\ taken \in 0..MaxWords /\ written \in taken..MaxWords
    /\ ended \in BOOLEAN /\ over \in BOOLEAN /\ closed \in BOOLEAN /\ waking \in BOOLEAN /\ eof \in BOOLEAN
    /\ err \in Errors
    /\ audio \in [0..Ring - 1 -> Nat \X Nat]
    /\ head \in 0..Ring - 1 /\ held \in 0..Ring /\ read \in Nat
    /\ marks \in Seq(0..MaxWords)
    /\ tokens \subseteq {"begun", "wrote", "queued", "room"}
    /\ rpc \in {"idle", "wait"} /\ rctx \in 0..id
    /\ wpc \in {"idle", "start", "take", "takeWait", "prefill", "frame", "send", "queue", "roomWait",
                "ctx", "feed", "finish", "stopped"}
    /\ w.text \in 0..MaxWords /\ w.pending \in 0..MaxWords /\ w.textAt \in 0..MaxWords
    /\ w.flight \in 0..MaxWords /\ w.step \in 0..MaxFrames /\ w.err \in Errors

Init ==
    /\ id = 0 /\ cur = 0 /\ cut = {}
    /\ written = 0 /\ ended = FALSE /\ taken = 0
    /\ over = FALSE /\ err = "none"
    /\ audio = [i \in 0..Ring - 1 |-> <<0, 0>>] /\ head = 0 /\ held = 0 /\ read = 0 /\ marks = <<>>
    /\ closed = FALSE
    /\ tokens = {} /\ waking = FALSE
    /\ rpc = "idle" /\ rctx = 0 /\ eof = FALSE
    /\ wpc = "idle" /\ w = Fresh

-----------------------------------------------------------------------------
\* The caller's goroutine.  wake holds one wake-up on a channel.

wake(c) == tokens' = tokens \cup {c}

BugBeginWakes ==
    /\ waking
    /\ waking' = FALSE
    /\ tokens' = tokens \cup {"wrote", "room"}
    /\ UNCHANGED <<shared, cut, closed, readerVars, workerVars>>

\* Begin's wake-ups, after it has unlocked mu: the worker may be waiting on
\* the utterance that is dropped.
BeginWakes ==
    /\ waking
    /\ waking' = FALSE
    /\ tokens' = tokens \cup {"begun", "wrote", "room"}
    /\ UNCHANGED <<shared, cut, closed, readerVars, workerVars>>

\* What Begin clears.
BugBeginReset ==
    /\ written' = 0 /\ ended' = FALSE /\ taken' = 0
    /\ over' = FALSE /\ err' = "none"
    /\ head' = 0 /\ held' = 0 /\ read' = 0 /\ marks' = marks

BeginReset ==
    /\ written' = 0 /\ ended' = FALSE /\ taken' = 0
    /\ over' = FALSE /\ err' = "none"
    /\ head' = 0 /\ held' = 0 /\ read' = 0 /\ marks' = <<>>

Begin ==
    /\ ~waking /\ ~closed /\ id < MaxBegins
    /\ id' = id + 1
    /\ BeginReset
    /\ eof' = FALSE
    /\ waking' = TRUE
    /\ UNCHANGED <<audio, cut, closed, tokens, rpc, rctx, cur, wpc, w>>

\* The conditions of writable: Write and End change nothing otherwise,
\* except that End sets ended.
Writable == ~closed /\ id # 0 /\ ~ended /\ ~(over /\ err # "none") /\ id \notin cut

Write ==
    /\ ~waking /\ Writable /\ written < MaxWords
    /\ written' = written + 1
    /\ wake("wrote")
    /\ UNCHANGED <<id, ended, over, err, audio, head, held, read, marks, cut, closed, waking,
                   readerVars, workerVars>>

End ==
    /\ ~waking /\ id # 0 /\ ~ended
    /\ ended' = TRUE
    /\ wake("wrote")
    /\ UNCHANGED <<id, written, over, err, audio, head, held, read, marks, cut, closed, waking,
                   readerVars, workerVars>>

\* The context given to Begin ends.
Cancel ==
    /\ id \notin cut /\ id # 0
    /\ cut' = cut \cup {id}
    /\ UNCHANGED <<shared, closed, tokens, waking, readerVars, workerVars>>

\* Close; it waits for the worker to stop.
Close ==
    /\ ~closed
    /\ closed' = TRUE
    /\ UNCHANGED <<shared, cut, tokens, waking, readerVars, workerVars>>

-----------------------------------------------------------------------------
\* Read, for PcmLen samples or what is held of them.

ReadNothing ==
    /\ rpc = "idle"
    /\ ~closed /\ id # 0 /\ id \notin cut /\ held = 0
    /\ \/ over /\ eof' = (eof \/ err = "none") /\ UNCHANGED <<rpc, rctx>>
       \/ ~over /\ rpc' = "wait" /\ rctx' = id /\ UNCHANGED eof
    /\ UNCHANGED <<shared, cut, closed, tokens, waking, workerVars>>

ReadSamples ==
    /\ rpc = "idle"
    /\ ~closed /\ id # 0 /\ id \notin cut /\ held > 0
    /\ LET n == IF held < PcmLen THEN held ELSE PcmLen
       IN  head' = (head + n) % Ring /\ held' = held - n /\ read' = read + n
    /\ wake("room")
    /\ UNCHANGED <<id, written, ended, over, err, audio, marks, cut, closed, waking, readerVars,
                   workerVars>>

\* The select of Read: a wake-up, its context, or quit.
ReadWake ==
    /\ rpc = "wait"
    /\ \/ "queued" \in tokens /\ tokens' = tokens \ {"queued"}
       \/ (rctx \in cut \/ closed) /\ UNCHANGED tokens
    /\ rpc' = "idle"
    /\ UNCHANGED <<shared, cut, closed, waking, rctx, eof, workerVars>>

\* Voiced: the words the first n samples speak.
Voiced(n) ==
    LET decoded == read + held
    IN  IF n <= 0 THEN 0
        ELSE IF over /\ err = "none" /\ n >= decoded THEN written
        ELSE IF marks = <<>> THEN 0
        ELSE marks[(IF n < decoded THEN n - 1 ELSE decoded - 1) \div FrameSamples + 1]

-----------------------------------------------------------------------------
\* The worker.

\* A return with an error: speak waits for the frame in flight.
Fail(e) == wpc' = "finish" /\ w' = [w EXCEPT !.err = e, !.inFlight = FALSE]

WorkBegun ==
    /\ wpc = "idle"
    /\ \/ "begun" \in tokens /\ tokens' = tokens \ {"begun"} /\ wpc' = "start"
       \/ closed /\ wpc' = "stopped" /\ UNCHANGED tokens
    /\ UNCHANGED <<shared, cut, closed, waking, readerVars, cur, taken, w>>

\* work takes the utterance, generate resets and asks for its first words.
WorkStart ==
    /\ wpc = "start"
    /\ cur' = id
    /\ w' = Fresh
    /\ wpc' = "take"
    /\ UNCHANGED <<shared, cut, closed, tokens, waking, readerVars, taken>>

\* pull and tokenize: all of the text once it has ended, else the words
\* before the last white space, which begins the last word, and the first
\* word as it stands.
Tokenized(done, p) ==
    LET n == IF done THEN p ELSE IF w.text = 0 /\ p = 1 THEN 1 ELSE p - 1
    IN  [w EXCEPT !.text = w.text + n, !.pending = p - n, !.textDone = done]

\* Where generate and feed go on when pull returns.
AfterPull(v) ==
    wpc' = IF v.phase = "prompt"
           THEN IF v.text = 0 THEN (IF v.textDone THEN "finish" ELSE "take") ELSE "prefill"
           ELSE IF v.textAt >= v.text /\ ~v.textDone THEN "take" ELSE "feed"

\* The loop of take, under the lock.
TakeText ==
    /\ wpc = "take"
    /\ id = cur /\ ~closed
    /\ \/ taken < written
          /\ taken' = written
          /\ w' = Tokenized(FALSE, w.pending + (written - taken))
          /\ AfterPull(w')
       \/ taken = written /\ ended
          /\ w' = Tokenized(TRUE, w.pending)
          /\ AfterPull(w')
          /\ UNCHANGED taken
       \/ taken = written /\ ~ended /\ wpc' = "takeWait" /\ UNCHANGED <<taken, w>>
    /\ UNCHANGED <<shared, cut, closed, tokens, waking, readerVars, cur>>

TakeFails ==
    /\ wpc = "take"
    /\ \/ id # cur /\ Fail("dropped")
       \/ id = cur /\ closed /\ Fail("closed")
    /\ UNCHANGED <<shared, cut, closed, tokens, waking, readerVars, cur, taken>>

\* The select of take.
TakeWake ==
    /\ wpc = "takeWait"
    /\ \/ "wrote" \in tokens /\ tokens' = tokens \ {"wrote"} /\ wpc' = "take" /\ UNCHANGED w
       \/ cur \in cut /\ Fail("ctx") /\ UNCHANGED tokens
       \/ closed /\ wpc' = "take" /\ UNCHANGED <<tokens, w>>
    /\ UNCHANGED <<shared, cut, closed, waking, readerVars, cur, taken>>

\* prefill evaluates the prompt and the first word.
Prefill ==
    /\ wpc = "prefill"
    /\ \/ wpc' = "frame" /\ w' = [w EXCEPT !.textAt = 1]
       \/ Fail("model")
    /\ UNCHANGED <<shared, cut, closed, tokens, waking, readerVars, cur, taken>>

\* The end of generate: speak flushes the frame in flight.
Finish == 
    /\ wpc' = IF w.inFlight THEN "queue" ELSE "finish"
    /\ w' = [w EXCEPT !.then = "finish"]

\* One step of generate: the end of speech, which pick allows after
\* minFrames, an error of a model, or a frame for emit, which flushes the
\* one before.
GenerateFrame ==
    /\ wpc = "frame"
    /\ \/ (w.step = MaxFrames \/ w.step >= MinFrames) /\ Finish
       \/ w.step < MaxFrames /\ Fail("model")
       \/ /\ w.step < MaxFrames
          /\ wpc' = IF w.inFlight THEN "queue" ELSE "send"
          /\ w' = [w EXCEPT !.then = "send"]
    /\ UNCHANGED <<shared, cut, closed, tokens, waking, readerVars, cur, taken>>

\* voicedAt: the words up to the token the talker attends to.
voicedAt == IF w.at < w.text THEN w.at + 1 ELSE w.text

\* emit sends the frame to the decoder, and queues the first one at once.
EmitSend ==
    /\ wpc = "send"
    /\ w' = [w EXCEPT !.inFlight = TRUE, !.flight = voicedAt, !.first = FALSE, !.then = "ctx"]
    /\ wpc' = IF w.first THEN "queue" ELSE "ctx"
    /\ UNCHANGED <<shared, cut, closed, tokens, waking, readerVars, cur, taken>>

\* queue writes the frame behind the samples held, around the ring's end.
QueueAt == (head + held) % Ring

Stored == [i \in 0..Ring - 1 |->
             LET k == (i - QueueAt) % Ring
             IN  IF k < FrameSamples THEN <<cur, FrameSamples * Len(marks) + k + 1>> ELSE audio[i]]

QueueFrame ==
    /\ wpc = "queue"
    /\ id = cur /\ ~closed /\ cur \notin cut
    /\ \/ /\ Ring - held >= FrameSamples
          /\ audio' = Stored
          /\ held' = held + FrameSamples
          /\ marks' = Append(marks, w.flight)
          /\ w' = [w EXCEPT !.inFlight = FALSE]
          /\ wpc' = w.then
          /\ wake("queued")
       \/ Ring - held < FrameSamples /\ wpc' = "roomWait" /\ UNCHANGED <<audio, held, marks, w, tokens>>
    /\ UNCHANGED <<id, written, ended, over, err, head, read, cut, closed, waking,
                   readerVars, cur, taken>>

QueueFails ==
    /\ wpc = "queue"
    /\ \/ id # cur /\ Fail("dropped")
       \/ id = cur /\ closed /\ Fail("closed")
       \/ id = cur /\ ~closed /\ cur \in cut /\ Fail("ctx")
    /\ UNCHANGED <<shared, cut, closed, tokens, waking, readerVars, cur, taken>>

\* The select of queue; it waits on the context of the utterance.
QueueWake ==
    /\ wpc = "roomWait"
    /\ \/ "room" \in tokens /\ tokens' = tokens \ {"room"}
       \/ (cur \in cut \/ closed) /\ UNCHANGED tokens
    /\ wpc' = "queue"
    /\ UNCHANGED <<shared, cut, closed, waking, readerVars, cur, taken, w>>

\* generate looks at the context after each frame; feed needs a word, or
\* the end of the text.
CheckContext ==
    /\ wpc = "ctx"
    /\ \/ cur \in cut /\ Fail("ctx")
       \/ cur \notin cut /\ w' = [w EXCEPT !.phase = "feed"] /\ AfterPull(w')
    /\ UNCHANGED <<shared, cut, closed, tokens, waking, readerVars, cur, taken>>

\* feed evaluates the next row; the alignment moves on.
Feed ==
    /\ wpc = "feed"
    /\ \/ \E move \in 0..1 :
             w' = [w EXCEPT !.textAt = IF w.textAt < w.text THEN w.textAt + 1 ELSE w.textAt,
                            !.at = IF w.at < MaxWords THEN w.at + move ELSE w.at,
                            !.step = w.step + 1]
          /\ wpc' = "frame"
       \/ Fail("model")
    /\ UNCHANGED <<shared, cut, closed, tokens, waking, readerVars, cur, taken>>

\* work ends the utterance, unless Begin has replaced it.
BugCurrent == TRUE

Current == id = cur

WorkFinish ==
    /\ wpc = "finish"
    /\ IF Current THEN over' = TRUE /\ err' = w.err ELSE UNCHANGED <<over, err>>
    /\ wake("queued")
    /\ wpc' = "idle"
    /\ UNCHANGED <<id, written, ended, audio, head, held, read, marks, cut, closed, waking,
                   readerVars, cur, taken, w>>

Caller == BeginWakes \/ Begin \/ Write \/ End
Reader == ReadNothing \/ ReadSamples \/ ReadWake
Worker == \/ WorkBegun \/ WorkStart \/ TakeText \/ TakeFails \/ TakeWake \/ Prefill \/ GenerateFrame
          \/ EmitSend \/ QueueFrame \/ QueueFails \/ QueueWake \/ CheckContext \/ Feed
          \/ WorkFinish
Next == Caller \/ Reader \/ Worker \/ Cancel \/ Close

Spec == Init /\ [][Next]_vars

FairSpec == Spec /\ WF_vars(BeginWakes) /\ WF_vars(Reader) /\ WF_vars(Worker)

-----------------------------------------------------------------------------
\* What Read will return is what the current utterance says next: the ring
\* holds its samples from the first unread one, in order, across the ring's
\* end and whatever Begin has dropped.
RingHolds == \A i \in 0..held - 1 : audio[(head + i) % Ring] = <<id, read + i + 1>>

\* Every sample of the utterance has the mark of its frame, so Voiced never
\* looks past the marks.
MarksCount == read + held = FrameSamples * Len(marks)

\* speech.Synthesizer: Voiced "never decreases as samples grow"; while the
\* utterance is spoken.
VoicedGrows == ~over => \A n \in 1..read + held : Voiced(n - 1) <= Voiced(n)

\* Read and Voiced follow the utterance: its samples in order, a mark for
\* each, and never back.
SamplesFollow == TypeOK /\ RingHolds /\ MarksCount /\ VoicedGrows

\* An utterance is ended by its own worker: the end of the one that Begin
\* dropped, and errDropped, never reach the one that replaced it.
OwnEnd == over => cur = id /\ err # "dropped"

\* speech.Synthesizer.Read: "After the last sample it returns io.EOF": when
\* Read has returned io.EOF, there is nothing more to read.
EndIsFinal == eof => held = 0

\* An utterance whose text has ended ends, if its reader reads on.
UtteranceEnds == \A u \in 1..MaxBegins : (id = u /\ ended) ~> (over \/ id # u \/ closed)

\* Close stops the worker wherever it waits, and Read returns.
CloseReturns == closed ~> (wpc = "stopped" /\ rpc = "idle")

\* Utterances end, and so does the synthesizer.
EverythingEnds == UtteranceEnds /\ CloseReturns

=============================================================================
