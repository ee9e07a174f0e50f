------------------------------- MODULE Talker -------------------------------
(***************************************************************************)
(* What the worker of qwen3tts's Synthesizer (synth.go) feeds its models:  *)
(* the voice's prompt, kept from one utterance to the next, the text as it *)
(* is written, and the frames' codes.  Synthesizer models the threads      *)
(* around it.                                                              *)
(*                                                                         *)
(* A row is named by what it embeds; a store holds the rows it was given.  *)
(* A word is a token; of the codes only their order counts.                *)
(***************************************************************************)
EXTENDS Integers, Sequences, FiniteSets, SequencesExt, FiniteSetsExt

CONSTANTS
    Voices,         \* a voice is a speaker, a language and a style: records
    StyleLength,    \* the tokens of a style: a function
    TalkerWords,    \* bound on the words of an utterance
    MinFrames,      \* minFrames
    MaxFrames,      \* maxFrames
    Groups,         \* codebooks of a frame
    AlignStep,      \* alignStep
    TalkerCapacity, \* positions of the first store (1024)
    TalkerLimit,    \* positions of the largest: MaxPositions
    TalkerFaults,   \* where the worker's step may fail
    MaxUtterances   \* bound on the utterances

ASSUME TalkerAssumption ==
    /\ \A n \in {TalkerWords, MinFrames, MaxFrames, Groups, AlignStep, TalkerCapacity, TalkerLimit, MaxUtterances} : n \in Nat
    /\ Groups > 1 /\ MinFrames <= MaxFrames /\ TalkerCapacity > 0

VARIABLES
    talk,    \* the utterance: its phase, voice, and its text so far
    talkerStore,   \* kv: its capacity and rows
    cached,  \* voice, voiceLang, voiceStyle and voiceRows
    codes,   \* ckv: the rows of the code predictor
    frame    \* the codes of the frame, and the inputs each was drawn from

talkerVars == <<talk, talkerStore, cached, codes, frame>>

NoVoice == [voice |-> CHOOSE v \in Voices : TRUE, rows |-> 0]
NoTalk == [phase |-> "idle", voice |-> CHOOSE v \in Voices : TRUE, pending |-> 0, words |-> 0, textDone |-> FALSE, textAt |-> 0,
           eosFed |-> FALSE, at |-> 0, steps |-> 0, start |-> 0, count |-> 0]

TalkerInit ==
    /\ talk = NoTalk /\ talkerStore = [capacity |-> 0, rows |-> <<>>] /\ cached = NoVoice /\ codes = <<>> /\ frame = <<>>

-----------------------------------------------------------------------------
(* The text.                                                               *)

\* reset, and generate for the next utterance.
Utter(voice) ==
    /\ talk.phase = "idle" /\ talk.count < MaxUtterances
    /\ talk' = [NoTalk EXCEPT !.phase = "first", !.voice = voice, !.count = talk.count + 1]
    /\ UNCHANGED <<talkerStore, cached, codes, frame>>

\* The loops that wait for text: for the first word, and for the next one.
Waits == ((talk.phase = "first" /\ talk.words = 0) \/ (talk.phase = "feed" /\ talk.textAt >= talk.words)) /\ ~talk.textDone

\* pull of n more words: those that something follows are tokenized, and the
\* first one at once.
PullWords(n) ==
    LET pending == talk.pending + n
        whole == IF talk.words = 0 /\ pending = 1 THEN 1 ELSE pending - 1
    IN /\ Waits /\ talk.pending + talk.words + n <= TalkerWords
       /\ talk' = [talk EXCEPT !.words = @ + whole, !.pending = pending - whole]
       /\ UNCHANGED <<talkerStore, cached, codes, frame>>

\* pull at the end of the text.
PullEnd ==
    /\ Waits
    /\ talk' = [talk EXCEPT !.words = @ + talk.pending, !.pending = 0, !.textDone = TRUE]
    /\ UNCHANGED <<talkerStore, cached, codes, frame>>

\* The utterance ends: take, a model or the context says so.
Drop == talk' = [NoTalk EXCEPT !.count = talk.count]

PullFails == Waits /\ Drop /\ UNCHANGED <<talkerStore, cached, codes, frame>>

NothingToSay == talk.phase = "first" /\ talk.textDone /\ talk.words = 0 /\ Drop /\ UNCHANGED <<talkerStore, cached, codes, frame>>

-----------------------------------------------------------------------------
(* The talker's rows.                                                      *)

Control(voice) ==
    (IF voice.language = "none" THEN <<"nothink", "bos", "eos">> ELSE <<"think", "bos", voice.language, "eos">>) \o <<voice.speaker, "pad", "codec">>

\* The rows of the prompt, and the row of the first word.
VoicePrompt(voice) ==
    [i \in 1 .. StyleLength[voice.style] |-> <<"style", voice.style, i>>] \o [i \in 1 .. 3 |-> <<"role", i>>]
        \o [i \in 1 .. Len(Control(voice)) - 1 |-> <<"control", Control(voice)[i]>>]
WordRow(i) == <<"text", i>>

\* The store of talkerRows for n rows after keep: a larger one, with room for
\* frames to come, takes over what is kept.
TalkerRoom(n, keep) ==
    LET need == keep + n + MaxFrames \div 4
        size == CHOOSE c \in {TalkerCapacity * 2^k : k \in 0 .. need} : c >= need /\ (c = TalkerCapacity \/ c \div 2 < need)
    IN IF talkerStore.capacity >= keep + n + 1 THEN talkerStore
       ELSE [capacity |-> Min({size, TalkerLimit}), rows |-> SubSeq(talkerStore.rows, 1, keep)]

TooLong(n, keep) == keep + n > TalkerRoom(n, keep).capacity

\* talkerRows: the rows after the first keep, or an error that leaves those.
TalkerRows(rows, keep, fails) ==
    /\ TooLong(Len(rows), keep) => fails
    /\ talkerStore' = [TalkerRoom(Len(rows), keep) EXCEPT !.rows = SubSeq(@, 1, keep) \o (IF fails THEN <<>> ELSE rows)]

\* Whether the prompt of the voice is in the talkerStore.
VoiceCached(voice) == cached.rows = Len(VoicePrompt(voice)) /\ cached.voice = voice /\ Len(talkerStore.rows) >= cached.rows

\* The voice whose prompt the talkerStore holds after prefill wrote it.
VoiceAfter(voice, fails) == [voice |-> voice, rows |-> IF fails THEN 0 ELSE Len(VoicePrompt(voice))]

\* prefill: with the voice in the talkerStore, the first word's row is enough.
TalkerPrefill(fails) ==
    LET voice == talk.voice
        known == VoiceCached(voice)
    IN /\ talk.phase = "first" /\ talk.words > 0
       /\ IF known THEN TalkerRows(<<WordRow(1)>>, cached.rows, fails) /\ cached' = cached
          ELSE TalkerRows(VoicePrompt(voice) \o <<WordRow(1)>>, 0, fails) /\ cached' = VoiceAfter(voice, fails)
       /\ IF fails THEN Drop
          ELSE talk' = [talk EXCEPT !.phase = "frame", !.textAt = 1, !.start = Len(VoicePrompt(voice))]
       /\ UNCHANGED <<codes, frame>>

-----------------------------------------------------------------------------
(* The frames.                                                             *)

\* generate's step: the end, which pick allows after minFrames, or the first
\* code, from which predict starts.
GenerateFrame ==
    /\ talk.phase = "frame"
    /\ \/ talk.steps >= MinFrames /\ Drop /\ UNCHANGED <<codes, frame>>
       \/ /\ talk.steps < MaxFrames
          /\ talk' = [talk EXCEPT !.phase = "codes"]
          /\ frame' = <<[from |-> talkerStore.rows]>>
          /\ codes' = <<Len(talkerStore.rows), <<talk.steps, 0>>>>
    /\ UNCHANGED <<talkerStore, cached>>

\* The positions that predict keeps for the row of code g.
CodeKeep(g) == g + 1

\* predict: the next code, and its row for the one after it.
PredictCode ==
    LET g == Len(frame) IN
    /\ talk.phase = "codes" /\ g < Groups
    /\ frame' = Append(frame, [from |-> codes])
    /\ codes' = IF g = Groups - 1 THEN codes ELSE Append(SubSeq(codes, 1, CodeKeep(g)), <<talk.steps, g>>)
    /\ UNCHANGED <<talk, talkerStore, cached>>

PredictFails == talk.phase = "codes" /\ Drop /\ UNCHANGED <<talkerStore, cached, codes, frame>>

\* emit takes the frame, and the context is alive.
Emit ==
    /\ talk.phase = "codes" /\ Len(frame) = Groups
    /\ talk' = [talk EXCEPT !.phase = "feed"]
    /\ UNCHANGED <<talkerStore, cached, codes, frame>>

\* The last position of the text that a probe of the next row may read: its
\* own.  Those after it read 0.
Attended == Len(talkerStore.rows) - talk.start

MayFeed == talk.phase = "feed" /\ ~Waits

\* feed: the next word's row, the end of the text once, and padding; the
\* alignment head moves on among the positions the talker has.
Feed(fails) ==
    LET row == IF talk.textAt < talk.words THEN WordRow(talk.textAt + 1) ELSE IF ~talk.eosFed THEN <<"eos">> ELSE <<"pad">>
    IN /\ MayFeed
       /\ TalkerRows(<<row>>, Len(talkerStore.rows), fails)
       /\ \E best \in 0 .. AlignStep :
             /\ talk.at + best <= Attended
             /\ IF fails THEN best = 0 /\ Drop
                ELSE talk' = [talk EXCEPT !.phase = "frame", !.steps = @ + 1, !.at = @ + best,
                                          !.textAt = Min({@ + 1, talk.words}), !.eosFed = @ \/ talk.textAt >= talk.words]
       /\ UNCHANGED <<cached, codes, frame>>

TalkerMayFail(where) == where \in TalkerFaults

TalkerNext ==
    \/ \E voice \in Voices : Utter(voice)
    \/ \E n \in 1 .. 2 : PullWords(n)
    \/ PullEnd \/ PullFails \/ NothingToSay
    \/ \E fails \in BOOLEAN : (fails => TalkerMayFail("prefill")) /\ TalkerPrefill(fails)
    \/ GenerateFrame \/ PredictCode \/ PredictFails \/ Emit
    \/ \E fails \in BOOLEAN : (fails => TalkerMayFail("feed") \/ TooLong(1, Len(talkerStore.rows))) /\ Feed(fails)

-----------------------------------------------------------------------------
TalkerTypeOK ==
    /\ talk.phase \in {"idle", "first", "frame", "codes", "feed"} /\ talk.words \in 0 .. TalkerWords /\ talk.steps \in 0 .. MaxFrames
    /\ Len(talkerStore.rows) <= talkerStore.capacity /\ Len(codes) <= Groups + 1

Speaking == talk.phase \in {"frame", "codes", "feed"}

\* Whatever was spoken, failed or was interrupted before, the talker has
\* read the prompt of this voice, then each word of the text once and in
\* order, then its end once and padding: no end of a text still to come.
ReadsText ==
    Speaking =>
        /\ SubSeq(talkerStore.rows, 1, talk.start) = VoicePrompt(talk.voice)
        /\ \A i \in talk.start + 1 .. Len(talkerStore.rows) :
              LET k == i - talk.start IN
              talkerStore.rows[i] = (IF k <= talk.words THEN WordRow(k) ELSE IF k = talk.words + 1 THEN <<"eos">> ELSE <<"pad">>)
        /\ Len(talkerStore.rows) - talk.start > talk.words => talk.textDone

\* Every code of a frame is drawn from the talker's state and all the codes
\* of the frame before it.
FrameInOrder ==
    Len(frame) = Groups /\ talk.phase \in {"codes", "feed"} =>
        /\ frame[1].from = talkerStore.rows
        /\ \A g \in 2 .. Groups : frame[g].from = <<Len(talkerStore.rows)>> \o [i \in 1 .. g - 1 |-> <<talk.steps, i - 1>>]

\* The text that voicedAt reports has been read by the talker.
VoicedIsRead == Speaking => talk.words > 0 /\ Min({talk.at, talk.words - 1}) < Len(talkerStore.rows) - talk.start
=============================================================================
