----------------------------- MODULE MCSessions -----------------------------
(***************************************************************************)
(* What a lane of a model keeps between two calls and computes in one:     *)
(* conversations, embeddings and answers, transcription of windows and of  *)
(* growing audio, the talker's frames, the tokenizers, word times, the     *)
(* writer of a reply, rings of samples, cuts of long audio, and the runner *)
(* that plays scripts against all of them.  Each has an instance of its    *)
(* own: a behaviour is one of the part that focus names.                   *)
(***************************************************************************)
EXTENDS Session, Encoder, Asking, WhisperWindows, AsrLane, Talker, Tokenizer, WordTimes, Scenario,
        ReplyWriter, SampleRing, LongAudio

VARIABLE focus

\* Conversations: replies that end, that do not, that call, that fail to.
MCTexts == {<<"a">>, <<"b">>, <<"b", ".">>}
MCScaffolds == {{<<"t", "u", "x">>, <<"t", "y">>}}
MCReplies ==
    {<<"a", "end">>, <<"a", "a", "a", "a", "a", "a">>, <<"open", "t", "u", "x", "close", "a">>, <<"open", "t", "u", "end">>,
     <<"open", "t", "open", "t", "u", "x", "close">>, <<"open", "t", "close", "open", "x", "close">>}
MCThink == <<>>

\* Audio that grows, that changes at its front, and that starts over.
MCAudios == {<<1, 1>>, <<1, 1, 1>>, <<1, 1, 1, 1>>, <<2, 1, 1, 1>>}
MCContexts == {<<>>}
MCPartials == {[language |-> "De", words |-> <<"w">>]}

MCVoices ==
    {[speaker |-> "a", language |-> "en", style |-> "calm"], [speaker |-> "a", language |-> "en", style |-> "loud"],
     [speaker |-> "a", language |-> "none", style |-> "long"]}
MCStyleLength == [s \in {"calm", "loud", "long"} |-> IF s = "long" THEN 2 ELSE 1]

\* Every text of up to three characters, every piece of up to six bytes and
\* every text of up to three bytes, one or two of each class of byte, and the
\* longer ones of fewer classes.
MCChars == {"s", "l", "mark", "number", "quote", "lt", "space", "newline"}
MCCutTexts ==
    UNION {[1 .. n -> MCChars] : n \in 1 .. 3} \cup [1 .. 2 -> MCChars \cup {"tab"}] \cup
    [1 .. 4 -> {"s", "lt", "space"}] \cup [1 .. 4 -> {"l", "quote", "number", "newline", "space"}]
MCContractions == {<<"s">>, <<"l", "l">>}
MCAddedTokens == {<<"lt", "s">>, <<"lt", "s", "space", "lt">>}
MCPieces == UNION {[1 .. n -> {1, 2}] : n \in 1 .. 6}
\* The merge of rank i makes token i + 3: 1 and 2 are the bytes.
MergesOf(pairs) ==
    [p \in ToSet(pairs) |-> LET i == CHOOSE i \in DOMAIN pairs : pairs[i] = p IN [rank |-> i - 1, token |-> i + 2]]
MCMergeTables ==
    {MergesOf(<<<<1, 1>>, <<3, 3>>, <<2, 1>>>>), MergesOf(<<<<1, 2>>, <<2, 1>>, <<3, 1>>, <<4, 3>>>>),
     MergesOf(<<<<2, 2>>, <<1, 2>>, <<4, 1>>, <<1, 3>>>>)}
MCByteTexts ==
    UNION {[1 .. n -> {97, 128, 144, 160, 194, 224, 237, 240, 244}] : n \in 1 .. 3} \cup
    [1 .. 4 -> {97, 128, 144, 240, 244}]

MCWeights == {<<1, 0, 0, 0>>, <<0, 0, 1, 1>>, <<0, 0, 0, 2>>}
MCMatrices == [1 .. 4 -> MCWeights]
MCEdges == {<<0, 4>>, <<4, 6>>, <<4, 12>>}

L(kind, dur) == [kind |-> kind, dur |-> dur]
MCScripts ==
    {<<L("note", 0), L("speaks", 2), L("says", 2)>>, <<L("user", 0), L("starts", 1), L("user", 0), L("stops", 2), L("says", 2)>>,
     <<L("wait", 1), L("goes on", 1), L("silent", 2)>>, <<L("user", 0), L("goes on", 1)>>,
     <<L("silent", 1), L("note", 0), L("speaks", 1)>>}

\* Replies: every text of up to three bytes of six classes, repetitions of the
\* message, and markers with and without a time, an end and a length.
MCMessages == {<<"a", " ", "a">>, <<>>}
MCLaterTexts == {<<>>, <<" ", "b">>, <<"<", "s", ">">>}
MCReplyTexts ==
    UNION {[1 .. n -> {"a", " ", "*", "<", "s", ">"}] : n \in 1 .. 2} \cup [1 .. 3 -> {"a", " ", "*", "<"}] \cup [1 .. 4 -> {"<", "s", ">"}] \cup
    {<<"a", " ", "a", ".", " ", "a", "<", "s", ">">>, <<"a", " ", "a", "<", "s", ">">>, <<"<", "s", "7", "m", ">", "a">>,
     <<"<", "s", "7", "7", ">">>, <<"<", "s", "7", "m", "s", ">">>, <<"a", "<", "s", "u", ">">>,
     <<"<", "s", "a", "a", "a", "a", ">">>, <<"a", "e", "+", " ", "h", "h">>, <<"h", "e", "+", "b">>}

\* Audio of two and three pieces, every kind of call, and answers with and
\* without a language, with blanks and with repetitions.
MCRecordings == [1 .. 7 -> 0 .. 1] \cup {<<2, 0, 1, 2, 1, 1, 2>>, <<1, 2, 2, 0, 1, 2, 0>>} \cup [1 .. 5 -> 0 .. 1] \cup {<<>>, <<1>>, <<1, 0, 1>>}
PlainCall ==
    [language |-> UnknownLanguage, languages |-> {}, segments |-> TRUE, turn |-> TRUE, words |-> FALSE, partial |-> TRUE, head |-> TRUE,
     closed |-> FALSE]
MCCalls ==
    {PlainCall, [PlainCall EXCEPT !.language = "De", !.languages = {"En", "De"}], [PlainCall EXCEPT !.languages = {"En"}, !.segments = FALSE],
     [PlainCall EXCEPT !.languages = {"En", "De"}, !.turn = FALSE], [PlainCall EXCEPT !.languages = {"En", "It"}],
     [PlainCall EXCEPT !.language = "It"], [PlainCall EXCEPT !.words = TRUE], [PlainCall EXCEPT !.head = FALSE], [PlainCall EXCEPT !.closed = TRUE]}
MCAnnounced == [a \in {"language En", "language De", "language Fr"} |-> IF a = "language En" THEN "En" ELSE IF a = "language De" THEN "De" ELSE "Fr"]
MCPieceAnswers == {<<"language En", Tag, " ", "x">>, <<"language Fr", "newline", Tag, "y">>, <<NoLanguage, Tag>>, <<"x">>, <<>>}
MCRawAnswers ==
    UNION {[1 .. n -> {"x", "y"}] : n \in 0 .. 9} \cup UNION {[1 .. n -> {"x", " "}] : n \in 1 .. 7} \cup
    {<<"language En", Tag>> \o s : s \in UNION {[1 .. n -> {"x", "y", " "}] : n \in 0 .. 4}} \cup
    UNION {[1 .. n -> {"language En", "language De", NoLanguage, "newline", " ", Tag, "x"}] : n \in 1 .. 4}

vars == <<focus, sessionVars, encoderVars, askingVars, whisperVars, laneVars, talkerVars, tokenizerVars, wordsVars, scenarioVars, writerVars, ringVars, longVars>>

Init ==
    /\ focus \in {"session", "encoder", "asking", "whisper", "lane", "talker", "tokenizer", "words", "scenario", "writer", "ring", "long"}
    /\ SessionInit
    /\ EncoderInit /\ (focus # "encoder" => home = [s \in Sequence |-> 6])
    /\ AskingInit
    /\ WhisperInit /\ (focus # "whisper" => rules)
    /\ LaneInit /\ TalkerInit
    /\ ScenarioInit /\ (focus # "scenario" => Len(play.script) = 2)
    /\ IF focus = "tokenizer" THEN TokenizerInit ELSE job = [kind |-> "none"]
    /\ IF focus = "words" THEN WordsInit ELSE words = [phase |-> "none", list |-> <<>>]
    /\ WriterInit /\ (focus # "writer" => answering = <<>> /\ left = <<"a">>)
    /\ RingInit
    /\ IF focus = "long" THEN LongInit /\ (long.kind = "audio" => Len(long.pcm) < 7 \/ long.call = PlainCall) ELSE long = [kind |-> "none"]

OfSession(A) ==
    /\ focus = "session" /\ A
    /\ UNCHANGED <<focus, encoderVars, askingVars, whisperVars, laneVars, talkerVars, tokenizerVars, wordsVars, scenarioVars, writerVars, ringVars, longVars>>
OfEncoder(A) ==
    /\ focus = "encoder" /\ A
    /\ UNCHANGED <<focus, sessionVars, askingVars, whisperVars, laneVars, talkerVars, tokenizerVars, wordsVars, scenarioVars, writerVars, ringVars, longVars>>
OfAsking(A) ==
    /\ focus = "asking" /\ A
    /\ UNCHANGED <<focus, sessionVars, encoderVars, whisperVars, laneVars, talkerVars, tokenizerVars, wordsVars, scenarioVars, writerVars, ringVars, longVars>>
OfWhisper(A) ==
    /\ focus = "whisper" /\ A
    /\ UNCHANGED <<focus, sessionVars, encoderVars, askingVars, laneVars, talkerVars, tokenizerVars, wordsVars, scenarioVars, writerVars, ringVars, longVars>>
OfLane(A) ==
    /\ focus = "lane" /\ A
    /\ UNCHANGED <<focus, sessionVars, encoderVars, askingVars, whisperVars, talkerVars, tokenizerVars, wordsVars, scenarioVars, writerVars, ringVars, longVars>>
OfTalker(A) ==
    /\ focus = "talker" /\ A
    /\ UNCHANGED <<focus, sessionVars, encoderVars, askingVars, whisperVars, laneVars, tokenizerVars, wordsVars, scenarioVars, writerVars, ringVars, longVars>>
OfTokenizer(A) ==
    /\ focus = "tokenizer" /\ A
    /\ UNCHANGED <<focus, sessionVars, encoderVars, askingVars, whisperVars, laneVars, talkerVars, wordsVars, scenarioVars, writerVars, ringVars, longVars>>
OfWords(A) ==
    /\ focus = "words" /\ A
    /\ UNCHANGED <<focus, sessionVars, encoderVars, askingVars, whisperVars, laneVars, talkerVars, tokenizerVars, scenarioVars, writerVars, ringVars, longVars>>
OfScenario(A) ==
    /\ focus = "scenario" /\ A
    /\ UNCHANGED <<focus, sessionVars, encoderVars, askingVars, whisperVars, laneVars, talkerVars, tokenizerVars, wordsVars, writerVars, ringVars, longVars>>
OfWriter(A) ==
    /\ focus = "writer" /\ A
    /\ UNCHANGED <<focus, sessionVars, encoderVars, askingVars, whisperVars, laneVars, talkerVars, tokenizerVars, wordsVars, scenarioVars, ringVars, longVars>>
OfRing(A) ==
    /\ focus = "ring" /\ A
    /\ UNCHANGED <<focus, sessionVars, encoderVars, askingVars, whisperVars, laneVars, talkerVars, tokenizerVars, wordsVars, scenarioVars, writerVars, longVars>>
OfLong(A) ==
    /\ focus = "long" /\ A
    /\ UNCHANGED <<focus, sessionVars, encoderVars, askingVars, whisperVars, laneVars, talkerVars, tokenizerVars, wordsVars, scenarioVars, writerVars, ringVars>>

Next ==
    \/ OfSession(SessionNext) \/ OfEncoder(EncoderNext) \/ OfAsking(AskingNext) \/ OfWhisper(WhisperNext)
    \/ OfLane(LaneNext) \/ OfTalker(TalkerNext) \/ OfTokenizer(TokenizerNext) \/ OfWords(WordsNext) \/ OfScenario(ScenarioNext)
    \/ OfWriter(WriterNext) \/ OfRing(RingNext) \/ OfLong(LongNext)

\* A transcription runs, and so do both goroutines of a scenario; calls need
\* not come, and the agent need not fail.
Spec ==
    /\ Init /\ [][Next]_vars
    /\ WF_vars(OfWhisper(WhisperNext))
    /\ WF_vars(OfScenario(Tick)) /\ WF_vars(OfScenario(LoopStops)) /\ WF_vars(OfScenario(Pass)) /\ WF_vars(OfScenario(PlayNext))

\* Embeddings, questions and contexts answer what they are asked, whatever
\* the cache evicted and the stores kept of earlier questions.
AnswersSafe ==
    EncoderTypeOK /\ OwnVector /\ ChainsWhole /\ AnswersAsked /\ ContextFollows /\ PassesCover

\* A transcript is of the audio it was asked for: every pass reads all of it
\* and of nothing else, long audio is cut where it is quiet and only runaway
\* repetitions are taken out; segments and words go forward and tile their
\* window.
TranscriptsSafe ==
    /\ LaneTypeOK /\ ReadsAll /\ TurnState /\ Provenance /\ LanguageLimited
    /\ CutQuiet /\ PiecesWhole /\ OnlyRunaways
    /\ PositionsFit /\ SegmentsTile /\ SegmentsForward
    /\ JumpsForward /\ WordsForward /\ WordsTile

\* Tokens, pieces and bytes are those of the reference definitions.
TextSafe == PieceOfPattern /\ MergesAgree /\ RepairedAlike /\ BoundariesWhole /\ WritesWhole

\* What is spoken is the text: the writer of a reply passes it on whole but
\* for markers and echoes, captions and memory cut it at words, the talker
\* reads all of it in order, and rings play it in order; a script judges the
\* reply that follows its stimulus.
SpeechSafe ==
    /\ SaidWhole /\ VoiceFollows /\ WaitKept /\ KeptWasHeard /\ CaptionsWhole /\ LoopMoves
    /\ RingIsFifo
    /\ TalkerTypeOK /\ ReadsText /\ FrameInOrder /\ VoicedIsRead
    /\ ReplyIsNew

\* A transcription ends, whatever timestamps the model gives: every window
\* moves on, and not past the audio it read.  And Run of a script returns,
\* unless the agent fails: every line's wait ends.
EveryRunEnds ==
    /\ SeeksForward
    /\ <>((focus = "whisper" => WhisperDone) /\ (focus = "scenario" => Returned \/ run.loop = "failed"))
=============================================================================
