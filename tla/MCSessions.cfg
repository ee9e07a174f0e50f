SPECIFICATION Spec
CONSTANTS
  Texts <- MCTexts
  Closer = {"."}
  Scaffolds <- MCScaffolds
  Replies <- MCReplies
  Think <- MCThink
  Limit = 14
  FirstRoom = 4
  Typical = 1
  roomAhead = 3
  ReplyTokens = {0, 3}
  SessionFaults = {"reserve", "evaluate", "logits", "write"}
  MaxTurns = 3
  Sequence = {"s1", "s2", "s3", "s4"}
  LongSequence = {"s1"}
  EmbedEntries = 3
  Homes = {6, 7}
  Word = {"a", "b"}
  MaxWords = 3
  ContextTokens = 3
  StreamTokens = 2
  SuffixTokens = 1
  PassTokens = 5
  AskFaults = {"evaluate", "cancel"}
  Windows = {4}
  MelFrames = 2
  TextContext = 10
  FirstTicks = 1
  Audios <- MCAudios
  Contexts <- MCContexts
  Partials <- MCPartials
  Languages = {"En", "De", "Fr"}
  AllowedLanguages = {"En", "Fr"}
  Modes = {"limited", "forced"}
  Step = 1
  EdgeFrames = 1
  PrefixFrames = 6
  MaxNew = 5
  MaxDraft = 4
  FirstCapacity = 6
  Block = 1
  AsrFaults = {"encode", "prefill"}
  MaxPasses = 3
  Voices <- MCVoices
  StyleLength <- MCStyleLength
  TalkerWords = 3
  MinFrames = 1
  MaxFrames = 4
  Groups = 3
  AlignStep = 2
  TalkerCapacity = 6
  TalkerLimit = 14
  TalkerFaults = {"prefill", "feed"}
  MaxUtterances = 3
  CutTexts <- MCCutTexts
  Contractions <- MCContractions
  AddedTokens <- MCAddedTokens
  BpePieces <- MCPieces
  MergeTables <- MCMergeTables
  ByteTexts <- MCByteTexts
  MaxPiece = 2
  Matrices <- MCMatrices
  TokenClasses = {"space", "in", "comma", "stop"}
  SegmentEdges <- MCEdges
  LastSpeech = {0, 1}
  EdgeSlack = 2
  MedianCap = 6
  Scripts <- MCScripts
  Longest = 2
  LineFrames = 2
  QuietGap = 1
  OverGap = 2
  Busy = 2
  LanesMayFail = TRUE
  MayCancel = TRUE
  Messages <- MCMessages
  ReplyTexts <- MCReplyTexts
  LaterTexts <- MCLaterTexts
  MaxRounds = 2
  EchoWords = 2
  MaxMark = 5
  Minute = 3
  Hour = 20
  WaitBits = 6
  RingSize = 3
  MaxBlock = 5
  MaxSamples = 8
  Recordings <- MCRecordings
  RawAnswers <- MCRawAnswers
  Calls <- MCCalls
  PieceAnswers <- MCPieceAnswers
  Announced <- MCAnnounced
  ModelLanguages = {"En", "De", "Fr"}
  MinSamples = 2
  FrameSamples = 2
  ChunkSamples = 3
  ChunkExpand = 2
  ChunkWindow = 2
  RepeatThreshold = 3
  MaxPattern = 2
  ForcedLanguage = "De"
  UnknownLanguage = "none"
INVARIANTS
  SessionSafe
  
  
  TextSafe
  SpeechSafe
PROPERTIES
  EveryRunEnds
CHECK_DEADLOCK FALSE
