SPECIFICATION Spec
CONSTANTS
  Lanes = 2
  MaxTokens = 2
  MaxBatches = 2
  Loader = {p1, p2}
  Key = {k1, k2}
  MaxOpens = 2
  MaxDeaths = 1
  Caller = {c1, c2}
  Lists = {c1}
  Pages = 2
  MaxPings = 1
  PipeCap = 1
  Request = {r1, r2, r3}
  Workers = 1
  Models <- MCModels
  MaxPieces = 1
  Asker = {a1, a2}
  Question = {1, 2}
  maxQuestions = 1
  MaxAsks = 4
  MaxOpenings = 2
  Hears = {TRUE, FALSE}
  MaxSpeech = 3
  MaxUtts = 2
  LongestUtt = 3
  Shortest = 2
  ScribeFirst = 2
  ScribeStep = 1
  Check = 1
  PauseTime = 1
  UnfinishedPause = 2
  Rejudge = {1, 2}
  GiveUpPause = 2
  GiveUpUnfinished = 3
  MaxDetectorFaults = 1
  p1 = p1
  p2 = p2
  k1 = k1
  k2 = k2
  c1 = c1
  c2 = c2
  r1 = r1
  r2 = r2
  r3 = r3
  a1 = a1
  a2 = a2
INVARIANTS
  BatchSafe
  CacheSafe
  McpSafe
  ServerSafe
  
PROPERTIES
  QuestionsSafe
  EveryCallReturns
CHECK_DEADLOCK FALSE
