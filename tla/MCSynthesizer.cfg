SPECIFICATION FairSpec
CONSTANTS
    MinFrames = 1
    MaxFrames = 3
    AudioFrames = 2
    FrameSamples = 2
    PcmLen = 3
    MaxBegins = 2
    MaxWords = 2
INVARIANTS
  SamplesFollow
  OwnEnd
PROPERTIES
  EverythingEnds
CHECK_DEADLOCK FALSE
