SPECIFICATION Spec
CONSTANTS
    MinFrames = 1
    MaxFrames = 2
    AudioFrames = 1
    FrameSamples = 2
    PcmLen = 2
    MaxBegins = 2
    MaxWords = 4
INVARIANTS EndIsFinal
CHECK_DEADLOCK FALSE
