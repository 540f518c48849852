\* Right frames on a connection that never fails, one of them cut at byte 10.
SPECIFICATION Spec
CONSTANTS
    Streams <- CutStreams
    Cuts <- CutCuts
    StackLens <- CutStackLens
    StackBytes <- ZeroBytes
    VoiceLen = 24
    VoiceHigh = 5
    ConnectionsFail = FALSE
PROPERTIES
    OnlyWrongFramesGivenUp
CHECK_DEADLOCK FALSE
