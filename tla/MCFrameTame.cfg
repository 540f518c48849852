SPECIFICATION Spec
CONSTANTS
    Streams <- TameStreams
    Cuts <- TameCuts
    StackLens <- NoStackLens
    StackBytes <- ZeroBytes
    VoiceLen = 24
    VoiceHigh = 5
    ConnectionsFail = FALSE
INVARIANTS
    TypeOK
    NoLeftoverHeader
PROPERTIES
    ChannelSpec
CHECK_DEADLOCK FALSE
