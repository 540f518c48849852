SPECIFICATION Spec
CONSTANTS
    Streams <- WildStreams
    Cuts <- WildCuts
    StackLens <- SomeStackLens
    StackBytes <- SomeBytes
    VoiceLen = 24
    VoiceHigh = 0
    ConnectionsFail = TRUE
INVARIANTS
    DeliveredSoundly
CHECK_DEADLOCK FALSE
