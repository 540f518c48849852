SPECIFICATION FairSpec
CONSTANTS
    Callers = {r1, r2}
    None = none
    MaxCalls = 2
    MaxFrames = 3
    MaxTurns = 1
    Frames <- MCFrames
    StackTypes <- MCStackTypes
INVARIANTS
    TypeOK
    OneLateCommand
    SpeaksItsText
    HeardWhole
PROPERTIES
    AnswersAreEarned
    EveryFrameEnds
CHECK_DEADLOCK FALSE
