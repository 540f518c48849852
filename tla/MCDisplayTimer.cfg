SPECIFICATION FairSpec
CONSTANTS
    robot = robot
    manual = manual
    Receivers <- MCReceivers
    Timer = Timer
    Delay = 2
    MaxFees = 3
INVARIANTS
    TypeOK
    FlagTellsScreen
PROPERTIES
    DefaultComesBack
    EveryFeeIsShown
CHECK_DEADLOCK FALSE
