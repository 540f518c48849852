SPECIFICATION FairSpec
CONSTANTS
    robot = robot
    manual = manual
    Receivers <- MCReceivers
    Timer = Timer
    Delay = 2
    MaxFees = 3
PROPERTIES
    DefaultOnlyAfterDelay
CHECK_DEADLOCK FALSE
