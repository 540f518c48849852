\* The process may end when the switch is turned during a move, and the model
\* with it.
SPECIFICATION FairSpec
CONSTANTS
    robot = robot
    manual = manual
    Receivers <- MCReceivers
    NoOne = NoOne
INVARIANTS
    TypeOK
    EnergisedIsOwed
    Interlock
    NeverTerminates
PROPERTIES
    EveryPulseEnds
    ReceiverReturns
CHECK_DEADLOCK FALSE
