\* All coils can be read; enough changes for the sequence byte to wrap.
SPECIFICATION CoilFairSpec
CONSTANTS
    N = 2
    Broken <- None
    Clients <- Both
    MaxEvents = 8
INVARIANTS
    CoilTypeOK
PROPERTIES
    NeverLeftWrong
    FreshClientLearns
    ChangesAreNumbered
CHECK_DEADLOCK FALSE
