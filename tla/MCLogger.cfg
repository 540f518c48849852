SPECIFICATION FairSpec
CONSTANTS
    Threads = {t1, t2}
    Capacity = 3
    FileLimit = 2
    LogDays = 1
    Dates <- MCDates
    MaxLines = 3
    MaxRestarts = 1
INVARIANTS
    TypeOK
    InOrder
    FilesInOrder
PROPERTIES
    EnteredIsWritten
CHECK_DEADLOCK FALSE
