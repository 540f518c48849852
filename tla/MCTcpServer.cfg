\* Both ports and three connections; a number that is closed may come back on either port.
SPECIFICATION FairSpec
CONSTANTS
    Ports = {p1, p2}
    Fds = {f1, f2, f3}
    NoFd = NoFd
    MaxConns = 3
INVARIANTS
    TypeOK
    OwnOnly
PROPERTIES
    NoDeadPort
    LastIsServed
CHECK_DEADLOCK FALSE
