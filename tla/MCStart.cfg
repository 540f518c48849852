SPECIFICATION MCSpec
CONSTANTS
    MaxLines = 4
    Files <- MCFiles
    Numbers <- MCNumbers
    PinNumbers <- MCPinNumbers
    Faults <- MCFaults
INVARIANTS
    TypeOK
    StartsAsConfigured
