SPECIFICATION FairSpec
CONSTANTS
    Lines <- MCLines
    Boot <- MCBoot
    NoLine = NoLine
    MaxPuts = 3
    Worlds <- MCWorlds
INVARIANTS
    TypeOK
    QuietMeansShown
PROPERTIES
    BoardSpec
    NeverGoesBack
    EveryStatusIsTaken
CHECK_DEADLOCK FALSE
