SPECIFICATION FairSpec
CONSTANTS
    MaxVersion = 2
    NoURL = {0}
    NoConfig = NoConfig
INVARIANTS
    TypeOK
    ExitAfterTimer
PROPERTIES
    SettledStays
    Converges
    StatusRecovers
    CycleEnds
    ExitCompletes
