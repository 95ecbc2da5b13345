CONSTANTS
    NBooks = 2
    inner = inner
    outer = outer
    sub = sub
    dir = dir
    Targets <- MCTargets
    Dirs <- MCDirs
    Above <- MCAbove
    Faults <- NoFaults
SPECIFICATION FairSpec
INVARIANTS
    DeliveredStays
    AfterSaveSound
PROPERTIES
    OldFilesStay
    ReplacedWhenReady
    EveryBookIsTried
CHECK_DEADLOCK FALSE
