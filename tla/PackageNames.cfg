SPECIFICATION Spec
CONSTANTS
    Settings <- SkippingSettings
    BinaryKinds = {"jpeg", "broken"}
    Ids = {"i", "j"}
    Vignettes <- MCVignettes
    MaxBinaries = 2
    MaxFiles = 2
    MaxShown = 2
INVARIANTS
    EveryImageIsThere
CHECK_DEADLOCK FALSE
