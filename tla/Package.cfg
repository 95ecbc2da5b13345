SPECIFICATION Spec
CONSTANTS
    Settings <- MCSettings
    BinaryKinds = {"jpeg", "webp", "svg", "broken"}
    Ids = {"i", "j"}
    Vignettes <- MCVignettes
    MaxBinaries = 2
    MaxFiles = 2
    MaxShown = 2
INVARIANTS
    ManifestIsTheBook
    RefsResolve
    CoverIsMarked
    KindleReadsImages
CHECK_DEADLOCK FALSE
