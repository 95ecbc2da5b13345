CONSTANTS
    MaxLevel = 3
    MaxEntries = 6
SPECIFICATION TocSpec
INVARIANTS
    DepthIsLimited
    NestingIsScoped
    ChaptersAreSiblings
CHECK_DEADLOCK FALSE
