CONSTANTS
    MaxFiles = 4
    Workers = {w1, w2, w3}
SPECIFICATION FairSpec
INVARIANTS
    ResultIsTrue
    ReportNeverBlocks
    NoFileLost
PROPERTIES
    Returns
    ImplementsContract
CHECK_DEADLOCK FALSE
