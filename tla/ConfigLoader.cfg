CONSTANTS
    NSources = 2
    Files <- MCFiles
    MaxSaves <- MCSaves
    Broken <- MCBroken
SPECIFICATION FairSpec
INVARIANTS
    SourcesInOrder
    NothingForgotten
PROPERTIES
    NeverBack
    ChangeTakesEffect
CHECK_DEADLOCK FALSE
