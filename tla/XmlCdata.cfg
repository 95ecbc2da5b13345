SPECIFICATION TreeSpec
CONSTANTS
    Shapes <- MCShapes
    Texts <- MCTexts
    Paths <- MCPaths
    TextAfterText = TRUE
    MaxTokens = 5
    MaxEvents = 5
    MaxEdits = 1
INVARIANTS
    TextInOrder
CHECK_DEADLOCK FALSE
