SPECIFICATION TreeSpec
CONSTANTS
    Shapes <- MCShapes
    Texts <- MCTexts
    Paths <- MCPaths
    TextAfterText = FALSE
    MaxTokens = 5
    MaxEvents = 5
    MaxEdits = 1
INVARIANTS
    TreeOK
    TextInOrder
    IndentTouchesNoText
    RelativePathFinds
    ResultsAsDenoted
CHECK_DEADLOCK FALSE
