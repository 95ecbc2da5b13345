SPECIFICATION Spec
CONSTANTS
    Settings <- MCSettings
    MaxElems = 7
    MaxDepth = 5
    MaxMarkers = 2
INVARIANTS
    ReadingOrder
    TocRefsResolve
    LinksLocated
    PageMarkersMatch
    VignetteAtChapterEnd
CHECK_DEADLOCK FALSE
