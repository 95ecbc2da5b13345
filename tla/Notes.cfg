SPECIFICATION Spec
CONSTANTS
    Modes = {"default", "inline", "block", "float", "float-new"}
    n1 = n1
    n2 = n2
    b1 = b1
    b2 = b2
    Ids <- MCIds
    Names <- MCNames
    Outside = FALSE
    MaxBodies = 2
    MaxEvents = 7
    MaxFiles = 2
SYMMETRY Symmetric
INVARIANTS
    NoteLinksResolve
    BackRefsResolve
    NotesInPlace
CHECK_DEADLOCK FALSE
