CONSTANTS
    Layouts <- MCLayouts
    Metas <- MCMetas
    Covers <- MCCovers
    Modes <- MCModes
SPECIFICATION Spec
INVARIANTS
    TypeOK
    SavedAsPlanned
    PointersFollow
    ExthIsSound
    NamesOneThumbnail
    KeysAgree
CHECK_DEADLOCK FALSE
