SPECIFICATION Spec
CONSTANTS
    BackoffLimit = 3
    Names <- MCNames
    Alike <- MCAlike
    NoList = NoList
    MaxEdits = 2
INVARIANTS
    TypeOK
    DuplicatesAreExplained
    SuccessIsMention
PROPERTIES
    OthersKept
CHECK_DEADLOCK FALSE
