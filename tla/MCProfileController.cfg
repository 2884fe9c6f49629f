SPECIFICATION FairSpec
CONSTANTS
    Program <- MCProgram
    Namespaces = {n1}
    Kinds <- MCKinds
    MaxReleases = 2
    MaxRotations = 1
    MaxEdits = 1
INVARIANTS
    TypeOK
    CopiesAgree
    ReadyIsComplete
PROPERTIES
    CopyIsStable
    Converges
CHECK_DEADLOCK FALSE
