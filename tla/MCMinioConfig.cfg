SPECIFICATION FairSpec
CONSTANTS
    BackoffLimit = 2
    RequiredFields <- MCRequiredFields
    Revisions <- MCRevisions
    NoSecret = NoSecret
    MaxEdits = 2
INVARIANTS
    TypeOK
    SuccessIsOwnWrite
PROPERTIES
    NoLateSuccess
    ImplementsSecretOnce
    JobEnds
CHECK_DEADLOCK FALSE
