SPECIFICATION Spec
CONSTANTS
    BackoffLimit = 2
    Sources <- MCSources
    NoSecret = NoSecret
    MaxEdits = 1
INVARIANTS
    TypeOK
    ConnectorJustified
    ConflictNeedsOverlap
PROPERTIES
    ImplementsSecretOnce
CHECK_DEADLOCK FALSE
