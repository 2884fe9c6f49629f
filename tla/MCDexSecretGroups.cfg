SPECIFICATION Spec
CONSTANTS
    BackoffLimit = 0
    Sources <- MCSources
    NoSecret = NoSecret
    MaxEdits = 0
INVARIANT
    GroupsShareBase
CHECK_DEADLOCK FALSE
