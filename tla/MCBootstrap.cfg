SPECIFICATION BootSpec
CONSTANTS
    BackoffLimit = 1
    MaxToggles = 2
    MaxAttempts = 2
    Packages <- MCPackages
    Chain <- MCChain
    Needs <- MCNeeds
    Settings <- MCSettings
INVARIANTS
    OneRunPrepares
    MinioAgrees
CHECK_DEADLOCK FALSE
