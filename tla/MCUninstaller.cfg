SPECIFICATION FairSpec
CONSTANTS
    BackoffLimit = 1
    Packages <- MCPackages
    IstioPackages <- MCIstio
    Teardown <- MCTeardown
    Needs <- MCNeeds
    Settings <- MCSettings
    MaxMissed = 1
    MaxReapplies = 1
INVARIANTS
    TypeOK
    LeftIsMissed
    KindsOutlastInstances
PROPERTIES
    FailedIsFinal
    UninstallEnds
CHECK_DEADLOCK FALSE
