SPECIFICATION FairSpec
CONSTANTS
    BackoffLimit = 1
    MaxToggles = 1
    Packages <- InstallPackages
    Chain <- InstallChain
    Needs <- InstallNeeds
    Settings <- MCSettings
INVARIANTS
    TypeOK
    StageOrder
    ListOrder
    PrismCostsAPod
PROPERTIES
    InstallEnds
CHECK_DEADLOCK FALSE
