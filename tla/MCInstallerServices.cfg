SPECIFICATION FairSpec
CONSTANTS
    BackoffLimit = 1
    MaxToggles = 0
    Packages <- InstallPackages
    Chain <- InstallChain
    Needs <- InstallNeeds
    Settings <- MCSettings
INVARIANT
    SuccessMeansServices
CHECK_DEADLOCK FALSE
