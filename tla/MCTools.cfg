SPECIFICATION Spec
CONSTANTS
    Documents     <- MCDocuments
    MaxDepth      = 8
    Pods          <- MCPods
    Workload      <- MCWorkload
    Namespace     <- MCNamespace
    MaxPodChanges = 1
    Packages      <- MCPackages
    MaxUses       = 3
    Versions      = {"v1.0.0"}
    Kfdefs        = {"kfctl-aws", "kfctl-k8s-istio"}
    Underscored   <- MCUnderscored
    MaxEdits      = 1
    MaxBuilds     = 2
    Directories   = {"argo", "mysql", "odd"}
    Applications  = {"argo", "mysql"}
    KfctlBuilt    <- MCKfctlBuilt
    MaxRuns       = 2
INVARIANTS
    FoundAreImages
    PlainIsFound
    VerdictIsRight
    MarksAreRight
    TestDataAreRight
    SpecsAreCurrent
    ParamsAreThere
CHECK_DEADLOCK FALSE
