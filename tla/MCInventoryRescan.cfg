SPECIFICATION FairSpec
CONSTANTS
    Namespaces <- MCNamespaces
    NoFile = NoFile
    MaxChanges = 2
    MaxCommands = 4
PROPERTY
    RescanIsComplete
CHECK_DEADLOCK FALSE
