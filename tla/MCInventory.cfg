SPECIFICATION Spec
CONSTANTS
    Namespaces <- MCNamespaces
    NoFile = NoFile
    MaxChanges = 2
    MaxCommands = 4
INVARIANTS
    TypeOK
    ForeignIsLast
PROPERTIES
    ScanIsComplete
CHECK_DEADLOCK FALSE
