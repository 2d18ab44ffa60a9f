\* A file that its owner may only read.
SPECIFICATION Spec
CONSTANTS
    Procs = {"p", "q"}
    Names <- SomeNames
    Inodes <- SomeInodes
    Lzo <- Suffix
    Scenarios <- ReadOnlyScenarios
    Grants <- ByMode
    NOW = 40
    DEFAULT_MODE = 7
    EPOCH = 5
    SECOND = 2
INVARIANTS GivesBackWhole
CHECK_DEADLOCK FALSE
