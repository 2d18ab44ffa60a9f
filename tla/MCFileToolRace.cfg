\* Two processes compress the same file, without -f.
SPECIFICATION Spec
CONSTANTS
    Procs = {"p", "q"}
    Names <- SomeNames
    Inodes <- SomeInodes
    Lzo <- Suffix
    Scenarios <- RaceScenarios
    Grants <- ByMode
    NOW = 40
    DEFAULT_MODE = 7
    EPOCH = 5
    SECOND = 2
PROPERTIES NotOverwritten
CHECK_DEADLOCK FALSE
