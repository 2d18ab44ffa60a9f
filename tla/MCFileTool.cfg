\* One process, with and without trouble; two processes on the same file.
SPECIFICATION FairSpec
CONSTANTS
    Procs = {"p", "q"}
    Names <- SomeNames
    Inodes <- SomeInodes
    Lzo <- Suffix
    Scenarios <- AllScenarios
    Grants <- ByMode
    NOW = 40
    DEFAULT_MODE = 7
    EPOCH = 5
    SECOND = 2
INVARIANTS NothingIsLost NothingHalfWritten InputIsKept GivesBack
PROPERTIES NotOverwrittenAlone EveryCommandReturns
CHECK_DEADLOCK FALSE
