\* Streams of up to three instructions of every kind, cut at every byte.
SPECIFICATION Spec
CONSTANTS
    Inputs <- CutStreams
    Bounds <- CutBounds
    ZERO_RUN_INCREMENT = 4
    MAX_EXTENDED_LENGTH = 36
    LONG_MATCH_DISTANCE_BASE = 4
    DISTANCE_FIELD = 3
    POST_LITERAL_MATCH_DISTANCE_BASE = 3
INVARIANTS TypeOK OutputWithinBound SentinelNotLive CopyIsPeriodic
PROPERTIES ImplementsLz77 EveryStepWorks
CHECK_DEADLOCK FALSE
