\* A call, then another on a stream that shares a prefix with the first.
SPECIFICATION RunsSpec
CONSTANTS
    Inputs <- Streams
    Bounds <- RunBounds
    Tails <- Junk
    ZERO_RUN_INCREMENT = 4
    MAX_EXTENDED_LENGTH = 36
    LONG_MATCH_DISTANCE_BASE = 2
    DISTANCE_FIELD = 1
    POST_LITERAL_MATCH_DISTANCE_BASE = 3
INVARIANTS BoundIsExact TruncationIsRefused
CHECK_DEADLOCK FALSE
