\* The shortest literal run that compress() writes and decompress() refuses.
SPECIFICATION Spec
CONSTANTS
    Lengths <- TooLong
    MAX_MATCH = 65536
    ZERO_RUN_INCREMENT = 255
    MAX_EXTENDED_LENGTH = 16777216
INVARIANTS EveryLengthIsReadBack
CHECK_DEADLOCK FALSE
