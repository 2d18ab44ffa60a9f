\* The constants of the code on token lists around every boundary.
SPECIFICATION TokensSpec
CONSTANTS
    Inputs <- NoInputs
    Hashes <- SampleHashes
    TokenCases <- BoundaryCases
    Slack = {0, 1}
    MIN_MATCH = 3
    MAX_MATCH = 65536
    MAX_DISTANCE = 49151
    MIN_TRAILING_LITERALS = 3
    ENTRY_MODULUS = 1000000000
    MAX_BUCKET_C_DISTANCE = 16384
    LONG_MATCH_DISTANCE_BASE = 16384
    DISTANCE_FIELD = 16384
    ZERO_RUN_INCREMENT = 255
    MAX_BOOTSTRAP_LITERALS = 238
    MAX_EXTENDED_LENGTH = 16777216
    POST_LITERAL_MATCH_DISTANCE_BASE = 2049
INVARIANTS RoundTrip
CHECK_DEADLOCK FALSE
