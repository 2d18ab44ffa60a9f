\* Parse, emit and decode every short input; both buckets in reach.
SPECIFICATION Spec
CONSTANTS
    Inputs <- ShortInputs
    Hashes <- SampleHashes
    TokenCases <- NoCases
    Slack = {0, 1, 4}
    MIN_MATCH = 3
    MAX_MATCH = 5
    MAX_DISTANCE = 7
    MIN_TRAILING_LITERALS = 3
    ENTRY_MODULUS = 1000
    MAX_BUCKET_C_DISTANCE = 2
    LONG_MATCH_DISTANCE_BASE = 2
    DISTANCE_FIELD = 3
    ZERO_RUN_INCREMENT = 255
    MAX_BOOTSTRAP_LITERALS = 238
    MAX_EXTENDED_LENGTH = 60
    POST_LITERAL_MATCH_DISTANCE_BASE = 5
INVARIANTS RoundTrip EmitNeverPanics DecodesAPrefix
PROPERTY Completes
CHECK_DEADLOCK FALSE
