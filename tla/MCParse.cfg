\* Matches up to four bytes, at up to three; entries wrap at five.
SPECIFICATION FairSpec
CONSTANTS
    Inputs <- ShortInputs
    Hashes <- SampleHashes
    MIN_MATCH = 3
    MAX_MATCH = 4
    MAX_DISTANCE = 3
    MIN_TRAILING_LITERALS = 3
    ENTRY_MODULUS = 5
INVARIANTS TypeOK TokensTile MatchesAreTrue RunsAlternate EndsAreLiterals TableIsBehind
PROPERTIES Returns
CHECK_DEADLOCK FALSE
