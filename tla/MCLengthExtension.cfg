\* The increment of the code, and a cap that lengths meet from both sides.
SPECIFICATION Spec
CONSTANTS
    Lengths <- SomeLengths
    MAX_MATCH = 1000
    ZERO_RUN_INCREMENT = 255
    MAX_EXTENDED_LENGTH = 1000
INVARIANTS ReadBackExactly NeverRunsOn CapSparesShorterLengths MatchesAreNeverRefused
CHECK_DEADLOCK FALSE
