\* Headers of this crate and of others, stored whole, cut, or with one other
\* cell; half words of five bits, reduced every nine bytes.
SPECIFICATION HeaderSpec
CONSTANTS
    BYTE = 15
    HALF = 32
    MOD = 31
    CHUNK = 9
    Headers <- SomeHeaders
    SINCE_NEEDED = 5
    VERSION_NEEDED = 5
    VERSION_NEEDED_CRC = 6
    NEWEST_READABLE = 7
    LIB_VERSION = 9
    METHODS = {1, 2, 3}
    H_CRC32 = 1
    MULTIPART = 2
    FILTER = 4
    EXTRA_FIELD = 8
    LOW = 16
    MAX_NAME = 3
    MAX_BLOCK = 2
INVARIANTS SumsAreExact CrcIsExact HeaderReadsBack DamageIsSeen
CHECK_DEADLOCK FALSE
