\* The writer may fail; a complete file may be cut, continued or changed.
SPECIFICATION Spec
CONSTANTS
    Contents <- SmallContents
    FlagSets <- SomeFlags
    BLOCK_SIZE = 3
    MAX_BLOCK = 4
    Pack <- RunLength
    Unpack <- Expand
    Adler <- Weighted
    Crc <- Reversed
    Damages = {"cut", "grown", "changed"}
    Junk <- Trailers
    Values <- CellValues
INVARIANTS ReadsBack IncompleteIsRefused NeverWrongBytes ListingAgrees
PROPERTIES ImplementsTransfer
CHECK_DEADLOCK FALSE
