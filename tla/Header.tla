------------------------------- MODULE Header -------------------------------
(* The header of a .lzo file (src/lzop.rs): write_header(), or another       *)
(* program, writes it, the file is stored and perhaps damaged, read_header() *)
(* reads it.  A file is a sequence of cells: the magic, one <<"byte", x>>    *)
(* for each field and each letter of the name, and <<"word", bits>> for a    *)
(* checksum.  The checksum is summed as the code does: `data` is what is to  *)
(* be summed, the bytes built by the writer, then those seen by the reader.  *)
EXTENDS Adler32, Crc32

CONSTANTS
    Headers,          \* what may be written, and by whom
    SINCE_NEEDED,     \* 0x0940, the first version with the newer layout
    VERSION_NEEDED, VERSION_NEEDED_CRC, NEWEST_READABLE,
    LIB_VERSION, METHODS,
    H_CRC32, MULTIPART, FILTER, EXTRA_FIELD, \* bits of the flags
    LOW,              \* 2^32, what the low half of mtime can hold
    MAX_NAME,         \* 255
    MAX_BLOCK         \* the most that is read of an extra field

\* The reader knows what the writer writes, and every field has room for its value.
ASSUME HeaderAssumption ==
    /\ NEWEST_READABLE \in Nat /\ SINCE_NEEDED \in Nat /\ LOW \in 1 .. BYTE + 1
    /\ {VERSION_NEEDED, VERSION_NEEDED_CRC} \subseteq 0 .. NEWEST_READABLE
    /\ {VERSION_NEEDED, VERSION_NEEDED_CRC, LIB_VERSION, MAX_NAME, 1} \subseteq 0 .. BYTE
    /\ HALF > 1 /\ MAX_BLOCK \in Nat
    /\ Headers \subseteq [writer : {"this", "other"}, version : 0 .. BYTE, method : 0 .. BYTE,
                          level : 0 .. BYTE, flags : 0 .. BYTE, mode : 0 .. BYTE,
                          mtime : 0 .. LOW * (BYTE + 1) - 1, name : Seq(0 .. BYTE), extra : 0 .. BYTE]

VARIABLES
    header,  \* what is written
    file, damage,
    phase,   \* "write", "magic", "fields", "name", "compare", "extra", "done"
    field,   \* the place in Fields of what is read next
    pos,     \* the reader's cursor
    got,     \* what it has read
    outcome  \* "pending", "ok" or the kind of the error
store == <<header, file, damage>>
vars == <<adlerVars, store, phase, field, pos, got, outcome>>

Fields == <<"version", "lib_version", "needed", "method", "level", "flags", "filter",
            "mode", "low", "high", "name_len">>

Asks(h, flag) == (h.flags \div flag) % 2 = 1

\* The fields that a version before 0x0940 does not have, and the optional one.
Present(h, f) == /\ f \in {"needed", "level", "high"} => h.version >= SINCE_NEEDED
                 /\ f = "filter" => Asks(h, FILTER)

\* write_header() goes by the newer layout and knows no filter.
Writes(h, f) == IF h.writer = "this" THEN f # "filter" ELSE Present(h, f)

Name(h) == SubSeq(h.name, 1, IF Len(h.name) < MAX_NAME THEN Len(h.name) ELSE MAX_NAME)

Value(h, f) ==
    CASE f = "lib_version" -> LIB_VERSION
      [] f = "needed" -> IF Asks(h, H_CRC32) THEN VERSION_NEEDED_CRC ELSE VERSION_NEEDED
      [] f = "filter" -> 1
      [] f = "low" -> h.mtime % LOW
      [] f = "high" -> h.mtime \div LOW
      [] f = "name_len" -> Len(Name(h))
      [] OTHER -> h[f]

HeaderBytes(h) ==
    LET upto[i \in 0 .. Len(Fields)] ==
          IF i = 0 THEN <<>>
          ELSE IF Writes(h, Fields[i]) THEN Append(upto[i - 1], Value(h, Fields[i]))
          ELSE upto[i - 1]
    IN  upto[Len(Fields)] \o Name(h)

Magic == <<"magic">>
ByteCells(bytes) == [i \in DOMAIN bytes |-> <<"byte", bytes[i]>>]

\* adler32(1, data) or crc32(0, data), and whether it has been summed.
Ready(h) == Asks(h, H_CRC32) \/ Summed
SumCell(h) == <<"word", IF Asks(h, H_CRC32) THEN Crc32({}, data)
                        ELSE { 16 + i : i \in Bits(b) } \cup Bits(a)>>

\* Another program's extra field, with its checksum; then come the blocks.
Extra(h) == IF h.writer = "this" \/ ~Asks(h, EXTRA_FIELD) THEN <<>>
            ELSE <<<<"byte", h.extra>>>> \o ByteCells([i \in 1 .. h.extra |-> 0])
                 \o <<<<"word", {}>>>>
Blocks == <<<<"block">>>>
-----------------------------------------------------------------------------
Nothing == [version |-> 0, lib_version |-> 0, needed |-> 0, method |-> 0, level |-> 0,
            flags |-> 0, filter |-> 0, mode |-> 0, low |-> 0, high |-> 0, name_len |-> 0,
            name |-> <<>>]

HeaderInit ==
    /\ header \in Headers
    /\ data = HeaderBytes(header) /\ InitCall(1, 0)
    /\ file = <<>> /\ damage = "none" /\ phase = "write"
    /\ field = 1 /\ pos = 0 /\ got = Nothing /\ outcome = "pending"

\* One byte, or the end of a chunk, in adler32().
Sum == /\ \/ phase = "write" /\ ~Asks(header, H_CRC32)
          \/ phase = "compare" /\ ~Asks(got, H_CRC32)
       /\ SumByte \/ Reduce
       /\ UNCHANGED <<store, phase, field, pos, got, outcome>>

Whole == <<Magic>> \o ByteCells(data) \o <<SumCell(header)>> \o Extra(header)

\* What a damaged cell may have become.
Others(cell) == IF cell[1] = "byte" THEN {"byte"} \X ((0 .. BYTE) \ {cell[2]})
                ELSE {<<"word", {}>>}

\* The writes, and what becomes of the file: nothing, a cut, or one other cell.
Write ==
    /\ phase = "write" /\ Ready(header)
    /\ LET whole == Whole
       IN  \/ file' = whole \o Blocks /\ damage' = "none"
           \/ \E n \in 0 .. Len(whole) - 1 : file' = SubSeq(whole, 1, n) /\ damage' = "cut"
           \/ \E n \in 1 .. Len(whole) - Len(Extra(header)) : \E cell \in Others(whole[n]) :
                 file' = [whole EXCEPT ![n] = cell] \o Blocks /\ damage' = "changed"
    /\ phase' = "magic"
    /\ UNCHANGED <<adlerVars, header, field, pos, got, outcome>>

Return(result) == /\ outcome' = result /\ phase' = "done"
                  /\ UNCHANGED <<adlerVars, store, field, pos, got>>

ReadMagic ==
    /\ phase = "magic"
    /\ IF file # <<>> /\ Head(file) = Magic
       THEN /\ phase' = "fields" /\ pos' = 1 /\ Call(<<>>, 1, 0)
            /\ UNCHANGED <<store, field, got, outcome>>
       ELSE Return("NotLzo")

\* The bytes that a cell may be read as.
AsByte(cell) == IF cell[1] = "byte" THEN {cell[2]} ELSE 0 .. BYTE

\* What read_header() refuses as soon as it has read it.
Unsupported(h, f) == \/ f = "needed" /\ h.needed > NEWEST_READABLE
                     \/ f = "method" /\ h.method \notin METHODS
                     \/ f = "flags" /\ Asks(h, MULTIPART)

\* Mutant: a field that is not used is not kept.
SeenIfUsed(bytes) == data' = IF Fields[field] = "lib_version" /\ phase = "fields"
                             THEN data ELSE data \o bytes

\* Recording::take() keeps what it hands out.
Seen(bytes) == data' = data \o bytes

\* Mutant: the filter value is not stepped over.
FieldsLeftUnfiltered(h) ==
    { i \in field + 1 .. Len(Fields) : Fields[i] # "filter" /\ Present(h, Fields[i]) }

FieldsLeft(h) == { i \in field + 1 .. Len(Fields) : Present(h, Fields[i]) }

ReadField ==
    /\ phase = "fields" /\ pos < Len(file)
    /\ \E byte \in AsByte(file[pos + 1]) :
          LET h == [got EXCEPT ![Fields[field]] = byte]
          IN  IF Unsupported(h, Fields[field]) THEN Return("Header")
              ELSE /\ got' = h /\ pos' = pos + 1 /\ Seen(<<byte>>)
                   /\ IF FieldsLeft(h) = {} THEN phase' = "name" /\ UNCHANGED field
                      ELSE /\ field' = CHOOSE i \in FieldsLeft(h) :
                                          \A j \in FieldsLeft(h) : i <= j
                           /\ UNCHANGED phase
                   /\ UNCHANGED <<a, b, summed, k, sum_a, sum_b, store, outcome>>

\* The name, after which the sum of all that was seen starts.
ReadName ==
    /\ phase = "name" /\ pos + got.name_len <= Len(file)
    /\ LET name == [i \in 1 .. got.name_len |-> CHOOSE x \in AsByte(file[pos + i]) : TRUE]
       IN  got' = [got EXCEPT !.name = name] /\ Call(data \o name, 1, 0)
    /\ pos' = pos + got.name_len /\ phase' = "compare"
    /\ UNCHANGED <<store, field, outcome>>

Compare ==
    /\ phase = "compare" /\ Ready(got) /\ pos < Len(file)
    /\ IF file[pos + 1] # SumCell(got) THEN Return("Checksum")
       ELSE /\ pos' = pos + 1
            /\ IF Asks(got, EXTRA_FIELD) THEN phase' = "extra" /\ UNCHANGED outcome
               ELSE phase' = "done" /\ outcome' = "ok"
            /\ UNCHANGED <<adlerVars, store, field, got>>

\* The extra field's length, at most MAX_BLOCK of it, and its checksum, unread.
ExtraEnd(len) == pos + 1 + (IF len < MAX_BLOCK THEN len ELSE MAX_BLOCK) + 1

ReadExtra ==
    /\ phase = "extra" /\ pos < Len(file)
    /\ \E len \in AsByte(file[pos + 1]) :
          /\ ExtraEnd(len) <= Len(file)
          /\ pos' = ExtraEnd(len) /\ phase' = "done" /\ outcome' = "ok"
    /\ UNCHANGED <<adlerVars, store, field, got>>

\* read_exact() finds less than it needs.
Truncated ==
    /\ \/ phase = "fields" /\ pos = Len(file)
       \/ phase = "name" /\ pos + got.name_len > Len(file)
       \/ phase = "compare" /\ Ready(got) /\ pos = Len(file)
       \/ phase = "extra" /\ (pos < Len(file) => \E len \in AsByte(file[pos + 1]) :
                                                    ExtraEnd(len) > Len(file))
    /\ Return("Truncated")

HeaderNext == \/ Sum \/ Write \/ ReadMagic \/ ReadField \/ ReadName \/ Compare
              \/ ReadExtra \/ Truncated

HeaderSpec == HeaderInit /\ [][HeaderNext]_vars
-----------------------------------------------------------------------------
\* What read_header() can give back: a header that write_header() is given can
\* also ask for a layout that is not the one it writes, and of an extra field no
\* more than MAX_BLOCK is stepped over.
Supported(h) ==
    /\ h.method \in METHODS /\ ~Asks(h, MULTIPART) /\ h.extra <= MAX_BLOCK
    /\ h.writer = "this" => /\ h.version >= SINCE_NEEDED
                            /\ ~Asks(h, FILTER) /\ ~Asks(h, EXTRA_FIELD)

\* A header comes back as it was written, in the layout of either version, with
\* the optional fields and either checksum, and the reader stops where the
\* blocks begin (lzop.rs:230-260, 295-367).
HeaderReadsBack ==
    phase = "done" /\ damage = "none" /\ Supported(header) =>
        /\ outcome = "ok" /\ pos = Len(file) - Len(Blocks)
        /\ \A f \in {"version", "method", "flags", "mode"} : got[f] = header[f]
        /\ got.name = Name(header)
        /\ header.version >= SINCE_NEEDED =>
              got.level = header.level /\ got.low + LOW * got.high = header.mtime

\* A header that was cut is "truncated" and nothing else, unless not even the
\* magic is whole (lzop.rs:126-131, 297-302).
CutIsTruncated ==
    phase = "done" /\ damage = "cut" /\ Supported(header) =>
        outcome = IF file = <<>> THEN "NotLzo" ELSE "Truncated"

\* One wrong cell anywhere in the header is refused, also where it changes what
\* the header is made of or which checksum it is held against (lzop.rs:344-351),
\* and a header that was cut is refused as one that was cut.
DamageIsSeen == /\ damage = "changed" => outcome # "ok"
                /\ CutIsTruncated

\* Table by table or bit by bit, the CRC is the same (lzop.rs:199-221).
CrcIsExact == phase = "write" => Crc32({}, data) = CrcByDefinition(data)
=============================================================================
