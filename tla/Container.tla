----------------------------- MODULE Container -----------------------------
(* The blocks of a .lzo file (src/lzop.rs): compress() writes them, the file *)
(* is stored and perhaps damaged, decompress() reads them and scan() lists   *)
(* them.  The file is a sequence of cells, a cell being a 32-bit word or a   *)
(* byte of data; a file cut inside a word is one cut before it.  The header  *)
(* that precedes the blocks gives `flags`.                                   *)
EXTENDS Naturals, Sequences, SequencesExt

CONSTANTS
    Contents,          \* what may be stored
    FlagSets,          \* the checksums a header may ask for
    BLOCK_SIZE,        \* 256 * 1024
    MAX_BLOCK,         \* 64 MiB
    Pack(_),           \* compress() of src/compress.rs
    Unpack(_, _),      \* decompress() of src/lib.rs: its result, or nothing, as a set
    Adler(_), Crc(_),  \* adler32() and crc32() from their initial values
    Damages,           \* what may happen to a file: "cut", "grown", "changed"
    Junk,              \* what may be appended to a stored file
    Values             \* what a changed cell may hold

ASSUME ContainerAssumption ==
    /\ Contents \subseteq Seq(Nat)
    /\ BLOCK_SIZE \in Nat \ {0} /\ MAX_BLOCK \in Nat /\ BLOCK_SIZE <= MAX_BLOCK
    /\ Damages \subseteq {"cut", "grown", "changed"}
    /\ Junk \subseteq Seq(Nat) /\ Values \subseteq Nat

\* Every piece of a content that is no longer than a block has a compressed form,
\* which gives it back under a bound of its length, and checksums that are numbers.
ASSUME CodecAssumption ==
    \A c \in Contents : \A i, j \in 1 .. Len(c) : i <= j /\ j < i + BLOCK_SIZE =>
        LET piece == SubSeq(c, i, j)
        IN  /\ Pack(piece) \in Seq(Nat) /\ Pack(piece) # <<>>
            /\ Unpack(Pack(piece), Len(piece)) = {piece}
            /\ {Adler(piece), Crc(piece), Adler(Pack(piece)), Crc(Pack(piece))} \subseteq Nat

VARIABLES
    content, flags,   \* the arguments of compress()
    taken, block,     \* bytes read from the input, bytes in the buffer
    file,             \* what has been written
    packed,           \* the totals compress() returns
    phase,            \* "fill", "end", "stored", then "read", "scan", "done"
    complete, damage, \* was the end marker written; what happened to the file
    rpos, out, unpacked, verdict, \* decompress(): cursor, output, totals, result
    spos, listed, listing         \* scan(): cursor, totals, result

writer == <<taken, block, packed, complete>>
reader == <<rpos, out, unpacked, verdict>>
scanner == <<spos, listed, listing>>
vars == <<content, flags, file, phase, damage, writer, reader, scanner>>

Nothing == [uncompressed |-> 0, compressed |-> 0, blocks |-> 0]

Plus(totals, dst, src) == [uncompressed |-> totals.uncompressed + dst,
                           compressed |-> totals.compressed + src,
                           blocks |-> totals.blocks + 1]

\* d_sum and c_sum: one word or none.
DSum(data) == IF "ADLER32_D" \in flags THEN <<Adler(data)>>
              ELSE IF "CRC32_D" \in flags THEN <<Crc(data)>> ELSE <<>>
CSum(data) == IF "ADLER32_C" \in flags THEN <<Adler(data)>>
              ELSE IF "CRC32_C" \in flags THEN <<Crc(data)>> ELSE <<>>

\* Mutant: a block that did not grow is taken for one that shrank.
PayloadUnlessLonger(data) == IF Len(Pack(data)) <= Len(data) THEN Pack(data) ELSE data

\* A block that did not shrink is stored as it was, and then has no c-checksum.
Payload(data) == IF Len(Pack(data)) < Len(data) THEN Pack(data) ELSE data

BlockCells(data) ==
    LET p == Payload(data)
    IN  <<Len(data), Len(p)>> \o DSum(data)
        \o (IF Len(p) < Len(data) THEN CSum(p) ELSE <<>>) \o p
-----------------------------------------------------------------------------
Init ==
    /\ content \in Contents /\ flags \in FlagSets
    /\ taken = 0 /\ block = <<>> /\ packed = Nothing /\ complete = FALSE
    /\ file = <<>> /\ phase = "fill" /\ damage = "none"
    /\ rpos = 0 /\ out = <<>> /\ unpacked = Nothing /\ verdict = "pending"
    /\ spos = 0 /\ listed = Nothing /\ listing = "pending"

\* fill(): a read returns some of what is left, at most what the buffer has
\* room for.
Read ==
    /\ phase = "fill" /\ Len(block) < BLOCK_SIZE
    /\ \E k \in 1 .. BLOCK_SIZE - Len(block) :
          /\ taken + k <= Len(content)
          /\ block' = block \o SubSeq(content, taken + 1, taken + k)
          /\ taken' = taken + k
    /\ UNCHANGED <<content, flags, file, phase, damage, packed, complete, reader, scanner>>

\* Mutant: one read is taken for all there is.
FilledByOneRead == phase = "fill" /\ (block # <<>> \/ taken = Len(content))

\* fill() has returned: the buffer is full, or a read returned nothing.
Filled == phase = "fill" /\ (Len(block) = BLOCK_SIZE \/ taken = Len(content))

WriteBlock ==
    /\ Filled /\ block # <<>>
    /\ file' = file \o BlockCells(block)
    /\ packed' = Plus(packed, Len(block), Len(Payload(block)))
    /\ IF Len(block) < BLOCK_SIZE THEN phase' = "end" ELSE phase' = "fill"
    /\ block' = <<>>
    /\ UNCHANGED <<content, flags, damage, taken, complete, reader, scanner>>

\* The end marker, after a block that was not full or a fill that found nothing.
WriteEnd ==
    /\ phase = "end" \/ (Filled /\ block = <<>>)
    /\ file' = Append(file, 0)
    /\ complete' = TRUE /\ phase' = "stored"
    /\ UNCHANGED <<content, flags, damage, taken, block, packed, reader, scanner>>

\* A read fails, or a write does after part of what it should have written.
WriterFails ==
    /\ phase \in {"fill", "end"}
    /\ \/ UNCHANGED file
       \/ /\ Filled /\ block # <<>>
          /\ \E k \in 1 .. Len(BlockCells(block)) - 1 :
                file' = file \o SubSeq(BlockCells(block), 1, k)
    /\ phase' = "stored"
    /\ UNCHANGED <<content, flags, damage, writer, reader, scanner>>

\* What storage and transport may do to a complete file, at most once.
Cut == \E k \in 0 .. Len(file) - 1 : file' = SubSeq(file, 1, k)
Grow == \E j \in Junk : file' = file \o j
Change == \E k \in 1 .. Len(file) : \E v \in Values \ {file[k]} :
              file' = [file EXCEPT ![k] = v]

Store ==
    /\ phase = "stored"
    /\ \/ UNCHANGED <<file, damage>>
       \/ /\ complete
          /\ damage' \in Damages
          /\ \/ damage' = "cut" /\ Cut
             \/ damage' = "grown" /\ Grow
             \/ damage' = "changed" /\ Change
    /\ phase' = "read"
    /\ UNCHANGED <<content, flags, writer, reader, scanner>>
-----------------------------------------------------------------------------
Has(p, n) == p + n <= Len(file)

\* The word that ends the file; the mutant is content with the file's own end.
AtEndOrNothing(p) == ~Has(p, 1) \/ file[p + 1] = 0
AtEnd(p) == Has(p, 1) /\ file[p + 1] = 0

SizesOk(dst, src) == dst <= MAX_BLOCK /\ src # 0 /\ src <= dst

\* Mutant: no d-checksum is compared.
AcceptedUnchecked(data, dst, sum) == Len(data) = dst

Accepted(data, dst, sum) == Len(data) = dst /\ sum = DSum(data)

\* What blocks() makes of the cells from p on: at most one way to read them,
\* and none when it returns an error.
BlocksAt(p) ==
    IF ~Has(p, 2) \/ ~SizesOk(file[p + 1], file[p + 2]) THEN {}
    ELSE LET dst == file[p + 1]
             src == file[p + 2]
             d == p + 2 + Len(DSum(<<>>))
             c == d + (IF src < dst THEN Len(CSum(<<>>)) ELSE 0)
             payload == SubSeq(file, c + 1, c + src)
         IN  IF \/ ~Has(c, src)
                \/ src < dst /\ SubSeq(file, d + 1, c) # CSum(payload)
             THEN {}
             ELSE { [data |-> data, src |-> src, next |-> c + src] :
                    data \in { x \in (IF src < dst THEN Unpack(payload, dst) ELSE {payload}) :
                               Accepted(x, dst, SubSeq(file, p + 3, d)) } }

ReadBlock ==
    /\ phase = "read" /\ ~AtEnd(rpos)
    /\ \E b \in BlocksAt(rpos) :
          /\ out' = out \o b.data
          /\ unpacked' = Plus(unpacked, Len(b.data), b.src)
          /\ rpos' = b.next
    /\ UNCHANGED <<content, flags, file, phase, damage, verdict, writer, scanner>>

ReadEnd ==
    /\ phase = "read" /\ AtEnd(rpos)
    /\ rpos' = rpos + 1 /\ verdict' = "ok" /\ phase' = "scan"
    /\ UNCHANGED <<content, flags, file, damage, out, unpacked, writer, scanner>>

ReadFails ==
    /\ phase = "read" /\ ~AtEnd(rpos) /\ BlocksAt(rpos) = {}
    /\ verdict' = "err" /\ phase' = "scan"
    /\ UNCHANGED <<content, flags, file, damage, rpos, out, unpacked, writer, scanner>>

\* The output cannot take the whole block.
SinkFails ==
    /\ phase = "read" /\ ~AtEnd(rpos)
    /\ \E b \in BlocksAt(rpos) : \E k \in 0 .. Len(b.data) - 1 :
          out' = out \o SubSeq(b.data, 1, k)
    /\ verdict' = "io" /\ phase' = "scan"
    /\ UNCHANGED <<content, flags, file, damage, rpos, unpacked, writer, scanner>>

\* Mutant: every block is taken to have both checksums.
SkipBothSums(dst, src) == src + Len(DSum(<<>>)) + Len(CSum(<<>>))

\* scan(): the sizes are checked, the rest of the block is skipped.
Skip(dst, src) == src + Len(DSum(<<>>)) + (IF src < dst THEN Len(CSum(<<>>)) ELSE 0)

ScanBlock ==
    /\ phase = "scan" /\ Has(spos, 2) /\ ~AtEnd(spos)
    /\ LET dst == file[spos + 1]
           src == file[spos + 2]
       IN  /\ SizesOk(dst, src) /\ Has(spos + 2, Skip(dst, src))
           /\ listed' = Plus(listed, dst, src)
           /\ spos' = spos + 2 + Skip(dst, src)
    /\ UNCHANGED <<content, flags, file, phase, damage, listing, writer, reader>>

ScanEnd ==
    /\ phase = "scan" /\ AtEnd(spos)
    /\ spos' = spos + 1 /\ listing' = "ok" /\ phase' = "done"
    /\ UNCHANGED <<content, flags, file, damage, listed, writer, reader>>

ScanFails ==
    /\ phase = "scan" /\ ~AtEnd(spos)
    /\ Has(spos, 2) => LET dst == file[spos + 1]
                           src == file[spos + 2]
                       IN  ~(SizesOk(dst, src) /\ Has(spos + 2, Skip(dst, src)))
    /\ listing' = "err" /\ phase' = "done"
    /\ UNCHANGED <<content, flags, file, damage, spos, listed, writer, reader>>

Next == \/ Read \/ WriteBlock \/ WriteEnd \/ WriterFails \/ Store
        \/ ReadBlock \/ ReadEnd \/ ReadFails \/ SinkFails
        \/ ScanBlock \/ ScanEnd \/ ScanFails

Spec == Init /\ [][Next]_vars
-----------------------------------------------------------------------------
Totals == [uncompressed : Nat, compressed : Nat, blocks : Nat]

\* The buffer never exceeds a block, no cursor leaves the file.
TypeOK ==
    /\ content \in Contents /\ flags \in FlagSets
    /\ taken \in 0 .. Len(content) /\ Len(block) <= BLOCK_SIZE
    /\ phase \in {"fill", "end", "stored", "read", "scan", "done"}
    /\ complete \in BOOLEAN /\ damage \in {"none"} \cup Damages
    /\ verdict \in {"pending", "ok", "err", "io"} /\ listing \in {"pending", "ok", "err"}
    /\ {packed, unpacked, listed} \subseteq Totals
    /\ rpos \in 0 .. Len(file) /\ spos \in 0 .. Len(file)

\* A complete file is read back whole, however the input arrived, whatever the
\* checksums, and whatever follows its end marker; the reader counts what the
\* writer counted (lzop.rs:391-460).
ReadsBack ==
    complete /\ damage \in {"none", "grown"} /\ verdict \notin {"pending", "io"} =>
        /\ verdict = "ok" /\ out = content /\ unpacked = packed
        /\ damage = "none" => rpos = Len(file)

\* A file the writer did not finish, or that was cut anywhere, is neither read
\* nor listed as a whole one (lzop.rs:127, 478-481).
IncompleteIsRefused ==
    ~complete \/ damage = "cut" => verdict # "ok" /\ listing # "ok"

\* With a d-checksum, no changed cell makes the reader write a byte that was
\* not there: every block is checked before it is written (lzop.rs:446-448,
\* 538-559).
NeverWrongBytes ==
    flags \cap {"ADLER32_D", "CRC32_D"} # {} => IsPrefix(out, content)

\* A listing tells what decompressing gives: what is read is listed, with the
\* same totals and to the same end, damaged or not (lzop.rs:462-488, 506-565).
ListingAgrees ==
    verdict = "ok" /\ phase = "done" =>
        listing = "ok" /\ listed = unpacked /\ spos = rpos

transfer == IF verdict = "io" THEN "err" ELSE verdict

\* Of a file that was changed nothing is promised here: see NeverWrongBytes.
Abstract == INSTANCE Transfer
            WITH delivered <- IF damage = "changed" THEN <<>> ELSE out,
                 verdict <- IF damage = "changed" THEN "pending" ELSE transfer

\* Reading what was written, cut or continued delivers the content, block after
\* block, and succeeds only with all of it.
ImplementsTransfer == Abstract!TransferSpec
=============================================================================
