# Verification of rust-lzo1x

TLA+ models of `rust-lzo1x`, a pure-Rust LZO1X decoder and encoder with a
`.lzo` container and a command line tool, the TLC configurations that check
them on small instances, and TLAPS proofs of what matters most for every value
of the constants. Paths such as `lib.rs:254` are relative to `src/src/`.

## 1. The system

| component | source | state it keeps | operations |
|---|---|---|---|
| decoder | `lib.rs` | the cursor `ip`, the output `out`, the register `state` | `decompress`, one loop over instructions, `extend_length`, `copy_match`, `copy_literals` |
| encoder: parse | `compress.rs` | the hash table, the search position, the tokens | `parse`, `match_length`, `hash3` |
| encoder: emit | `compress.rs` | the token index, the output | `emit`, `emit_leading_literals`, `emit_literal_run`, `emit_match`, `emit_length_extension`, `push_operand` |
| `.lzo` container | `lzop.rs` | reader or writer position, totals | `write_header`, `read_header`, `compress`, `decompress`, `scan` |
| checksums | `lzop.rs` | the accumulator | `adler32`, `crc32` |
| command line tool | `cli/main.rs` | files of a directory | `compress_file`, `decompress_file`, `list`, `test`, `raw` |
| tests, fuzzing, CI, release | `tests/`, `fuzz/`, `.github/`, `scripts/` | none of the program's | - |

How they interact: `compress()` calls `parse` and hands its tokens to `emit`.
The stream `emit` writes is the input of `decompress`; encoder and decoder share
the constants of the format and agree only by having been written to the same
grammar. The container cuts a file into blocks, calls `compress` and
`decompress` once per block and surrounds each with sizes and checksums. The
tool opens files, calls the container and removes, keeps or restores files.

Everything is single-threaded. What is hard is not concurrency but sequences:
the register `state` means different things after different instructions, the
two halves of the encoder share a contract about what follows what, a number is
counted down by one function and up by another, and the decoder must stay
inside its bounds on every stream, not only on those the encoder writes. The
tool adds the file system: other processes, failures part-way, crashes.

What makes each component correct:

* decoder - it never writes past the caller's bound, never reads what is not
  there, ends on every input, and its output is what an LZ77 decoder may
  produce; the verdict depends neither on bytes after the end marker nor on how
  generous the bound is.
* parse - the tokens tile the input; a match is true whatever the hash table
  held; runs and matches alternate; both ends of the input stay literal.
* emit - no assertion fails on what parse leaves, and the decoder reads back
  exactly the input.
* container - what is written is read back, header and blocks; a damaged or
  truncated file is refused; listing and decompressing agree.
* checksums - no addition overflows its word, and the shortcuts (a modulo once
  per 5552 bytes, a table of 256 words) change no result.
* tool - at no moment, and after no crash, is the content in neither file.

## 2. Modules

| module | what it is |
|---|---|
| `Lz77` | abstract specification of an LZ77 decoder |
| `Decoder` | `decompress()`; implements `Lz77` |
| `DecoderRuns` | two calls of `decompress()` on related streams |
| `LengthExtension` | the zero-run length extension, written and read back, on lengths alone |
| `Parse` | `parse()` |
| `Emit` | `emit()`; a component without a specification of its own |
| `Codec` | `Parse`, then `Emit`, then `Decoder`, composed by INSTANCE |
| `Transfer` | abstract specification: a content is delivered from its beginning on, and success means all of it |
| `Container` | the blocks of a `.lzo` file written, stored, read and listed; implements `Transfer` |
| `Adler32` | `adler32()`, byte by byte, beside Adler-32 as it is defined |
| `Crc32` | `crc32()` and its table, beside the division bit by bit |
| `Header` | the header of a `.lzo` file, written, stored and read, on top of the two checksums |
| `FileTool` | the command line tool on the files of a directory |
| `MC...` | values of the constants for TLC |
| `...Proofs` | theorems |

### Decoder

One behaviour is one call. `Decoder::run` is a program counter `pc`; `ip`,
`out`, `state` and `max_out` are the fields and variables of the code, and
`arm`, `len`, `dist` are the locals of the match arms. There is one action per
arm (`ShortMatch`, `MatchC`, `MatchD`, `LiteralRun`, `TinyMatch`), one per byte
of an extension (`ExtendZero`, `ExtendLast`), one for the operand, and
`copy_match` is a check (`CopyMatch`) followed by one `CopyByte` per byte, since
a copy longer than its distance reads bytes it wrote itself. Every `?` and every
`return Err(E)` is a disjunct of `Malformed`. The bytes of an instruction that
are read together are one step: no other actor can see the cursor between them,
and a step that finds one byte of two returns the same error with the cursor
lost. The five numbers of the format are constants, so that small instances
reach every arm and every refusal and proofs hold for all values.

`DecoderRuns` lets a call return and then starts another on a stream that
shares a prefix with the first, cut, continued or changed, under any bound.
What `lib.rs:190-203` says about the bound and the end of the stream relates
two calls, and this is where it can be stated.

### Parse, Emit, Codec

`Parse` has one action per way through the search loop: no usable candidate
(`NoMatch`), a match (`TakeMatch`, with the literals before it and the positions
inside it), and the end. The hash function is a constant: the properties must
hold whatever it is. `ENTRY_MODULUS` is the width of a table entry, 2^32 in the
code, small in the model, so that the truncation by `as u32` happens. A token
carries the position at which it begins, which the code keeps for literal runs
only.

`Emit` writes bytes. `Panics` holds where the `unreachable!` of the code would
fire (`compress.rs:225`), or a debug assertion about the tokens (`278`, `309-310`);
those at `298`, `311` and `342` are left out, since the conditions right beside
them imply them. `Codec` instantiates the three on shared
variables: `tokens` is written by `Parse` and read by `Emit`, `stream` is
written by `Emit` and is the `input` of `Decoder`.

### LengthExtension

The encoder counts down from what the command byte cannot hold, the decoder up
from what it does. This module leaves out every byte that carries no length, so
that the numbers can be the real ones and the proofs are about arithmetic.

### Container

One behaviour is the life of one file: `compress()` fills its buffer by reads of
any size (`Read`), writes a block when the buffer is full or the input has ended
(`WriteBlock`) and then the end marker (`WriteEnd`), or fails part-way
(`WriterFails`); the file is stored, and a finished one may be cut, continued or
changed in one cell (`Store`, the only step that is not the program's);
`decompress()` reads it block by block (`ReadBlock`, `ReadEnd`, `ReadFails`, and
`SinkFails` when its output is full), and `scan()` lists it. A file is a
sequence of cells: a 32-bit word is one cell, a byte of data is one. The block
compressor is a parameter (its own correctness is `Codec`), and so are the
checksums; the values given to TLC have no collisions, so what is shown is that
the right checksum is compared over the right bytes at the right time.
`BlocksAt` is the body of the loop in `blocks()`: the block at a position, or
nothing where the code returns an error.

### Adler32, Crc32, Header

`Adler32` has the two registers of `adler32()` as words that wrap, an action for
a byte and one for the end of a chunk; `sum_a` and `sum_b` run beside them,
reduced after every byte as Adler-32 is defined. Any call may follow any other,
from a fresh seed or from the last result. The width, the modulus and the chunk
are constants, and `AdlerAssumption` says when a chunk fits a word. `Crc32` has
no state: a word is the set of the places of its one bits, the table is built as
the code builds it, and the reference is the remainder taken bit by bit, with
the real polynomial.

`Header` writes the fields in the order of `write_header()` or, for another
writer, of the older layout, with filter and extra field; the file is stored
whole, cut at a cell, or with one cell changed; `read_header()` goes from field
to field, and what it reads decides what it reads next, what it refuses and
which checksum it compares. `data` is what goes into the sum on either side
(`Recording` of the code), and the sum is computed by the steps of `Adler32` or
by `Crc32`, not assumed. A field is one cell whatever its width, and what a
changed cell is read as is left open where the reader is out of step.
`HeaderAssumption` says that every field has room for its value and that the
reader knows the versions the writer writes; the widths are constants.

### FileTool

The state is the directory (`dir`, names to inodes), the files (`node`) and,
per process, where it is in `run()` with what it holds in memory (`proc`). There
is one action per system call, because between any two of them another process
may act, a call may fail or the process may be killed. Names and inodes are kept
apart since the code does both: it reads and writes through open files, and
checks, removes and restores by name. A file's contents are cells that record
what they stand for; `Container` is about what is inside. `buf` is the
`BufWriter`, which is why `Flush` is a step that matters; `seen` is what the
`BufReader` has read ahead. `scenario` holds what a behaviour starts with:
files, command lines, what standard input holds, and what may go wrong. Standard input and output
are cells too: no FILE, or `-` alone, reads the one and writes the other
(`FromStdin`). `list()` and `test()` change nothing and look at a file in one
step (`Report`): what they would find differs only by what others do meanwhile,
and nothing is done with their answer.

What may go wrong is the scenario's `trouble`. With "calls fail", any call that
opens, reads, writes, sets or removes may fail once a file is being worked on, and
since the buffer may be written out after any cell, what is in a file when a write
fails is any number of whole cells. The failure of the call that cleans up after
another (`let _ = remove_file(&target)`, `cli/main.rs:284`, `341`) is a trouble of
its own, "clean-up fails", because what the tool promises about half-written files
depends on it. "killed" lets a process stop between any two calls, and under "not
root" a mode can refuse the owner (`May`).

Times are in ticks of the file system, `SECOND` of them to a second, and `EPOCH`
is the tick of `UNIX_EPOCH`: `Seconds` is what `Stat` makes of a modification time
for the header, whole seconds, and none of a time before the epoch
(`cli/main.rs:253-258`), and `Time` is what `Restore` makes of it again. `sized`
says of a command line whether it has the `--size` that `--raw -d` needs.

`ToolAssumption` says what a scenario is: files by name, command lines that the
parser of options can produce, and names that take the suffix where one is needed,
the suffix making another name of each and never `-`. It also says that a second
is at least a tick. `InodesAssumption` says that a new file can be created, as on
a disk that is not full.

## 3. Runs

| run | what it checks | bounds, and why they are enough |
|---|---|---|
| `decoder` | `TypeOK` (the cap on a length under extension is part of it), `OutputWithinBound`, `SentinelNotLive`, `CopyIsPeriodic`, refinement of `Lz77`, `EveryStepWorks` | all concatenations of three out of sixteen instructions (each arm, both spellings of a length, half instructions), cut at every byte, under bounds 0, 4, 12 and 60; constants scaled so that copies overlap and distances miss within a few bytes, and a cap of 36, which the zeros of an extension reach (35) and would pass (39). Three instructions are enough for `state` to be set, carried and used |
| `decoder_runs` | `BoundIsExact`, `TruncationIsRefused` | all pairs of a decodable stream and a stream with a common prefix, bounds around every length |
| `extension` | `ReadBackExactly`, `NeverRunsOn`, `CapSparesShorterLengths`, `MatchesAreNeverRefused` | every length to 1300, that is five extension bytes, with a cap of 1000 |
| `extension_too_long` | `EveryLengthIsReadBack`, violated: section 6 | the constants of the code, one length |
| `parse` | tiling, truth of matches, alternation, literal ends, `TableIsBehind`, `Returns` | all inputs of up to eleven bytes over two letters (room for two matches with runs around them), three hash functions (perfect, constant, in between), entries that wrap at five, matches up to four bytes at a distance up to three |
| `codec` | `RoundTrip`, `EmitNeverPanics`, `DecodesAPrefix`, `Completes` | the same inputs; bucket C reaches distance 2 and bucket D distance 7, so that both buckets, the distance they share and the H bit occur |
| `codec_boundaries` | `RoundTrip` | the constants of the code; token lists on both sides of every boundary: runs of 3, 4, 18, 19, 238, 239, 273, 274, 528, 529 bytes, lengths around 9, 33 and one extension byte, distances around 16384, 32768 and 49151 |
| `container` | `ReadsBack`, `IncompleteIsRefused`, `NeverWrongBytes`, `ListingAgrees`, refinement of `Transfer` | all contents of up to five bytes over two letters and a few of six and seven, in blocks of three: empty, short, exactly one and two blocks, two and one byte; five choices of checksums; a compressor that shrinks some blocks and not others; every cut, three continuations, every cell changed to seven values |
| `header` | `SumsAreExact`, `CrcIsExact`, `HeaderReadsBack`, `DamageIsSeen` | headers of this crate with names of no, three and too many letters and times below and above half a word, headers of another writer of either layout with each combination of filter and extra field, headers that must be refused; every cut; each cell of the header changed, a byte to every other value, the magic and the checksum, which are words, to zero only. Half words of five bits and chunks of nine bytes, so that a header is more than one chunk; the CRC is the real one of 32 bits |
| `tool` | `NothingIsLost`, `NothingHalfWritten`, `InputIsKept`, `GivesBack`, `NotOverwrittenAlone`, `EveryCommandReturns` | three names, files of two cells (a copy that is complete, under way and not begun); every option alone and with `-f`, `-k` and `-c` with `-o` onto another file, onto the archive and onto the input itself, with and without `-f`, also with `--raw`; pairs of command lines; six directories with good, damaged and cut archives, undisturbed, with failing calls, with a clean-up that fails too, and killed at any step; a mode of zero, files that may not be written, by root and by their owner; two ticks to a second, and times before the epoch, in the first second after it, on and between seconds; `-t`, `-l`, `-` and standard input, plain and packed; two processes with one command each on the same file |
| `tool_race` | `NotOverwritten`, violated: section 6 | two processes |
| `tool_read_only` | `GivesBackWhole`, violated: section 6 | one file, compressed and decompressed by an owner who may only read it |

Deadlock is not checked: a call, a file or a process that has come to its end
takes no more steps.

### Fairness

`Returns` (of `Parse`) and `Completes` assume weak fairness of the whole
next-state relation and no more: the code is one thread in a loop without locks
or I/O, so it takes a step whenever it has one to take. `EveryCommandReturns`
assumes weak fairness of each process, which is what an operating system gives
to a process that does not wait for another; being killed is not part of it.

## 4. Proofs

Proved by TLAPS for every stream, bound and constant that satisfies the named
assumption of the module:

* `DecoderProofs` - the inductive invariant `IInv` joins `TypeOK` and the three
  safety invariants with what relates the registers to the program counter: a
  length is positive wherever one is used, no byte of a copy has been written
  outside `copy`, a copy that has started fits the bound. `OutputWithinBound` is
  not inductive alone, because the check is made once and the bytes are written
  one at a time; `SentinelNotLive` needs to know which arm sets `state` when.
  From `IInv`: `TypeCorrect`, `OutputNeverExceedsBound`, `SentinelIsNeverLive`,
  `CopiesArePeriodic`, and the action property `NoStepIsIdle`. `WorkIsBounded`
  bounds the measure that `NoStepIsIdle` shows increasing, so a call takes at
  most 3 * (Len(input) + max_out) + 2 steps.
  `DecoderIsLz77` is the refinement of `Lz77`. The mapping shows the output only
  up to the last complete copy; a copy is then one step of the abstract decoder,
  taken when its last byte is written, and `CopyIsPeriodic` is what makes that
  step a legal repetition.
* `DecoderRunsProofs` - `TheBoundIsExact` and `CutStreamsAreRefused`, for every
  pair of streams with a common prefix and every two bounds. `After` is the
  decoder as a function: where a call that is at a configuration goes next,
  given its stream, unless it is refused; `StepGoes` shows that every step goes
  there, also for another stream with the same bytes under the cursor. The
  invariant says that a first call leaves a trail, a set of configurations each
  of which leads to another of them, and that a second call on the same prefix
  is on that trail or refused. It is refused only for want of bytes or of room
  (`NotRefused`): the trail records that every match had its source and that
  what it wrote is part of the final output.
* `ParseProofs` - `TypeCorrect`, `TokensTileTheInput`, `EveryMatchIsTrue`,
  `RunsAlwaysAlternate`, `BothEndsAreLiterals`, `TheTableIsBehind`, for every
  input and every hash function. The invariant says of the tokens found so far
  that they cover exactly what precedes the pending literals, that they
  alternate, begin with a literal run and are true, and adds what holds only
  while searching: the last token is a match, the position has not passed the
  end of the search, the table is behind it. `EndsAreLiterals` needs the last of
  these, since the tail reserved for literals is what the search leaves.
  `HashAssumption` says only that every three bytes of the input have a hash.
* `LengthExtensionProofs` - `ReadBackExactly`, `NeverRunsOn`,
  `CapSparesShorterLengths`, `MatchesAreNeverRefused`. The invariant keeps the
  sum of what is written and what is left equal to the length; the product
  zeros * ZERO_RUN_INCREMENT is behind an operator `Worth` with three lemmas,
  since the provers do no nonlinear arithmetic.

  `TypeCorrect` says the numbers of both sides keep their types.
* `CodecProofs` - `EmitIsSafe`: no assertion of `emit()` fails and its
  `unreachable!` is not reached. The invariant is that of `ParseProofs`, used
  through an instance, while `parse()` runs and after it, and says of the index
  in the tokens that it never stands at a literal run but the first: this is
  what `RunsAlternate` is for, since a match takes the run after it along.
  `CodecAssumption` joins the assumptions of the parts and adds that a leading run
  too long for the first byte is also too long to be inline.

  `CompressedReadsBack` and `DecodedIsAPrefix`: what `compress()` writes,
  `decompress()` reads back, for every input, every hash function, every bound and
  all constants that satisfy `RoundTripAssumption` (what the format needs of its
  numbers: buckets that join without a gap, fields that fit their bytes), in every
  behaviour in which `RunsFit` holds. `RunsFit` is the hypothesis of both theorems,
  not an assumption about the constants: no token that `parse()` leaves is longer
  than `MAX_EXTENDED_LENGTH`. Of matches the code sees to that, of literal runs it
  does not, and it is needed: run `extension_too_long` has a longer one that is not
  read back. An input no longer than the cap meets it, and so does every block of
  the container, 256 KiB against 16 MiB. Neither property is inductive, because a decoder that
  stands in the middle of a stream is right only if the rest of the stream is
  what `emit()` meant. `RInv` therefore says how a stream is laid out: there is
  a set of boundaries, each an offset in the stream and a position in the input,
  and between a boundary and the next lie the bytes of one instruction for the
  input between them. While `emit()` runs it adds a boundary with each token
  (`EmitInv`), and appending to a stream moves none of them; while the decoder
  runs it stands at a boundary, or inside the instruction that begins at one
  with what it has read so far (`Decodes`), and what it has written is the input
  up to there. The lemmas about single instructions (literal runs inline and
  leading, the matches of each bucket, the end marker) are where encoder and
  decoder meet: the fields that one adds up are those that the other takes
  apart.
* `HeaderProofs` - both checksums, and the header from end to end.
  - `NoSumOverflows` and `DeferringIsExact` for all data, every seed and every
    sequence of calls, from `AdlerAssumption`; `TheCodesChunkFits` shows that
    5552, 65521 and 32 bits satisfy it, and `NoLongerChunkFits` that 5553 does
    not: the comment at `lzop.rs:185` says so. The invariant bounds `a` and `b` by
    what k bytes of the largest value add, a quadratic in k, and says that each is
    congruent to its sum.
  - `TableIsExact`: for all data, `crc32()` with its table is the remainder taken
    bit by bit. Division is linear over `Xor`, so that the eight divisions of a
    register with a byte in its low bits are those of the table's slot and those of
    the rest, which only shift it. What is proved of all bytes is proved by
    induction all the same: `Climb` is induction as a fact about a set of
    numbers (a least number outside it would have a predecessor inside), and
    `Recursion` shows that the function a recursion describes exists.
  - `HeaderComesBack`: every header that `read_header()` can give back
    (`Supported`) comes back as it was written, in either layout, with the
    optional fields and either checksum, and the reader stops where the blocks
    begin. `CutsAreTruncated`: one that is cut anywhere is "truncated" and nothing
    else. Both from `HeaderInductive`. Its invariant `HeaderInv` says that the file
    is the beginning of the one way to lay out the header (`Full`), that the fields
    before the reader's place are those written, and that what it has seen, and
    with it its cursor, is what the writer had written by that field (`Prefix`).
    The step that has to be argued is which field comes next: the reader goes by
    what it has read, and has read the version and the flags before the first
    field that depends on them (`NextField`). In the last comparison both sums are
    of the same bytes, since the sums by definition run along the data
    (`SumsFollow`). `HeaderSumsAreExact` and `HeaderCrcIsExact` hold of every header
    and every damage.
* `ContainerProofs` - `TypeCorrect`, `CompleteReadsBack`, `CutIsRefused`,
  `ListingIsRight` and `Implements` (the refinement of `Transfer`), for every
  content, every size of a block, every choice of checksums and every compressor
  that `CodecAssumption` admits: one whose output is not empty and has an inverse,
  for the pieces of a content that are no longer than a block, all that is ever
  compressed. That is what `CompressedReadsBack` says of `Codec`, whose hypothesis
  `RunsFit` every such piece meets. The invariant `WInv` says that the file
  is laid out in blocks: there is a set of marks, each with the bytes taken and
  the totals before it, such that between a mark and one that follows it lie the
  cells of the piece of content between them, as far as the file goes, and that
  the last is where the end marker is or, in a file that is not whole, is not
  before the file's end. The reader and `scan()` stand at a mark as long as they
  work, the output is what the mark says was taken, and cutting or continuing a
  file moves no mark. `ListingAgrees` also holds of changed files, which have no
  such layout: its invariant `LInv` is a track of places from the start of the
  file to where the reader is, each a step of `scan()` from the one before.
* `FileToolProofs` - five properties of a process that works alone, for every
  directory; the first four for every sequence of command lines and whatever
  trouble section 2 names: calls that fail, the clean-up among them or not, and a
  process killed between any two calls.
  - `NothingIsOverwrittenAlone`: no file changes without `-f` or `--raw` that the
    process has not made itself. `NotOverwrittenAlone` needs to know that the
    answer of `path.exists()` still holds at `File::create` (`Fresh`), and that no
    two names are one file (`Distinct`); the same step with two processes is the
    counterexample of `tool_race`.
  - `KeptInputsStay`: with `-k` or `-c` the inputs stay as they were. The property
    itself leaves out an input that the same command line gives up for its output,
    with `-f` or `--raw`: section 6 has what happens to it. The invariant, `Untouched`, says
    that the name still leads to its first file and that the process writes to
    another one, under another name.
  - `NothingGoesMissing` and `NothingIsLeftHalf`: what the directory held is at
    every step in a whole file that nobody writes to, also when a clean-up fails;
    and, unless one does, every file that nobody writes to stands for something it
    held. Neither is inductive: that a removed input is not a
    loss depends on everything the process did before. `ContentsInv` therefore
    relates what is in the target and in the `BufWriter` (`Out`) to the cells of
    the input consumed so far, by `PackedTo` or `UnpackedTo`, until the end has
    been written (`Packed`, `Unpacked`), keeps the input under its name and the
    target under its own, and says that the process's offset is the length of its
    file, which is what makes a write an appending. The lemmas `ArchiveOfPacked`
    and `PlainOfUnpacked` are where a finished file becomes one that stands for
    its input, and `FilesStandStay` is where that allows the input to go.
    The hypothesis `Orderly` has two parts. No name is given up to `-f` or
    `--raw`: a later command with `-f` may replace the archive that an earlier
    one left of another file. And there is a set of names, those of the `.lzo`
    files, such that files with these names are archives that end at their end
    marker or cannot be read up to one, of contents that are not archives
    themselves, the others are not archives, and commands compress into these
    names and decompress out of them (`TidyFor`). An archive with something
    behind its end marker is the case in which the code does lose data
    (section 7); one of an archive would hold its content under `Plain` of `Plain`.
    Of the states of run `tool` three in ten (22361 of 75411) are of a single
    process on an orderly directory.
  - `FileComesBack`: `lzo1x FILE` and then `lzo1x -d FILE.lzo` give FILE back,
    contents, mode and the whole seconds of its time, but for a mode of zero, for a
    time before the first second after the epoch and for the time of a read-only
    file (section 6). It needs no orderly directory: nothing is said of
    other files. `ErrandInv` follows the two commands on top of `ContentsInv`: the
    file is as it was until its archive is whole (`Original`, `Archived`), the
    header in memory, and then in the archive, is the one with the file's mode and
    time (`Heading`), and the second command unpacks what the first has packed
    (`SameAgain`) and sets mode and time before it removes the archive (`Back`).

Only model-checked:

* liveness, which is out of the prover's reach;
* `NeverWrongBytes`: a reader that lost its place in a changed file may meet a
  cell that is by chance the checksum of what it has read. It holds of the cells
  and the changes that TLC tries, and no assumption short of "this does not
  happen" gives it for all;
* `DamageIsSeen` of changed cells: that a changed header fails its checksum is
  true of the cells tried and false of some pair of headers, since checksums
  collide. Its other half, `CutIsTruncated`, is proved.

## 5. Plan

Done: the codec, the container with its header and checksums, and the tool, with
the proofs above. What would add most next: two processes with two commands each
in `FileTool` (section 6 has a behaviour that needs them), and a condition on a
pair of command lines under which the two lose nothing.

## 6. What disagrees with the documentation

Shown by a run:

* `compress()` documents that "every input has a valid encoding"
  (`compress.rs:117`) and that `decompress` "will read it back"
  (`compress.rs:124`). Matches are capped for that purpose
  (`compress.rs:50-54`), literal runs are not: a run of 16777234 literals or
  more, for example 17 MiB of data without a repeated trigram in reach, is
  written with an extension that passes `MAX_EXTENDED_LENGTH` and is refused
  (`lib.rs:254`). Run `extension_too_long`; the container, with blocks of
  256 KiB, never gets there.
* `create()` is "refusing to replace a file unless forced" (`cli/main.rs:232`),
  but looks for the file in one call and truncates it in another
  (`cli/main.rs:234-237`). Run `tool_race`: two processes compress the same
  file, and the second truncates the archive that the first has finished. When
  both run to their end without trouble the content is still there (`tool`);
  killed, or with a disk that fills up, the second leaves neither.
* "`lzo1x -d FILE.lzo` gives FILE back with its mode and modification time"
  (`cli/main.rs:66-67`). The mode is restored first (`cli/main.rs:345-347`), and
  to set the time the file is then opened for writing (`cli/main.rs:350`), which
  a mode without write permission forbids to anyone but root; the failure is
  ignored. Run `tool_read_only`: a read-only file comes back with the current
  time.

Seen while modelling, without a run of their own: `-k` says "Keep the input file"
(`cli/main.rs:87`), and with `-k -f -o FILE FILE` the input is truncated before
it is read, and an archive of nothing replaces it; `-d -c -o OUT` writes OUT and
nothing to standard output, while compressing does the opposite
(`cli/main.rs:266`, `308-310`); `-o OUT` without FILE succeeds without doing
anything (`cli/main.rs:188`, `211`); `--raw -o` replaces a file without `-f`
(`cli/main.rs:454`, against `tests/cli_files.rs:6`); a file comes back with its
modification time cut to a whole second (`cli/main.rs:253-258`), one last modified
before the first second after the epoch with the current time, and one with mode
zero with the mode of a new file (`cli/main.rs:345-349`, all against `66-67`;
`GivesBack` states what it does get); the result of removing a half-written file
is ignored (`cli/main.rs:284`, `341`), so that one stays behind when that fails
too, under the name that the next run without `-f` refuses to replace. A longer sequence than the `tool` run allows two processes, one that
compresses and decompresses a file while the other is about to remove it by name
after compressing it too, loses the content although nothing fails
(`cli/main.rs:293`). Nothing documents that this is safe, and no property of
`FileTool` says that two processes together lose nothing. `write_header()` writes
the newer layout whatever version the header names, and neither a filter nor an
extra field even when the flags ask for one, so that a header that was read from
another program's file does not always read back once written (`Supported` in
`Header`); the checksum of an extra field is stepped over, not compared, and a
field longer than `MAX_BLOCK` is read up to there only (`lzop.rs:351-356`), which
`Supported` also leaves out.

## 7. What is not modelled

* Capacity reservation and other allocation; formatting of errors and reports.
* Overflow in `usize`: no sum in the decoder passes 2^25 plus the length of its
  output.
* The blocks of a `.lzo` file byte by byte. Because a word is one cell in
  `Container`, a reader that lost its place never takes part of a word for data;
  `Header` takes a field for one cell in the same way.
* The collisions of the checksums: in `Container` they are functions without
  any, in `Header` they are computed, on one damaged cell.
* Of the tool: directories; names that are not UTF-8; the wording of reports;
  `fsync`, which the code does not call, so that what a power failure leaves is
  outside the model (`cli/main.rs:356`; nothing promises durability); archives
  followed by further data, whose rest is ignored and removed with the input.
* Tests, fuzz targets, workflows and shell scripts.
