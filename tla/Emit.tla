-------------------------------- MODULE Emit --------------------------------
(* The second half of compress(): emit() of src/compress.rs turns tokens     *)
(* into the stream, one match with the literals that follow it at a time.    *)
(* Panics has the unreachable! and the debug assertions that depend on the   *)
(* tokens; three more, that an extension carries something (line 298), that  *)
(* at most three literals ride in an operand (311) and that its distance has *)
(* 14 bits (342), hold by the conditions right beside them.                  *)
EXTENDS Naturals, Sequences

CONSTANTS
    MIN_MATCH, MAX_MATCH,     \* 3 and 1 << 16
    MAX_DISTANCE,             \* 49151
    MAX_BUCKET_C_DISTANCE,    \* 1 << 14
    LONG_MATCH_DISTANCE_BASE, \* 16384
    DISTANCE_FIELD,           \* 1 << 14, the weight of bucket D's H bit
    ZERO_RUN_INCREMENT,       \* 255
    MAX_BOOTSTRAP_LITERALS    \* 238

MAX_INLINE_LITERALS == 3

VARIABLES
    input, tokens, \* the arguments
    index,         \* tokens emitted
    stream,        \* the bytes emitted: `out` in the code
    emitting       \* "emitting" or "emitted"

vars == <<input, tokens, index, stream, emitting>>

\* A number above 255 loses its high bits in `as u8`.
Byte1(n) == <<n % 256>>
Zeros(n) == [i \in 1 .. n |-> 0]

\* Mutant: `>=`, which may leave nothing for the last byte.
LengthExtensionEarly(remainder) ==
    LET zeros == remainder \div ZERO_RUN_INCREMENT
    IN  Zeros(zeros) \o Byte1(remainder - zeros * ZERO_RUN_INCREMENT)

\* emit_length_extension: as many zero bytes as leave a byte for the rest.
LengthExtension(remainder) ==
    LET zeros == IF remainder = 0 THEN 0 ELSE (remainder - 1) \div ZERO_RUN_INCREMENT
    IN  Zeros(zeros) \o Byte1(remainder - zeros * ZERO_RUN_INCREMENT)

Literals(t) == SubSeq(input, t.at + 1, t.at + t.len)

\* emit_literal_run; valid from four literals on.
LiteralRunBytes(t) ==
    (IF t.len <= 18 THEN Byte1(t.len - 3)
                    ELSE Byte1(0) \o LengthExtension(t.len - 18))
    \o Literals(t)

LiteralRunAsserts(t) == t.len >= 4

\* emit_leading_literals
LeadingBytes(t) == IF t.len <= MAX_BOOTSTRAP_LITERALS
                   THEN Byte1(t.len + 17) \o Literals(t)
                   ELSE LiteralRunBytes(t)

\* push_operand, little-endian: 14 bits of distance over the inline count.
OperandBytes(bits, inline) ==
    LET op == 4 * bits + inline
    IN  Byte1(op) \o Byte1(op \div 256)

\* emit_match: the command byte of a bucket, the field of `bits` values that
\* holds the length, and the operand.
BucketBytes(command, bits, n, distance, inline) ==
    (IF n <= bits + 1 THEN Byte1(command + n - 2)
                      ELSE Byte1(command) \o LengthExtension(n - (bits + 1)))
    \o OperandBytes(distance, inline)

\* Mutant: `<`, which leaves a match at 16384 to bucket D.
MatchBytesSharedDistance(t, inline) ==
    LET offset == t.dist - LONG_MATCH_DISTANCE_BASE
        high == (offset \div DISTANCE_FIELD) % 2
    IN  IF t.dist < MAX_BUCKET_C_DISTANCE
        THEN BucketBytes(32, 32, t.len, t.dist - 1, inline)
        ELSE BucketBytes(16 + 8 * high, 8, t.len, offset % DISTANCE_FIELD, inline)

MatchBytes(t, inline) ==
    LET offset == t.dist - LONG_MATCH_DISTANCE_BASE
        high == (offset \div DISTANCE_FIELD) % 2
    IN  IF t.dist <= MAX_BUCKET_C_DISTANCE
        THEN BucketBytes(32, 32, t.len, t.dist - 1, inline)
        ELSE BucketBytes(16 + 8 * high, 8, t.len, offset % DISTANCE_FIELD, inline)

MatchAsserts(t) == t.len \in MIN_MATCH .. MAX_MATCH /\ t.dist \in 1 .. MAX_DISTANCE

EndOfStream == <<17, 0, 0>>
-----------------------------------------------------------------------------
InitCall ==
    /\ index = 0 /\ stream = <<>> /\ emitting = "emitting"

\* The first token, when it is a literal run, has an encoding of its own.
Leading ==
    /\ emitting = "emitting" /\ index = 0
    /\ tokens # <<>> /\ tokens[1].kind = "literals"
    /\ stream' = LeadingBytes(tokens[1])
    /\ index' = 1
    /\ UNCHANGED <<input, tokens, emitting>>

\* What follows the match is known before the match is written.
Following == index + 2 <= Len(tokens) /\ tokens[index + 2].kind = "literals"

AtMatch == /\ emitting = "emitting" /\ index < Len(tokens)
           /\ tokens[index + 1].kind = "match"

\* A match whose literals, if any, ride in its operand.
MatchInline ==
    /\ AtMatch
    /\ Following => tokens[index + 2].len <= MAX_INLINE_LITERALS
    /\ LET t == tokens[index + 1]
           inline == IF Following THEN tokens[index + 2].len ELSE 0
       IN  /\ MatchAsserts(t)
           /\ stream' = stream \o MatchBytes(t, inline)
                               \o (IF Following THEN Literals(tokens[index + 2]) ELSE <<>>)
    /\ index' = IF Following THEN index + 2 ELSE index + 1
    /\ UNCHANGED <<input, tokens, emitting>>

\* A match followed by a literal run in its own instruction.
MatchThenRun ==
    /\ AtMatch /\ Following
    /\ tokens[index + 2].len > MAX_INLINE_LITERALS
    /\ MatchAsserts(tokens[index + 1])
    /\ stream' = stream \o MatchBytes(tokens[index + 1], 0)
                        \o LiteralRunBytes(tokens[index + 2])
    /\ index' = index + 2
    /\ UNCHANGED <<input, tokens, emitting>>

Finish ==
    /\ emitting = "emitting" /\ index = Len(tokens)
    /\ stream' = stream \o EndOfStream
    /\ emitting' = "emitted"
    /\ UNCHANGED <<input, tokens, index>>

Next == Leading \/ MatchInline \/ MatchThenRun \/ Finish

\* Where the code would panic: a run too short for its encoding, a match the
\* grammar or the decoder's cap has no room for, a run that follows a run.
Panics ==
    /\ emitting = "emitting" /\ index < Len(tokens)
    /\ \/ /\ index = 0 /\ tokens[1].kind = "literals"
          /\ tokens[1].len > MAX_BOOTSTRAP_LITERALS /\ ~LiteralRunAsserts(tokens[1])
       \/ /\ index > 0 /\ tokens[index + 1].kind = "literals"
       \/ /\ tokens[index + 1].kind = "match"
          /\ \/ ~MatchAsserts(tokens[index + 1])
             \/ /\ Following /\ tokens[index + 2].len > MAX_INLINE_LITERALS
                /\ ~LiteralRunAsserts(tokens[index + 2])
=============================================================================
