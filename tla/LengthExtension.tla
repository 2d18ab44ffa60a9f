-------------------------- MODULE LengthExtension --------------------------
(* The zero-run length extension, from the encoder that writes it            *)
(* (emit_length_extension, src/compress.rs) to the decoder that reads it     *)
(* (extend_length, src/lib.rs), on lengths alone: the bytes that carry no    *)
(* length are left out, so that lengths of the real magnitude can be checked *)
(* and every length proved about.                                            *)
EXTENDS Naturals

CONSTANTS
    Lengths,            \* the lengths to transmit
    MAX_MATCH,          \* 1 << 16, the longest match the encoder emits
    ZERO_RUN_INCREMENT, \* 255
    MAX_EXTENDED_LENGTH \* 1 << 24

\* The three instructions with an extensible length field.  `full` is where
\* the decoder's count starts, `implied` what it adds in the end; a length up
\* to their sum has no extension.
Instruction == { [name |-> "literals", full |-> 15, implied |-> 3],
                 [name |-> "C",        full |-> 31, implied |-> 2],
                 [name |-> "D",        full |-> 7,  implied |-> 2] }

\* A terminating byte carries at most 255, and the longest match is shorter
\* than the cap.
ASSUME LengthAssumption ==
    /\ Lengths \subseteq Nat
    /\ MAX_MATCH \in 0 .. MAX_EXTENDED_LENGTH
    /\ ZERO_RUN_INCREMENT \in 1 .. 255
    /\ MAX_EXTENDED_LENGTH \in Nat

VARIABLES
    instr, length, \* what is transmitted
    phase,         \* "emit", then "read", then "readback" or "refused"
    left,          \* emit_length_extension: what is still to be written
    zeros, last,   \* the extension bytes written: zeros, then a last byte
    seen, len      \* extend_length: zeros consumed, length so far

vars == <<instr, length, phase, left, zeros, last, seen, len>>

\* Mutant: what the decoder adds in the end is forgotten.
BaseOfField == instr.full

Base == instr.full + instr.implied

\* Mutant: the encoder caps no length.
InitUncapped ==
    /\ instr \in Instruction /\ length \in Lengths
    /\ length > Base
    /\ phase = "emit" /\ left = length - Base
    /\ zeros = 0 /\ last = 0 /\ seen = 0 /\ len = 0

\* match_length caps a match; nothing caps a literal run.
Init ==
    /\ instr \in Instruction /\ length \in Lengths
    /\ length > Base
    /\ instr.name # "literals" => length <= MAX_MATCH
    /\ phase = "emit" /\ left = length - Base
    /\ zeros = 0 /\ last = 0 /\ seen = 0 /\ len = 0

\* Mutant: `>=`, which may leave nothing for the last byte.
EmitZeroEarly ==
    /\ phase = "emit" /\ left >= ZERO_RUN_INCREMENT
    /\ zeros' = zeros + 1 /\ left' = left - ZERO_RUN_INCREMENT
    /\ UNCHANGED <<instr, length, phase, last, seen, len>>

EmitZero ==
    /\ phase = "emit" /\ left > ZERO_RUN_INCREMENT
    /\ zeros' = zeros + 1 /\ left' = left - ZERO_RUN_INCREMENT
    /\ UNCHANGED <<instr, length, phase, last, seen, len>>

\* `left as u8`: the byte keeps the low 8 bits.
EmitLast ==
    /\ phase = "emit" /\ left <= ZERO_RUN_INCREMENT
    /\ last' = left % 256
    /\ phase' = "read" /\ len' = instr.full
    /\ UNCHANGED <<instr, length, left, zeros, seen>>

ReadZero ==
    /\ phase = "read" /\ seen < zeros
    /\ len + ZERO_RUN_INCREMENT <= MAX_EXTENDED_LENGTH
    /\ seen' = seen + 1 /\ len' = len + ZERO_RUN_INCREMENT
    /\ UNCHANGED <<instr, length, phase, left, zeros, last>>

\* Mutant: the last byte is taken for a full one.
RefuseAhead ==
    /\ phase = "read" /\ seen < zeros
    /\ len + 2 * ZERO_RUN_INCREMENT > MAX_EXTENDED_LENGTH
    /\ phase' = "refused"
    /\ UNCHANGED <<instr, length, left, zeros, last, seen, len>>

Refuse ==
    /\ phase = "read" /\ seen < zeros
    /\ len + ZERO_RUN_INCREMENT > MAX_EXTENDED_LENGTH
    /\ phase' = "refused"
    /\ UNCHANGED <<instr, length, left, zeros, last, seen, len>>

\* A zero last byte would be read as one more of the run.
ReadLast ==
    /\ phase = "read" /\ seen = zeros /\ last # 0
    /\ phase' = "readback" /\ len' = len + last + instr.implied
    /\ UNCHANGED <<instr, length, left, zeros, last, seen>>

Next == EmitZero \/ EmitLast \/ ReadZero \/ Refuse \/ ReadLast

Spec == Init /\ [][Next]_vars
-----------------------------------------------------------------------------
TypeOK ==
    /\ instr \in Instruction /\ length \in Nat
    /\ phase \in {"emit", "read", "readback", "refused"}
    /\ left \in Nat /\ zeros \in Nat /\ last \in 0 .. 255
    /\ seen \in Nat /\ len \in Nat

\* The decoder reads the length the encoder wrote, although the one counts
\* down from what the command byte cannot hold and the other up from what it
\* does (compress.rs:297-305, lib.rs:244-258).
ReadBackExactly == phase = "readback" => len = length

\* The terminating byte is never the byte that means "go on", so the decoder
\* never reads past the extension (compress.rs:291-296).
NeverRunsOn == phase = "read" => last # 0

\* The cap refuses no length below it, however it is split between the field
\* and the extension (lib.rs:131-136, compress.rs:50-54).
CapSparesShorterLengths == phase = "refused" => length > MAX_EXTENDED_LENGTH

\* "Staying well under it keeps every stream this encoder produces inside what
\* this crate will read back" (compress.rs:50-54): true of its matches.
MatchesAreNeverRefused == phase = "refused" => instr.name = "literals"

\* What the documentation of compress() promises (compress.rs:117, 123-124):
\* whatever the length, the decoder reads it back.
EveryLengthIsReadBack == phase # "refused"
=============================================================================
