------------------------------ MODULE Decoder ------------------------------
(* decompress() of src/lib.rs: one call on the stream `input` with the bound *)
(* `max_out`.  The loop of Decoder::run is a program counter, one action per *)
(* arm of the instruction grammar, per byte of a length extension and per    *)
(* byte of a back-reference; every `?` and `Err(E)` of a step is a disjunct  *)
(* of Malformed.                                                             *)
EXTENDS Naturals, Sequences

CONSTANTS
    Inputs,                          \* the streams the call may be given
    Bounds,                          \* the bounds the caller may choose
    ZERO_RUN_INCREMENT,              \* 255 in the code
    MAX_EXTENDED_LENGTH,             \* 1 << 24
    LONG_MATCH_DISTANCE_BASE,        \* 16384
    DISTANCE_FIELD,                  \* 1 << 14, the weight of the H bit
    POST_LITERAL_MATCH_DISTANCE_BASE \* 2049

Byte == 0 .. 255

\* No length starts above the cap: the bases of an extension are 31, 15 and 7.
ASSUME DecoderAssumption ==
    /\ Inputs \subseteq Seq(Byte)
    /\ Bounds \subseteq Nat
    /\ ZERO_RUN_INCREMENT \in Nat \ {0}
    /\ MAX_EXTENDED_LENGTH \in Nat /\ MAX_EXTENDED_LENGTH >= 31
    /\ LONG_MATCH_DISTANCE_BASE \in Nat \ {0}
    /\ DISTANCE_FIELD \in Nat \ {0}
    /\ POST_LITERAL_MATCH_DISTANCE_BASE \in Nat \ {0}

VARIABLES
    input, max_out, \* the arguments
    ip, out,        \* bytes consumed, bytes produced
    state,          \* literals the last instruction left pending, or the sentinel
    pc,             \* where run() stands
    arm,            \* the instruction being decoded
    len, dist,      \* its length and distance, as far as they are known
    copied          \* bytes of the current back-reference already written

args == <<input, max_out>>
vars == <<input, max_out, ip, out, state, pc, arm, len, dist, copied>>

\* The value of `state` that is no count: a long literal run just ended.
LONG_LITERAL_RUN_STATE == 4

Has(n) == ip + n <= Len(input)  \* n more bytes can be read
At(k) == input[ip + k]          \* the k-th unread byte

\* Mutant: the last byte the bound allows is refused.
FitsStrictly(n) == Len(out) + n < max_out

Fits(n) == Len(out) + n <= max_out

\* Mutant: the cursor moves, but the bytes are taken from where it was.
CopyFromCommand(skip, n) ==
    /\ out' = out \o SubSeq(input, ip + 1, ip + n)
    /\ ip' = ip + skip + n

\* copy_literals(n), `skip` bytes into the unread input.
CanCopyLiterals(skip, n) == Fits(n) /\ Has(skip + n)
CopyLiterals(skip, n) ==
    /\ out' = out \o SubSeq(input, ip + skip + 1, ip + skip + n)
    /\ ip' = ip + skip + n

\* Mutants: one of the two checks of copy_match is missing.
CanCopyFromAnywhere == dist # 0 /\ Fits(len)
CanCopyPastBound == dist # 0 /\ dist <= Len(out)

CanCopyMatch == dist # 0 /\ dist <= Len(out) /\ Fits(len)
-----------------------------------------------------------------------------
InitCall(i, m) ==
    /\ input = i /\ max_out = m
    /\ ip = 0 /\ out = <<>> /\ state = 0
    /\ pc = "bootstrap" /\ arm = "none"
    /\ len = 0 /\ dist = 0 /\ copied = 0

Init == \E i \in Inputs, m \in Bounds : InitCall(i, m)

\* What a leading run of n literals leaves in `state`.
LeadingState(n) == IF n < LONG_LITERAL_RUN_STATE THEN n ELSE LONG_LITERAL_RUN_STATE

\* A first byte of 18 or more is a run of first - 17 literals; any other byte
\* is left to the loop.
Bootstrap ==
    /\ pc = "bootstrap" /\ Has(1)
    /\ \/ LET n == At(1) - 17
          IN  /\ At(1) >= 18 /\ CanCopyLiterals(1, n)
              /\ CopyLiterals(1, n)
              /\ state' = LeadingState(n)
       \/ At(1) < 18 /\ state' = 0 /\ UNCHANGED <<ip, out>>
    /\ pc' = "command"
    /\ UNCHANGED <<args, arm, len, dist, copied>>

\* t >= 64: both arms whose distance is in the command byte and the next one.
ShortMatch ==
    /\ pc = "command" /\ Has(2) /\ At(1) >= 64
    /\ len' = IF At(1) >= 128 THEN 5 + ((At(1) \div 32) % 4) ELSE 3 + ((At(1) \div 32) % 2)
    /\ dist' = 8 * At(2) + ((At(1) \div 4) % 8) + 1
    /\ state' = At(1) % 4
    /\ ip' = ip + 2 /\ pc' = "match" /\ arm' = "short"
    /\ UNCHANGED <<args, out, copied>>

\* t in 32 .. 63 and t in 16 .. 31: a length field of zero is extended, then an
\* operand follows.  dist' is the distance the operand is added to.
LongMatch(name, bits, base) ==
    LET field == At(1) % bits
    IN  /\ IF field = 0
           THEN len' = bits - 1 /\ pc' = "extend"
           ELSE len' = field + 2 /\ pc' = "operand"
        /\ dist' = base /\ arm' = name
        /\ ip' = ip + 1
        /\ UNCHANGED <<args, out, state, copied>>

\* Mutant: the distance of bucket C starts at 0.
MatchCFromZero == /\ pc = "command" /\ Has(1) /\ At(1) \in 32 .. 63
                  /\ LongMatch("C", 32, 0)

MatchC == /\ pc = "command" /\ Has(1) /\ At(1) \in 32 .. 63
          /\ LongMatch("C", 32, 1)

MatchD == /\ pc = "command" /\ Has(1) /\ At(1) \in 16 .. 31
          /\ LongMatch("D", 8, LONG_MATCH_DISTANCE_BASE
                                 + ((At(1) \div 8) % 2) * DISTANCE_FIELD)

\* t < 16 with nothing pending: a long literal run.
LiteralRun ==
    /\ pc = "command" /\ Has(1) /\ At(1) < 16 /\ state = 0
    /\ IF At(1) = 0 THEN len' = 15 /\ pc' = "extend"
                    ELSE len' = At(1) + 3 /\ pc' = "literals"
    /\ arm' = "literals" /\ ip' = ip + 1
    /\ UNCHANGED <<args, out, state, dist, copied>>

\* t < 16 otherwise: a 2-byte match, or a 3-byte one after a long literal run.
TinyMatch ==
    /\ pc = "command" /\ Has(2) /\ At(1) < 16 /\ state # 0
    /\ LET near == 4 * At(2) + ((At(1) \div 4) % 4)
       IN  IF state = LONG_LITERAL_RUN_STATE
           THEN len' = 3 /\ dist' = near + POST_LITERAL_MATCH_DISTANCE_BASE
           ELSE len' = 2 /\ dist' = near + 1
    /\ state' = At(1) % 4
    /\ ip' = ip + 2 /\ pc' = "match" /\ arm' = "tiny"
    /\ UNCHANGED <<args, out, copied>>

\* Mutant: the cap is tested before the increment, one step too late.
ExtendZeroTooLate ==
    /\ pc = "extend" /\ Has(1) /\ At(1) = 0
    /\ len <= MAX_EXTENDED_LENGTH
    /\ len' = len + ZERO_RUN_INCREMENT /\ ip' = ip + 1
    /\ UNCHANGED <<args, out, state, pc, arm, dist, copied>>

\* Mutant: the zero byte is looked at and not consumed.
ExtendZeroInPlace ==
    /\ pc = "extend" /\ Has(1) /\ At(1) = 0
    /\ len + ZERO_RUN_INCREMENT <= MAX_EXTENDED_LENGTH
    /\ len' = len + ZERO_RUN_INCREMENT
    /\ UNCHANGED <<args, ip, out, state, pc, arm, dist, copied>>

\* extend_length: a zero byte carries on, unless the length passes the cap.
ExtendZero ==
    /\ pc = "extend" /\ Has(1) /\ At(1) = 0
    /\ len + ZERO_RUN_INCREMENT <= MAX_EXTENDED_LENGTH
    /\ len' = len + ZERO_RUN_INCREMENT /\ ip' = ip + 1
    /\ UNCHANGED <<args, out, state, pc, arm, dist, copied>>

\* ... and a non-zero byte ends it; the caller adds its base.
ExtendLast ==
    /\ pc = "extend" /\ Has(1) /\ At(1) # 0
    /\ ip' = ip + 1
    /\ IF arm = "literals" THEN len' = len + At(1) + 3 /\ pc' = "literals"
                           ELSE len' = len + At(1) + 2 /\ pc' = "operand"
    /\ UNCHANGED <<args, out, state, arm, dist, copied>>

\* Mutant: a literal run goes on to the trailing literals of a match.
LiteralsThenTrailing ==
    /\ pc = "literals" /\ CanCopyLiterals(0, len)
    /\ CopyLiterals(0, len)
    /\ state' = LONG_LITERAL_RUN_STATE /\ pc' = "trailing"
    /\ UNCHANGED <<args, arm, len, dist, copied>>

Literals ==
    /\ pc = "literals" /\ CanCopyLiterals(0, len)
    /\ CopyLiterals(0, len)
    /\ state' = LONG_LITERAL_RUN_STATE /\ pc' = "command"
    /\ UNCHANGED <<args, arm, len, dist, copied>>

\* The LE16 operand: 14 bits of distance over 2 bits of trailing literals.
\* A bucket-D token that adds no distance to the base ends the stream.
Operand ==
    LET op == At(1) + 256 * At(2)
        bits == op \div 4
    IN  /\ pc = "operand" /\ Has(2)
        /\ ip' = ip + 2
        /\ IF arm = "D" /\ bits = 0 /\ dist = LONG_MATCH_DISTANCE_BASE
           THEN pc' = "ok" /\ UNCHANGED <<dist, state>>
           ELSE pc' = "match" /\ dist' = dist + bits /\ state' = op % 4
        /\ UNCHANGED <<args, out, arm, len, copied>>

\* copy_match: both checks come before the first byte ...
CopyMatch ==
    /\ pc = "match" /\ CanCopyMatch
    /\ pc' = "copy"
    /\ UNCHANGED <<args, ip, out, state, arm, len, dist, copied>>

\* ... and every byte is read after the one before it was written.
CopyByte ==
    /\ pc = "copy"
    /\ out' = Append(out, out[Len(out) + 1 - dist])
    /\ IF copied + 1 < len THEN copied' = copied + 1 /\ pc' = pc
                           ELSE copied' = 0 /\ pc' = "trailing"
    /\ UNCHANGED <<args, ip, state, arm, len, dist>>

\* The literals the match carries with it.
Trailing ==
    /\ pc = "trailing" /\ CanCopyLiterals(0, state)
    /\ CopyLiterals(0, state)
    /\ pc' = "command"
    /\ UNCHANGED <<args, state, arm, len, dist, copied>>

\* Where the code returns Err(Malformed).
Malformed ==
    \/ pc \in {"bootstrap", "command", "extend"} /\ ~Has(1)
    \/ /\ Has(1)
       /\ \/ pc = "bootstrap" /\ At(1) >= 18 /\ ~CanCopyLiterals(1, At(1) - 17)
          \/ pc = "command" /\ (At(1) >= 64 \/ (At(1) < 16 /\ state # 0)) /\ ~Has(2)
          \/ pc = "extend" /\ At(1) = 0 /\ len + ZERO_RUN_INCREMENT > MAX_EXTENDED_LENGTH
    \/ pc = "literals" /\ ~CanCopyLiterals(0, len)
    \/ pc = "operand" /\ ~Has(2)
    \/ pc = "match" /\ ~CanCopyMatch
    \/ pc = "trailing" /\ ~CanCopyLiterals(0, state)

\* Mutants: the end of the input is taken for the end of the stream; the error
\* is swallowed and the loop resumes.
RejectUnlessAtEnd == /\ Malformed
                     /\ pc' = IF pc = "command" /\ ~Has(1) THEN "ok" ELSE "err"
                     /\ UNCHANGED <<args, ip, out, state, arm, len, dist, copied>>
RejectAndResume == /\ Malformed
                   /\ pc' = "command"
                   /\ UNCHANGED <<args, ip, out, state, arm, len, dist, copied>>

Reject == /\ Malformed
          /\ pc' = "err"
          /\ UNCHANGED <<args, ip, out, state, arm, len, dist, copied>>

Next == \/ Bootstrap \/ ShortMatch \/ MatchC \/ MatchD \/ LiteralRun \/ TinyMatch
        \/ ExtendZero \/ ExtendLast \/ Literals \/ Operand
        \/ CopyMatch \/ CopyByte \/ Trailing \/ Reject

Spec == Init /\ [][Next]_vars
-----------------------------------------------------------------------------
Verdicts == {"ok", "err"}

Phases == {"bootstrap", "command", "extend", "literals", "operand",
           "match", "copy", "trailing"} \cup Verdicts

\* Every register has its type, the cursor stays inside the stream, and a
\* length under extension never passes the cap: a stream of zeros is given up
\* before, not after, the increment that would (lib.rs:244-258).
TypeOK ==
    /\ input \in Seq(Byte) /\ max_out \in Nat
    /\ ip \in 0 .. Len(input)
    /\ out \in Seq(Byte)
    /\ state \in 0 .. LONG_LITERAL_RUN_STATE
    /\ pc \in Phases
    /\ arm \in {"none", "short", "tiny", "literals", "C", "D"}
    /\ len \in Nat /\ dist \in Nat /\ copied \in Nat
    /\ pc = "extend" => len <= MAX_EXTENDED_LENGTH

\* The caller's bound holds at every byte written, not only at the end: the
\* check that precedes a back-reference covers the whole copy (lib.rs:264-289).
OutputWithinBound == Len(out) <= max_out

\* The assertion at lib.rs:427-430: where `state` is used as a count of
\* literals it is never the sentinel, although bootstrap and long literal
\* runs leave the sentinel behind.
SentinelNotLive == pc \in {"match", "copy", "trailing"} => state < LONG_LITERAL_RUN_STATE

\* A copy never reads a byte that is not there yet: the source of each byte
\* is inside the output, and what was copied repeats it (lib.rs:264-277).
CopyIsPeriodic ==
    pc = "copy" =>
        /\ copied < len
        /\ dist \in 1 .. Len(out) - copied
        /\ \A i \in Len(out) - copied + 1 .. Len(out) : out[i] = out[i - dist]

\* The abstract decoder, whose output holds a back-reference only once it is
\* complete.
committed == SubSeq(out, 1, Len(out) - copied)
verdict == IF pc \in Verdicts THEN pc ELSE "running"

Abstract == INSTANCE Lz77 WITH out <- committed, verdict <- verdict

\* The decoder implements the abstract one: no byte of the output is anything
\* but an unused input byte in its turn or a repetition, no verdict is revised.
ImplementsLz77 == Abstract!Lz77Spec

\* The defence lib.rs:131-136 describes, against streams that make the decoder
\* loop: every step consumes input, produces output or moves on towards a step
\* that does, so a call takes at most 3 * (Len(input) + max_out) + 2 steps.
Work == 3 * (ip + Len(out)) + (IF pc \in {"command", "copy"} THEN 1 ELSE 0)

EveryStepWorks == [][pc' \in Verdicts \/ Work' > Work]_vars
=============================================================================
