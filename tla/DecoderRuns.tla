---------------------------- MODULE DecoderRuns ----------------------------
(* Two calls of decompress() on related arguments, one after the other: the  *)
(* second stream repeats the first up to some byte and then goes its own way *)
(* (cut short, continued, or corrupted), under a bound of its own.  What     *)
(* lib.rs promises about the bound and about the end of the stream relates   *)
(* the two verdicts.                                                         *)
EXTENDS Decoder

CONSTANT Tails  \* what may follow the common part

ASSUME TailsAssumption == Tails \subseteq Seq(Byte)

VARIABLE first  \* the first call, once it has returned

runVars == <<vars, first>>

NoCall == [verdict |-> "none"]

RunsInit == Init /\ first = NoCall

RunsStep == Next /\ UNCHANGED first

SecondCall ==
    /\ first = NoCall /\ pc \in Verdicts
    /\ first' = [verdict |-> pc, input |-> input, max_out |-> max_out,
                 consumed |-> ip, out |-> out]
    /\ \E k \in 0 .. Len(input), tail \in Tails, m \in Bounds :
          LET i == SubSeq(input, 1, k) \o tail
          IN  /\ input' = i /\ max_out' = m
              /\ ip' = 0 /\ out' = <<>> /\ state' = 0
              /\ pc' = "bootstrap" /\ arm' = "none"
              /\ len' = 0 /\ dist' = 0 /\ copied' = 0

RunsNext == RunsStep \/ SecondCall

RunsSpec == RunsInit /\ [][RunsNext]_runVars
-----------------------------------------------------------------------------
FirstDecoded == first.verdict = "ok" /\ pc \in Verdicts

\* The second stream holds everything the first call consumed.
SameStream == /\ Len(input) >= first.consumed
              /\ SubSeq(input, 1, first.consumed) = SubSeq(first.input, 1, first.consumed)

\* The stream is self-delimiting and the bound is only a bound (lib.rs:190-203,
\* 306-310): a stream that decodes, decodes to the same bytes whatever follows
\* its end marker and whatever bound not below its length is given, and is
\* refused under every bound that is.
BoundIsExact ==
    FirstDecoded /\ SameStream =>
        IF max_out >= Len(first.out)
        THEN pc = "ok" /\ out = first.out /\ ip = first.consumed
        ELSE pc = "err"

\* A stream cut before the end of its marker is refused, never taken for a
\* shorter one (lib.rs:306-310).
TruncationIsRefused ==
    FirstDecoded
    /\ Len(input) < first.consumed
    /\ input = SubSeq(first.input, 1, Len(input))
        => pc = "err"
=============================================================================
