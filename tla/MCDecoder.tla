----------------------------- MODULE MCDecoder -----------------------------
(* Instances of Decoder for TLC.  The bases of the distances and the numbers *)
(* of the length extension are scaled down in the configurations, so that    *)
(* every arm is reached, and refused, by streams of a few bytes.             *)
EXTENDS Decoder, SequencesExt

\* One of each instruction, both spellings where a field may be zero, and a
\* few that are only half an instruction.
Instructions == {
    <<18, 1>>, <<21, 1, 2, 3, 4>>,        \* leading runs of 1 and of 4
    <<128, 0>>, <<133, 0, 9>>,            \* 5 bytes at 1; at 2, one literal
    <<99, 0, 7, 8, 9>>,                   \* 4 bytes at 1, three literals
    <<33, 4, 0>>, <<32, 1, 1, 0, 6>>,     \* bucket C: 3 at 2; 34 at 1, a literal
    <<32, 0, 0>>,                         \* a length of 35, and one above the cap
    <<17, 0, 0>>, <<16, 0, 1, 2, 0>>,     \* two end markers
    <<17, 4, 0>>, <<24, 0, 1, 0, 0>>,     \* bucket D, short and extended, H set
    <<1, 5, 6, 7, 8>>, <<4, 0>>,          \* literal run, or tiny match, by state
    <<0, 1>> \o [i \in 1 .. 19 |-> i],    \* an extended literal run
    <<0, 0>> }

Concatenations(n) == { FlattenSeq(s) : s \in [1 .. n -> Instructions] }

\* Up to three instructions, cut anywhere.
CutStreams == UNION { { SubSeq(s, 1, k) : k \in 0 .. Len(s) } : s \in Concatenations(3) }

CutBounds == {0, 4, 12, 60}
=============================================================================
