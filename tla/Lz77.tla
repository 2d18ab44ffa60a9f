-------------------------------- MODULE Lz77 --------------------------------
(* What decoding an LZ77 stream promises, whatever the encoding of its       *)
(* instructions: the output only grows, every byte of it is either a literal *)
(* taken from the input, each input byte at most once and in order, or       *)
(* repeats the byte a fixed distance before it; it never exceeds the         *)
(* caller's bound; and a verdict, once given, is final.                      *)
EXTENDS Naturals, Sequences

VARIABLES input, max_out, \* the arguments of the call
          ip,             \* how much of the input has been consumed
          out,            \* the bytes decoded so far
          verdict         \* "running", "ok" or "err"

lz77Vars == <<input, max_out, ip, out, verdict>>

Lz77Init == ip = 0 /\ out = <<>> /\ verdict = "running"

Running == verdict = "running" /\ UNCHANGED <<input, max_out, verdict>>

\* Bytes that carry no data: commands, length extensions, operands.
SkipCommand == /\ Running
               /\ ip' > ip /\ ip' <= Len(input)
               /\ UNCHANGED out

\* n bytes are appended, and they are the last n bytes consumed.
TakeLiterals ==
    LET n == Len(out') - Len(out)
    IN  /\ Running
        /\ n > 0 /\ Len(out') <= max_out
        /\ ip' >= ip + n /\ ip' <= Len(input)
        /\ out' = out \o SubSeq(input, ip' - n + 1, ip')

\* The output is extended with the period dist, which may be shorter than
\* the extension: the copy then reads bytes it wrote itself.
RepeatAt(dist) ==
    /\ Running
    /\ Len(out') > Len(out) + 1 /\ Len(out') <= max_out
    /\ \A i \in 1 .. Len(out') :
          out'[i] = IF i <= Len(out) THEN out[i] ELSE out'[i - dist]
    /\ UNCHANGED ip

Repeat == \E dist \in 1 .. Len(out) : RepeatAt(dist)

Conclude == /\ verdict = "running"
            /\ verdict' \in {"ok", "err"}
            /\ ip' >= ip /\ ip' <= Len(input)
            /\ UNCHANGED <<input, max_out, out>>

Lz77Next == SkipCommand \/ TakeLiterals \/ Repeat \/ Conclude

Lz77Spec == Lz77Init /\ [][Lz77Next]_lz77Vars
=============================================================================
