------------------------------ MODULE Adler32 ------------------------------
(* adler32() of src/lzop.rs: two sums over the bytes, in registers of one    *)
(* word each, that are reduced only after a chunk of bytes.  `sum_a` and     *)
(* `sum_b` follow them as Adler-32 is defined, reduced after every byte.     *)
EXTENDS Naturals, Sequences

CONSTANTS
    BYTE,  \* 255
    HALF,  \* 2^16, the values of half a word
    MOD,   \* 65521
    CHUNK  \* 5552

\* A chunk of the largest bytes, after the largest seed, fits a word.
ASSUME AdlerAssumption ==
    /\ BYTE \in Nat /\ HALF \in Nat /\ MOD \in Nat \ {0} /\ CHUNK \in Nat \ {0}
    /\ MOD <= HALF
    /\ (2 * (HALF - 1) + BYTE * CHUNK) * (CHUNK + 1) < 2 * (HALF * HALF)

VARIABLES
    data,        \* the bytes
    a, b,        \* the registers
    summed, k,   \* bytes summed, and how many of them in this chunk
    sum_a, sum_b \* the sums by definition
adlerVars == <<data, a, b, summed, k, sum_a, sum_b>>

Wrapped(x) == x % (HALF * HALF)

\* The call adler32(hi << 16 | lo, bytes).
Call(bytes, lo, hi) ==
    /\ data' = bytes /\ summed' = 0 /\ k' = 0
    /\ a' = lo /\ b' = hi /\ sum_a' = lo /\ sum_b' = hi

InitCall(lo, hi) == /\ summed = 0 /\ k = 0
                    /\ a = lo /\ b = hi /\ sum_a = lo /\ sum_b = hi

ChunkOver == k > 0 /\ (k = CHUNK \/ summed = Len(data))

SumByte ==
    /\ ~ChunkOver /\ summed < Len(data)
    /\ LET byte == data[summed + 1]
       IN  /\ a' = Wrapped(a + byte) /\ b' = Wrapped(b + a')
           /\ sum_a' = (sum_a + byte) % MOD /\ sum_b' = (sum_b + sum_a') % MOD
    /\ summed' = summed + 1 /\ k' = k + 1
    /\ UNCHANGED data

\* Mutant: the larger register keeps what it has.
ReduceOne == /\ ChunkOver
             /\ a' = a % MOD /\ k' = 0
             /\ UNCHANGED <<data, b, summed, sum_a, sum_b>>

Reduce == /\ ChunkOver
          /\ a' = a % MOD /\ b' = b % MOD /\ k' = 0
          /\ UNCHANGED <<data, summed, sum_a, sum_b>>

Summed == k = 0 /\ summed = Len(data)

\* Calls on any bytes, each from any seed or from the sum of the one before.
Init == /\ data \in Seq(0 .. BYTE)
        /\ \E lo, hi \in 0 .. HALF - 1 : InitCall(lo, hi)

NextCall == /\ Summed
            /\ \E bytes \in Seq(0 .. BYTE) : \E lo, hi \in 0 .. HALF - 1 : Call(bytes, lo, hi)

Continue == /\ Summed
            /\ data' \in Seq(0 .. BYTE) /\ summed' = 0
            /\ UNCHANGED <<a, b, k, sum_a, sum_b>>

Next == SumByte \/ Reduce \/ NextCall \/ Continue

Spec == Init /\ [][Next]_adlerVars
-----------------------------------------------------------------------------
AdlerTypeOK ==
    /\ data \in Seq(0 .. BYTE) /\ summed \in 0 .. Len(data)
    /\ k \in 0 .. CHUNK /\ k <= summed
    /\ a \in Nat /\ b \in Nat /\ sum_a \in 0 .. HALF - 1 /\ sum_b \in 0 .. HALF - 1

\* No addition overflows a register: "5552 bytes is the most that can be summed
\* before `b` could overflow" (lzop.rs:185).
SumsFit == ~ChunkOver /\ summed < Len(data) => b + a + data[summed + 1] < HALF * HALF

\* Reduced once a chunk, the registers come to what Adler-32 is defined to be
\* (lzop.rs:186-194), and fit the halves of the word that is returned.
SumsAreExact == k = 0 => /\ a = sum_a /\ b = sum_b
                         /\ a < HALF /\ b < HALF
=============================================================================
