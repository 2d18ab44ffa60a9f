------------------------------ MODULE MCParse ------------------------------
EXTENDS Parse

Letters == {1, 2}
Trigrams == [1 .. 3 -> Letters]

\* Every input of up to eleven bytes over two letters.
ShortInputs == UNION { [1 .. n -> Letters] : n \in 0 .. 11 }

\* A perfect hash, one that maps everything to one slot, and one that sees a
\* single byte.
SampleHashes == { [w \in Trigrams |-> 4 * w[1] + 2 * w[2] + w[3]],
                  [w \in Trigrams |-> 0],
                  [w \in Trigrams |-> w[2]] }
=============================================================================
