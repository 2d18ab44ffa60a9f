------------------------------ MODULE MCCodec ------------------------------
EXTENDS Codec

Letters == {1, 2}
Trigrams == [1 .. 3 -> Letters]

\* Every input of up to eleven bytes over two letters: room for two matches
\* and for the distances of both buckets.
ShortInputs == UNION { [1 .. n -> Letters] : n \in 0 .. 11 }

SampleHashes == { [w \in Trigrams |-> 4 * w[1] + 2 * w[2] + w[3]],
                  [w \in Trigrams |-> w[2]] }

NoCases == {}
NoInputs == {}
-----------------------------------------------------------------------------
\* Token lists around every boundary of the encoding, with the constants of
\* the code.  The bytes are such that a wrong distance shows.
Bytes(from, n) == [i \in 1 .. n |-> (((from + i) % 239) * ((from + i) % 241) + i \div 256) % 256]

Repeated(data, n, d) ==
    data \o [k \in 1 .. n |-> data[Len(data) - d + 1 + ((k - 1) % d)]]

Literal(p, n) == [kind |-> "literals", at |-> p, len |-> n, dist |-> 0]
Copy(p, n, d) == [kind |-> "match", at |-> p, len |-> n, dist |-> d]

\* A leading run, one match, a final run of m literals or none.
OneMatch(n, l, d, m) ==
    [input |-> Repeated(Bytes(0, n), l, d) \o Bytes(n, m),
     tokens |-> <<Literal(0, n), Copy(n, l, d)>>
                \o (IF m = 0 THEN <<>> ELSE <<Literal(n + l, m)>>)]

\* Two matches, with k literals between them.
TwoMatches(n, l, k, d, m) ==
    [input |-> Repeated(Repeated(Bytes(0, n), l, 1) \o Bytes(9, k), l, d) \o Bytes(n, m),
     tokens |-> <<Literal(0, n), Copy(n, l, 1)>>
                \o (IF k = 0 THEN <<>> ELSE <<Literal(n + l, k)>>)
                \o <<Copy(n + l + k, l, d), Literal(n + l + k + l, m)>>]

OnlyLiterals(n) == [input |-> Bytes(0, n), tokens |-> <<Literal(0, n)>>]

Runs == {1, 3, 4, 17, 18, 19, 238, 239, 272, 273, 274, 528, 529}
MatchLengths == {3, 32, 33, 34, 287, 288, 289}

NearCases ==
    { OnlyLiterals(n) : n \in Runs }
    \cup { OneMatch(n, l, 1, m) : n \in {1, 4, 239}, l \in MatchLengths,
                                  m \in {0, 1, 3, 4, 18, 19, 273, 274} }
    \cup { TwoMatches(5, l, k, d, 3) : l \in {3, 34}, k \in {0, 1, 2, 3, 4, 19}, d \in {1, 2, 7} }

FarCases ==
    { OneMatch(16386, l, d, 3) : l \in {3, 9, 10, 34}, d \in {16383, 16384, 16385, 16386} }
    \cup { OneMatch(49152, l, d, 4) : l \in {9, 10}, d \in {32767, 32768, 49150, 49151} }

BoundaryCases == NearCases \cup FarCases
=============================================================================
