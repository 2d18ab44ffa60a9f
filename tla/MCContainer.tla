---------------------------- MODULE MCContainer ----------------------------
EXTENDS Container

Letters == {1, 2}

\* Up to two full blocks and one byte, and the same with a block that shrinks.
SmallContents == UNION { [1 .. n -> Letters] : n \in 0 .. 5 }
                   \cup { <<1, 1, 1, 2, 1, 2>>, <<2, 1, 1, 1, 1, 1>>, <<1, 1, 1, 1, 1, 1, 2>> }

\* Two runs of the same byte, as <<byte, length>>, stand for the compressed
\* form; anything else grows by a byte.
RunLength(data) ==
    IF data # <<>> /\ \A i \in 1 .. Len(data) : data[i] = data[1]
    THEN <<data[1], Len(data)>> ELSE Append(data, 0)

\* Its inverse: nothing for what is malformed or exceeds the bound.
Expand(payload, bound) ==
    IF Len(payload) = 2 /\ payload[2] # 0
    THEN IF payload[2] <= bound THEN { [i \in 1 .. payload[2] |-> payload[1]] } ELSE {}
    ELSE IF Len(payload) > 0 /\ Len(payload) - 1 <= bound /\ payload[Len(payload)] = 0
         THEN { SubSeq(payload, 1, Len(payload) - 1) } ELSE {}

\* Checksums without collisions among these data.
Weighted(data) == 100 + FoldLeft(LAMBDA sum, x : 7 * sum + x, 1, data)
Reversed(data) == 1000 + Weighted(Reverse(data))

SomeFlags == { {}, {"ADLER32_D"}, {"CRC32_C"}, {"CRC32_D", "ADLER32_C"},
               {"ADLER32_D", "CRC32_D", "CRC32_C"} }

Trailers == { <<0>>, <<2, 2, 1, 2, 0>>, <<9>> }
CellValues == 0 .. 4 \cup {107, 5000}
=============================================================================
