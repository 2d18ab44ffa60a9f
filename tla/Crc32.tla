------------------------------- MODULE Crc32 -------------------------------
(* crc32() of src/lzop.rs.  A word is the set of the places of its one bits. *)
EXTENDS Naturals, Sequences

Places == 0 .. 31

\* 0xedb88320
POLYNOMIAL == {5, 8, 9, 15, 19, 20, 21, 23, 24, 26, 27, 29, 30, 31}

Xor(v, w) == (v \ w) \cup (w \ v)
ShiftRight(w, n) == { i - n : i \in { j \in w : j >= n } }
Bits(n) == { i \in 0 .. 30 : (n \div 2^i) % 2 = 1 }

Divide(c) == IF 0 \in c THEN Xor(POLYNOMIAL, ShiftRight(c, 1)) ELSE ShiftRight(c, 1)

\* Mutant: the table is built in one round less.
TableInSeven == [slot \in SUBSET (0 .. 7) |->
    LET rounds[n \in 0 .. 7] == IF n = 0 THEN slot ELSE Divide(rounds[n - 1]) IN rounds[7]]

Table == [slot \in SUBSET (0 .. 7) |->
    LET rounds[n \in 0 .. 8] == IF n = 0 THEN slot ELSE Divide(rounds[n - 1]) IN rounds[8]]

Crc32(crc, data) ==
    LET c[n \in 0 .. Len(data)] ==
          IF n = 0 THEN Places \ crc
          ELSE LET before == c[n - 1]
               IN  Xor(Table[Xor(before, Bits(data[n])) \cap 0 .. 7], ShiftRight(before, 8))
    IN  Places \ c[Len(data)]

\* The CRC by definition: the remainder of the message, bit by bit.
CrcByDefinition(data) ==
    LET c[n \in 0 .. 8 * Len(data)] ==
          IF n = 0 THEN Places
          ELSE LET before == c[n - 1]
                   bit == (n - 1) % 8 \in Bits(data[(n - 1) \div 8 + 1])
               IN  IF (0 \in before) # bit THEN Xor(POLYNOMIAL, ShiftRight(before, 1))
                   ELSE ShiftRight(before, 1)
    IN  Places \ c[8 * Len(data)]
=============================================================================
