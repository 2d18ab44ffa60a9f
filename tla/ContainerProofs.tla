--------------------------- MODULE ContainerProofs ---------------------------
(* Theorems about Container, for every content, every choice of checksums,   *)
(* every compressor with an inverse and every size of a block.               *)
EXTENDS Container, SequenceTheorems, TLAPS

-----------------------------------------------------------------------------
(* Sequences.                                                                *)

LEMMA ConcatCells ==
    ASSUME NEW S, NEW s \in Seq(S), NEW t \in Seq(S)
    PROVE  /\ s \o t \in Seq(S)
           /\ Len(s \o t) = Len(s) + Len(t)
           /\ \A k \in 1 .. Len(s) : (s \o t)[k] = s[k]
           /\ \A k \in 1 .. Len(t) : (s \o t)[Len(s) + k] = t[k]
OBVIOUS

LEMMA SubSeqCells ==
    ASSUME NEW S, NEW s \in Seq(S), NEW m \in Nat, NEW n \in Nat, m <= n, n <= Len(s)
    PROVE  /\ SubSeq(s, m + 1, n) \in Seq(S)
           /\ Len(SubSeq(s, m + 1, n)) = n - m
           /\ \A k \in 1 .. n - m : SubSeq(s, m + 1, n)[k] = s[m + k]
OBVIOUS

\* A sequence that is found at a place is what is cut out there.
LEMMA CutOut ==
    ASSUME NEW S, NEW s \in Seq(S), NEW t \in Seq(S), NEW m \in Nat, m + Len(t) <= Len(s),
           \A k \in 1 .. Len(t) : s[m + k] = t[k]
    PROVE  SubSeq(s, m + 1, m + Len(t)) = t
<1>1. Len(t) \in Nat
  OBVIOUS
<1>2. /\ SubSeq(s, m + 1, m + Len(t)) \in Seq(S)
      /\ Len(SubSeq(s, m + 1, m + Len(t))) = Len(t)
      /\ \A k \in 1 .. Len(t) : SubSeq(s, m + 1, m + Len(t))[k] = s[m + k]
  BY <1>1, SubSeqCells
<1> DEFINE u == SubSeq(s, m + 1, m + Len(t))
<1>3. u \in Seq(S) /\ Len(u) = Len(t) /\ \A k \in 1 .. Len(t) : u[k] = t[k]
  BY <1>2
<1> HIDE DEF u
<1>4. u = t
  BY <1>3, SeqEqual
<1> QED  BY <1>4 DEF u

LEMMA ConcatPieces ==
    ASSUME NEW S, NEW s \in Seq(S), NEW m \in Nat, NEW n \in Nat, m <= n, n <= Len(s)
    PROVE  SubSeq(s, 1, m) \o SubSeq(s, m + 1, n) = SubSeq(s, 1, n)
OBVIOUS
-----------------------------------------------------------------------------
(* The cells of one block.                                                   *)

IsPiece(d) == \E i, j \in 1 .. Len(content) :
                 i <= j /\ j < i + BLOCK_SIZE /\ d = SubSeq(content, i, j)

\* The c-checksum of a block that shrank.
SecondSum(d) == IF Len(Payload(d)) < Len(d) THEN CSum(Payload(d)) ELSE <<>>

\* What the header says of the number of checksums.
Sums == Len(DSum(<<>>))
SecondSums == Len(CSum(<<>>))

LEMMA SumsAreNat == Sums \in Nat /\ SecondSums \in Nat
BY DEF Sums, SecondSums, DSum, CSum

LEMMA PieceFacts ==
    ASSUME content \in Contents, NEW d, IsPiece(d)
    PROVE  /\ d \in Seq(Nat) /\ Len(d) \in Nat /\ Len(d) >= 1
           /\ Payload(d) \in Seq(Nat) /\ Len(Payload(d)) \in Nat
           /\ Len(Payload(d)) >= 1 /\ Len(Payload(d)) <= Len(d)
           /\ DSum(d) \in Seq(Nat) /\ Len(DSum(d)) = Sums
           /\ CSum(Payload(d)) \in Seq(Nat) /\ Len(CSum(Payload(d))) = SecondSums
           /\ Len(Payload(d)) < Len(d) => Unpack(Payload(d), Len(d)) = {d}
           /\ ~(Len(Payload(d)) < Len(d)) => Payload(d) = d
<1>1. PICK i \in 1 .. Len(content), j \in 1 .. Len(content) :
              i <= j /\ j < i + BLOCK_SIZE /\ d = SubSeq(content, i, j)
  BY DEF IsPiece
<1>2. content \in Seq(Nat)
  BY ContainerAssumption
<1>3. /\ d \in Seq(Nat) /\ Len(d) \in Nat /\ Len(d) >= 1
  BY <1>1, <1>2
<1>4. /\ Pack(d) \in Seq(Nat) /\ Pack(d) # <<>>
      /\ Unpack(Pack(d), Len(d)) = {d}
      /\ Adler(d) \in Nat /\ Crc(d) \in Nat /\ Adler(Pack(d)) \in Nat /\ Crc(Pack(d)) \in Nat
  BY <1>1, CodecAssumption
<1>5. Len(Pack(d)) \in Nat /\ Len(Pack(d)) >= 1
  BY <1>4
<1>6. \/ Payload(d) = Pack(d) /\ Len(Pack(d)) < Len(d)
      \/ Payload(d) = d /\ ~(Len(Pack(d)) < Len(d))
  BY DEF Payload
<1>7. Adler(Payload(d)) \in Nat /\ Crc(Payload(d)) \in Nat
  BY <1>4, <1>6
<1>8. DSum(d) \in Seq(Nat) /\ Len(DSum(d)) = Sums
  BY <1>4 DEF DSum, Sums
<1>9. CSum(Payload(d)) \in Seq(Nat) /\ Len(CSum(Payload(d))) = SecondSums
  BY <1>7 DEF CSum, SecondSums
<1> QED  BY <1>3, <1>4, <1>5, <1>6, <1>8, <1>9

LEMMA BlockFacts ==
    ASSUME content \in Contents, NEW d, IsPiece(d)
    PROVE  LET cells == BlockCells(d)
               payload == Payload(d)
               c == 2 + Sums + (IF Len(payload) < Len(d) THEN SecondSums ELSE 0)
           IN  /\ cells \in Seq(Nat) /\ Len(cells) = c + Len(payload) /\ c \in Nat
               /\ cells[1] = Len(d) /\ cells[2] = Len(payload)
               /\ \A k \in 1 .. Sums : cells[2 + k] = DSum(d)[k]
               /\ Len(payload) < Len(d) =>
                     \A k \in 1 .. SecondSums : cells[2 + Sums + k] = CSum(payload)[k]
               /\ \A k \in 1 .. Len(payload) : cells[c + k] = payload[k]
<1> DEFINE p == Payload(d)
           sizes == <<Len(d), Len(p)>>
           one == sizes \o DSum(d)
           two == one \o SecondSum(d)
<1>1. /\ p \in Seq(Nat) /\ Len(p) \in Nat /\ Len(d) \in Nat
      /\ DSum(d) \in Seq(Nat) /\ Len(DSum(d)) = Sums
      /\ CSum(p) \in Seq(Nat) /\ Len(CSum(p)) = SecondSums
      /\ Sums \in Nat /\ SecondSums \in Nat
  BY PieceFacts, SumsAreNat
<1>2. /\ SecondSum(d) \in Seq(Nat)
      /\ Len(SecondSum(d)) = (IF Len(p) < Len(d) THEN SecondSums ELSE 0)
      /\ Len(p) < Len(d) => SecondSum(d) = CSum(p)
  BY <1>1 DEF SecondSum
<1>3. BlockCells(d) = two \o p
  BY DEF BlockCells, SecondSum
<1>4. sizes \in Seq(Nat) /\ Len(sizes) = 2 /\ sizes[1] = Len(d) /\ sizes[2] = Len(p)
  BY <1>1
<1> HIDE DEF p, sizes
<1>d. DSum(d) \in Seq(Nat)
  BY <1>1
<1>e. SecondSum(d) \in Seq(Nat)
  BY <1>2
<1>f. p \in Seq(Nat)
  BY <1>1
<1>5. /\ one \in Seq(Nat) /\ Len(one) = 2 + Sums
      /\ \A k \in 1 .. 2 : one[k] = sizes[k]
      /\ \A k \in 1 .. Sums : one[2 + k] = DSum(d)[k]
  <2>1. sizes \in Seq(Nat)
    BY <1>4
  <2>2. /\ one \in Seq(Nat) /\ Len(one) = Len(sizes) + Len(DSum(d))
        /\ \A k \in 1 .. Len(sizes) : one[k] = sizes[k]
        /\ \A k \in 1 .. Len(DSum(d)) : one[Len(sizes) + k] = DSum(d)[k]
    BY <1>d, <2>1, ConcatCells
  <2>3. Len(sizes) = 2 /\ Len(DSum(d)) = Sums
    BY <1>1, <1>4
  <2> HIDE DEF one
  <2> QED  BY <2>2, <2>3, Zenon
<1> HIDE DEF one
<1>6. /\ two \in Seq(Nat) /\ Len(two) = 2 + Sums + Len(SecondSum(d))
      /\ \A k \in 1 .. 2 + Sums : two[k] = one[k]
      /\ \A k \in 1 .. Len(SecondSum(d)) : two[2 + Sums + k] = SecondSum(d)[k]
  <2>1. one \in Seq(Nat)
    BY <1>5
  <2>2. /\ two \in Seq(Nat) /\ Len(two) = Len(one) + Len(SecondSum(d))
        /\ \A k \in 1 .. Len(one) : two[k] = one[k]
        /\ \A k \in 1 .. Len(SecondSum(d)) : two[Len(one) + k] = SecondSum(d)[k]
    BY <1>e, <2>1, ConcatCells
  <2>3. Len(one) = 2 + Sums
    BY <1>5
  <2> HIDE DEF two
  <2> QED  BY <2>2, <2>3, Zenon
<1> HIDE DEF two
<1>7. /\ two \o p \in Seq(Nat) /\ Len(two \o p) = Len(two) + Len(p)
      /\ \A k \in 1 .. Len(two) : (two \o p)[k] = two[k]
      /\ \A k \in 1 .. Len(p) : (two \o p)[Len(two) + k] = p[k]
  <2>1. two \in Seq(Nat)
    BY <1>6
  <2> QED  BY <1>f, <2>1, ConcatCells
<1> DEFINE cells == BlockCells(d)
           c == 2 + Sums + (IF Len(p) < Len(d) THEN SecondSums ELSE 0)
<1>8. Len(two) = c /\ c \in Nat /\ cells = two \o p
  BY <1>1, <1>2, <1>3, <1>6
<1>9. /\ cells \in Seq(Nat) /\ Len(cells) = c + Len(p)
      /\ \A k \in 1 .. c : cells[k] = two[k]
      /\ \A k \in 1 .. Len(p) : cells[c + k] = p[k]
  BY <1>7, <1>8
<1>10. cells[1] = Len(d) /\ cells[2] = Len(p)
  <2>1. 1 \in 1 .. c /\ 2 \in 1 .. c /\ 1 \in 1 .. 2 + Sums /\ 2 \in 1 .. 2 + Sums
    BY <1>1
  <2> HIDE DEF cells, c
  <2> QED  BY <1>4, <1>5, <1>6, <1>9, <2>1
<1>11. ASSUME NEW k \in 1 .. Sums  PROVE cells[2 + k] = DSum(d)[k]
  <2>1. 2 + k \in 1 .. c /\ 2 + k \in 1 .. 2 + Sums
    BY <1>1
  <2> HIDE DEF cells, c
  <2> QED  BY <1>5, <1>6, <1>9, <2>1
<1>12. ASSUME Len(p) < Len(d), NEW k \in 1 .. SecondSums
       PROVE  cells[2 + Sums + k] = CSum(p)[k]
  <2>1. 2 + Sums + k \in 1 .. c /\ k \in 1 .. Len(SecondSum(d))
    BY <1>1, <1>2, <1>12
  <2> HIDE DEF cells, c
  <2> QED  BY <1>2, <1>6, <1>9, <1>12, <2>1
<1> HIDE DEF cells, c
<1> QED  BY <1>8, <1>9, <1>10, <1>11, <1>12 DEF cells, c, p
-----------------------------------------------------------------------------
(* What the reader makes of the cells at a place.                            *)

\* Are the cells from p on, as far as the file goes, those of the block d?
Holds(p, d) ==
    \A k \in 1 .. Len(BlockCells(d)) : p + k <= Len(file) => file[p + k] = BlockCells(d)[k]

\* The sizes of a block, and what scan() skips of it.
LEMMA SizesAreRead ==
    ASSUME content \in Contents, file \in Seq(Nat), NEW p \in Nat, NEW d, IsPiece(d),
           Len(d) <= MAX_BLOCK, Holds(p, d)
    PROVE  /\ ~AtEnd(p)
           /\ Len(BlockCells(d)) \in Nat /\ Len(BlockCells(d)) >= 3
           /\ Has(p, 2) => file[p + 1] = Len(d) /\ file[p + 2] = Len(Payload(d))
           /\ SizesOk(Len(d), Len(Payload(d)))
           /\ 2 + Skip(Len(d), Len(Payload(d))) = Len(BlockCells(d))
<1>1. /\ Len(d) \in Nat /\ Len(d) >= 1
      /\ Len(Payload(d)) \in Nat /\ Len(Payload(d)) >= 1 /\ Len(Payload(d)) <= Len(d)
  BY PieceFacts
<1>2. /\ BlockCells(d)[1] = Len(d) /\ BlockCells(d)[2] = Len(Payload(d))
      /\ Len(BlockCells(d)) = 2 + Sums + (IF Len(Payload(d)) < Len(d) THEN SecondSums ELSE 0)
                                + Len(Payload(d))
  BY BlockFacts
<1>3. Sums \in Nat /\ SecondSums \in Nat
  BY SumsAreNat
<1>4. Len(BlockCells(d)) \in Nat /\ Len(BlockCells(d)) >= 3
  BY <1>1, <1>2, <1>3
<1>5. Has(p, 1) => file[p + 1] = Len(d)
  BY <1>2, <1>4 DEF Has, Holds
<1>6. Has(p, 2) => file[p + 2] = Len(Payload(d))
  BY <1>2, <1>4 DEF Has, Holds
<1>7. Has(p, 2) => Has(p, 1)
  BY LenProperties DEF Has
<1>8. ~AtEnd(p)
  BY <1>1, <1>5 DEF AtEnd
<1>9. SizesOk(Len(d), Len(Payload(d)))
  BY <1>1 DEF SizesOk
<1>10. 2 + Skip(Len(d), Len(Payload(d))) = Len(BlockCells(d))
  <2>1. Skip(Len(d), Len(Payload(d)))
          = Len(Payload(d)) + Sums + (IF Len(Payload(d)) < Len(d) THEN SecondSums ELSE 0)
    BY Zenon DEF Skip, Sums, SecondSums
  <2> QED  BY <1>1, <1>2, <1>3, <2>1
<1> QED  BY <1>4, <1>5, <1>6, <1>7, <1>8, <1>9, <1>10

\* A whole block is read as what was written.
LEMMA WholeBlockIsRead ==
    ASSUME content \in Contents, file \in Seq(Nat), NEW p \in Nat, NEW d, IsPiece(d),
           Len(d) <= MAX_BLOCK, Holds(p, d), p + Len(BlockCells(d)) <= Len(file)
    PROVE  BlocksAt(p) = { [data |-> d, src |-> Len(Payload(d)),
                            next |-> p + Len(BlockCells(d))] }
<1> DEFINE cells == BlockCells(d)
           payload == Payload(d)
           dst == Len(d)
           src == Len(payload)
           second == IF src < dst THEN SecondSums ELSE 0
           c == p + 2 + Sums + second
<1>1. /\ d \in Seq(Nat) /\ payload \in Seq(Nat) /\ dst \in Nat /\ src \in Nat
      /\ DSum(d) \in Seq(Nat) /\ Len(DSum(d)) = Sums
      /\ CSum(payload) \in Seq(Nat) /\ Len(CSum(payload)) = SecondSums
      /\ src < dst => Unpack(payload, dst) = {d}
      /\ ~(src < dst) => payload = d
  BY PieceFacts
<1>2. /\ Len(cells) = 2 + Sums + second + src
      /\ \A k \in 1 .. Sums : cells[2 + k] = DSum(d)[k]
      /\ src < dst => \A k \in 1 .. SecondSums : cells[2 + Sums + k] = CSum(payload)[k]
      /\ \A k \in 1 .. src : cells[2 + Sums + second + k] = payload[k]
  BY BlockFacts
<1>3. /\ Has(p, 2) /\ file[p + 1] = dst /\ file[p + 2] = src /\ SizesOk(dst, src)
  <2>1. /\ Len(cells) \in Nat /\ Len(cells) >= 3
        /\ Has(p, 2) => file[p + 1] = dst /\ file[p + 2] = src
        /\ SizesOk(dst, src)
    BY SizesAreRead
  <2> QED  BY <2>1 DEF Has
<1>4. Sums \in Nat /\ SecondSums \in Nat /\ Len(file) \in Nat
  BY SumsAreNat
<1>g. p + Len(cells) <= Len(file) /\ src = Len(payload) /\ second \in Nat
  BY <1>4
<1>h. /\ c = p + 2 + Sums + second /\ c \in Nat
      /\ src < dst => second = SecondSums
  BY <1>4, <1>g
<1> HIDE DEF cells, payload, dst, src, second, c
<1>i. /\ p + Len(cells) = c + src /\ c + src <= Len(file)
      /\ src < dst => c = p + 2 + Sums + SecondSums
      /\ p + 2 + Sums <= c /\ c <= Len(file) /\ p + 2 + Sums \in Nat
  <2>1. p + Len(cells) = c + src
    BY <1>1, <1>2, <1>4, <1>g, <1>h
  <2>2. c + src <= Len(file)
    BY <2>1, <1>g
  <2>3. src < dst => c = p + 2 + Sums + SecondSums
    BY <1>h
  <2>4. p + 2 + Sums \in Nat /\ p + 2 + Sums <= c
    BY <1>4, <1>g, <1>h
  <2>5. c <= Len(file)
    BY <2>2, <1>1, <1>4, <1>h
  <2> QED  BY <2>1, <2>2, <2>3, <2>4, <2>5
<1>5. ASSUME NEW k \in 1 .. Len(cells)  PROVE file[p + k] = cells[k]
  <2>1. p + k <= Len(file)
    BY <1>1, <1>2, <1>4, <1>5, <1>g
  <2> QED  BY <2>1 DEF Holds, cells
<1>6. SubSeq(file, p + 3, p + 2 + Sums) = DSum(d)
  <2>1. ASSUME NEW k \in 1 .. Len(DSum(d))  PROVE file[(p + 2) + k] = DSum(d)[k]
    <3>1. 2 + k \in 1 .. Len(cells) /\ (p + 2) + k = p + (2 + k)
      BY <1>1, <1>2, <1>4, <1>g
    <3> QED  BY <1>1, <1>2, <1>5, <3>1
  <2>2. p + 2 \in Nat /\ (p + 2) + Len(DSum(d)) <= Len(file)
    BY <1>1, <1>2, <1>4, <1>g
  <2>3. SubSeq(file, (p + 2) + 1, (p + 2) + Len(DSum(d))) = DSum(d)
    BY <1>1, <2>1, <2>2, CutOut
  <2>4. (p + 2) + 1 = p + 3 /\ (p + 2) + Len(DSum(d)) = p + 2 + Sums
    BY <1>1, <1>4
  <2> QED  BY <2>3, <2>4
<1>7. src < dst => SubSeq(file, p + 2 + Sums + 1, c) = CSum(payload)
  <2> SUFFICES ASSUME src < dst
               PROVE  SubSeq(file, p + 2 + Sums + 1, p + 2 + Sums + SecondSums) = CSum(payload)
    BY <1>i
  <2>1. ASSUME NEW k \in 1 .. Len(CSum(payload))
        PROVE  file[(p + 2 + Sums) + k] = CSum(payload)[k]
    <3>1. 2 + Sums + k \in 1 .. Len(cells) /\ (p + 2 + Sums) + k = p + (2 + Sums + k)
      BY <1>1, <1>2, <1>4, <1>g, <1>h
    <3> QED  BY <1>1, <1>2, <1>5, <3>1
  <2>2. p + 2 + Sums \in Nat /\ (p + 2 + Sums) + Len(CSum(payload)) <= Len(file)
    BY <1>1, <1>i
  <2>3. SubSeq(file, (p + 2 + Sums) + 1, (p + 2 + Sums) + Len(CSum(payload))) = CSum(payload)
    BY <1>1, <2>1, <2>2, CutOut
  <2> QED  BY <1>1, <2>3
<1>8. SubSeq(file, c + 1, c + src) = payload
  <2>1. ASSUME NEW k \in 1 .. Len(payload)  PROVE file[c + k] = payload[k]
    <3>1. /\ 2 + Sums + second + k \in 1 .. Len(cells) /\ c + k = p + (2 + Sums + second + k)
          /\ k \in 1 .. src
      <4>1. k \in Nat /\ k \in 1 .. src
        BY <1>g
      <4>2. c + k = p + (2 + Sums + second + k)
        BY <4>1, <1>4, <1>g, <1>h
      <4>3. 2 + Sums + second + k \in 1 .. Len(cells)
        BY <4>1, <1>1, <1>2, <1>4, <1>g
      <4> QED  BY <4>1, <4>2, <4>3
    <3> QED  BY <1>2, <1>5, <3>1
  <2>2. c \in Nat /\ c + Len(payload) <= Len(file)
    BY <1>g, <1>h, <1>i
  <2>3. SubSeq(file, c + 1, c + Len(payload)) = payload
    BY <1>1, <2>1, <2>2, CutOut
  <2> QED  BY <2>3, <1>g
<1>9. Has(c, src) /\ c + src = p + Len(cells)
  BY <1>1, <1>i DEF Has
<1> USE DEF second, c
<1>10. { x \in (IF src < dst THEN Unpack(payload, dst) ELSE {payload}) :
         Accepted(x, dst, DSum(d)) } = {d}
  BY <1>1 DEF Accepted, dst
<1>11. BlocksAt(p) = { [data |-> x, src |-> src, next |-> c + src] :
           x \in { y \in (IF src < dst THEN Unpack(payload, dst) ELSE {payload}) :
                   Accepted(y, dst, DSum(d)) } }
  <2> DEFINE e == p + 2 + Len(DSum(<<>>))
             f == e + (IF file[p + 2] < file[p + 1] THEN Len(CSum(<<>>)) ELSE 0)
  <2>1. e = p + 2 + Sums /\ f = c
    BY <1>3 DEF Sums, SecondSums
  <2> HIDE DEF c
  <2>2. ~(\/ ~Has(f, file[p + 2])
          \/ file[p + 2] < file[p + 1] /\ SubSeq(file, e + 1, f)
                 # CSum(SubSeq(file, f + 1, f + file[p + 2])))
    BY <1>3, <1>7, <1>8, <1>9, <2>1
  <2>3. SubSeq(file, p + 3, e) = DSum(d) /\ SubSeq(file, f + 1, f + file[p + 2]) = payload
    BY <1>3, <1>6, <1>8, <2>1
  <2>4. BlocksAt(p) = { [data |-> x, src |-> file[p + 2], next |-> f + file[p + 2]] :
           x \in { y \in (IF file[p + 2] < file[p + 1]
                          THEN Unpack(SubSeq(file, f + 1, f + file[p + 2]), file[p + 1])
                          ELSE {SubSeq(file, f + 1, f + file[p + 2])}) :
                   Accepted(y, file[p + 1], SubSeq(file, p + 3, e)) } }
    BY <1>3, <2>2, Zenon DEF BlocksAt
  <2> HIDE DEF e, f
  <2>5. file[p + 1] = dst /\ file[p + 2] = src
    BY <1>3
  <2>6. BlocksAt(p) = { [data |-> x, src |-> src, next |-> c + src] :
           x \in { y \in (IF src < dst
                          THEN Unpack(SubSeq(file, f + 1, f + file[p + 2]), dst)
                          ELSE {SubSeq(file, f + 1, f + file[p + 2])}) :
                   Accepted(y, dst, SubSeq(file, p + 3, e)) } }
    BY <2>1, <2>4, <2>5, Zenon
  <2> QED  BY <2>3, <2>6, Zenon
<1>12. BlocksAt(p) = { [data |-> d, src |-> src, next |-> c + src] }
  BY <1>10, <1>11
<1> QED  BY <1>9, <1>12 DEF cells, src, payload

\* A block that is cut is not read at all.
LEMMA CutBlockIsRefused ==
    ASSUME content \in Contents, file \in Seq(Nat), NEW p \in Nat, NEW d, IsPiece(d),
           Len(d) <= MAX_BLOCK, Holds(p, d), p + Len(BlockCells(d)) > Len(file)
    PROVE  BlocksAt(p) = {}
<1>1. /\ Has(p, 2) => file[p + 1] = Len(d) /\ file[p + 2] = Len(Payload(d))
      /\ 2 + Skip(Len(d), Len(Payload(d))) = Len(BlockCells(d))
  BY SizesAreRead
<1>2. /\ Len(d) \in Nat /\ Len(Payload(d)) \in Nat
      /\ Sums \in Nat /\ SecondSums \in Nat /\ Len(file) \in Nat
  BY PieceFacts, SumsAreNat
<1>3. CASE ~Has(p, 2)
  BY <1>3 DEF BlocksAt
<1>4. CASE Has(p, 2)
  <2> DEFINE c == p + 2 + Sums + (IF Len(Payload(d)) < Len(d) THEN SecondSums ELSE 0)
  <2>1. ~Has(c, Len(Payload(d)))
    <3>1. Len(BlockCells(d)) = 2 + (Len(Payload(d)) + Sums
                + (IF Len(Payload(d)) < Len(d) THEN SecondSums ELSE 0))
      BY <1>1 DEF Skip, Sums, SecondSums
    <3>2. c + Len(Payload(d)) = p + Len(BlockCells(d))
      BY <1>2, <3>1
    <3>3. ~(p + Len(BlockCells(d)) <= Len(file))
      BY <1>2, <3>1
    <3> QED  BY <3>2, <3>3 DEF Has
  <2>2. ~Has(p + 2 + Len(DSum(<<>>))
               + (IF file[p + 2] < file[p + 1] THEN Len(CSum(<<>>)) ELSE 0), file[p + 2])
    BY <1>1, <1>4, <2>1 DEF Sums, SecondSums
  <2> QED  BY <2>2, Zenon DEF BlocksAt
<1> QED  BY <1>3, <1>4

\* Whatever the file holds, what is read is what scan() skips.
LEMMA ReadIsScanned ==
    ASSUME NEW p, NEW b, b \in BlocksAt(p)
    PROVE  /\ Has(p, 2) /\ SizesOk(file[p + 1], file[p + 2])
           /\ Len(b.data) = file[p + 1] /\ b.src = file[p + 2]
           /\ b.next = p + 2 + Len(DSum(<<>>))
                       + (IF file[p + 2] < file[p + 1] THEN Len(CSum(<<>>)) ELSE 0) + file[p + 2]
           /\ b.next <= Len(file)
<1>1. Has(p, 2) /\ SizesOk(file[p + 1], file[p + 2])
  BY Zenon DEF BlocksAt
<1> DEFINE d == p + 2 + Len(DSum(<<>>))
           c == d + (IF file[p + 2] < file[p + 1] THEN Len(CSum(<<>>)) ELSE 0)
           payload == SubSeq(file, c + 1, c + file[p + 2])
           Candidates == IF file[p + 2] < file[p + 1]
                         THEN Unpack(payload, file[p + 1]) ELSE {payload}
<1>2. /\ Has(c, file[p + 2])
      /\ b \in { [data |-> x, src |-> file[p + 2], next |-> c + file[p + 2]] :
                 x \in { y \in Candidates : Accepted(y, file[p + 1], SubSeq(file, p + 3, d)) } }
  BY <1>1, Zenon DEF BlocksAt
<1> HIDE DEF Candidates
<1>3. PICK x \in Candidates : /\ b = [data |-> x, src |-> file[p + 2], next |-> c + file[p + 2]]
                              /\ Accepted(x, file[p + 1], SubSeq(file, p + 3, d))
  BY <1>2
<1> QED  BY <1>1, <1>2, <1>3 DEF Accepted, Has
-----------------------------------------------------------------------------
(* Types, and what each phase finds.                                         *)

Order ==
    /\ file \in Seq(Nat) /\ block \in Seq(Nat) /\ Len(block) <= taken
    /\ block = SubSeq(content, taken - Len(block) + 1, taken)
    /\ damage # "none" => complete /\ phase \in {"read", "scan", "done"}
    /\ complete => phase \notin {"fill", "end"}
    /\ phase \in {"fill", "end", "stored"} => rpos = 0 /\ out = <<>> /\ unpacked = Nothing
    /\ phase \in {"fill", "end", "stored", "read"} =>
          verdict = "pending" /\ spos = 0 /\ listed = Nothing
    /\ phase # "done" => listing = "pending"

TInv == TypeOK /\ Order

LEMMA JoinPieces ==
    ASSUME NEW S, NEW s \in Seq(S), NEW m \in Nat, NEW n \in Nat, NEW q \in Nat,
           m <= n, n <= q, q <= Len(s)
    PROVE  SubSeq(s, m + 1, n) \o SubSeq(s, n + 1, q) = SubSeq(s, m + 1, q)
OBVIOUS

LEMMA PlusTotals ==
    ASSUME NEW t \in Totals, NEW x \in Nat, NEW y \in Nat
    PROVE  Plus(t, x, y) \in Totals
BY DEF Totals, Plus

LEMMA BufferIsPiece ==
    ASSUME TInv, block # <<>>
    PROVE  IsPiece(block) /\ block \in Seq(Nat) /\ Len(block) \in Nat
<1> DEFINE i == taken - Len(block) + 1
<1>1. content \in Seq(Nat) /\ taken \in 0 .. Len(content)
  BY ContainerAssumption DEF TInv, TypeOK
<1>2. block \in Seq(Nat) /\ Len(block) <= taken /\ block = SubSeq(content, i, taken)
  BY DEF TInv, Order
<1>3. Len(block) \in Nat /\ Len(block) # 0
  BY <1>2
<1>4. i \in 1 .. Len(content) /\ taken \in 1 .. Len(content) /\ i <= taken
      /\ taken < i + BLOCK_SIZE
  <2>1. Len(block) <= BLOCK_SIZE /\ BLOCK_SIZE \in Nat
    BY ContainerAssumption DEF TInv, TypeOK, Order
  <2> QED BY <1>1, <1>2, <1>3, <2>1
<1> HIDE DEF i
<1> QED  BY <1>2, <1>3, <1>4 DEF IsPiece

LEMMA TypesInitially == Init => TInv
<1> SUFFICES ASSUME Init PROVE TInv
  OBVIOUS
<1>1. Nothing \in Totals
  BY DEF Nothing, Totals
<1>2. content \in Seq(Nat) /\ Len(content) \in Nat /\ Len(<<>>) = 0
  BY ContainerAssumption DEF Init
<1>3. TypeOK
  <2>1. taken \in 0 .. Len(content) /\ Len(block) <= BLOCK_SIZE
    BY <1>2, ContainerAssumption DEF Init
  <2>2. rpos \in 0 .. Len(file) /\ spos \in 0 .. Len(file)
    BY <1>2 DEF Init
  <2> QED  BY <1>1, <2>1, <2>2 DEF Init, TypeOK
<1>4. Order
  <2>1. file \in Seq(Nat) /\ block \in Seq(Nat) /\ Len(block) <= taken
    BY <1>2 DEF Init
  <2>2. block = SubSeq(content, taken - Len(block) + 1, taken)
    BY <1>2 DEF Init
  <2> QED  BY <2>1, <2>2 DEF Init, Order
<1> QED  BY <1>3, <1>4 DEF TInv

LEMMA WritingKeepsTypes ==
    ASSUME TInv, Read \/ WriteBlock \/ WriteEnd \/ WriterFails \/ Store
    PROVE  TInv'
<1>1. /\ content \in Seq(Nat) /\ Len(content) \in Nat /\ taken \in Nat /\ taken <= Len(content)
      /\ file \in Seq(Nat) /\ Len(file) \in Nat /\ block \in Seq(Nat) /\ Len(block) \in Nat
      /\ Len(block) <= taken /\ block = SubSeq(content, taken - Len(block) + 1, taken)
      /\ BLOCK_SIZE \in Nat /\ packed \in Totals
  BY ContainerAssumption DEF TInv, TypeOK, Order
<1>2. rpos \in 0 .. Len(file) /\ spos \in 0 .. Len(file)
  BY DEF TInv, TypeOK
<1>3. CASE Read
  <2>1. PICK k \in 1 .. BLOCK_SIZE - Len(block) :
           /\ taken + k <= Len(content) /\ taken' = taken + k
           /\ block' = block \o SubSeq(content, taken + 1, taken + k)
    BY <1>3 DEF Read
  <2>2. SubSeq(content, taken + 1, taken + k) \in Seq(Nat)
        /\ Len(SubSeq(content, taken + 1, taken + k)) = k
    BY <1>1, <2>1
  <2>3. block' \in Seq(Nat) /\ Len(block') = Len(block) + k
    BY <1>1, <2>1, <2>2
  <2>4. block' = SubSeq(content, (taken - Len(block)) + 1, taken + k)
    BY <1>1, <2>1, JoinPieces, SMTT(30)
  <2>5. taken' - Len(block') = taken - Len(block) /\ Len(block') <= BLOCK_SIZE
        /\ Len(block') <= taken' /\ taken' \in 0 .. Len(content)
    BY <1>1, <2>1, <2>3
  <2>6. UNCHANGED <<content, flags, file, phase, damage, packed, complete, reader, scanner>>
    BY <1>3 DEF Read
  <2>7. TypeOK'
    BY <2>5, <2>6, Zenon DEF TInv, TypeOK, reader, scanner
  <2>8. Order'
    BY <2>3, <2>4, <2>5, <2>6, <2>1 DEF TInv, Order, reader, scanner
  <2> QED  BY <2>7, <2>8 DEF TInv
<1>4. CASE WriteBlock
  <2>1. IsPiece(block) /\ content \in Contents
    BY <1>4, BufferIsPiece DEF WriteBlock, TInv, TypeOK
  <2>2. BlockCells(block) \in Seq(Nat) /\ Len(Payload(block)) \in Nat
    BY <2>1, PieceFacts, BlockFacts
  <2>3. file' \in Seq(Nat) /\ Len(file') >= Len(file) /\ Len(file') \in Nat
    BY <1>1, <1>4, <2>2 DEF WriteBlock
  <2>4. packed' \in Totals
    BY <1>1, <1>4, <2>2, PlusTotals DEF WriteBlock
  <2>5. block' = <<>> /\ Len(block') = 0 /\ block' \in Seq(Nat)
    BY <1>4 DEF WriteBlock
  <2>6. block' = SubSeq(content, taken - Len(block') + 1, taken)
    BY <1>1, <2>5
  <2>7. /\ phase' \in {"fill", "end"} /\ phase = "fill"
        /\ UNCHANGED <<content, flags, damage, taken, complete, rpos, out, unpacked, verdict,
                       spos, listed, listing>>
    BY <1>4 DEF WriteBlock, Filled, reader, scanner
  <2>8. rpos' \in 0 .. Len(file') /\ spos' \in 0 .. Len(file')
    BY <1>1, <1>2, <2>3, <2>7
  <2>9. TypeOK'
    BY <1>1, <2>4, <2>5, <2>7, <2>8 DEF TInv, TypeOK
  <2>10. Order'
    BY <1>1, <2>3, <2>5, <2>6, <2>7 DEF TInv, Order
  <2> QED  BY <2>9, <2>10 DEF TInv
<1>5. CASE WriteEnd
  <2>1. file' \in Seq(Nat) /\ Len(file') >= Len(file) /\ Len(file') \in Nat
    BY <1>1, <1>5 DEF WriteEnd
  <2>2. /\ phase' = "stored" /\ complete' = TRUE /\ phase \in {"fill", "end"}
        /\ UNCHANGED <<content, flags, damage, taken, block, packed, rpos, out, unpacked, verdict,
                       spos, listed, listing>>
    BY <1>5 DEF WriteEnd, Filled, reader, scanner
  <2>3. rpos' \in 0 .. Len(file') /\ spos' \in 0 .. Len(file')
    BY <1>1, <1>2, <2>1, <2>2
  <2>4. TypeOK'
    BY <2>2, <2>3 DEF TInv, TypeOK
  <2>5. Order'
    BY <2>1, <2>2 DEF TInv, Order
  <2> QED  BY <2>4, <2>5 DEF TInv
<1>6. CASE WriterFails
  <2>1. file' \in Seq(Nat) /\ Len(file') >= Len(file) /\ Len(file') \in Nat
    <3>1. CASE file' = file
      BY <1>1, <3>1
    <3>2. CASE /\ Filled /\ block # <<>>
               /\ \E k \in 1 .. Len(BlockCells(block)) - 1 :
                     file' = file \o SubSeq(BlockCells(block), 1, k)
      <4>1. BlockCells(block) \in Seq(Nat)
        BY <3>2, BufferIsPiece, BlockFacts DEF TInv, TypeOK
      <4> HIDE DEF BlockCells
      <4>2. PICK k \in 1 .. Len(BlockCells(block)) - 1 :
                file' = file \o SubSeq(BlockCells(block), 1, k)
        BY <3>2
      <4>3. SubSeq(BlockCells(block), 1, k) \in Seq(Nat)
        BY <4>1
      <4> QED  BY <1>1, <4>2, <4>3
    <3> QED  BY <1>6, <3>1, <3>2 DEF WriterFails
  <2>2. /\ phase' = "stored" /\ phase \in {"fill", "end"}
        /\ UNCHANGED <<content, flags, damage, taken, block, packed, complete,
                       rpos, out, unpacked, verdict, spos, listed, listing>>
    BY <1>6 DEF WriterFails, writer, reader, scanner
  <2>3. rpos' \in 0 .. Len(file') /\ spos' \in 0 .. Len(file')
    BY <1>1, <1>2, <2>1, <2>2
  <2>4. TypeOK'
    BY <2>2, <2>3 DEF TInv, TypeOK
  <2>5. Order'
    BY <2>1, <2>2 DEF TInv, Order
  <2> QED  BY <2>4, <2>5 DEF TInv
<1>7. CASE Store
  <2>1. /\ phase = "stored" /\ phase' = "read"
        /\ UNCHANGED <<content, flags, taken, block, packed, complete,
                       rpos, out, unpacked, verdict, spos, listed, listing>>
    BY <1>7 DEF Store, writer, reader, scanner
  <2>2. rpos = 0 /\ spos = 0
    BY <2>1 DEF TInv, Order
  <2>3. file' \in Seq(Nat) /\ (damage' # "none" => complete) /\ damage' \in {"none"} \cup Damages
    <3>1. CASE UNCHANGED <<file, damage>>
      BY <1>1, <2>1, <3>1 DEF TInv, TypeOK, Order
    <3>2. CASE Cut /\ complete /\ damage' \in Damages
      BY <1>1, <3>2 DEF Cut
    <3>3. CASE Grow /\ complete /\ damage' \in Damages
      BY <1>1, <3>3, ContainerAssumption DEF Grow
    <3>4. CASE Change /\ complete /\ damage' \in Damages
      BY <1>1, <3>4, ContainerAssumption DEF Change
    <3> QED  BY <1>7, <3>1, <3>2, <3>3, <3>4 DEF Store
  <2>4. rpos' \in 0 .. Len(file') /\ spos' \in 0 .. Len(file')
    BY <2>1, <2>2, <2>3
  <2>5. TypeOK'
    BY <2>1, <2>3, <2>4 DEF TInv, TypeOK
  <2>6. Order'
    BY <2>1, <2>3 DEF TInv, Order
  <2> QED  BY <2>5, <2>6 DEF TInv
<1> QED  BY <1>3, <1>4, <1>5, <1>6, <1>7

LEMMA ReadingKeepsTypes ==
    ASSUME TInv, ReadBlock \/ ReadEnd \/ ReadFails \/ SinkFails
    PROVE  TInv'
<1>1. /\ file \in Seq(Nat) /\ Len(file) \in Nat /\ rpos \in Nat /\ rpos <= Len(file)
      /\ unpacked \in Totals
  BY DEF TInv, TypeOK, Order
<1>2. CASE ReadBlock
  <2>1. PICK b \in BlocksAt(rpos) : /\ unpacked' = Plus(unpacked, Len(b.data), b.src)
                                    /\ rpos' = b.next
    BY <1>2 DEF ReadBlock
  <2>2. /\ Has(rpos, 2)
        /\ Len(b.data) = file[rpos + 1] /\ b.src = file[rpos + 2]
        /\ b.next = rpos + 2 + Len(DSum(<<>>))
                    + (IF file[rpos + 2] < file[rpos + 1] THEN Len(CSum(<<>>)) ELSE 0)
                    + file[rpos + 2]
        /\ b.next <= Len(file)
    BY ReadIsScanned
  <2>3. file[rpos + 1] \in Nat /\ file[rpos + 2] \in Nat
    BY <1>1, <2>2 DEF Has
  <2>4. rpos' \in 0 .. Len(file)
    <3>1. Len(DSum(<<>>)) \in Nat /\ Len(CSum(<<>>)) \in Nat
      BY SumsAreNat DEF Sums, SecondSums
    <3> DEFINE x == file[rpos + 1]
               y == file[rpos + 2]
               n == b.next
               first == Len(DSum(<<>>))
               second == IF y < x THEN Len(CSum(<<>>)) ELSE 0
    <3>2. n = rpos + 2 + first + second + y
      BY <2>2
    <3>3. first \in Nat /\ second \in Nat
      BY <3>1
    <3>4. rpos' = n /\ n <= Len(file) /\ x \in Nat /\ y \in Nat
      BY <2>1, <2>2, <2>3
    <3> HIDE DEF x, y, n, first, second
    <3>5. n \in Nat
      BY <1>1, <3>2, <3>3, <3>4
    <3> QED  BY <1>1, <3>4, <3>5
  <2>5. unpacked' \in Totals
    <3>1. Plus(unpacked, file[rpos + 1], file[rpos + 2]) \in Totals
      BY <1>1, <2>3, PlusTotals
    <3> QED  BY <2>1, <2>2, <3>1
  <2>6. /\ phase = "read"
        /\ UNCHANGED <<content, flags, file, phase, damage, verdict, taken, block, packed, complete,
                       spos, listed, listing>>
    BY <1>2 DEF ReadBlock, writer, scanner
  <2>7. TypeOK'
    BY <2>4, <2>5, <2>6 DEF TInv, TypeOK
  <2>8. Order'
    BY <2>6 DEF TInv, Order
  <2> QED  BY <2>7, <2>8 DEF TInv
<1>3. CASE ReadEnd
  <2>1. rpos' \in 0 .. Len(file)
    BY <1>1, <1>3 DEF ReadEnd, AtEnd, Has
  <2>2. /\ phase = "read" /\ phase' = "scan" /\ verdict' = "ok"
        /\ UNCHANGED <<content, flags, file, damage, out, unpacked, taken, block, packed, complete,
                       spos, listed, listing>>
    BY <1>3 DEF ReadEnd, writer, scanner
  <2>3. TypeOK'
    BY <2>1, <2>2 DEF TInv, TypeOK
  <2>4. Order'
    BY <2>2 DEF TInv, Order
  <2> QED  BY <2>3, <2>4 DEF TInv
<1>4. CASE ReadFails \/ SinkFails
  <2>1. /\ phase = "read" /\ phase' = "scan" /\ verdict' \in {"err", "io"}
        /\ UNCHANGED <<content, flags, file, damage, rpos, unpacked, taken, block, packed, complete,
                       spos, listed, listing>>
    BY <1>4 DEF ReadFails, SinkFails, writer, scanner
  <2>2. TypeOK'
    BY <2>1 DEF TInv, TypeOK
  <2>3. Order'
    BY <2>1 DEF TInv, Order
  <2> QED  BY <2>2, <2>3 DEF TInv
<1> QED  BY <1>2, <1>3, <1>4

LEMMA ScanningKeepsTypes ==
    ASSUME TInv, ScanBlock \/ ScanEnd \/ ScanFails
    PROVE  TInv'
<1>1. /\ file \in Seq(Nat) /\ Len(file) \in Nat /\ spos \in Nat /\ spos <= Len(file)
      /\ listed \in Totals
  BY DEF TInv, TypeOK, Order
<1>2. CASE ScanBlock
  <2>1. /\ Has(spos, 2) /\ Has(spos + 2, Skip(file[spos + 1], file[spos + 2]))
        /\ listed' = Plus(listed, file[spos + 1], file[spos + 2])
        /\ spos' = spos + 2 + Skip(file[spos + 1], file[spos + 2])
    BY <1>2 DEF ScanBlock
  <2>2. file[spos + 1] \in Nat /\ file[spos + 2] \in Nat
    BY <1>1, <2>1 DEF Has
  <2>3. Skip(file[spos + 1], file[spos + 2]) \in Nat
    BY <2>2, SumsAreNat DEF Skip, Sums, SecondSums
  <2>4. spos' \in 0 .. Len(file)
    BY <1>1, <2>1, <2>3 DEF Has
  <2>8. listed' \in Totals
    BY <1>1, <2>1, <2>2, PlusTotals
  <2>5. /\ phase = "scan"
        /\ UNCHANGED <<content, flags, file, phase, damage, listing, taken, block, packed, complete,
                       rpos, out, unpacked, verdict>>
    BY <1>2 DEF ScanBlock, writer, reader
  <2>6. TypeOK'
    BY <2>4, <2>5, <2>8 DEF TInv, TypeOK
  <2>7. Order'
    BY <2>5 DEF TInv, Order
  <2> QED  BY <2>6, <2>7 DEF TInv
<1>3. CASE ScanEnd
  <2>1. spos' \in 0 .. Len(file)
    BY <1>1, <1>3 DEF ScanEnd, AtEnd, Has
  <2>2. /\ phase = "scan" /\ phase' = "done" /\ listing' = "ok"
        /\ UNCHANGED <<content, flags, file, damage, listed, taken, block, packed, complete,
                       rpos, out, unpacked, verdict>>
    BY <1>3 DEF ScanEnd, writer, reader
  <2>3. TypeOK'
    BY <2>1, <2>2 DEF TInv, TypeOK
  <2>4. Order'
    BY <2>2 DEF TInv, Order
  <2> QED  BY <2>3, <2>4 DEF TInv
<1>4. CASE ScanFails
  <2>1. /\ phase = "scan" /\ phase' = "done" /\ listing' = "err"
        /\ UNCHANGED <<content, flags, file, damage, spos, listed, taken, block, packed, complete,
                       rpos, out, unpacked, verdict>>
    BY <1>4 DEF ScanFails, writer, reader
  <2>2. TypeOK'
    BY <2>1 DEF TInv, TypeOK
  <2>3. Order'
    BY <2>1 DEF TInv, Order
  <2> QED  BY <2>2, <2>3 DEF TInv
<1> QED  BY <1>2, <1>3, <1>4

LEMMA StutterKeepsTypes == TInv /\ UNCHANGED vars => TInv'
BY DEF TInv, TypeOK, Order, vars, writer, reader, scanner

\* No cursor leaves the file, the buffer never holds more than a block and the
\* totals stay numbers (lzop.rs:127-145, 391-488).
THEOREM TypeCorrect == Spec => []TypeOK
<1>1. TInv /\ [Next]_vars => TInv'
  BY WritingKeepsTypes, ReadingKeepsTypes, ScanningKeepsTypes, StutterKeepsTypes DEF Next
<1>2. TInv => TypeOK
  BY DEF TInv
<1> QED  BY TypesInitially, <1>1, <1>2, PTL DEF Spec
-----------------------------------------------------------------------------
(* A file is laid out in blocks: the marks are the places where one begins,  *)
(* each with what was taken and counted before it, and the last is where the *)
(* end marker belongs.  Neither the cells nor the content come from the      *)
(* state here: `cells` says how a piece is written.                          *)

Pieces(c) == { SubSeq(c, i, j) : i, j \in 1 .. Len(c) }

Marks == [at : Nat, taken : Nat, totals : Totals]

Start == [at |-> 0, taken |-> 0, totals |-> Nothing]

Lies(f, p, block_cells) ==
    \A k \in 1 .. Len(block_cells) : p + k <= Len(f) => f[p + k] = block_cells[k]

Between(c, m, n) == SubSeq(c, m.taken + 1, n.taken)

\* The mark n comes one block after the mark m.
Follows(c, cells, f, m, n) ==
    /\ m.taken < n.taken /\ n.taken <= Len(c) /\ n.taken - m.taken <= BLOCK_SIZE
    /\ cells[Between(c, m, n)] \in Seq(Nat)
    /\ n.at = m.at + Len(cells[Between(c, m, n)])
    /\ n.totals = Plus(m.totals, n.taken - m.taken, Len(Payload(Between(c, m, n))))
    /\ Lies(f, m.at, cells[Between(c, m, n)])

Lays(c, cells, f, M, last) ==
    /\ M \subseteq Marks /\ Start \in M /\ last \in M
    /\ \A m \in M : m.at <= last.at /\ m.taken <= Len(c)
    /\ \A m \in M : m = last \/ \E n \in M : Follows(c, cells, f, m, n)

LEMMA StartIsMark == Start \in Marks
BY DEF Start, Marks, Totals, Nothing

\* What is appended to a file, or cut from it, moves no block.
LEMMA GrownLays ==
    ASSUME NEW c, NEW cells, NEW f \in Seq(Nat), NEW g \in Seq(Nat), NEW M, NEW last,
           Lays(c, cells, f, M, last), last.at <= Len(f), Len(f) <= Len(g),
           \A k \in 1 .. Len(f) : g[k] = f[k]
    PROVE  Lays(c, cells, g, M, last)
<1> SUFFICES ASSUME NEW m \in M, NEW n \in M, Follows(c, cells, f, m, n)
             PROVE  Lies(g, m.at, cells[Between(c, m, n)])
  BY DEF Lays, Follows
<1> DEFINE s == cells[Between(c, m, n)]
<1>1. s \in Seq(Nat) /\ n.at = m.at + Len(s) /\ Lies(f, m.at, s)
  BY DEF Follows
<1>2. m.at \in Nat /\ n.at \in Nat /\ n.at <= Len(f)
  BY DEF Lays, Marks
<1> HIDE DEF s
<1> SUFFICES ASSUME NEW k \in 1 .. Len(s) PROVE g[m.at + k] = s[k]
  BY DEF Lies, s
<1>3. m.at + k \in 1 .. Len(f)
  <2> DEFINE p == m.at
             q == n.at
  <2>1. /\ Len(s) \in Nat /\ Len(f) \in Nat
        /\ p \in Nat /\ q \in Nat /\ q = p + Len(s) /\ q <= Len(f)
    BY <1>1, <1>2, SMTT(30)
  <2> HIDE DEF p, q
  <2>2. p + k \in 1 .. Len(f)
    BY <2>1
  <2> QED  BY <2>2 DEF p
<1>4. f[m.at + k] = s[k]
  BY <1>1, <1>3 DEF Lies
<1> QED  BY <1>3, <1>4

LEMMA CutLays ==
    ASSUME NEW c, NEW cells, NEW f \in Seq(Nat), NEW g \in Seq(Nat), NEW M, NEW last,
           Lays(c, cells, f, M, last), Len(g) <= Len(f),
           \A k \in 1 .. Len(g) : g[k] = f[k]
    PROVE  Lays(c, cells, g, M, last)
<1> SUFFICES ASSUME NEW m \in M, NEW n \in M, Follows(c, cells, f, m, n)
             PROVE  Lies(g, m.at, cells[Between(c, m, n)])
  BY DEF Lays, Follows
<1> DEFINE s == cells[Between(c, m, n)]
<1>1. s \in Seq(Nat) /\ Lies(f, m.at, s)
  BY DEF Follows
<1>2. m.at \in Nat
  BY DEF Lays, Marks
<1> HIDE DEF s
<1> SUFFICES ASSUME NEW k \in 1 .. Len(s), m.at + k <= Len(g) PROVE g[m.at + k] = s[k]
  BY DEF Lies, s
<1>3. m.at + k \in 1 .. Len(g) /\ m.at + k <= Len(f)
  BY <1>1, <1>2, SMTT(30)
<1> QED  BY <1>1, <1>3 DEF Lies

\* One more block.
LEMMA OneMoreLays ==
    ASSUME NEW c, NEW cells, NEW f, NEW M, NEW last, NEW n \in Marks,
           Lays(c, cells, f, M, last), Follows(c, cells, f, last, n)
    PROVE  Lays(c, cells, f, M \cup {n}, n)
<1>1. last \in Marks /\ last.at \in Nat /\ n.at \in Nat
  BY DEF Lays, Marks
<1>2. last.at <= n.at
  <2>1. cells[Between(c, last, n)] \in Seq(Nat)
        /\ n.at = last.at + Len(cells[Between(c, last, n)])
    BY DEF Follows
  <2>2. Len(cells[Between(c, last, n)]) \in Nat
    BY <2>1
  <2> QED  BY <1>1, <2>1, <2>2
<1>3. \A m \in M \cup {n} : m.at <= n.at /\ m.taken <= Len(c)
  BY <1>1, <1>2 DEF Lays, Marks, Follows
<1> QED  BY <1>1, <1>3 DEF Lays

\* A file that holds nothing yet.
LEMMA StartLays ==
    ASSUME NEW c \in Seq(Nat), NEW cells
    PROVE  Lays(c, cells, <<>>, {Start}, Start)
BY StartIsMark, LenProperties DEF Lays, Start
-----------------------------------------------------------------------------
(* The file is laid out so while it is written, read and listed.             *)

Laid(cells, M, last) ==
    /\ \A d \in Pieces(content) : cells[d] = BlockCells(d)
    /\ Lays(content, cells, file, M, last)

\* The last mark is where the content ends and the end marker is.
Ends(last) ==
    /\ last.taken = Len(content) /\ last.totals = packed
    /\ last.at < Len(file) /\ file[last.at + 1] = 0
    /\ damage = "none" => Len(file) = last.at + 1

Sound == complete /\ damage # "cut"

Written(last) ==
    IF phase \in {"fill", "end"}
    THEN /\ last.at = Len(file) /\ last.totals = packed /\ last.taken = taken - Len(block)
         /\ phase = "end" => block = <<>> /\ taken = Len(content)
    ELSE IF Sound THEN Ends(last) ELSE Len(file) <= last.at

\* The reader is at a mark, with all that was taken before it.
ReadSoFar(M, last) ==
    /\ phase = "read" =>
          \E m \in M : /\ rpos = m.at /\ out = SubSeq(content, 1, m.taken)
                       /\ unpacked = m.totals
    /\ verdict = "ok" => Sound /\ rpos = last.at + 1 /\ out = content /\ unpacked = packed
    /\ verdict = "err" => ~Sound

ListedSoFar(M) ==
    /\ phase = "scan" => \E m \in M : spos = m.at
    /\ listing = "ok" => Sound

Layout(cells, M, last) ==
    Laid(cells, M, last) /\ Written(last) /\ ReadSoFar(M, last) /\ ListedSoFar(M)

WInv == TInv /\ (damage # "changed" => \E cells, M, last : Layout(cells, M, last))

LEMMA SameCells ==
    ASSUME NEW cells, UNCHANGED <<content, flags>>,
           \A d \in Pieces(content) : cells[d] = BlockCells(d)
    PROVE  (\A d \in Pieces(content) : cells[d] = BlockCells(d))'
<1>1. ASSUME NEW d PROVE BlockCells(d)' = BlockCells(d)
  BY DEF BlockCells, DSum, CSum
<1>2. Pieces(content)' = Pieces(content)
  BY DEF Pieces
<1> QED  BY <1>1, <1>2

\* The block between two marks.
Block(m, n, d) ==
    /\ IsPiece(d) /\ d \in Pieces(content) /\ Len(d) <= MAX_BLOCK /\ Holds(m.at, d)
    /\ m.at \in Nat /\ n.at = m.at + Len(BlockCells(d))
    /\ {m.taken, n.taken} \subseteq 0 .. Len(content)
    /\ n.totals = Plus(m.totals, Len(d), Len(Payload(d)))
    /\ SubSeq(content, 1, m.taken) \o d = SubSeq(content, 1, n.taken)

LEMMA BlockBetween ==
    ASSUME TInv, NEW cells, NEW M, NEW last, Laid(cells, M, last), NEW m \in M, NEW n \in M,
           Follows(content, cells, file, m, n)
    PROVE  Block(m, n, Between(content, m, n))
<1> DEFINE d == Between(content, m, n)
<1>1. content \in Seq(Nat) /\ content \in Contents /\ Len(content) \in Nat
  BY ContainerAssumption DEF TInv, TypeOK
<1>2. /\ m.taken \in Nat /\ n.taken \in Nat /\ m.at \in Nat /\ n.at \in Nat
  BY DEF Laid, Lays, Marks
<1>3. m.taken < n.taken /\ n.taken <= Len(content) /\ n.taken - m.taken <= BLOCK_SIZE
  BY DEF Follows
<1>4. d = SubSeq(content, m.taken + 1, n.taken) /\ Len(d) = n.taken - m.taken
  <2> DEFINE i == m.taken
             j == n.taken
  <2>1. i \in Nat /\ j \in Nat /\ i <= j /\ j <= Len(content)
    BY <1>2, <1>3
  <2> HIDE DEF i, j
  <2>2. Len(SubSeq(content, i + 1, j)) = j - i
    BY <1>1, <2>1, SubSeqCells
  <2> QED  BY <2>2 DEF Between, i, j
<1>5. /\ m.taken + 1 \in 1 .. Len(content) /\ n.taken \in 1 .. Len(content)
      /\ m.taken + 1 <= n.taken /\ n.taken < (m.taken + 1) + BLOCK_SIZE
  BY <1>1, <1>2, <1>3, ContainerAssumption
<1>6. SubSeq(content, 1, m.taken) \o d = SubSeq(content, 1, n.taken)
  <2>1. m.taken <= n.taken
    BY <1>2, <1>3
  <2> QED  BY <1>1, <1>2, <1>3, <1>4, <2>1, ConcatPieces
<1> HIDE DEF d
<1>7. IsPiece(d) /\ d \in Pieces(content)
  <2> DEFINE i == m.taken + 1
             j == n.taken
  <2>1. /\ i \in 1 .. Len(content) /\ j \in 1 .. Len(content) /\ i <= j /\ j < i + BLOCK_SIZE
        /\ d = SubSeq(content, i, j)
    BY <1>4, <1>5
  <2> HIDE DEF i, j
  <2>2. IsPiece(d)
    BY <2>1, Zenon DEF IsPiece
  <2>3. d \in Pieces(content)
    BY <2>1 DEF Pieces
  <2> QED  BY <2>2, <2>3
<1>8. Len(d) <= MAX_BLOCK
  BY <1>2, <1>3, <1>4, ContainerAssumption
<1>9. cells[d] = BlockCells(d)
  BY <1>7 DEF Laid
<1>10. /\ n.at = m.at + Len(cells[d]) /\ Lies(file, m.at, cells[d])
       /\ n.totals = Plus(m.totals, n.taken - m.taken, Len(Payload(d)))
  BY DEF Follows, d
<1>11. Holds(m.at, d)
  BY <1>9, <1>10 DEF Lies, Holds
<1>12. m.taken \in 0 .. Len(content) /\ n.taken \in 0 .. Len(content)
  BY <1>1, <1>2, <1>3
<1> QED  BY <1>2, <1>4, <1>6, <1>7, <1>8, <1>9, <1>10, <1>11, <1>12 DEF Block, d

\* What there is at a mark: the end, nothing, or a block.
LEMMA AtMark ==
    ASSUME TInv, NEW cells, NEW M, NEW last, Laid(cells, M, last), Written(last),
           phase \notin {"fill", "end"}, NEW m \in M
    PROVE  \/ m = last /\ Sound /\ AtEnd(m.at) /\ Ends(last)
           \/ m = last /\ ~Sound /\ ~Has(m.at, 1) /\ ~Has(m.at, 2)
           \/ \E n \in M : \E d \in Pieces(content) :
                 Block(m, n, d) /\ ~AtEnd(m.at) /\ (Sound => n.at <= Len(file))
<1>1. /\ file \in Seq(Nat) /\ Len(file) \in Nat /\ content \in Contents
      /\ m.at \in Nat /\ last.at \in Nat
  BY DEF TInv, TypeOK, Order, Laid, Lays, Marks
<1>2. CASE m = last /\ Sound
  BY <1>1, <1>2 DEF Written, Ends, AtEnd, Has
<1>3. CASE m = last /\ ~Sound
  <2>1. Len(file) <= m.at
    BY <1>3 DEF Written
  <2> QED  BY <1>1, <1>3, <2>1 DEF Has
<1>4. CASE m # last
  <2>1. PICK n \in M : Follows(content, cells, file, m, n)
    BY <1>4 DEF Laid, Lays
  <2> DEFINE d == Between(content, m, n)
  <2>2. Block(m, n, d)
    BY <2>1, BlockBetween
  <2> HIDE DEF d
  <2>3. ~AtEnd(m.at)
    BY <1>1, <2>2, SizesAreRead DEF Block
  <2>4. Sound => n.at <= Len(file)
    <3>1. n.at \in Nat /\ n.at <= last.at
      BY DEF Laid, Lays, Marks
    <3>2. Sound => last.at < Len(file)
      BY DEF Written, Ends
    <3> QED  BY <1>1, <3>1, <3>2
  <2> QED  BY <2>2, <2>3, <2>4 DEF Block
<1> QED  BY <1>2, <1>3, <1>4

\* What is read between two marks.
LEMMA BlockIsRead ==
    ASSUME TInv, NEW m, NEW n, NEW d, Block(m, n, d)
    PROVE  /\ n.at <= Len(file) => BlocksAt(m.at) = { [data |-> d, src |-> Len(Payload(d)),
                                                       next |-> n.at] }
           /\ ~(n.at <= Len(file)) => BlocksAt(m.at) = {}
<1>1. /\ file \in Seq(Nat) /\ Len(file) \in Nat /\ content \in Contents
  BY DEF TInv, TypeOK, Order
<1>2. IsPiece(d) /\ Len(d) <= MAX_BLOCK /\ Holds(m.at, d) /\ m.at \in Nat
      /\ n.at = m.at + Len(BlockCells(d))
  BY DEF Block
<1>3. Len(BlockCells(d)) \in Nat
  BY <1>1, <1>2, SizesAreRead
<1> DEFINE at == m.at
           size == Len(BlockCells(d))
<1>4. ~(at + size <= Len(file)) => at + size > Len(file)
  BY <1>1, <1>2, <1>3
<1>5. at + size <= Len(file) => BlocksAt(at) = { [data |-> d, src |-> Len(Payload(d)),
                                                next |-> at + size] }
  BY <1>1, <1>2, WholeBlockIsRead
<1>6. at + size > Len(file) => BlocksAt(at) = {}
  BY <1>1, <1>2, CutBlockIsRefused
<1> QED  BY <1>2, <1>4, <1>5, <1>6
-----------------------------------------------------------------------------
(* Every step keeps the layout.                                              *)

LEMMA LayoutInitially == Init => WInv
<1> SUFFICES ASSUME Init PROVE \E cells, M, last : Layout(cells, M, last)
  BY TypesInitially DEF WInv
<1> DEFINE cells == [d \in Pieces(content) |-> BlockCells(d)]
<1>1. \A d \in Pieces(content) : cells[d] = BlockCells(d)
  OBVIOUS
<1> HIDE DEF cells
<1>2. Laid(cells, {Start}, Start)
  <2>1. content \in Seq(Nat)
    BY ContainerAssumption DEF Init
  <2> QED  BY <1>1, <2>1, StartLays DEF Laid, Init
<1>3. Written(Start)
  <2>1. Len(<<>>) = 0 /\ 0 - 0 = 0
    OBVIOUS
  <2>2. taken - Len(block) = 0 /\ Len(file) = 0
    BY <2>1 DEF Init
  <2> QED  BY <2>2 DEF Written, Init, Start
<1>4. ReadSoFar({Start}, Start) /\ ListedSoFar({Start})
  BY DEF ReadSoFar, ListedSoFar, Init
<1> QED  BY <1>2, <1>3, <1>4 DEF Layout

\* While a file is written nothing is read.
LEMMA UnreadSoFar ==
    ASSUME TInv', NEW M, NEW last, phase' \in {"fill", "end", "stored"}
    PROVE  ReadSoFar(M, last)' /\ ListedSoFar(M)'
BY DEF TInv, Order, ReadSoFar, ListedSoFar

LEMMA ReadKeepsLayout ==
    ASSUME TInv, TInv', NEW cells, NEW M, NEW last, Layout(cells, M, last), Read
    PROVE  Layout(cells, M, last)'
<1>1. /\ phase = "fill" /\ UNCHANGED <<content, flags, file, phase, packed>>
  BY DEF Read
<1>2. taken' - Len(block') = taken - Len(block)
  <2>1. PICK k \in 1 .. BLOCK_SIZE - Len(block) :
           /\ taken + k <= Len(content) /\ taken' = taken + k
           /\ block' = block \o SubSeq(content, taken + 1, taken + k)
    BY DEF Read
  <2>2. /\ content \in Seq(Nat) /\ block \in Seq(Nat) /\ taken \in Nat
        /\ Len(block) \in Nat /\ Len(content) \in Nat /\ BLOCK_SIZE \in Nat
    BY ContainerAssumption, LenProperties DEF TInv, TypeOK, Order
  <2>3. /\ SubSeq(content, taken + 1, taken + k) \in Seq(Nat)
        /\ Len(SubSeq(content, taken + 1, taken + k)) = k
    BY <2>1, <2>2
  <2>4. Len(block') = Len(block) + k
    BY <2>1, <2>2, <2>3
  <2> QED  BY <2>1, <2>2, <2>4
<1>3. Laid(cells, M, last)'
  BY <1>1, SameCells DEF Layout, Laid
<1>4. Written(last)'
  BY <1>1, <1>2 DEF Layout, Written
<1> QED  BY <1>1, <1>3, <1>4, UnreadSoFar DEF Layout

\* The mark after a block.
After(size) == [at |-> Len(file) + size, taken |-> taken,
                totals |-> Plus(packed, Len(block), Len(Payload(block)))]

\* Writing all or part of the block in the buffer adds a mark.
LEMMA BlockAdded ==
    ASSUME TInv, NEW cells, NEW M, NEW last, Laid(cells, M, last), Written(last),
           phase \in {"fill", "end"}, block # <<>>,
           NEW g \in Seq(Nat), Len(file) <= Len(g),
           \A k \in 1 .. Len(file) : g[k] = file[k],
           Lies(g, Len(file), BlockCells(block))
    PROVE  /\ After(Len(BlockCells(block))) \in Marks
           /\ Lays(content, cells, g, M \cup {After(Len(BlockCells(block)))},
                   After(Len(BlockCells(block))))
<1> DEFINE size == Len(BlockCells(block))
           n == After(size)
<1>1. /\ IsPiece(block) /\ block \in Seq(Nat) /\ Len(block) \in Nat
      /\ content \in Contents /\ content \in Seq(Nat) /\ Len(content) \in Nat
      /\ taken \in Nat /\ taken <= Len(content) /\ packed \in Totals
      /\ file \in Seq(Nat) /\ Len(file) \in Nat
      /\ Len(block) <= taken /\ Len(block) <= BLOCK_SIZE
      /\ block = SubSeq(content, taken - Len(block) + 1, taken)
  BY BufferIsPiece, ContainerAssumption, SMTT(30) DEF TInv, TypeOK, Order
<1>2. BlockCells(block) \in Seq(Nat) /\ size \in Nat /\ Len(Payload(block)) \in Nat
      /\ Len(block) >= 1
  BY <1>1, PieceFacts, BlockFacts
<1>3. /\ last.at = Len(file) /\ last.totals = packed /\ last.taken = taken - Len(block)
  BY DEF Written
<1>4. n \in Marks
  <2>1. Plus(packed, Len(block), Len(Payload(block))) \in Totals
    BY <1>1, <1>2, PlusTotals
  <2>2. Len(file) + size \in Nat
    BY <1>1, <1>2
  <2> QED  BY <1>1, <2>1, <2>2 DEF After, Marks
<1>5. n.at = Len(file) + size /\ n.taken = taken
      /\ n.totals = Plus(packed, Len(block), Len(Payload(block)))
  BY DEF After
<1> HIDE DEF n
<1>6. Between(content, last, n) = block
  BY <1>1, <1>3, <1>5 DEF Between
<1>7. cells[block] = BlockCells(block)
  <2>1. block \in Pieces(content)
    BY <1>1 DEF IsPiece, Pieces
  <2> QED  BY <2>1 DEF Laid
<1>8. last.taken < n.taken /\ n.taken <= Len(content) /\ n.taken - last.taken = Len(block)
  BY <1>1, <1>2, <1>3, <1>5
<1>9. Follows(content, cells, g, last, n)
  BY <1>1, <1>2, <1>3, <1>5, <1>6, <1>7, <1>8 DEF Follows
<1>10. Lays(content, cells, g, M, last)
  <2>1. last.at <= Len(file)
    BY <1>1, <1>3
  <2> QED  BY <1>1, <2>1, GrownLays DEF Laid
<1> QED  BY <1>4, <1>9, <1>10, OneMoreLays DEF n

LEMMA WriteBlockKeepsLayout ==
    ASSUME TInv, TInv', NEW cells, NEW M, NEW last, Layout(cells, M, last), WriteBlock
    PROVE  \E N, n : Layout(cells, N, n)'
<1> DEFINE added == BlockCells(block)
           size == Len(added)
           N == M \cup {After(size)}
<1>1. /\ phase = "fill" /\ Filled /\ block # <<>> /\ file' = file \o added
      /\ packed' = Plus(packed, Len(block), Len(Payload(block)))
      /\ phase' = (IF Len(block) < BLOCK_SIZE THEN "end" ELSE "fill")
      /\ block' = <<>> /\ UNCHANGED <<content, flags, taken>>
  BY DEF WriteBlock, Filled
<1>2. added \in Seq(Nat) /\ file \in Seq(Nat) /\ size \in Nat /\ Len(file) \in Nat
      /\ taken \in Nat /\ Len(<<>>) = 0
  BY <1>1, BufferIsPiece, BlockFacts DEF TInv, TypeOK, Order
<1>3. Laid(cells, M, last) /\ Written(last) /\ phase \in {"fill", "end"}
  BY <1>1 DEF Layout
<1> HIDE DEF added
<1>4. /\ file' \in Seq(Nat) /\ Len(file') = Len(file) + size /\ Len(file) <= Len(file')
      /\ \A k \in 1 .. Len(file) : file'[k] = file[k]
      /\ \A k \in 1 .. size : file'[Len(file) + k] = added[k]
  BY <1>1, <1>2, ConcatCells
<1>5. Lies(file', Len(file), added)
  BY <1>4 DEF Lies
<1> DEFINE g == file \o added
<1>6. /\ g \in Seq(Nat) /\ Len(file) <= Len(g) /\ \A k \in 1 .. Len(file) : g[k] = file[k]
      /\ Lies(g, Len(file), BlockCells(block)) /\ g = file'
  BY <1>1, <1>4, <1>5 DEF added
<1> HIDE DEF g
<1>7. Lays(content, cells, g, N, After(size))
  BY <1>1, <1>3, <1>6, BlockAdded DEF added
<1> DEFINE n == After(size)
<1>8. /\ n.at = Len(file) + size /\ n.taken = taken
      /\ n.totals = Plus(packed, Len(block), Len(Payload(block)))
  BY DEF After
<1> HIDE DEF n
<1>9. \A d \in Pieces(content') : cells[d] = BlockCells(d)'
  BY <1>1, <1>3, SameCells DEF Laid
<1>10. ASSUME NEW K, NEW k, K = N, k = n  PROVE Layout(cells, K, k)'
  <2>1. Lays(content', cells, file', K, k)
    BY <1>1, <1>6, <1>7, <1>10 DEF n
  <2>2. Laid(cells, K, k)'
    BY <1>9, <2>1 DEF Laid
  <2>3. taken - Len(block') = taken
    BY <1>1, <1>2
  <2>4. phase' = "end" => taken = Len(content)
    BY <1>1 DEF Filled, TInv, TypeOK
  <2>5. phase' \in {"fill", "end"}
    BY <1>1
  <2>6. Written(k)'
    BY <1>1, <1>4, <1>8, <1>10, <2>3, <2>4, <2>5 DEF Written
  <2> QED  BY <2>2, <2>5, <2>6, UnreadSoFar DEF Layout
<1> QED  BY <1>10

LEMMA WriteEndKeepsLayout ==
    ASSUME TInv, TInv', NEW cells, NEW M, NEW last, Layout(cells, M, last), WriteEnd
    PROVE  Layout(cells, M, last)'
<1>1. /\ phase \in {"fill", "end"} /\ file' = Append(file, 0) /\ complete' = TRUE
      /\ phase' = "stored" /\ UNCHANGED <<content, flags, damage, taken, block, packed>>
  BY DEF WriteEnd, Filled
<1>2. file \in Seq(Nat) /\ Len(file) \in Nat /\ taken \in Nat /\ Len(<<>>) = 0 /\ damage = "none"
      /\ BLOCK_SIZE \in Nat \ {0}
  BY <1>1, ContainerAssumption DEF TInv, TypeOK, Order
<1>3. /\ file' \in Seq(Nat) /\ Len(file') = Len(file) + 1 /\ file'[Len(file) + 1] = 0
      /\ Len(file) <= Len(file') /\ \A k \in 1 .. Len(file) : file'[k] = file[k]
  BY <1>1, <1>2
<1>4. block = <<>> /\ taken = Len(content)
  BY <1>2 DEF WriteEnd, Filled, Layout, Written
<1>5. last.at = Len(file) /\ last.totals = packed /\ last.taken = taken
  <2>1. taken - Len(block) = taken
    BY <1>2, <1>4
  <2> QED  BY <1>1, <2>1 DEF Layout, Written
<1>6. Ends(last)'
  BY <1>1, <1>2, <1>3, <1>4, <1>5 DEF Ends
<1>7. Lays(content, cells, file', M, last)
  <2> DEFINE g == file'
  <2>1. g \in Seq(Nat) /\ Len(file) <= Len(g) /\ \A k \in 1 .. Len(file) : g[k] = file[k]
    BY <1>3
  <2>2. Lays(content, cells, file, M, last) /\ last.at <= Len(file)
    BY <1>2, <1>5 DEF Layout, Laid
  <2> HIDE DEF g
  <2>3. Lays(content, cells, g, M, last)
    BY <1>2, <2>1, <2>2, GrownLays
  <2> QED  BY <2>3 DEF g
<1>8. Laid(cells, M, last)'
  BY <1>1, <1>7, SameCells DEF Layout, Laid
<1>9. Written(last)'
  BY <1>1, <1>2, <1>6 DEF Written, Sound
<1> QED  BY <1>1, <1>8, <1>9, UnreadSoFar DEF Layout

LEMMA WriterFailsKeepsLayout ==
    ASSUME TInv, TInv', NEW cells, NEW M, NEW last, Layout(cells, M, last), WriterFails
    PROVE  \E N, n : Layout(cells, N, n)'
<1>1. /\ phase \in {"fill", "end"} /\ phase' = "stored"
      /\ UNCHANGED <<content, flags, damage, complete>>
  BY DEF WriterFails, writer
<1>2. file \in Seq(Nat) /\ Len(file) \in Nat /\ ~complete
  BY <1>1 DEF TInv, TypeOK, Order
<1>3. Laid(cells, M, last) /\ Written(last) /\ last.at = Len(file)
  BY <1>1 DEF Layout, Written
<1>4. \A d \in Pieces(content') : cells[d] = BlockCells(d)'
  BY <1>1, <1>3, SameCells DEF Laid
<1>5. CASE file' = file
  <2>1. Laid(cells, M, last)'
    BY <1>1, <1>3, <1>4, <1>5 DEF Laid
  <2>2. Written(last)'
    BY <1>1, <1>2, <1>3, <1>5 DEF Written, Sound
  <2> QED  BY <1>1, <2>1, <2>2, UnreadSoFar DEF Layout
<1>6. CASE /\ block # <<>>
           /\ \E k \in 1 .. Len(BlockCells(block)) - 1 :
                 file' = file \o SubSeq(BlockCells(block), 1, k)
  <2> DEFINE added == BlockCells(block)
             size == Len(added)
             n == After(size)
  <2>1. added \in Seq(Nat) /\ size \in Nat
    BY <1>6, BufferIsPiece, BlockFacts DEF TInv, TypeOK
  <2>2. PICK j \in 1 .. size - 1 : file' = file \o SubSeq(added, 1, j)
    BY <1>6
  <2> DEFINE part == SubSeq(added, 1, j)
             g == file \o part
  <2> HIDE DEF added
  <2>3. part \in Seq(Nat) /\ Len(part) = j /\ \A k \in 1 .. j : part[k] = added[k]
    BY <2>1
  <2> HIDE DEF part
  <2>4. /\ g \in Seq(Nat) /\ Len(g) = Len(file) + j /\ Len(file) <= Len(g)
        /\ \A k \in 1 .. Len(file) : g[k] = file[k]
        /\ \A k \in 1 .. j : g[Len(file) + k] = part[k]
    <3>1. file \in Seq(Nat) /\ part \in Seq(Nat)
      BY <1>2, <2>3
    <3>2. /\ g \in Seq(Nat) /\ Len(g) = Len(file) + Len(part)
          /\ \A k \in 1 .. Len(file) : g[k] = file[k]
          /\ \A k \in 1 .. Len(part) : g[Len(file) + k] = part[k]
      BY <3>1, ConcatCells
    <3> HIDE DEF g
    <3> QED  BY <1>2, <2>3, <3>2
  <2> HIDE DEF g
  <2>5. Lies(g, Len(file), added)
    <3> SUFFICES ASSUME NEW k \in 1 .. size, Len(file) + k <= Len(g)
                 PROVE  g[Len(file) + k] = added[k]
      BY DEF Lies
    <3>1. k \in 1 .. j
      BY <1>2, <2>1, <2>4
    <3> QED  BY <2>3, <2>4, <3>1
  <2>6. Lays(content, cells, g, M \cup {After(size)}, After(size))
    BY <1>1, <1>3, <1>6, <2>4, <2>5, BlockAdded DEF added
  <2>7. n.at = Len(file) + size
    BY DEF After
  <2>8. Len(g) <= n.at
    <3>1. Len(file) + j <= Len(file) + size
      BY <1>2, <2>1
    <3> QED  BY <2>4, <2>7, <3>1
  <2>9. file' = g
    BY <2>2 DEF g, part
  <2> HIDE DEF n
  <2>10. ASSUME NEW K, NEW k, K = M \cup {After(size)}, k = n  PROVE Layout(cells, K, k)'
    <3>1. Lays(content', cells, file', K, k)
      BY <1>1, <2>6, <2>9, <2>10 DEF n
    <3>2. Laid(cells, K, k)'
      BY <1>4, <3>1 DEF Laid
    <3>3. Written(k)'
      BY <1>1, <1>2, <2>8, <2>9, <2>10 DEF Written, Sound
    <3> QED  BY <1>1, <3>2, <3>3, UnreadSoFar DEF Layout
  <2> QED  BY <2>10
<1> QED  BY <1>5, <1>6 DEF WriterFails

\* Storing a file keeps the layout, unless it changes a cell.
LEMMA StoreKeepsLayout ==
    ASSUME TInv, TInv', NEW cells, NEW M, NEW last, Layout(cells, M, last), Store,
           damage' # "changed"
    PROVE  Layout(cells, M, last)'
<1>1. /\ phase = "stored" /\ phase' = "read"
      /\ UNCHANGED <<content, flags, taken, block, packed, complete, rpos, out, unpacked, verdict,
                     spos, listed, listing>>
  BY DEF Store, writer, reader, scanner
<1>2. /\ file \in Seq(Nat) /\ Len(file) \in Nat /\ damage = "none" /\ file' \in Seq(Nat)
      /\ Len(file') \in Nat
      /\ rpos = 0 /\ out = <<>> /\ unpacked = Nothing /\ verdict = "pending" /\ listing = "pending"
  BY <1>1 DEF TInv, Order
<1>3. /\ Laid(cells, M, last) /\ Lays(content, cells, file, M, last)
      /\ IF complete THEN Ends(last) ELSE Len(file) <= last.at
      /\ last.at \in Nat /\ Start \in M
  BY <1>1, <1>2 DEF Layout, Laid, Lays, Marks, Written, Sound
<1>4. \/ UNCHANGED <<file, damage>>
      \/ complete /\ damage' = "cut" /\ Cut
      \/ complete /\ damage' = "grown" /\ Grow
  BY DEF Store
<1> DEFINE g == file'
<1>5. Lays(content, cells, g, M, last)
      /\ (IF complete' /\ damage' # "cut" THEN Ends(last)' ELSE Len(file') <= last.at)
  <2>1. CASE UNCHANGED <<file, damage>>
    <3>1. g = file
      BY <2>1
    <3>2. complete => Ends(last)'
      BY <1>1, <1>3, <2>1 DEF Ends
    <3> QED  BY <1>1, <1>2, <1>3, <2>1, <3>1, <3>2
  <2>2. CASE complete /\ damage' = "cut" /\ Cut
    <3>1. PICK k \in 0 .. Len(file) - 1 : g = SubSeq(file, 1, k)
      BY <2>2 DEF Cut
    <3>2. /\ Len(g) = k /\ Len(g) <= Len(file) /\ \A i \in 1 .. Len(g) : g[i] = file[i]
          /\ g \in Seq(Nat)
      BY <1>2, <3>1
    <3>3. Len(file) = last.at + 1
      BY <1>2, <1>3, <2>2 DEF Ends
    <3>4. Len(g) <= last.at
      BY <1>2, <1>3, <3>1, <3>2, <3>3
    <3> HIDE DEF g
    <3>5. Lays(content, cells, g, M, last)
      BY <1>2, <1>3, <3>2, CutLays
    <3> QED  BY <2>2, <3>4, <3>5 DEF g
  <2>3. CASE complete /\ damage' = "grown" /\ Grow
    <3>1. PICK j \in Junk : g = file \o j
      BY <2>3 DEF Grow
    <3>2. j \in Seq(Nat) /\ Len(j) \in Nat
      BY ContainerAssumption
    <3>3. /\ g \in Seq(Nat) /\ Len(g) = Len(file) + Len(j)
          /\ \A i \in 1 .. Len(file) : g[i] = file[i]
      BY <1>2, <3>1, <3>2
    <3>4. /\ last.taken = Len(content) /\ last.totals = packed
          /\ last.at < Len(file) /\ file[last.at + 1] = 0
      BY <1>3, <2>3 DEF Ends
    <3> HIDE DEF g
    <3>5. Len(file) <= Len(g) /\ last.at <= Len(file) /\ last.at < Len(g)
      BY <1>2, <1>3, <3>2, <3>3, <3>4
    <3>6. last.at + 1 \in 1 .. Len(file)
      BY <1>2, <1>3, <3>4
    <3>7. g[last.at + 1] = 0
      BY <3>3, <3>4, <3>6
    <3>8. Lays(content, cells, g, M, last)
      BY <1>2, <1>3, <3>3, <3>5, GrownLays
    <3>9. Ends(last)'
      BY <1>1, <2>3, <3>4, <3>5, <3>7 DEF Ends, g
    <3> QED  BY <1>1, <2>3, <3>8, <3>9
  <2> QED  BY <1>4, <2>1, <2>2, <2>3
<1>6. Laid(cells, M, last)'
  BY <1>1, <1>3, <1>5, SameCells DEF Laid
<1>7. Written(last)'
  BY <1>1, <1>5 DEF Written, Sound
<1>8. ReadSoFar(M, last)' /\ ListedSoFar(M)'
  <2>1. Start.at = 0 /\ Start.taken = 0 /\ Start.totals = Nothing /\ SubSeq(content, 1, 0) = <<>>
    <3>1. content \in Seq(Nat)
      BY ContainerAssumption DEF TInv, TypeOK
    <3> QED  BY <3>1 DEF Start
  <2> QED  BY <1>1, <1>2, <1>3, <2>1 DEF ReadSoFar, ListedSoFar
<1> QED  BY <1>6, <1>7, <1>8 DEF Layout

\* Reading and listing leave the file alone.
LEMMA FileKept ==
    ASSUME UNCHANGED <<content, flags, file, damage, taken, block, packed, complete>>,
           phase \notin {"fill", "end"}, phase' \notin {"fill", "end"},
           NEW cells, NEW M, NEW last, Laid(cells, M, last), Written(last)
    PROVE  Laid(cells, M, last)' /\ Written(last)'
<1>1. Laid(cells, M, last)'
  BY SameCells DEF Laid
<1>2. Written(last)'
  BY DEF Written, Sound, Ends
<1> QED  BY <1>1, <1>2

LEMMA ReadBlockKeepsLayout ==
    ASSUME TInv, TInv', NEW cells, NEW M, NEW last, Layout(cells, M, last), ReadBlock
    PROVE  Layout(cells, M, last)'
<1>1. /\ phase = "read" /\ phase' = "read" /\ ~AtEnd(rpos)
      /\ UNCHANGED <<content, flags, file, damage, verdict, taken, block, packed, complete,
                     listing>>
  BY DEF ReadBlock, writer, scanner
<1>2. PICK b \in BlocksAt(rpos) : out' = out \o b.data /\ rpos' = b.next
                                  /\ unpacked' = Plus(unpacked, Len(b.data), b.src)
  BY DEF ReadBlock
<1>3. PICK m \in M : rpos = m.at /\ out = SubSeq(content, 1, m.taken) /\ unpacked = m.totals
  BY <1>1 DEF Layout, ReadSoFar
<1>4. Laid(cells, M, last) /\ Written(last)
  BY DEF Layout
<1>5. Laid(cells, M, last)' /\ Written(last)'
  BY <1>1, <1>4, FileKept
<1>6. PICK n \in M, d \in Pieces(content) : Block(m, n, d)
  <2>1. ~Has(rpos, 2) => BlocksAt(rpos) = {}
    BY Zenon DEF BlocksAt
  <2> QED  BY <1>1, <1>2, <1>3, <1>4, <2>1, AtMark
<1>7. BlocksAt(rpos) = { [data |-> d, src |-> Len(Payload(d)), next |-> n.at] }
  BY <1>2, <1>3, <1>6, BlockIsRead
<1>8. b.data = d /\ b.src = Len(Payload(d)) /\ b.next = n.at
  BY <1>2, <1>7
<1>9. rpos' = n.at /\ out' = SubSeq(content, 1, n.taken) /\ unpacked' = n.totals
  BY <1>2, <1>3, <1>6, <1>8 DEF Block
<1>10. ReadSoFar(M, last)'
  BY <1>1, <1>9 DEF ReadSoFar, TInv, Order
<1>11. ListedSoFar(M)'
  BY <1>1 DEF ListedSoFar, TInv, Order
<1> QED  BY <1>5, <1>10, <1>11 DEF Layout

LEMMA ReadStopsKeepsLayout ==
    ASSUME TInv, TInv', NEW cells, NEW M, NEW last, Layout(cells, M, last),
           ReadEnd \/ ReadFails \/ SinkFails
    PROVE  Layout(cells, M, last)'
<1>1. /\ phase = "read" /\ phase' = "scan" /\ spos = 0
      /\ UNCHANGED <<content, flags, file, damage, taken, block, packed, complete,
                     unpacked, spos, listing>>
  BY DEF ReadEnd, ReadFails, SinkFails, writer, scanner, TInv, Order
<1>2. PICK m \in M : rpos = m.at /\ out = SubSeq(content, 1, m.taken) /\ unpacked = m.totals
  BY <1>1 DEF Layout, ReadSoFar
<1>3. Laid(cells, M, last) /\ Written(last)
  BY DEF Layout
<1>4. Laid(cells, M, last)' /\ Written(last)'
  BY <1>1, <1>3, FileKept
<1>5. \/ m = last /\ Sound /\ AtEnd(rpos) /\ Ends(last)
      \/ m = last /\ ~Sound /\ ~Has(rpos, 1) /\ ~Has(rpos, 2)
      \/ \E n \in M : \E d \in Pieces(content) :
            Block(m, n, d) /\ ~AtEnd(rpos) /\ (Sound => n.at <= Len(file))
  BY <1>1, <1>2, <1>3, AtMark
<1>6. Sound' = Sound
  BY <1>1 DEF Sound
<1>7. ASSUME ReadEnd  PROVE ReadSoFar(M, last)'
  <2>1. AtEnd(rpos) /\ Has(rpos, 1) /\ verdict' = "ok" /\ rpos' = rpos + 1 /\ out' = out
    BY <1>7 DEF ReadEnd, AtEnd
  <2>2. m = last /\ Sound /\ Ends(last)
    BY <1>5, <2>1
  <2>3. out = content
    <3>1. content \in Seq(Nat) /\ last.taken = Len(content)
      BY <2>2, ContainerAssumption DEF TInv, TypeOK, Ends
    <3>2. SubSeq(content, 1, Len(content)) = content
      BY <3>1
    <3> QED  BY <1>2, <2>2, <3>1, <3>2
  <2>4. unpacked = packed
    BY <1>2, <2>2 DEF Ends
  <2> QED  BY <1>1, <1>2, <1>6, <2>1, <2>2, <2>3, <2>4 DEF ReadSoFar
<1>8. ASSUME ReadFails  PROVE ReadSoFar(M, last)'
  <2>1. ~AtEnd(rpos) /\ BlocksAt(rpos) = {} /\ verdict' = "err"
    BY <1>8 DEF ReadFails
  <2>2. ~Sound
    <3> SUFFICES ASSUME Sound PROVE FALSE
      OBVIOUS
    <3>1. PICK n \in M, d \in Pieces(content) : Block(m, n, d) /\ n.at <= Len(file)
      BY <1>5, <2>1
    <3>2. BlocksAt(m.at) = { [data |-> d, src |-> Len(Payload(d)), next |-> n.at] }
      BY <3>1, BlockIsRead
    <3> QED  BY <1>2, <2>1, <3>2
  <2> QED  BY <1>1, <1>6, <2>1, <2>2 DEF ReadSoFar
<1>9. ASSUME SinkFails  PROVE ReadSoFar(M, last)'
  BY <1>1, <1>9 DEF SinkFails, ReadSoFar
<1>10. ReadSoFar(M, last)'
  BY <1>7, <1>8, <1>9
<1>11. ListedSoFar(M)'
  <2>1. Start \in M /\ Start.at = 0
    BY <1>3 DEF Laid, Lays, Start
  <2>2. listing' = "pending" /\ spos' = 0
    BY <1>1 DEF TInv, Order
  <2> QED  BY <2>1, <2>2 DEF ListedSoFar
<1> QED  BY <1>4, <1>10, <1>11 DEF Layout

LEMMA ScanKeepsLayout ==
    ASSUME TInv, TInv', NEW cells, NEW M, NEW last, Layout(cells, M, last),
           ScanBlock \/ ScanEnd \/ ScanFails
    PROVE  Layout(cells, M, last)'
<1>1. /\ phase = "scan" /\ phase' \in {"scan", "done"}
      /\ UNCHANGED <<content, flags, file, damage, taken, block, packed, complete,
                     rpos, out, unpacked, verdict>>
  BY DEF ScanBlock, ScanEnd, ScanFails, writer, reader
<1>2. PICK m \in M : spos = m.at
  BY <1>1 DEF Layout, ListedSoFar
<1>3. Laid(cells, M, last) /\ Written(last)
  BY DEF Layout
<1>4. Laid(cells, M, last)' /\ Written(last)'
  BY <1>1, <1>3, FileKept
<1>5. \/ m = last /\ Sound /\ AtEnd(spos) /\ Ends(last)
      \/ m = last /\ ~Sound /\ ~Has(spos, 1) /\ ~Has(spos, 2)
      \/ \E n \in M : \E d \in Pieces(content) :
            Block(m, n, d) /\ ~AtEnd(spos) /\ (Sound => n.at <= Len(file))
  BY <1>1, <1>2, <1>3, AtMark
<1>6. Sound' = Sound
  BY <1>1 DEF Sound
<1>7. ReadSoFar(M, last)'
  BY <1>1, <1>6 DEF Layout, ReadSoFar
<1>8. ASSUME ScanBlock  PROVE ListedSoFar(M)'
  <2>1. /\ Has(spos, 2) /\ ~AtEnd(spos) /\ phase' = "scan" /\ listing' = listing
        /\ spos' = spos + 2 + Skip(file[spos + 1], file[spos + 2])
    BY <1>1, <1>8 DEF ScanBlock
  <2>2. PICK n \in M, d \in Pieces(content) : Block(m, n, d)
    BY <1>5, <2>1
  <2>3. /\ file \in Seq(Nat) /\ content \in Contents /\ spos \in Nat /\ listing = "pending"
        /\ IsPiece(d) /\ Len(d) <= MAX_BLOCK /\ Holds(spos, d) /\ n.at = spos + Len(BlockCells(d))
    BY <1>1, <1>2, <2>2 DEF TInv, TypeOK, Order, Block
  <2>4. /\ file[spos + 1] = Len(d) /\ file[spos + 2] = Len(Payload(d))
        /\ 2 + Skip(Len(d), Len(Payload(d))) = Len(BlockCells(d)) /\ Len(BlockCells(d)) \in Nat
    BY <2>1, <2>3, SizesAreRead
  <2>5. Skip(Len(d), Len(Payload(d))) \in Nat
    <3>1. Len(Payload(d)) \in Nat
      BY <2>3, PieceFacts
    <3>2. Skip(Len(d), Len(Payload(d))) = Len(Payload(d)) + Sums
             + (IF Len(Payload(d)) < Len(d) THEN SecondSums ELSE 0)
      BY Zenon DEF Skip, Sums, SecondSums
    <3> QED  BY <3>1, <3>2, SumsAreNat
  <2>6. spos' = n.at
    <3> DEFINE k == Skip(Len(d), Len(Payload(d)))
               size == Len(BlockCells(d))
    <3>1. spos' = spos + 2 + k
      BY <2>1, <2>4, Zenon
    <3>2. k \in Nat /\ 2 + k = size /\ spos \in Nat /\ n.at = spos + size
      BY <2>3, <2>4, <2>5
    <3> HIDE DEF k, size
    <3> QED  BY <3>1, <3>2
  <2> QED  BY <2>1, <2>2, <2>3, <2>6 DEF ListedSoFar
<1>9. ASSUME ScanEnd  PROVE ListedSoFar(M)'
  <2>1. AtEnd(spos) /\ Has(spos, 1) /\ phase' = "done"
    BY <1>9 DEF ScanEnd, AtEnd
  <2> QED  BY <1>5, <1>6, <2>1 DEF ListedSoFar
<1>10. ASSUME ScanFails  PROVE ListedSoFar(M)'
  BY <1>10 DEF ScanFails, ListedSoFar
<1>11. ListedSoFar(M)'
  BY <1>8, <1>9, <1>10
<1> QED  BY <1>4, <1>7, <1>11 DEF Layout

LEMMA WInvKept == WInv /\ [Next]_vars => WInv'
<1> SUFFICES ASSUME WInv, [Next]_vars, damage' # "changed"
             PROVE  \E cells, M, last : Layout(cells, M, last)'
  BY WritingKeepsTypes, ReadingKeepsTypes, ScanningKeepsTypes, StutterKeepsTypes
     DEF WInv, Next
<1>1. TInv /\ TInv'
  BY WritingKeepsTypes, ReadingKeepsTypes, ScanningKeepsTypes, StutterKeepsTypes
     DEF WInv, Next
<1>2. damage # "changed"
  <2>1. Store => damage = "none"
    BY <1>1 DEF Store, TInv, Order
  <2>2. ~Store => damage' = damage
    BY DEF Next, vars, Read, WriteBlock, WriteEnd, WriterFails, ReadBlock, ReadEnd, ReadFails,
           SinkFails, ScanBlock, ScanEnd, ScanFails
  <2> QED  BY <2>1, <2>2
<1>3. PICK cells, M, last : Layout(cells, M, last)
  BY <1>2 DEF WInv
<1>4. CASE Read
  BY <1>1, <1>3, <1>4, ReadKeepsLayout
<1>5. CASE WriteBlock
  BY <1>1, <1>3, <1>5, WriteBlockKeepsLayout
<1>6. CASE WriteEnd
  BY <1>1, <1>3, <1>6, WriteEndKeepsLayout
<1>7. CASE WriterFails
  BY <1>1, <1>3, <1>7, WriterFailsKeepsLayout
<1>8. CASE Store
  BY <1>1, <1>3, <1>8, StoreKeepsLayout
<1>9. CASE ReadBlock
  BY <1>1, <1>3, <1>9, ReadBlockKeepsLayout
<1>10. CASE ReadEnd \/ ReadFails \/ SinkFails
  BY <1>1, <1>3, <1>10, ReadStopsKeepsLayout
<1>11. CASE ScanBlock \/ ScanEnd \/ ScanFails
  BY <1>1, <1>3, <1>11, ScanKeepsLayout
<1>12. CASE UNCHANGED vars
  <2>1. Laid(cells, M, last)'
    BY <1>3, <1>12, SameCells DEF Layout, Laid, vars
  <2>2. Written(last)' /\ ReadSoFar(M, last)' /\ ListedSoFar(M)'
    BY <1>3, <1>12 DEF Layout, Written, Ends, Sound, ReadSoFar, ListedSoFar, vars, writer, reader,
                       scanner
  <2> QED  BY <2>1, <2>2 DEF Layout
<1> QED  BY <1>4, <1>5, <1>6, <1>7, <1>8, <1>9, <1>10, <1>11, <1>12 DEF Next

THEOREM LayoutKept == Spec => []WInv
BY LayoutInitially, WInvKept, PTL DEF Spec

\* A complete file, whatever follows it, is read back whole (lzop.rs:391-460).
THEOREM CompleteReadsBack == Spec => []ReadsBack
<1>1. WInv => ReadsBack
  <2> SUFFICES ASSUME WInv, complete, damage \in {"none", "grown"}, verdict \notin {"pending", "io"}
               PROVE  /\ verdict = "ok" /\ out = content /\ unpacked = packed
                      /\ damage = "none" => rpos = Len(file)
    BY DEF ReadsBack
  <2>1. PICK cells, M, last : Written(last) /\ ReadSoFar(M, last)
    BY DEF WInv, Layout
  <2>2. Sound
    BY DEF Sound
  <2>3. verdict = "ok"
    BY <2>1, <2>2 DEF ReadSoFar, WInv, TInv, TypeOK
  <2>4. phase \notin {"fill", "end"}
    BY DEF WInv, TInv, Order
  <2>5. Ends(last)
    BY <2>1, <2>2, <2>4 DEF Written
  <2> QED  BY <2>1, <2>3, <2>5 DEF ReadSoFar, Ends
<1> QED  BY <1>1, LayoutKept, PTL

\* A file cut anywhere, or never finished, is neither read nor listed as a whole
\* one, wherever the cut falls (lzop.rs:127, 478-481).
THEOREM CutIsRefused == Spec => []IncompleteIsRefused
<1>1. WInv => IncompleteIsRefused
  <2> SUFFICES ASSUME WInv, ~complete \/ damage = "cut"
               PROVE  verdict # "ok" /\ listing # "ok"
    BY DEF IncompleteIsRefused
  <2>1. damage # "changed"
    BY DEF WInv, TInv, Order
  <2>2. PICK cells, M, last : ReadSoFar(M, last) /\ ListedSoFar(M)
    BY <2>1 DEF WInv, Layout
  <2> QED  BY <2>2 DEF ReadSoFar, ListedSoFar, Sound
<1> QED  BY <1>1, LayoutKept, PTL
-----------------------------------------------------------------------------
(* What is read is what is listed: a track through the file as it is, whole, *)
(* cut, grown or changed, from its start to where the reader is.             *)

Places == [at : Nat, totals : Totals]

Origin == [at |-> 0, totals |-> Nothing]

\* scan() goes from the place x to the place y.
Jump(x, y) ==
    LET dst == file[x.at + 1]
        src == file[x.at + 2]
    IN  /\ Has(x.at, 2) /\ ~AtEnd(x.at) /\ SizesOk(dst, src) /\ Has(x.at + 2, Skip(dst, src))
        /\ y.at = x.at + 2 + Skip(dst, src) /\ y.totals = Plus(x.totals, dst, src)

Track(P, z) ==
    /\ Origin \in P /\ z \in P
    /\ \A x \in P : x = z \/ \E y \in P : Jump(x, y)

Listing(P, z) ==
    /\ Track(P, z)
    /\ phase = "read" => rpos = z.at /\ unpacked = z.totals
    /\ verdict = "ok" => AtEnd(z.at) /\ rpos = z.at + 1 /\ unpacked = z.totals
    /\ phase = "scan" /\ verdict = "ok" => \E x \in P : spos = x.at /\ listed = x.totals
    /\ ListingAgrees

LInv == TInv /\ (phase \in {"read", "scan", "done"} => \E P, z : Listing(P, z))

LEMMA TrackKept ==
    ASSUME UNCHANGED <<file, flags>>, NEW P, NEW z, Track(P, z)
    PROVE  Track(P, z)'
<1>1. ASSUME NEW x, NEW y, Jump(x, y) PROVE Jump(x, y)'
  BY <1>1 DEF Jump, Has, AtEnd, Skip, DSum, CSum
<1> QED  BY <1>1 DEF Track

LEMMA ReadBlockIsJump ==
    ASSUME TInv, ReadBlock, NEW z, rpos = z.at, unpacked = z.totals,
           NEW y, y = [at |-> rpos', totals |-> unpacked']
    PROVE  Jump(z, y)
<1>1. ~AtEnd(z.at) /\ rpos \in Nat /\ file \in Seq(Nat)
  BY DEF ReadBlock, TInv, TypeOK, Order
<1>2. PICK b \in BlocksAt(rpos) : rpos' = b.next /\ unpacked' = Plus(unpacked, Len(b.data), b.src)
  BY DEF ReadBlock
<1> DEFINE dst == file[z.at + 1]
           src == file[z.at + 2]
           first == Len(DSum(<<>>))
           second == IF src < dst THEN Len(CSum(<<>>)) ELSE 0
           p == z.at
           next == b.next
<1>3. /\ Has(p, 2) /\ SizesOk(dst, src) /\ Len(b.data) = dst /\ b.src = src
      /\ next = p + 2 + first + second + src /\ next <= Len(file)
  BY <1>2, ReadIsScanned
<1>4. dst \in Nat /\ src \in Nat /\ p \in Nat
  <2>1. p \in Nat /\ p + 2 <= Len(file)
    BY <1>1, <1>3 DEF Has
  <2> HIDE DEF p
  <2>2. p + 1 \in 1 .. Len(file) /\ p + 2 \in 1 .. Len(file)
    BY <1>1, <2>1
  <2>3. file[p + 1] \in Nat /\ file[p + 2] \in Nat
    BY <1>1, <2>2
  <2> QED  BY <2>1, <2>3 DEF p
<1>5. first \in Nat /\ second \in Nat
  BY SumsAreNat DEF Sums, SecondSums
<1>6. Skip(dst, src) = src + first + second
  BY Zenon DEF Skip
<1>7. y.at = next /\ y.totals = Plus(z.totals, dst, src)
  BY <1>2, <1>3
<1> HIDE DEF dst, src, first, second, p, next
<1>8. next = p + 2 + Skip(dst, src) /\ (p + 2) + Skip(dst, src) <= Len(file)
  <2>1. next = p + 2 + (src + first + second) /\ p + 2 + (src + first + second) <= Len(file)
    BY <1>3, <1>4, <1>5
  <2>2. src + first + second \in Nat
    BY <1>4, <1>5
  <2> QED  BY <1>6, <2>1, <2>2
<1> QED  BY <1>1, <1>3, <1>7, <1>8 DEF Jump, Has, dst, src, p

LEMMA ListingKept == LInv /\ [Next]_vars => LInv'
<1> SUFFICES ASSUME LInv, [Next]_vars, phase' \in {"read", "scan", "done"}
             PROVE  \E P, z : Listing(P, z)'
  BY WritingKeepsTypes, ReadingKeepsTypes, ScanningKeepsTypes, StutterKeepsTypes
     DEF LInv, Next
<1>1. TInv /\ TInv'
  BY WritingKeepsTypes, ReadingKeepsTypes, ScanningKeepsTypes, StutterKeepsTypes
     DEF LInv, Next
<1>2. CASE Store
  <2>1. /\ phase' = "read" /\ rpos' = 0 /\ unpacked' = Nothing
        /\ verdict' = "pending"
    BY <1>1, <1>2 DEF Store, reader, TInv, Order
  <2>2. Track({Origin}, Origin)'
    BY DEF Track
  <2>3. Listing({Origin}, Origin)'
    BY <2>1, <2>2 DEF Listing, Origin, ListingAgrees
  <2> QED  BY <2>3
<1>3. CASE ReadBlock
  <2>1. /\ phase = "read" /\ phase' = "read" /\ verdict = "pending" /\ verdict' = "pending"
        /\ UNCHANGED <<file, flags>>
    BY <1>1, <1>3 DEF ReadBlock, TInv, Order
  <2>2. PICK P, z : Track(P, z) /\ rpos = z.at /\ unpacked = z.totals
    BY <2>1 DEF LInv, Listing
  <2>3. ASSUME NEW y, y = [at |-> rpos', totals |-> unpacked']
        PROVE  Listing(P \cup {y}, y)'
    <3>1. Jump(z, y)
      BY <1>1, <1>3, <2>2, <2>3, ReadBlockIsJump
    <3>2. Track(P \cup {y}, y)
      BY <2>2, <3>1 DEF Track
    <3>3. Track(P \cup {y}, y)'
      BY <2>1, <3>2, TrackKept
    <3> QED  BY <2>1, <2>3, <3>3 DEF Listing, ListingAgrees
  <2> QED  BY <2>3
<1>4. CASE ReadEnd \/ ReadFails \/ SinkFails
  <2>1. /\ phase = "read" /\ phase' = "scan"
        /\ UNCHANGED <<file, flags, unpacked, spos, listed>>
        /\ spos = 0 /\ listed = Nothing
    BY <1>1, <1>4 DEF ReadEnd, ReadFails, SinkFails, scanner, TInv, Order
  <2>2. PICK P, z : Track(P, z) /\ rpos = z.at /\ unpacked = z.totals
    BY <2>1 DEF LInv, Listing
  <2>3. verdict' = "ok" => AtEnd(z.at) /\ rpos' = rpos + 1
    BY <1>4, <2>2 DEF ReadEnd, ReadFails, SinkFails
  <2>4. AtEnd(z.at)' = AtEnd(z.at)
    BY <2>1 DEF AtEnd, Has
  <2>5. Track(P, z)'
    BY <2>1, <2>2, TrackKept
  <2>6. Origin \in P /\ Origin.at = 0 /\ Origin.totals = Nothing
    BY <2>2 DEF Track, Origin
  <2>7. Listing(P, z)'
    BY <2>1, <2>2, <2>3, <2>4, <2>5, <2>6 DEF Listing, ListingAgrees
  <2> QED  BY <2>7
<1>5. CASE ScanBlock \/ ScanEnd \/ ScanFails
  <2>1. /\ phase = "scan" /\ phase' \in {"scan", "done"}
        /\ UNCHANGED <<file, flags, rpos, unpacked, verdict>>
    BY <1>5 DEF ScanBlock, ScanEnd, ScanFails, reader
  <2>2. PICK P, z : Listing(P, z)
    BY <2>1 DEF LInv
  <2>3. Track(P, z) /\ Track(P, z)'
    BY <2>1, <2>2, TrackKept DEF Listing
  <2>4. CASE verdict # "ok"
    <3>1. Listing(P, z)'
      BY <2>1, <2>3, <2>4 DEF Listing, ListingAgrees
    <3> QED  BY <3>1
  <2>5. CASE verdict = "ok"
    <3>1. AtEnd(z.at) /\ rpos = z.at + 1 /\ unpacked = z.totals
      BY <2>2, <2>5 DEF Listing
    <3>2. AtEnd(z.at)'
      BY <2>1, <3>1 DEF AtEnd, Has
    <3>3. PICK x \in P : spos = x.at /\ listed = x.totals
      BY <2>1, <2>2, <2>5 DEF Listing
    <3>4. x = z \/ \E y \in P : Jump(x, y)
      BY <2>3 DEF Track
    <3>5. CASE ScanBlock
      <4>1. /\ phase' = "scan" /\ ~AtEnd(x.at)
            /\ spos' = x.at + 2 + Skip(file[x.at + 1], file[x.at + 2])
            /\ listed' = Plus(x.totals, file[x.at + 1], file[x.at + 2])
        BY <2>1, <3>3, <3>5 DEF ScanBlock
      <4>2. PICK y \in P : Jump(x, y)
        BY <3>1, <3>4, <4>1
      <4>3. spos' = y.at /\ listed' = y.totals
        BY <4>1, <4>2 DEF Jump
      <4>4. Listing(P, z)'
        BY <2>1, <2>3, <3>1, <3>2, <4>1, <4>3 DEF Listing, ListingAgrees
      <4> QED  BY <4>4
    <3>6. CASE ScanEnd
      <4>1. /\ phase' = "done" /\ AtEnd(x.at) /\ spos' = x.at + 1 /\ listing' = "ok"
            /\ listed' = x.totals
        BY <3>3, <3>6 DEF ScanEnd
      <4>2. x = z
        BY <3>4, <4>1 DEF Jump
      <4>3. Listing(P, z)'
        BY <2>1, <2>3, <3>1, <3>2, <4>1, <4>2 DEF Listing, ListingAgrees
      <4> QED  BY <4>3
    <3>7. CASE ScanFails
      <4>1. ~AtEnd(x.at) /\ ~(Has(x.at, 2) /\ SizesOk(file[x.at + 1], file[x.at + 2])
                                /\ Has(x.at + 2, Skip(file[x.at + 1], file[x.at + 2])))
        BY <3>3, <3>7 DEF ScanFails
      <4> QED  BY <3>1, <3>4, <4>1 DEF Jump
    <3> QED  BY <1>5, <3>5, <3>6, <3>7
  <2> QED  BY <2>4, <2>5
<1>6. CASE Read \/ WriteBlock \/ WriteEnd \/ WriterFails
  BY <1>6 DEF Read, WriteBlock, WriteEnd, WriterFails, Filled
<1>7. CASE UNCHANGED vars
  <2>1. UNCHANGED <<file, flags, phase, rpos, unpacked, verdict, spos, listed, listing>>
    BY <1>7 DEF vars, reader, scanner
  <2>2. PICK P, z : Listing(P, z)
    BY <2>1 DEF LInv
  <2>3. Track(P, z)'
    BY <2>1, <2>2, TrackKept DEF Listing
  <2>4. AtEnd(z.at)' = AtEnd(z.at)
    BY <2>1 DEF AtEnd, Has
  <2>5. Listing(P, z)'
    BY <2>1, <2>2, <2>3, <2>4 DEF Listing, ListingAgrees
  <2> QED  BY <2>5
<1> QED  BY <1>2, <1>3, <1>4, <1>5, <1>6, <1>7 DEF Next

\* A listing tells what decompressing gave, of any file that is read to its end
\* (lzop.rs:462-488, 506-565).
THEOREM ListingIsRight == Spec => []ListingAgrees
<1>1. Init => LInv
  BY TypesInitially DEF LInv, Init
<1>2. LInv => ListingAgrees
  BY DEF LInv, Listing, ListingAgrees
<1> QED  BY <1>1, <1>2, ListingKept, PTL DEF Spec
-----------------------------------------------------------------------------
(* Storing and reading back is a transfer.                                   *)

LEMMA Beginning ==
    ASSUME NEW S, NEW s \in Seq(S), NEW t \in Seq(S), Len(s) <= Len(t),
           \A k \in 1 .. Len(s) : s[k] = t[k]
    PROVE  IsPrefix(s, t)
<1>1. Len(s) \in Nat
  OBVIOUS
<1> DEFINE u == SubSeq(t, 1, Len(s))
<1>2. u \in Seq(S) /\ Len(u) = Len(s) /\ \A k \in 1 .. Len(s) : u[k] = t[k]
  BY <1>1
<1> HIDE DEF u
<1>3. u = s
  BY <1>2, SeqEqual
<1>4. SubSeq(s, 1, Len(s)) = s
  OBVIOUS
<1> QED  BY <1>3, <1>4 DEF IsPrefix, u

LEMMA Cells ==
    ASSUME NEW S, NEW s \in Seq(S), NEW t \in Seq(S), IsPrefix(s, t)
    PROVE  Len(s) <= Len(t) /\ \A k \in 1 .. Len(s) : s[k] = t[k]
<1>1. Len(s) <= Len(t) /\ SubSeq(s, 1, Len(s)) = SubSeq(t, 1, Len(s))
  BY DEF IsPrefix
<1>2. ASSUME NEW k \in 1 .. Len(s)
      PROVE  SubSeq(s, 1, Len(s))[k] = s[k] /\ SubSeq(t, 1, Len(s))[k] = t[k]
  BY <1>1, <1>2
<1> QED  BY <1>1, <1>2

LEMMA BeginningOfBeginning ==
    ASSUME NEW S, NEW s \in Seq(S), NEW t \in Seq(S), NEW u \in Seq(S),
           IsPrefix(s, t), IsPrefix(t, u)
    PROVE  IsPrefix(s, u)
<1>1. Len(s) <= Len(t) /\ \A k \in 1 .. Len(s) : s[k] = t[k]
  BY Cells
<1>2. Len(t) <= Len(u) /\ \A k \in 1 .. Len(t) : t[k] = u[k]
  BY Cells
<1>3. Len(s) \in Nat /\ Len(t) \in Nat /\ Len(u) \in Nat
  OBVIOUS
<1>4. Len(s) <= Len(u) /\ \A k \in 1 .. Len(s) : s[k] = u[k]
  BY <1>1, <1>2, <1>3
<1> QED  BY <1>4, Beginning

LEMMA CutIsBeginning ==
    ASSUME NEW S, NEW s \in Seq(S), NEW n \in Nat, n <= Len(s)
    PROVE  SubSeq(s, 1, n) \in Seq(S) /\ IsPrefix(SubSeq(s, 1, n), s)
<1> DEFINE u == SubSeq(s, 1, n)
<1>1. u \in Seq(S) /\ Len(u) = n /\ \A k \in 1 .. n : u[k] = s[k]
  OBVIOUS
<1> HIDE DEF u
<1>2. Len(u) <= Len(s) /\ \A k \in 1 .. Len(u) : u[k] = s[k]
  BY <1>1
<1>3. IsPrefix(u, s)
  BY <1>1, <1>2, Beginning
<1> QED  BY <1>1, <1>3 DEF u

\* More of a block is a longer beginning of what comes after it.
LEMMA PartIsBeginning ==
    ASSUME NEW S, NEW s \in Seq(S), NEW d \in Seq(S), NEW n \in Nat, n <= Len(d)
    PROVE  /\ s \o SubSeq(d, 1, n) \in Seq(S) /\ Len(s \o SubSeq(d, 1, n)) = Len(s) + n
           /\ IsPrefix(s, s \o SubSeq(d, 1, n)) /\ IsPrefix(s \o SubSeq(d, 1, n), s \o d)
<1> DEFINE e == SubSeq(d, 1, n)
           a == s \o e
           b == s \o d
<1>1. e \in Seq(S) /\ Len(e) = n /\ \A k \in 1 .. n : e[k] = d[k]
  OBVIOUS
<1> HIDE DEF e
<1>2. /\ a \in Seq(S) /\ Len(a) = Len(s) + Len(e)
      /\ \A k \in 1 .. Len(s) : a[k] = s[k]
      /\ \A k \in 1 .. Len(e) : a[Len(s) + k] = e[k]
  <2>1. e \in Seq(S)
    BY <1>1
  <2> QED  BY <2>1, ConcatCells
<1>3. /\ b \in Seq(S) /\ Len(b) = Len(s) + Len(d)
      /\ \A k \in 1 .. Len(s) : b[k] = s[k]
      /\ \A k \in 1 .. Len(d) : b[Len(s) + k] = d[k]
  BY ConcatCells
<1> HIDE DEF a, b
<1>4. Len(s) \in Nat /\ Len(d) \in Nat
  OBVIOUS
<1>5. Len(s) <= Len(a) /\ Len(a) <= Len(b)
  BY <1>1, <1>2, <1>3, <1>4
<1>6. ASSUME NEW k \in 1 .. Len(a) PROVE a[k] = b[k]
  <2>1. CASE k <= Len(s)
    BY <1>2, <1>3, <1>4, <1>6, <2>1
  <2>2. CASE k > Len(s)
    <3> DEFINE i == k - Len(s)
    <3>1. i \in 1 .. n /\ i \in 1 .. Len(d) /\ k = Len(s) + i
      BY <1>1, <1>2, <1>4, <1>6, <2>2
    <3> HIDE DEF i
    <3>2. a[Len(s) + i] = e[i] /\ b[Len(s) + i] = d[i] /\ e[i] = d[i]
      BY <1>1, <1>2, <1>3, <3>1
    <3> QED  BY <3>1, <3>2
  <2> QED  BY <1>1, <1>2, <1>4, <1>6, <2>1, <2>2
<1>7. IsPrefix(s, a)
  BY <1>2, <1>5, Beginning
<1>8. IsPrefix(a, b)
  BY <1>2, <1>3, <1>5, <1>6, Beginning
<1> QED  BY <1>1, <1>2, <1>7, <1>8 DEF a, b, e

\* What a block adds, whole or in part.
LEMMA BlockIsDelivered ==
    ASSUME WInv, damage # "changed", phase = "read", ~AtEnd(rpos), NEW b \in BlocksAt(rpos)
    PROVE  /\ b.data \in Seq(Nat) /\ Len(b.data) >= 1 /\ out \in Seq(Nat)
           /\ IsPrefix(out \o b.data, content)
           /\ \A k \in 0 .. Len(b.data) :
                 /\ out \o SubSeq(b.data, 1, k) \in Seq(Nat)
                 /\ IsPrefix(out, out \o SubSeq(b.data, 1, k))
                 /\ IsPrefix(out \o SubSeq(b.data, 1, k), content)
<1>1. PICK cells, M, last : Layout(cells, M, last)
  BY DEF WInv
<1>2. PICK m \in M : rpos = m.at /\ out = SubSeq(content, 1, m.taken)
  BY <1>1 DEF Layout, ReadSoFar
<1>3. TInv /\ Laid(cells, M, last) /\ Written(last) /\ content \in Contents /\ content \in Seq(Nat)
  BY <1>1, ContainerAssumption DEF WInv, Layout, TInv, TypeOK
<1>4. PICK n \in M, d \in Pieces(content) : Block(m, n, d)
  <2>1. ~Has(rpos, 2) => BlocksAt(rpos) = {}
    BY Zenon DEF BlocksAt
  <2> QED  BY <1>2, <1>3, <2>1, AtMark
<1>5. BlocksAt(rpos) = { [data |-> d, src |-> Len(Payload(d)), next |-> n.at] }
  BY <1>2, <1>3, <1>4, BlockIsRead
<1>6. b.data = d
  BY <1>5
<1>7. d \in Seq(Nat) /\ Len(d) \in Nat /\ Len(d) >= 1
  BY <1>3, <1>4, PieceFacts DEF Block
<1>8. out \o d = SubSeq(content, 1, n.taken)
  BY <1>2, <1>4 DEF Block
<1>9. m.taken \in Nat /\ n.taken \in Nat /\ m.taken <= Len(content) /\ n.taken <= Len(content)
  BY <1>4 DEF Block
<1>10. out \in Seq(Nat)
  <2> DEFINE i == m.taken
  <2>1. i \in Nat /\ i <= Len(content) /\ out = SubSeq(content, 1, i)
    BY <1>2, <1>9
  <2> HIDE DEF i
  <2> QED  BY <1>3, <2>1, CutIsBeginning
<1>11. out \o d \in Seq(Nat) /\ IsPrefix(out \o d, content)
  <2> DEFINE j == n.taken
  <2>1. j \in Nat /\ j <= Len(content) /\ out \o d = SubSeq(content, 1, j)
    BY <1>8, <1>9
  <2> HIDE DEF j
  <2> QED  BY <1>3, <2>1, CutIsBeginning
<1>12. ASSUME NEW k \in 0 .. Len(d)
       PROVE  /\ out \o SubSeq(d, 1, k) \in Seq(Nat)
              /\ Len(out \o SubSeq(d, 1, k)) = Len(out) + k
              /\ IsPrefix(out, out \o SubSeq(d, 1, k))
              /\ IsPrefix(out \o SubSeq(d, 1, k), content)
  <2>1. k \in Nat /\ k <= Len(d)
    BY <1>7
  <2> DEFINE a == out \o SubSeq(d, 1, k)
             all == out \o d
  <2>2. a \in Seq(Nat) /\ Len(a) = Len(out) + k /\ IsPrefix(out, a) /\ IsPrefix(a, all)
    BY <1>7, <1>10, <2>1, PartIsBeginning
  <2>3. all \in Seq(Nat) /\ IsPrefix(all, content)
    BY <1>11
  <2> HIDE DEF a, all
  <2>4. IsPrefix(a, content)
    BY <1>3, <2>2, <2>3, BeginningOfBeginning
  <2> QED  BY <2>2, <2>4 DEF a
<1> QED  BY <1>6, <1>7, <1>10, <1>11, <1>12

LEMMA TransferStarts == Init => Abstract!TransferInit
BY DEF Init, Abstract!TransferInit, transfer

LEMMA TransferSteps ==
    ASSUME WInv, WInv', [Next]_vars
    PROVE  [Abstract!TransferNext]_Abstract!transferVars
<1>1. content' = content
  BY DEF Next, vars, Read, WriteBlock, WriteEnd, WriterFails, Store, ReadBlock, ReadEnd, ReadFails,
         SinkFails, ScanBlock, ScanEnd, ScanFails
<1>2. TInv /\ TInv'
  BY DEF WInv
<1>3. CASE Store
  <2>1. out = <<>> /\ out' = <<>> /\ verdict = "pending" /\ verdict' = "pending"
    BY <1>2, <1>3 DEF Store, reader, TInv, Order
  <2> QED  BY <1>1, <2>1 DEF Abstract!transferVars, transfer
<1>4. ASSUME ~Store  PROVE damage' = damage
  BY <1>4 DEF Next, vars, Read, WriteBlock, WriteEnd, WriterFails, ReadBlock, ReadEnd, ReadFails,
         SinkFails, ScanBlock, ScanEnd, ScanFails
<1>5. CASE ~Store /\ damage = "changed"
  BY <1>1, <1>4, <1>5 DEF Abstract!transferVars, transfer
<1>6. CASE UNCHANGED <<out, verdict, damage>>
  BY <1>1, <1>6 DEF Abstract!transferVars, transfer
<1>7. CASE Read \/ WriteBlock \/ WriteEnd \/ WriterFails \/ ScanBlock \/ ScanEnd \/ ScanFails
           \/ UNCHANGED vars
  BY <1>6, <1>7 DEF vars, Read, WriteBlock, WriteEnd, WriterFails, ScanBlock, ScanEnd, ScanFails,
                    reader
<1>8. CASE damage # "changed" /\ ReadBlock
  <2>1. phase = "read" /\ ~AtEnd(rpos) /\ verdict = "pending" /\ verdict' = verdict
        /\ damage' = damage
    BY <1>2, <1>8 DEF ReadBlock, TInv, Order
  <2>2. PICK b \in BlocksAt(rpos) : out' = out \o b.data
    BY <1>8 DEF ReadBlock
  <2> DEFINE d == b.data
  <2>3. d \in Seq(Nat) /\ Len(d) >= 1 /\ out \in Seq(Nat) /\ IsPrefix(out \o d, content)
        /\ (\A k \in 0 .. Len(d) : IsPrefix(out, out \o SubSeq(d, 1, k)))
    BY <1>8, <2>1, BlockIsDelivered
  <2> HIDE DEF d
  <2>4. SubSeq(d, 1, Len(d)) = d /\ Len(d) \in 0 .. Len(d)
    BY <2>3
  <2>5. IsPrefix(out, out')
    BY <2>2, <2>3, <2>4 DEF d
  <2>6. Len(out') = Len(out) + Len(d) /\ Len(out) \in Nat /\ Len(d) \in Nat
    BY <2>2, <2>3 DEF d
  <2>7. out' # out
    BY <2>3, <2>6
  <2>8. Abstract!Deliver
    BY <1>1, <1>8, <2>1, <2>2, <2>3, <2>5, <2>7
       DEF Abstract!Deliver, Abstract!IsStrictPrefix, Abstract!IsPrefix, IsPrefix, transfer, d
  <2> QED  BY <2>8 DEF Abstract!TransferNext
<1>9. CASE damage # "changed" /\ ReadEnd
  <2>1. phase = "read" /\ verdict = "pending" /\ verdict' = "ok" /\ out' = out /\ damage' = damage
    BY <1>2, <1>9 DEF ReadEnd, TInv, Order
  <2>2. out = content
    BY <1>1, <1>9, <2>1 DEF WInv, Layout, ReadSoFar
  <2>3. Abstract!Succeed
    BY <1>1, <1>9, <2>1, <2>2 DEF Abstract!Succeed, transfer
  <2> QED  BY <2>3 DEF Abstract!TransferNext
<1>10. CASE damage # "changed" /\ ReadFails
  <2>1. phase = "read" /\ verdict = "pending" /\ verdict' = "err" /\ out' = out /\ damage' = damage
    BY <1>2, <1>10 DEF ReadFails, TInv, Order
  <2>2. PICK cells, M, last : Layout(cells, M, last)
    BY <1>10 DEF WInv
  <2>3. PICK m \in M : out = SubSeq(content, 1, m.taken)
    BY <2>1, <2>2 DEF Layout, ReadSoFar
  <2> DEFINE i == m.taken
  <2>4. i \in Nat /\ i <= Len(content) /\ out = SubSeq(content, 1, i) /\ content \in Seq(Nat)
    BY <1>2, <2>2, <2>3, ContainerAssumption DEF Layout, Laid, Lays, Marks, TInv, TypeOK
  <2> HIDE DEF i
  <2>5. out \in Seq(Nat) /\ IsPrefix(out, content)
    BY <2>4, CutIsBeginning
  <2>6. IsPrefix(out, out)
    BY <2>5, Beginning
  <2>7. Abstract!Fail
    BY <1>1, <1>10, <2>1, <2>5, <2>6 DEF Abstract!Fail, Abstract!IsPrefix, IsPrefix, transfer
  <2> QED  BY <2>7 DEF Abstract!TransferNext
<1>11. CASE damage # "changed" /\ SinkFails
  <2>1. phase = "read" /\ ~AtEnd(rpos) /\ verdict = "pending" /\ verdict' = "io"
        /\ damage' = damage
    BY <1>2, <1>11 DEF SinkFails, TInv, Order
  <2>2. PICK b \in BlocksAt(rpos) : \E k \in 0 .. Len(b.data) - 1 :
             out' = out \o SubSeq(b.data, 1, k)
    BY <1>11 DEF SinkFails
  <2>3. PICK k \in 0 .. Len(b.data) - 1 : out' = out \o SubSeq(b.data, 1, k)
    BY <2>2
  <2> DEFINE d == b.data
  <2>4. d \in Seq(Nat) /\ \A j \in 0 .. Len(d) :
             IsPrefix(out, out \o SubSeq(d, 1, j)) /\ IsPrefix(out \o SubSeq(d, 1, j), content)
    BY <1>11, <2>1, BlockIsDelivered
  <2> HIDE DEF d
  <2>5. k \in 0 .. Len(d)
    BY <2>3, <2>4 DEF d
  <2>6. IsPrefix(out, out') /\ IsPrefix(out', content)
    BY <2>3, <2>4, <2>5 DEF d
  <2>7. Abstract!Fail
    BY <1>1, <1>11, <2>1, <2>6 DEF Abstract!Fail, Abstract!IsPrefix, IsPrefix, transfer
  <2> QED  BY <2>7 DEF Abstract!TransferNext
<1> QED  BY <1>3, <1>5, <1>7, <1>8, <1>9, <1>10, <1>11 DEF Next

\* Block by block, reading what was written, cut or continued delivers the content
\* and succeeds only with all of it (lzop.rs:391-488).
THEOREM Implements == Spec => ImplementsTransfer
<1>1. WInv /\ WInv' /\ [Next]_vars => [Abstract!TransferNext]_Abstract!transferVars
  BY TransferSteps
<1> QED  BY TransferStarts, <1>1, LayoutKept, PTL
         DEF Spec, ImplementsTransfer, Abstract!TransferSpec
=============================================================================
