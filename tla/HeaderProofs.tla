---------------------------- MODULE HeaderProofs ----------------------------
(* Theorems about the header of a .lzo file and its two checksums, for every *)
(* header, all bytes and all constants that the assumptions admit.  First    *)
(* adler32(), whose deferred reduction is exact; then crc32() and its table; *)
(* then the header, written, stored and read.                                *)
EXTENDS Header, Integers, SequenceTheorems, WellFoundedInduction, TLAPS

-----------------------------------------------------------------------------
(* adler32().                                                                *)

\* Division with remainder has one result.
LEMMA Remainder ==
    ASSUME NEW m \in Nat \ {0}, NEW q \in Int, NEW r \in 0 .. m - 1
    PROVE  (m * q + r) % m = r
<1> DEFINE u == m * q + r
           d == u \div m
           e == u % m
<1>1. u \in Int /\ d \in Int /\ e \in 0 .. m - 1 /\ u = m * d + e
  BY SMT
<1>2. m * (q - d) = e - r
  BY <1>1, SMT
<1>3. q - d = 0
  <2>1. CASE q - d >= 1
    <3>1. m * (q - d) >= m
      BY <2>1, <1>1, SMT
    <3> QED BY <3>1, <1>2, <1>1, SMT
  <2>2. CASE q - d <= -1
    <3>1. m * (q - d) <= -m
      BY <2>2, <1>1, SMT
    <3> QED BY <3>1, <1>2, <1>1, SMT
  <2> QED BY <2>1, <2>2, <1>1, SMT
<1> QED BY <1>2, <1>3, <1>1, SMT

LEMMA RemainderOfSmall ==
    ASSUME NEW m \in Nat \ {0}, NEW x \in 0 .. m - 1
    PROVE  x % m = x
<1>1. (m * 0 + x) % m = x
  BY Remainder
<1> QED BY <1>1, SMT

\* Numbers that leave the same remainder do so when the same is added to both.
LEMMA RemaindersShift ==
    ASSUME NEW m \in Nat \ {0}, NEW x \in Nat, NEW y \in Nat, x % m = y % m, NEW u \in Nat
    PROVE  (x + u) % m = (y + u) % m
<1> DEFINE r == (y + u) % m
           q == ((y + u) \div m) + (x \div m) - (y \div m)
<1>1. /\ x \div m \in Int /\ y \div m \in Int /\ (y + u) \div m \in Int
      /\ r \in 0 .. m - 1 /\ x % m \in Int
  BY SMT
<1>2. /\ x = m * (x \div m) + (x % m) /\ y = m * (y \div m) + (y % m)
      /\ y + u = m * ((y + u) \div m) + r
  BY SMT
<1>3. x - y = m * ((x \div m) - (y \div m))
  BY <1>1, <1>2, SMT
<1>4. x + u = m * q + r /\ q \in Int
  BY <1>1, <1>2, <1>3, SMT
<1>5. (m * q + r) % m = r
  BY <1>1, <1>4, Remainder
<1> QED BY <1>4, <1>5

LEMMA RemainderTwice ==
    ASSUME NEW m \in Nat \ {0}, NEW x \in Nat
    PROVE  (x % m) % m = x % m
<1>1. x % m \in 0 .. m - 1
  BY SMT
<1> QED BY <1>1, RemainderOfSmall
-----------------------------------------------------------------------------
\* How far the registers can have grown within a chunk.
Grown == /\ a <= HALF - 1 + BYTE * k
         /\ 2 * b <= (2 * (HALF - 1) + BYTE * k) * (k + 1)

\* Up to multiples of MOD the registers are the sums by definition.
Congruent == a % MOD = sum_a % MOD /\ b % MOD = sum_b % MOD

\* After a byte the sums by definition are reduced, whatever the seed was.
Reduced == k > 0 => sum_a < MOD /\ sum_b < MOD

Inv == AdlerTypeOK /\ Grown /\ Congruent /\ Reduced /\ SumsAreExact

\* A whole chunk fits, and so does what precedes its end.
LEMMA ChunkFits ==
    ASSUME NEW n \in 0 .. CHUNK
    PROVE  (2 * (HALF - 1) + BYTE * n) * (n + 1) < 2 * (HALF * HALF)
<1>1. /\ BYTE \in Nat /\ HALF \in Nat /\ CHUNK \in Nat /\ n \in Nat /\ n <= CHUNK /\ HALF >= 1
      /\ (2 * (HALF - 1) + BYTE * CHUNK) * (CHUNK + 1) < 2 * (HALF * HALF)
  BY AdlerAssumption, SMT DEF AdlerAssumption
<1> DEFINE p == 2 * (HALF - 1) + BYTE * n
           q == 2 * (HALF - 1) + BYTE * CHUNK
<1>2. BYTE * n <= BYTE * CHUNK /\ BYTE * n \in Nat /\ BYTE * CHUNK \in Nat
  BY <1>1, SMT
<1>3. p \in Nat /\ q \in Nat /\ p <= q
  BY <1>1, <1>2, SMT
<1>4. p * (n + 1) <= q * (CHUNK + 1)
  <2> HIDE DEF p, q
  <2>1. p * (n + 1) <= q * (n + 1)
    BY <1>1, <1>3, SMT
  <2>2. q * (n + 1) <= q * (CHUNK + 1)
    BY <1>1, <1>3, SMT
  <2>3. p * (n + 1) \in Nat /\ q * (n + 1) \in Nat /\ q * (CHUNK + 1) \in Nat
    BY <1>1, <1>3, SMT
  <2> QED BY <2>1, <2>2, <2>3, SMT
<1>5. p * (n + 1) \in Nat /\ q * (CHUNK + 1) \in Nat /\ HALF * HALF \in Nat
  <2> HIDE DEF p, q
  <2> QED BY <1>1, <1>3, SMT
<1> QED BY <1>1, <1>4, <1>5, SMT

\* One more byte of a chunk leaves the registers within what the next byte count
\* allows, and within a word.
LEMMA OneMoreByte ==
    ASSUME AdlerTypeOK, Grown, k < CHUNK, NEW byte \in 0 .. BYTE
    PROVE  /\ a + byte <= HALF - 1 + BYTE * (k + 1)
           /\ 2 * (b + a + byte) <= (2 * (HALF - 1) + BYTE * (k + 1)) * (k + 2)
           /\ b + a + byte < HALF * HALF
<1>1. /\ a \in Nat /\ b \in Nat /\ k \in Nat /\ byte \in Nat /\ byte <= BYTE
      /\ BYTE \in Nat /\ HALF \in Nat /\ HALF >= 1 /\ k + 1 \in 0 .. CHUNK
  BY AdlerAssumption, SMT DEF AdlerAssumption, AdlerTypeOK
<1> DEFINE s == BYTE * k
           t == HALF - 1
<1>2. s \in Nat /\ BYTE * (k + 1) = s + BYTE /\ t \in Nat
  BY <1>1, SMT
<1>3. a <= t + s /\ 2 * b <= (2 * t + s) * (k + 1)
  BY DEF Grown
<1>4. a + byte <= t + (s + BYTE)
  <2> HIDE DEF s, t
  <2> QED BY <1>1, <1>2, <1>3, SMT
<1>5. (2 * t + (s + BYTE)) * (k + 2) = (2 * t + s) * (k + 1) + 2 * t + s + (s + BYTE) + BYTE
  <2>1. (2 * t + (s + BYTE)) * (k + 2)
          = (2 * t + s) * (k + 1) + (2 * t + s) + BYTE * (k + 1) + BYTE
    <3> HIDE DEF s, t
    <3> QED BY <1>1, <1>2, SMT
  <2> QED BY <2>1, <1>1, <1>2, SMT
<1>6. 2 * (b + a + byte) <= (2 * t + (s + BYTE)) * (k + 2)
  <2> DEFINE w == (2 * t + s) * (k + 1)
  <2>1. w \in Nat /\ 2 * b <= w
    <3> HIDE DEF s, t
    <3> QED BY <1>1, <1>2, <1>3, SMT
  <2>2. (2 * t + (s + BYTE)) * (k + 2) = w + 2 * t + s + (s + BYTE) + BYTE
    BY <1>5
  <2> HIDE DEF s, t, w
  <2> QED BY <2>1, <2>2, <1>1, <1>2, <1>4, SMT
<1>7. (2 * t + BYTE * (k + 1)) * (k + 1 + 1) < 2 * (HALF * HALF)
  BY <1>1, ChunkFits
<1>8. k + 1 + 1 = k + 2
  BY <1>1, SMT
<1>9. b + a + byte < HALF * HALF
  <2> DEFINE x == (2 * t + (s + BYTE)) * (k + 2)
             y == HALF * HALF
  <2>1. x < 2 * y
    BY <1>2, <1>7, <1>8
  <2>2. y \in Nat /\ x \in Nat
    <3> HIDE DEF s, t
    <3> QED BY <1>1, <1>2, SMT
  <2>3. 2 * (b + a + byte) <= x
    BY <1>6
  <2> HIDE DEF x, y
  <2>4. b + a + byte < y
    BY <2>1, <2>2, <2>3, <1>1, SMT
  <2> QED BY <2>4 DEF y
<1> QED BY <1>2, <1>4, <1>6, <1>9
-----------------------------------------------------------------------------
LEMMA InitInv == Init => Inv
<1> SUFFICES ASSUME Init PROVE Inv
  OBVIOUS
<1>1. PICK lo, hi \in 0 .. HALF - 1 : InitCall(lo, hi)
  BY DEF Init
<1>2. data \in Seq(0 .. BYTE) /\ BYTE \in Nat /\ HALF \in Nat /\ CHUNK \in Nat
  BY AdlerAssumption DEF Init, AdlerAssumption
<1>3. BYTE * 0 = 0 /\ Len(data) \in Nat
  BY <1>2, SMT
<1> QED BY <1>1, <1>2, <1>3, SMT
    DEF InitCall, Inv, AdlerTypeOK, Grown, Congruent, Reduced, SumsAreExact

LEMMA SumByteInv ==
    ASSUME Inv, SumByte
    PROVE  Inv'
<1> DEFINE byte == data[summed + 1]
<1>1. /\ BYTE \in Nat /\ HALF \in Nat /\ MOD \in Nat \ {0} /\ CHUNK \in Nat \ {0} /\ MOD <= HALF
      /\ HALF * HALF \in Nat \ {0}
  <2>1. BYTE \in Nat /\ HALF \in Nat /\ MOD \in Nat \ {0} /\ CHUNK \in Nat \ {0} /\ MOD <= HALF
    BY AdlerAssumption DEF AdlerAssumption
  <2> QED BY <2>1, SMT
<1>2. /\ data \in Seq(0 .. BYTE) /\ summed \in Nat /\ Len(data) \in Nat /\ k \in Nat
      /\ a \in Nat /\ b \in Nat /\ sum_a \in Nat /\ sum_b \in Nat /\ k <= summed
      /\ summed < Len(data) /\ k < CHUNK
  <2>1. AdlerTypeOK /\ ~ChunkOver /\ summed < Len(data)
    BY DEF Inv, SumByte
  <2> QED BY <1>1, <2>1, SMT DEF AdlerTypeOK, ChunkOver
<1>3. byte \in 0 .. BYTE /\ byte \in Nat
  BY <1>1, <1>2, SMT
<1> HIDE DEF byte
<1>4. /\ a + byte <= HALF - 1 + BYTE * (k + 1)
      /\ 2 * (b + a + byte) <= (2 * (HALF - 1) + BYTE * (k + 1)) * (k + 2)
      /\ b + a + byte < HALF * HALF
  BY <1>2, <1>3, OneMoreByte DEF Inv
<1>5. a' = a + byte /\ b' = b + a + byte
  <2>1. a + byte \in 0 .. HALF * HALF - 1 /\ b + (a + byte) \in 0 .. HALF * HALF - 1
    BY <1>1, <1>2, <1>3, <1>4, SMT
  <2>2. Wrapped(a + byte) = a + byte /\ Wrapped(b + (a + byte)) = b + (a + byte)
    BY <1>1, <2>1, RemainderOfSmall DEF Wrapped
  <2>3. b + (a + byte) = b + a + byte
    BY <1>2, <1>3, SMT
  <2> QED BY <2>2, <2>3 DEF SumByte, byte
<1>6. /\ sum_a' = (sum_a + byte) % MOD /\ sum_b' = (sum_b + sum_a') % MOD
      /\ summed' = summed + 1 /\ k' = k + 1 /\ data' = data
  BY DEF SumByte, byte
<1>7. sum_a' \in 0 .. MOD - 1 /\ sum_b' \in 0 .. MOD - 1
  BY <1>1, <1>2, <1>3, <1>6, SMT
<1>8. AdlerTypeOK'
  BY <1>1, <1>2, <1>3, <1>5, <1>6, <1>7, SMT DEF AdlerTypeOK
<1>9. Grown'
  <2>1. k' + 1 = k + 2
    BY <1>2, <1>6, SMT
  <2> QED BY <1>4, <1>5, <1>6, <2>1 DEF Grown
<1>10. Congruent'
  <2>1. MOD \in Nat \ {0} /\ byte \in Nat
    BY <1>1, <1>3
  <2>2. a' % MOD = sum_a' % MOD
    <3>1. a \in Nat /\ sum_a \in Nat /\ a % MOD = sum_a % MOD
      BY <1>2 DEF Inv, Congruent
    <3>2. (a + byte) % MOD = (sum_a + byte) % MOD
      BY <2>1, <3>1, RemaindersShift, Zenon
    <3>3. sum_a' % MOD = sum_a'
      BY <1>1, <1>7, RemainderOfSmall
    <3> QED BY <3>2, <3>3, <1>5, <1>6
  <2>3. a' \in Nat /\ sum_a' \in Nat /\ b' = b + a'
    BY <1>1, <1>2, <1>3, <1>5, <1>7, SMT
  <2>4. (b + a') % MOD = (sum_b + sum_a') % MOD
    <3>1. b \in Nat /\ sum_b \in Nat /\ b % MOD = sum_b % MOD
      BY <1>2 DEF Inv, Congruent
    <3>2. MOD \in Nat \ {0} /\ a' \in Nat /\ sum_a' \in Nat
      BY <2>1, <2>3
    <3>3. (b + a') % MOD = (sum_b + a') % MOD
      BY <3>1, <3>2, RemaindersShift, Zenon
    <3>4. (a' + sum_b) % MOD = (sum_a' + sum_b) % MOD
      BY <3>1, <3>2, <2>2, RemaindersShift, Zenon
    <3>5. a' + sum_b = sum_b + a' /\ sum_a' + sum_b = sum_b + sum_a'
      BY <3>1, <3>2, SMT
    <3> QED BY <3>3, <3>4, <3>5
  <2>5. sum_b' % MOD = sum_b'
    BY <1>1, <1>7, RemainderOfSmall
  <2> QED BY <2>2, <2>3, <2>4, <2>5, <1>6 DEF Congruent
<1>11. Reduced' /\ SumsAreExact'
  BY <1>1, <1>2, <1>6, <1>7, SMT DEF Reduced, SumsAreExact
<1> QED BY <1>8, <1>9, <1>10, <1>11 DEF Inv

LEMMA ReduceInv ==
    ASSUME Inv, Reduce
    PROVE  Inv'
<1>1. /\ BYTE \in Nat /\ HALF \in Nat /\ MOD \in Nat \ {0} /\ CHUNK \in Nat /\ MOD <= HALF
      /\ BYTE * 0 = 0
  <2>1. BYTE \in Nat /\ HALF \in Nat /\ MOD \in Nat \ {0} /\ CHUNK \in Nat /\ MOD <= HALF
    BY AdlerAssumption DEF AdlerAssumption
  <2> QED BY <2>1, SMT
<1>2. /\ a \in Nat /\ b \in Nat /\ sum_a \in 0 .. MOD - 1 /\ sum_b \in 0 .. MOD - 1
      /\ a % MOD = sum_a % MOD /\ b % MOD = sum_b % MOD
  BY <1>1, SMT DEF Inv, AdlerTypeOK, Congruent, Reduced, Reduce, ChunkOver
<1>3. a' = sum_a /\ b' = sum_b
  BY <1>1, <1>2, RemainderOfSmall DEF Reduce
<1>4. k' = 0 /\ sum_a' = sum_a /\ sum_b' = sum_b /\ data' = data /\ summed' = summed
  BY DEF Reduce
<1> QED BY <1>1, <1>2, <1>3, <1>4, SMT
    DEF Inv, AdlerTypeOK, Grown, Congruent, Reduced, SumsAreExact

\* A call from any seed.
LEMMA FreshInv ==
    ASSUME data' \in Seq(0 .. BYTE), summed' = 0, k' = 0,
           a' \in 0 .. HALF - 1, b' \in 0 .. HALF - 1, sum_a' = a', sum_b' = b'
    PROVE  Inv'
<1>1. BYTE \in Nat /\ HALF \in Nat /\ CHUNK \in Nat
  BY AdlerAssumption DEF AdlerAssumption
<1>2. /\ data' \in Seq(0 .. BYTE) /\ summed' = 0 /\ k' = 0
      /\ a' \in 0 .. HALF - 1 /\ b' \in 0 .. HALF - 1 /\ sum_a' = a' /\ sum_b' = b'
  OBVIOUS
<1>3. (2 * (HALF - 1) + BYTE * k') * (k' + 1) = 2 * (HALF - 1) /\ BYTE * k' = 0
  BY <1>1, <1>2, SMT
<1>4. Len(data') \in Nat
  BY <1>2, SMT
<1>5. AdlerTypeOK'
  BY <1>1, <1>2, <1>4, SMT DEF AdlerTypeOK
<1>6. Grown'
  <2>1. a' <= HALF - 1 + 0 /\ 2 * b' <= 2 * (HALF - 1)
    <3>1. \A x \in 0 .. HALF - 1 : x <= HALF - 1 + 0 /\ 2 * x <= 2 * (HALF - 1)
      BY <1>1, SMT
    <3> QED BY <1>2, <3>1, Zenon
  <2>2. a' <= HALF - 1 + BYTE * k'
    BY <2>1, <1>3
  <2>3. 2 * b' <= (2 * (HALF - 1) + BYTE * k') * (k' + 1)
    BY <2>1, <1>3
  <2> QED BY <2>2, <2>3 DEF Grown
<1>7. Congruent' /\ Reduced' /\ SumsAreExact'
  BY <1>1, <1>2, SMT DEF Congruent, Reduced, SumsAreExact
<1> QED BY <1>5, <1>6, <1>7 DEF Inv

LEMMA CallInv ==
    ASSUME Inv, NextCall \/ Continue
    PROVE  Inv'
<1>1. /\ data' \in Seq(0 .. BYTE) /\ summed' = 0 /\ k' = 0
      /\ a' \in 0 .. HALF - 1 /\ b' \in 0 .. HALF - 1 /\ sum_a' = a' /\ sum_b' = b'
  <2>1. CASE NextCall
    BY <2>1 DEF NextCall, Call
  <2>2. CASE Continue
    <3>1. BYTE \in Nat /\ HALF \in Nat /\ CHUNK \in Nat
      BY AdlerAssumption DEF AdlerAssumption
    <3> QED BY <3>1, <2>2, SMT DEF Continue, Summed, Inv, SumsAreExact, AdlerTypeOK
  <2> QED BY <2>1, <2>2
<1> QED BY <1>1, FreshInv

LEMMA Inductive == Spec => []Inv
<1>1. Inv /\ [Next]_adlerVars => Inv'
  <2> SUFFICES ASSUME Inv, [Next]_adlerVars PROVE Inv'
    OBVIOUS
  <2>1. CASE SumByte
    BY <2>1, SumByteInv
  <2>2. CASE Reduce
    BY <2>2, ReduceInv
  <2>3. CASE NextCall \/ Continue
    BY <2>3, CallInv
  <2>4. CASE UNCHANGED adlerVars
    BY <2>4 DEF adlerVars, Inv, AdlerTypeOK, Grown, Congruent, Reduced, SumsAreExact
  <2> QED BY <2>1, <2>2, <2>3, <2>4 DEF Next
<1> QED BY InitInv, <1>1, PTL DEF Spec

\* The registers and the sums keep their types.
THEOREM TypeCorrect == Spec => []AdlerTypeOK
<1>1. Inv => AdlerTypeOK
  BY DEF Inv
<1> QED BY <1>1, Inductive, PTL

\* No addition of adler32() overflows, for any bytes and any seed.
THEOREM NoSumOverflows == Spec => []SumsFit
<1>1. Inv => SumsFit
  <2> SUFFICES ASSUME Inv, ~ChunkOver, summed < Len(data)
               PROVE  b + a + data[summed + 1] < HALF * HALF
    BY DEF SumsFit
  <2>1. BYTE \in Nat /\ CHUNK \in Nat \ {0}
    BY AdlerAssumption DEF AdlerAssumption
  <2>2. data[summed + 1] \in 0 .. BYTE /\ k < CHUNK
    BY <2>1, SMT DEF Inv, AdlerTypeOK, ChunkOver
  <2> QED BY <2>2, OneMoreByte DEF Inv
<1> QED BY <1>1, Inductive, PTL

\* Reducing once a chunk gives what reducing after every byte gives.
THEOREM DeferringIsExact == Spec => []SumsAreExact
<1>1. Inv => SumsAreExact
  BY DEF Inv
<1> QED BY <1>1, Inductive, PTL

\* The constants of the code satisfy the assumption (lzop.rs:183-186).
THEOREM TheCodesChunkFits ==
    /\ 65521 <= 65536
    /\ (2 * (65536 - 1) + 255 * 5552) * (5552 + 1) < 2 * (65536 * 65536)
  BY SMT

\* "5552 bytes is the most" (lzop.rs:185): after 5553 bytes of 255, from sums
\* that were just reduced, the larger register needs 33 bits.
THEOREM NoLongerChunkFits ==
    2 * (65536 * 65536) <= 2 * (65521 - 1) * (5553 + 1) + 255 * 5553 * (5553 + 1)
  BY SMT
-----------------------------------------------------------------------------
(* Recursion on numbers, and crc32().                                        *)

LEMMA LeastNatural ==
    ASSUME NEW S, S \subseteq Nat, S # {}
    PROVE  \E m \in S : \A n \in S : m <= n
<1> DEFINE R == OpToRel(<, Nat)
<1>1. IsWellFoundedOn(R, Nat)
  BY NatLessThanWellFounded
<1>2. \A x, y \in Nat : x < y => <<x, y>> \in R
  BY DEF OpToRel
<1> HIDE DEF R
<1>3. PICK m \in S : \A n \in S : ~ (<<n, m>> \in R)
  BY <1>1, WFMin
<1>4. ASSUME NEW n \in S  PROVE m <= n
  <2>1. m \in Nat /\ n \in Nat
    OBVIOUS
  <2>2. ~ (n < m)
    BY <1>2, <1>3, <2>1
  <2> QED  BY <2>1, <2>2
<1> QED  BY <1>4

\* Induction, on a set: what holds at zero and passes from each number to the
\* next holds of all.
LEMMA Climb ==
    ASSUME NEW N \in Nat, NEW P, 0 \in P, \A n \in 1 .. N : n - 1 \in P => n \in P
    PROVE  0 .. N \subseteq P
<1> DEFINE Bad == (0 .. N) \ P
<1> SUFFICES ASSUME Bad # {}
             PROVE  FALSE
  OBVIOUS
<1>1. PICK m \in Bad : \A n \in Bad : m <= n
  <2>1. Bad \subseteq Nat
    OBVIOUS
  <2> HIDE DEF Bad
  <2> QED BY <2>1, LeastNatural
<1>2. m \in 1 .. N /\ m - 1 \in 0 .. N /\ ~ (m <= m - 1)
  OBVIOUS
<1>3. m - 1 \notin Bad
  BY <1>1, <1>2
<1> QED BY <1>2, <1>3

\* f is defined from its value one place below.
Defines(f, N, S, x, G) == /\ f \in [0 .. N -> S] /\ f[0] = x
                          /\ \A n \in 1 .. N : f[n] = G[n][f[n - 1]]

\* Such a function exists.
LEMMA Recursion ==
    ASSUME NEW N \in Nat, NEW S, NEW x \in S, NEW G \in [1 .. N -> [S -> S]]
    PROVE  \E f : Defines(f, N, S, x, G)
<1> DEFINE Upto(m, f) == Defines(f, m, S, x, G)
           P == { m \in 0 .. N : \E f : Upto(m, f) }
<1>1. 0 .. N \subseteq P
  <2>1. 0 \in P
    <3> DEFINE f == [n \in 0 .. 0 |-> x]
    <3>1. Upto(0, f)
      BY DEF Defines
    <3> HIDE DEF Upto, f
    <3> QED BY <3>1
  <2>2. ASSUME NEW m \in 1 .. N, m - 1 \in P
        PROVE  m \in P
    <3>0. PICK g : Upto(m - 1, g)
      BY <2>2
    <3>1. /\ g \in [0 .. m - 1 -> S] /\ g[0] = x
          /\ \A n \in 1 .. m - 1 : g[n] = G[n][g[n - 1]]
      BY <3>0 DEF Defines
    <3> DEFINE f == [n \in 0 .. m |-> IF n = m THEN G[m][g[m - 1]] ELSE g[n]]
    <3>2. g[m - 1] \in S /\ G[m][g[m - 1]] \in S
      BY <3>1
    <3>3. f \in [0 .. m -> S]
      BY <3>1, <3>2
    <3>4. f[0] = x
      BY <3>1
    <3>5. ASSUME NEW n \in 1 .. m
          PROVE  f[n] = G[n][f[n - 1]]
      <4>1. CASE n = m
        <5>1. f[m] = G[m][g[m - 1]] /\ f[m - 1] = g[m - 1]
          OBVIOUS
        <5> QED BY <5>1, <4>1
      <4>2. CASE n # m
        <5>1. n \in 1 .. m - 1 /\ n - 1 \in 0 .. m - 1 /\ n - 1 # m
          BY <4>2
        <5>2. f[n] = g[n] /\ f[n - 1] = g[n - 1]
          BY <5>1, <4>2
        <5> QED BY <5>1, <5>2, <3>1
      <4> QED BY <4>1, <4>2
    <3>6. Upto(m, f)
      BY <3>3, <3>4, <3>5 DEF Defines
    <3> HIDE DEF Upto, f
    <3> QED BY <3>6
  <2> HIDE DEF P
  <2> QED BY <2>1, <2>2, Climb
<1> QED BY <1>1
-----------------------------------------------------------------------------
Words == SUBSET Nat

LEMMA Algebra ==
    ASSUME NEW v \in Words, NEW w \in Words
    PROVE  /\ Xor(v, w) \in Words
           /\ \A n \in Nat : ShiftRight(w, n) \in Words
           /\ Divide(w) \in Words
<1>1. \A n \in Nat : ShiftRight(w, n) \in Words
  BY DEF ShiftRight, Words
<1>2. POLYNOMIAL \in Words
  BY DEF POLYNOMIAL, Words
<1>3. Xor(v, w) \in Words
  BY DEF Xor, Words
<1>4. Divide(w) \in Words
  BY <1>1, <1>2 DEF Xor, Words, Divide
<1> QED BY <1>1, <1>3, <1>4

\* What a slot of the table holds: the slot, divided eight times.
LEMMA TableEntry ==
    ASSUME NEW slot \in SUBSET (0 .. 7)
    PROVE  \E r : /\ r[0] = slot /\ Table[slot] = r[8]
                  /\ \A n \in 1 .. 8 : r[n] = Divide(r[n - 1])
                  /\ \A n \in 0 .. 8 : r[n] \in Words
<1> DEFINE rounds[n \in 0 .. 8] == IF n = 0 THEN slot ELSE Divide(rounds[n - 1])
           G == [n \in 1 .. 8 |-> [w \in Words |-> Divide(w)]]
<1>1. \A n \in 1 .. 8 : \A w \in Words : G[n][w] = Divide(w)
  OBVIOUS
<1>2. slot \in Words /\ 8 \in Nat
  BY DEF Words
<1>3. PICK f : Defines(f, 8, Words, slot, G)
  <2>1. G \in [1 .. 8 -> [Words -> Words]]
    BY Algebra
  <2> HIDE DEF G, rounds
  <2> QED BY <1>2, <2>1, Recursion
<1>4. f = [n \in 0 .. 8 |-> IF n = 0 THEN slot ELSE Divide(f[n - 1])]
  <2> HIDE DEF G, rounds
  <2> QED BY <1>1, <1>3 DEF Defines
<1>5. rounds = [n \in 0 .. 8 |-> IF n = 0 THEN slot ELSE Divide(rounds[n - 1])]
  BY <1>4
<1>6. Table[slot] = rounds[8]
  <2>1. Table[slot] = (LET r[n \in 0 .. 8] == IF n = 0 THEN slot ELSE Divide(r[n - 1]) IN r[8])
    BY DEF Table
  <2> HIDE DEF rounds
  <2> QED BY <2>1 DEF rounds
<1>7. /\ rounds[0] = slot
      /\ \A n \in 1 .. 8 : rounds[n] = Divide(rounds[n - 1])
  <2> HIDE DEF rounds
  <2> QED BY <1>5
<1>8. \A n \in 0 .. 8 : rounds[n] \in Words
  <2> DEFINE P == { n \in 0 .. 8 : rounds[n] \in Words }
  <2>1. 0 \in P /\ \A n \in 1 .. 8 : n - 1 \in P => n \in P
    <3>1. \A w \in Words : Divide(w) \in Words
      BY Algebra
    <3> HIDE DEF rounds
    <3> QED BY <1>2, <1>7, <3>1
  <2>2. 0 .. 8 \subseteq P
    <3> HIDE DEF P
    <3> QED BY <2>1, Climb
  <2> QED BY <2>2
<1> QED BY <1>6, <1>7, <1>8
LEMMA InShift ==
    ASSUME NEW w \in Words, NEW n \in Nat, NEW i \in Nat
    PROVE  i \in ShiftRight(w, n) <=> i + n \in w
<1>1. ASSUME i \in ShiftRight(w, n)
      PROVE  i + n \in w
  <2>1. PICK m \in w : m >= n /\ i = m - n
    BY <1>1 DEF ShiftRight
  <2>2. m \in Nat
    BY DEF Words
  <2>3. i + n = m
    BY <2>1, <2>2
  <2> QED BY <2>3
<1>2. ASSUME i + n \in w
      PROVE  i \in ShiftRight(w, n)
  <2>1. i + n >= n /\ i = (i + n) - n
    OBVIOUS
  <2> QED BY <1>2, <2>1 DEF ShiftRight
<1> QED BY <1>1, <1>2

LEMMA InXor ==
    ASSUME NEW v, NEW w, NEW i
    PROVE  i \in Xor(v, w) <=> ~ (i \in v <=> i \in w)
  BY DEF Xor

\* Words with the same places are the same.
LEMMA SameWord ==
    ASSUME NEW v \in Words, NEW w \in Words, \A i \in Nat : i \in v <=> i \in w
    PROVE  v = w
  BY DEF Words

LEMMA ShiftTwice ==
    ASSUME NEW w \in Words, NEW n \in Nat
    PROVE  ShiftRight(ShiftRight(w, n), 1) = ShiftRight(w, n + 1)
<1>1. ShiftRight(w, n) \in Words /\ ShiftRight(w, n + 1) \in Words
  BY Algebra
<1>2. ShiftRight(ShiftRight(w, n), 1) \in Words
  BY <1>1, Algebra
<1>3. ASSUME NEW i \in Nat
      PROVE  i \in ShiftRight(ShiftRight(w, n), 1) <=> i \in ShiftRight(w, n + 1)
  <2>1. i \in ShiftRight(ShiftRight(w, n), 1) <=> i + 1 \in ShiftRight(w, n)
    BY <1>1, InShift
  <2>2. i + 1 \in ShiftRight(w, n) <=> (i + 1) + n \in w
    BY InShift
  <2>3. i \in ShiftRight(w, n + 1) <=> i + (n + 1) \in w
    BY InShift
  <2>4. (i + 1) + n = i + (n + 1)
    OBVIOUS
  <2> QED BY <2>1, <2>2, <2>3, <2>4
<1> QED BY <1>1, <1>2, <1>3, SameWord

LEMMA ShiftOfXor ==
    ASSUME NEW v \in Words, NEW w \in Words, NEW n \in Nat
    PROVE  ShiftRight(Xor(v, w), n) = Xor(ShiftRight(v, n), ShiftRight(w, n))
<1>1. /\ Xor(v, w) \in Words /\ ShiftRight(v, n) \in Words /\ ShiftRight(w, n) \in Words
  BY Algebra
<1>2. /\ ShiftRight(Xor(v, w), n) \in Words
      /\ Xor(ShiftRight(v, n), ShiftRight(w, n)) \in Words
  BY <1>1, Algebra
<1>3. ASSUME NEW i \in Nat
      PROVE  i \in ShiftRight(Xor(v, w), n) <=> i \in Xor(ShiftRight(v, n), ShiftRight(w, n))
  <2>1. i \in ShiftRight(Xor(v, w), n) <=> ~ (i + n \in v <=> i + n \in w)
    BY <1>1, InShift, InXor
  <2>2. /\ i \in ShiftRight(v, n) <=> i + n \in v
        /\ i \in ShiftRight(w, n) <=> i + n \in w
    BY InShift
  <2> QED BY <2>1, <2>2, InXor
<1> QED BY <1>2, <1>3, SameWord

\* What does not reach the lowest place is only shifted by a division.
LEMMA DivideOfXor ==
    ASSUME NEW v \in Words, NEW w \in Words, 0 \notin w
    PROVE  Divide(Xor(v, w)) = Xor(Divide(v), ShiftRight(w, 1))
<1>1. ShiftRight(Xor(v, w), 1) = Xor(ShiftRight(v, 1), ShiftRight(w, 1))
  BY ShiftOfXor
<1>2. 0 \in Xor(v, w) <=> 0 \in v
  BY InXor
<1>3. \A s : Xor(POLYNOMIAL, Xor(s, ShiftRight(w, 1)))
               = Xor(Xor(POLYNOMIAL, s), ShiftRight(w, 1))
  BY DEF Xor
<1> QED BY <1>1, <1>2, <1>3 DEF Divide

\* One bit of the message, by definition.
NextBit(e, bit) == IF (0 \in e) # bit THEN Xor(POLYNOMIAL, ShiftRight(e, 1))
                   ELSE ShiftRight(e, 1)

\* Taking the bits of a byte up one by one comes to the same as adding them all
\* to the register first and dividing then.
LEMMA BitByBit ==
    ASSUME NEW e \in Words, NEW d \in Words, NEW low \in Words, NEW high \in Words,
           NEW j \in 0 .. 7, \A i \in high : i >= 8,
           Xor(e, ShiftRight(low, j)) = Xor(d, ShiftRight(high, j))
    PROVE  Xor(NextBit(e, j \in low), ShiftRight(low, j + 1))
             = Xor(Divide(d), ShiftRight(high, j + 1))
<1> DEFINE y == Xor(e, ShiftRight(low, j))
<1>0. j \in Nat /\ ShiftRight(low, j) \in Words /\ ShiftRight(high, j) \in Words
  <2>1. j \in Nat
    OBVIOUS
  <2> QED BY <2>1, Algebra
<1>1. 0 \notin ShiftRight(high, j)
  <2>1. 0 + j = j /\ ~ (j >= 8)
    OBVIOUS
  <2> QED BY <1>0, <2>1, InShift
<1>2. Divide(y) = Xor(Divide(d), ShiftRight(high, j + 1))
  BY <1>0, <1>1, DivideOfXor, ShiftTwice
<1>3. 0 \in y <=> ((0 \in e) # (j \in low))
  <2>1. 0 \in ShiftRight(low, j) <=> j \in low
    <3>1. 0 + j = j
      OBVIOUS
    <3> QED BY <1>0, <3>1, InShift
  <2>2. 0 \in y <=> ~ (0 \in e <=> 0 \in ShiftRight(low, j))
    BY InXor
  <2> QED BY <2>1, <2>2
<1>4. ShiftRight(y, 1) = Xor(ShiftRight(e, 1), ShiftRight(low, j + 1))
  BY <1>0, ShiftOfXor, ShiftTwice
<1>5. \A s, t : Xor(POLYNOMIAL, Xor(s, t)) = Xor(Xor(POLYNOMIAL, s), t)
  BY DEF Xor
<1>6. Divide(y) = Xor(NextBit(e, j \in low), ShiftRight(low, j + 1))
  <2> HIDE DEF y
  <2> QED BY <1>3, <1>4, <1>5 DEF Divide, NextBit
<1> QED BY <1>2, <1>6

\* A byte: one look into the table.
LEMMA ByteByTable ==
    ASSUME NEW e, \A j \in 0 .. 8 : e[j] \in Words, NEW byte \in Words,
           \A j \in 1 .. 8 : e[j] = NextBit(e[j - 1], j - 1 \in byte)
    PROVE  e[8] = Xor(Table[Xor(e[0], byte) \cap 0 .. 7], ShiftRight(e[0], 8))
<1> DEFINE low == byte \cap 0 .. 7
           high == e[0] \ (0 .. 7)
           slot == Xor(e[0], byte) \cap 0 .. 7
<1>1. /\ low \in Words /\ high \in Words /\ slot \in SUBSET (0 .. 7)
      /\ e[0] \in Words /\ e[8] \in Words
  BY DEF Words
<1>2. \A i \in high : i >= 8
  BY DEF Words
<1>3. PICK r : /\ r[0] = slot /\ Table[slot] = r[8]
               /\ \A n \in 1 .. 8 : r[n] = Divide(r[n - 1])
               /\ \A n \in 0 .. 8 : r[n] \in Words
  <2> HIDE DEF slot
  <2> QED BY <1>1, TableEntry
<1> DEFINE Same(j) == Xor(e[j], ShiftRight(low, j)) = Xor(r[j], ShiftRight(high, j))
           P == { j \in 0 .. 8 : Same(j) }
<1>4. Same(0)
  <2>1. ShiftRight(low, 0) = low /\ ShiftRight(high, 0) = high
    <3>1. ASSUME NEW w \in Words
          PROVE  ShiftRight(w, 0) = w
      <4>1. ShiftRight(w, 0) \in Words
        BY Algebra
      <4>2. \A i \in Nat : i + 0 = i
        OBVIOUS
      <4> QED BY <4>1, <4>2, InShift, SameWord
    <3> HIDE DEF low, high
    <3> QED BY <1>1, <3>1
  <2>2. Xor(e[0], low) = Xor(slot, high)
    BY DEF Xor
  <2> HIDE DEF low, high
  <2> QED BY <2>1, <2>2, <1>3
<1>5. ASSUME NEW j \in 1 .. 8, Same(j - 1)
      PROVE  Same(j)
  <2>1. /\ j - 1 \in 0 .. 7 /\ j - 1 \in 0 .. 8 /\ (j - 1) + 1 = j
        /\ (j - 1 \in byte <=> j - 1 \in low)
    OBVIOUS
  <2>2. e[j] = NextBit(e[j - 1], j - 1 \in low)
    BY <2>1
  <2>3. e[j - 1] \in Words /\ r[j - 1] \in Words /\ r[j] = Divide(r[j - 1])
    BY <2>1, <1>3
  <2>4. Xor(e[j - 1], ShiftRight(low, j - 1)) = Xor(r[j - 1], ShiftRight(high, j - 1))
    BY <1>5
  <2> HIDE DEF low, high
  <2>5. Xor(NextBit(e[j - 1], j - 1 \in low), ShiftRight(low, (j - 1) + 1))
          = Xor(Divide(r[j - 1]), ShiftRight(high, (j - 1) + 1))
    <3> DEFINE i == j - 1
               before == e[i]
               rest == r[i]
    <3>1. /\ i \in 0 .. 7 /\ before \in Words /\ rest \in Words
          /\ Xor(before, ShiftRight(low, i)) = Xor(rest, ShiftRight(high, i))
      BY <2>1, <2>3, <2>4
    <3>2. high \in Words
      BY <1>1 DEF high, Words
    <3> HIDE DEF i, before, rest
    <3>3. Xor(NextBit(before, i \in low), ShiftRight(low, i + 1))
            = Xor(Divide(rest), ShiftRight(high, i + 1))
      BY <3>1, <3>2, <1>1, <1>2, BitByBit
    <3> QED BY <3>3 DEF i, before, rest
  <2> QED BY <2>1, <2>2, <2>3, <2>5
<1>6. Same(8)
  <2> HIDE DEF Same
  <2>1. 0 \in P /\ \A j \in 1 .. 8 : j - 1 \in P => j \in P
    BY <1>4, <1>5
  <2>2. 8 \in P
    <3> HIDE DEF P
    <3> QED BY <2>1, Climb
  <2> QED BY <2>2
<1>7. ShiftRight(low, 8) = {}
  <2>1. \A i \in Nat : i + 8 \notin low
    OBVIOUS
  <2>2. ShiftRight(low, 8) \in Words /\ {} \in Words
    <3> HIDE DEF low
    <3> QED BY <1>1, Algebra DEF Words
  <2> HIDE DEF low
  <2>3. 8 \in Nat
    OBVIOUS
  <2>4. \A i \in Nat : i \in ShiftRight(low, 8) <=> i + 8 \in low
    BY <1>1, <2>3, InShift
  <2> QED BY <2>1, <2>2, <2>4, SameWord
<1>8. ShiftRight(high, 8) = ShiftRight(e[0], 8)
  <2>1. \A i \in Nat : i + 8 \in high <=> i + 8 \in e[0]
    OBVIOUS
  <2>2. ShiftRight(high, 8) \in Words /\ ShiftRight(e[0], 8) \in Words
    <3> HIDE DEF high
    <3> QED BY <1>1, Algebra
  <2> HIDE DEF high
  <2>3. 8 \in Nat
    OBVIOUS
  <2>4. \A i \in Nat : i \in ShiftRight(high, 8) <=> i + 8 \in high
    BY <1>1, <2>3, InShift
  <2>5. \A i \in Nat : i \in ShiftRight(e[0], 8) <=> i + 8 \in e[0]
    BY <1>1, <2>3, InShift
  <2> QED BY <2>1, <2>2, <2>4, <2>5, SameWord
<1>9. Xor(e[8], {}) = e[8]
  BY DEF Xor
<1> HIDE DEF low, high, slot
<1>10. e[8] = Xor(r[8], ShiftRight(e[0], 8))
  BY <1>6, <1>7, <1>8, <1>9
<1> QED BY <1>3, <1>10 DEF slot
-----------------------------------------------------------------------------
\* crc32() goes from byte to byte.
LEMMA ByBytes ==
    ASSUME NEW bytes, Len(bytes) \in Nat
    PROVE  \E c : /\ Crc32({}, bytes) = Places \ c[Len(bytes)] /\ c[0] = Places
                  /\ \A n \in 0 .. Len(bytes) : c[n] \in Words
                  /\ \A n \in 1 .. Len(bytes) :
                        c[n] = Xor(Table[Xor(c[n - 1], Bits(bytes[n])) \cap 0 .. 7],
                                   ShiftRight(c[n - 1], 8))
<1> DEFINE N == Len(bytes)
           Next1(w, n) == Xor(Table[Xor(w, Bits(bytes[n])) \cap 0 .. 7], ShiftRight(w, 8))
           c[n \in 0 .. N] ==
              IF n = 0 THEN Places \ {}
              ELSE LET before == c[n - 1]
                   IN  Xor(Table[Xor(before, Bits(bytes[n])) \cap 0 .. 7], ShiftRight(before, 8))
           G == [n \in 1 .. N |-> [w \in Words |-> Next1(w, n)]]
<1>1. ASSUME NEW w \in Words, NEW n
      PROVE  Next1(w, n) \in Words
  <2>1. Xor(w, Bits(bytes[n])) \cap 0 .. 7 \in SUBSET (0 .. 7)
    OBVIOUS
  <2>2. Table[Xor(w, Bits(bytes[n])) \cap 0 .. 7] \in Words
    <3>1. \A slot \in SUBSET (0 .. 7) : Table[slot] \in Words
      <4> TAKE slot \in SUBSET (0 .. 7)
      <4>1. 8 \in 0 .. 8
        OBVIOUS
      <4> QED BY <4>1, TableEntry
    <3> QED BY <2>1, <3>1
  <2>3. ShiftRight(w, 8) \in Words
    BY Algebra
  <2> QED BY <2>2, <2>3, Algebra
<1>2. \A n \in 1 .. N : \A w \in Words : G[n][w] = Next1(w, n)
  OBVIOUS
<1>3. PICK f : Defines(f, N, Words, Places, G)
  <2>1. G \in [1 .. N -> [Words -> Words]]
    <3> HIDE DEF Next1
    <3> QED BY <1>1
  <2>2. N \in Nat /\ Places \in Words
    BY DEF Places, Words
  <2> HIDE DEF G, c, N
  <2> QED BY <2>1, <2>2, Recursion
<1>4. f = [n \in 0 .. N |-> IF n = 0 THEN Places \ {} ELSE Next1(f[n - 1], n)]
  <2> HIDE DEF G, c, Next1
  <2>1. Places \ {} = Places
    OBVIOUS
  <2> QED BY <1>2, <1>3, <2>1 DEF Defines
<1>5. c = [n \in 0 .. N |-> IF n = 0 THEN Places \ {} ELSE Next1(c[n - 1], n)]
  BY <1>4
<1>6. Crc32({}, bytes) = Places \ c[N]
  <2> HIDE DEF G
  <2> QED BY DEF Crc32
<1> HIDE DEF c, G
<1>7. c[0] = Places /\ \A n \in 1 .. N : c[n] = Next1(c[n - 1], n)
  <2> HIDE DEF Next1
  <2>1. 0 \in 0 .. N /\ \A n \in 1 .. N : n \in 0 .. N /\ n # 0
    OBVIOUS
  <2> QED BY <1>5, <2>1
<1>8. \A n \in 0 .. N : c[n] \in Words
  <2> DEFINE P == { n \in 0 .. N : c[n] \in Words }
  <2>1. 0 \in P /\ \A n \in 1 .. N : n - 1 \in P => n \in P
    <3>1. Places \in Words
      BY DEF Places, Words
    <3> HIDE DEF Next1
    <3> QED BY <1>1, <1>7, <3>1
  <2>2. 0 .. N \subseteq P
    <3> HIDE DEF P
    <3> QED BY <2>1, Climb
  <2> QED BY <2>2
<1> QED BY <1>6, <1>7, <1>8

\* The division by definition goes from bit to bit.
LEMMA ByBits ==
    ASSUME NEW bytes, Len(bytes) \in Nat
    PROVE  \E c : /\ CrcByDefinition(bytes) = Places \ c[8 * Len(bytes)] /\ c[0] = Places
                  /\ \A n \in 0 .. 8 * Len(bytes) : c[n] \in Words
                  /\ \A n \in 1 .. 8 * Len(bytes) :
                        c[n] = NextBit(c[n - 1], (n - 1) % 8 \in Bits(bytes[(n - 1) \div 8 + 1]))
<1> DEFINE N == 8 * Len(bytes)
           Next1(w, n) == NextBit(w, (n - 1) % 8 \in Bits(bytes[(n - 1) \div 8 + 1]))
           c[n \in 0 .. N] ==
              IF n = 0 THEN Places
              ELSE LET before == c[n - 1]
                       bit == (n - 1) % 8 \in Bits(bytes[(n - 1) \div 8 + 1])
                   IN  IF (0 \in before) # bit THEN Xor(POLYNOMIAL, ShiftRight(before, 1))
                       ELSE ShiftRight(before, 1)
           G == [n \in 1 .. N |-> [w \in Words |-> Next1(w, n)]]
<1>1. ASSUME NEW w \in Words, NEW n
      PROVE  Next1(w, n) \in Words
  <2>1. ShiftRight(w, 1) \in Words
    BY Algebra
  <2>2. POLYNOMIAL \in Words
    BY DEF POLYNOMIAL, Words
  <2>3. Xor(POLYNOMIAL, ShiftRight(w, 1)) \in Words
    BY <2>1, <2>2, Algebra
  <2> QED BY <2>1, <2>3 DEF NextBit
<1>2. \A n \in 1 .. N : \A w \in Words : G[n][w] = Next1(w, n)
  OBVIOUS
<1>3. PICK f : Defines(f, N, Words, Places, G)
  <2>1. G \in [1 .. N -> [Words -> Words]]
    <3> HIDE DEF Next1
    <3> QED BY <1>1
  <2>2. N \in Nat /\ Places \in Words
    BY DEF Places, Words
  <2> HIDE DEF G, c, N
  <2> QED BY <2>1, <2>2, Recursion
<1>4. f = [n \in 0 .. N |-> IF n = 0 THEN Places ELSE Next1(f[n - 1], n)]
  <2> HIDE DEF G, c, Next1
  <2> QED BY <1>2, <1>3 DEF Defines
<1>5. c = [n \in 0 .. N |-> IF n = 0 THEN Places ELSE Next1(c[n - 1], n)]
  BY <1>4 DEF NextBit
<1>6. CrcByDefinition(bytes) = Places \ c[N]
  <2> HIDE DEF G
  <2> QED BY DEF CrcByDefinition
<1> HIDE DEF c, G
<1>7. c[0] = Places /\ \A n \in 1 .. N : c[n] = Next1(c[n - 1], n)
  <2>0. N \in Nat
    OBVIOUS
  <2> HIDE DEF Next1, N
  <2>1. 0 \in 0 .. N /\ \A n \in 1 .. N : n \in 0 .. N /\ n # 0
    BY <2>0
  <2> QED BY <1>5, <2>1
<1>8. \A n \in 0 .. N : c[n] \in Words
  <2> DEFINE P == { n \in 0 .. N : c[n] \in Words }
  <2>0. N \in Nat
    OBVIOUS
  <2> HIDE DEF N
  <2>1. 0 \in P /\ \A n \in 1 .. N : n - 1 \in P => n \in P
    <3>1. Places \in Words
      BY DEF Places, Words
    <3> HIDE DEF Next1
    <3> QED BY <2>0, <1>1, <1>7, <3>1
  <2>2. 0 .. N \subseteq P
    <3> HIDE DEF P
    <3> QED BY <2>0, <2>1, Climb
  <2> QED BY <2>2
<1> QED BY <1>6, <1>7, <1>8

\* The table changes nothing: for every sequence of bytes the CRC is the
\* remainder of the message.
THEOREM TableIsExact ==
    ASSUME NEW bytes, Len(bytes) \in Nat
    PROVE  Crc32({}, bytes) = CrcByDefinition(bytes)
<1> DEFINE N == Len(bytes)
<1>1. PICK c : /\ Crc32({}, bytes) = Places \ c[N] /\ c[0] = Places
               /\ \A n \in 0 .. N : c[n] \in Words
               /\ \A n \in 1 .. N :
                     c[n] = Xor(Table[Xor(c[n - 1], Bits(bytes[n])) \cap 0 .. 7],
                                ShiftRight(c[n - 1], 8))
  BY ByBytes
<1>2. PICK d : /\ CrcByDefinition(bytes) = Places \ d[8 * N] /\ d[0] = Places
               /\ \A n \in 0 .. 8 * N : d[n] \in Words
               /\ \A n \in 1 .. 8 * N :
                     d[n] = NextBit(d[n - 1], (n - 1) % 8 \in Bits(bytes[(n - 1) \div 8 + 1]))
  BY ByBits
<1> DEFINE P == { n \in 0 .. N : d[8 * n] = c[n] }
<1>3. 0 \in P
  BY <1>1, <1>2
<1>4. ASSUME NEW n \in 1 .. N, n - 1 \in P
      PROVE  n \in P
  <2> DEFINE m == n - 1
             e == [j \in 0 .. 8 |-> d[8 * m + j]]
             byte == Bits(bytes[n])
  <2>1. m \in Nat /\ n = m + 1 /\ m + 1 <= N /\ N \in Nat
    OBVIOUS
  <2>2. \A j \in 0 .. 8 : e[j] \in Words
    <3>1. \A j \in 0 .. 8 : 8 * m + j \in 0 .. 8 * N
      BY <2>1
    <3> QED BY <3>1, <1>2
  <2>3. byte \in Words
    <3>1. \A x : Bits(x) \subseteq 0 .. 30
      BY DEF Bits
    <3>2. 0 .. 30 \subseteq Nat
      OBVIOUS
    <3> QED BY <3>1, <3>2 DEF Words
  <2>4. \A j \in 1 .. 8 : e[j] = NextBit(e[j - 1], j - 1 \in byte)
    <3> TAKE j \in 1 .. 8
    <3> DEFINE i == 8 * m + j
    <3>1. /\ i \in 1 .. 8 * N /\ i - 1 = 8 * m + (j - 1) /\ j - 1 \in 0 .. 7
          /\ j \in 0 .. 8 /\ j - 1 \in 0 .. 8
      BY <2>1
    <3>2. (i - 1) % 8 = j - 1 /\ (i - 1) \div 8 + 1 = n
      BY <2>1, <3>1
    <3>3. d[i] = NextBit(d[i - 1], (i - 1) % 8 \in Bits(bytes[(i - 1) \div 8 + 1]))
      BY <3>1, <1>2
    <3>4. e[j] = d[i] /\ e[j - 1] = d[i - 1]
      BY <3>1
    <3> HIDE DEF i, e
    <3> QED BY <3>2, <3>3, <3>4
  <2>5. e[8] = Xor(Table[Xor(e[0], byte) \cap 0 .. 7], ShiftRight(e[0], 8))
    <3> HIDE DEF e, byte
    <3> QED BY <2>2, <2>3, <2>4, ByteByTable
  <2>6. e[0] = d[8 * m] /\ e[8] = d[8 * n]
    <3>1. 8 * m + 0 = 8 * m /\ 8 * m + 8 = 8 * n
      BY <2>1
    <3> QED BY <3>1
  <2>7. d[8 * m] = c[m]
    BY <1>4
  <2>8. c[n] = Xor(Table[Xor(c[m], byte) \cap 0 .. 7], ShiftRight(c[m], 8))
    BY <1>1
  <2> HIDE DEF e, byte, m
  <2>9. d[8 * n] = c[n]
    BY <2>5, <2>6, <2>7, <2>8
  <2> QED BY <2>9
<1>5. N \in P
  <2> HIDE DEF P
  <2>1. 0 .. N \subseteq P
    BY <1>3, <1>4, Climb
  <2> QED BY <2>1
<1> QED BY <1>1, <1>2, <1>5
-----------------------------------------------------------------------------
(* The header.                                                               *)

\* What the first n fields come to.
Prefix(h, n) ==
    LET upto[i \in 0 .. Len(Fields)] ==
          IF i = 0 THEN <<>>
          ELSE IF Writes(h, Fields[i]) THEN Append(upto[i - 1], Value(h, Fields[i]))
          ELSE upto[i - 1]
    IN  upto[n]

\* The two sums of Adler-32 after each byte.
NextSums(s, byte) == <<(s[1] + byte) % MOD, (s[2] + ((s[1] + byte) % MOD)) % MOD>>
Sums(bytes) ==
    LET s[n \in 0 .. Len(bytes)] == IF n = 0 THEN <<1, 0>> ELSE NextSums(s[n - 1], bytes[n])
    IN  s

\* The checksum of a header and the file that it makes.
FinalCell(h) ==
    LET bytes == HeaderBytes(h)
        last == Sums(bytes)[Len(bytes)]
    IN  <<"word", IF Asks(h, H_CRC32) THEN Crc32({}, bytes)
                  ELSE { 16 + i : i \in Bits(last[2]) } \cup Bits(last[1])>>
UptoSum(h) == <<Magic>> \o ByteCells(HeaderBytes(h)) \o <<FinalCell(h)>>
Full(h) == UptoSum(h) \o Extra(h) \o Blocks

FieldNames == {"version", "lib_version", "needed", "method", "level", "flags", "filter",
               "mode", "low", "high", "name_len"}

Cells == {<<"magic">>, <<"block">>} \cup ({"byte"} \X (0 .. BYTE)) \cup ({"word"} \X SUBSET Nat)

HeaderTypeOK ==
    /\ header \in Headers /\ file \in Seq(Cells)
    /\ damage \in {"none", "cut", "changed"}
    /\ phase \in {"write", "magic", "fields", "name", "compare", "extra", "done"}
    /\ field \in 1 .. Len(Fields) /\ pos \in 0 .. Len(file)
    /\ DOMAIN got = FieldNames \cup {"name"} /\ got.name_len \in 0 .. BYTE

\* While the writer sums, it sums the header; the reader starts over.
Fresh ==
    /\ phase = "write" => data = HeaderBytes(header)
    /\ phase \in {"write", "magic"} => field = 1 /\ pos = 0
    /\ phase \in {"fields", "name"} => summed = 0 /\ k = 0

\* The sums by definition are those of the data so far.
SumsFollow ==
    phase \in {"write", "fields", "name", "compare"} =>
        /\ sum_a = Sums(data)[summed][1] /\ sum_b = Sums(data)[summed][2]

\* A file that is whole, or the beginning of one.
LaidOut ==
    /\ Len(file) <= Len(Full(header))
    /\ \A i \in 1 .. Len(file) : file[i] = Full(header)[i]
    /\ damage = "none" => Len(file) = Len(Full(header))
    /\ damage = "cut" => Len(file) < Len(Full(header)) - 1

\* What has been read of the fields before the n-th is what was written.
ReadUpto(n) ==
    \A i \in 1 .. n : Present(header, Fields[i]) => got[Fields[i]] = Value(header, Fields[i])

ReadingFields ==
    phase = "fields" => /\ Present(header, Fields[field]) /\ ReadUpto(field - 1)
                        /\ data = Prefix(header, field - 1) /\ pos = 1 + Len(data)

ReadingName ==
    phase = "name" => /\ ReadUpto(Len(Fields))
                      /\ data = Prefix(header, Len(Fields)) /\ pos = 1 + Len(data)

ReadAll == ReadUpto(Len(Fields)) /\ got.name = Name(header)

Comparing == phase = "compare" => /\ ReadAll /\ data = HeaderBytes(header)
                                  /\ pos = 1 + Len(data)

ReadingExtra == phase = "extra" => /\ ReadAll /\ Asks(header, EXTRA_FIELD)
                                   /\ pos = Len(UptoSum(header))

\* How it ends.
Ended ==
    phase = "done" =>
        \/ file = <<>> /\ outcome = "NotLzo"
        \/ damage = "cut" /\ file # <<>> /\ outcome = "Truncated"
        \/ /\ damage = "none" /\ outcome = "ok" /\ ReadAll
           /\ pos = Len(Full(header)) - 1

Reading == phase # "write" /\ damage # "changed" /\ Supported(header) =>
              /\ LaidOut /\ ReadingFields /\ ReadingName /\ Comparing /\ ReadingExtra /\ Ended

\* Of every header, and of those that read_header() can give back.
Base == Inv /\ HeaderTypeOK /\ Fresh /\ SumsFollow
HeaderInv == Base /\ Reading
-----------------------------------------------------------------------------
LEMMA FieldsAre ==
    /\ Len(Fields) = 11 /\ \A i \in 1 .. 11 : Fields[i] \in FieldNames
    /\ Fields[1] = "version" /\ Fields[6] = "flags" /\ Fields[7] = "filter"
    /\ Fields[11] = "name_len"
    /\ \A i \in 1 .. 11 : /\ Fields[i] = "version" => i = 1
                          /\ Fields[i] = "flags" => i = 6
                          /\ Fields[i] = "filter" => i = 7
                          /\ Fields[i] = "name_len" => i = 11
    /\ \A i, j \in 1 .. 11 : Fields[i] = Fields[j] => i = j
  BY DEF Fields, FieldNames

LEMMA NameFits ==
    ASSUME NEW h \in Headers
    PROVE  Name(h) \in Seq(0 .. BYTE) /\ Len(Name(h)) \in 0 .. MAX_NAME
<1>1. h.name \in Seq(0 .. BYTE) /\ MAX_NAME \in Nat
  BY HeaderAssumption DEF HeaderAssumption
<1> DEFINE n == IF Len(h.name) < MAX_NAME THEN Len(h.name) ELSE MAX_NAME
<1>2. n \in 0 .. Len(h.name) /\ n <= MAX_NAME
  BY <1>1
<1>3. SubSeq(h.name, 1, n) \in Seq(0 .. BYTE) /\ Len(SubSeq(h.name, 1, n)) = n
  <2> HIDE DEF n
  <2>0. 1 \in Int /\ n \in Int /\ n - 1 + 1 = n /\ (1 <= n \/ n = 0)
    BY <1>1, <1>2
  <2>1. \A i \in 1 .. n : h.name[i] \in 0 .. BYTE
    <3> DEFINE s == h.name
    <3>1. s \in Seq(0 .. BYTE) /\ n \in 0 .. Len(s)
      BY <1>1, <1>2
    <3> HIDE DEF s
    <3>2. \A i \in 1 .. n : i \in 1 .. Len(s)
      BY <3>1
    <3>3. \A i \in 1 .. n : s[i] \in 0 .. BYTE
      BY <3>1, <3>2, ElementOfSeq
    <3> QED BY <3>3 DEF s
  <2>2. /\ SubSeq(h.name, 1, n) \in Seq(0 .. BYTE)
        /\ Len(SubSeq(h.name, 1, n)) = IF 1 <= n THEN n - 1 + 1 ELSE 0
    BY <2>0, <2>1, SubSeqProperties
  <2> QED BY <2>0, <2>2
<1> QED BY <1>2, <1>3 DEF Name

LEMMA ValueFits ==
    ASSUME NEW h \in Headers, NEW f \in FieldNames
    PROVE  Value(h, f) \in 0 .. BYTE
<1>1. /\ h.version \in 0 .. BYTE /\ h.method \in 0 .. BYTE /\ h.level \in 0 .. BYTE
      /\ h.flags \in 0 .. BYTE /\ h.mode \in 0 .. BYTE
      /\ h.mtime \in 0 .. LOW * (BYTE + 1) - 1
  BY HeaderAssumption DEF HeaderAssumption
<1>2. /\ VERSION_NEEDED \in 0 .. BYTE /\ VERSION_NEEDED_CRC \in 0 .. BYTE
      /\ LIB_VERSION \in 0 .. BYTE /\ MAX_NAME \in 0 .. BYTE /\ 1 \in 0 .. BYTE
      /\ LOW \in 1 .. BYTE + 1 /\ BYTE \in Nat
  BY HeaderAssumption, AdlerAssumption DEF HeaderAssumption, AdlerAssumption
<1>3. h.mtime % LOW \in 0 .. BYTE
  BY <1>1, <1>2
<1>4. h.mtime \div LOW \in 0 .. BYTE
  <2> DEFINE t == h.mtime
             d == t \div LOW
  <2>1. t \in Nat /\ LOW \in Nat \ {0} /\ t < LOW * (BYTE + 1) /\ BYTE + 1 \in Nat
    BY <1>1, <1>2
  <2>2. d \in Nat /\ LOW * d <= t
    BY <2>1
  <2> HIDE DEF t, d
  <2>3. ASSUME d >= BYTE + 1
        PROVE  FALSE
    <3>1. LOW * d >= LOW * (BYTE + 1)
      BY <2>1, <2>2, <2>3, SMTT(30)
    <3>2. LOW * d \in Nat /\ LOW * (BYTE + 1) \in Nat
      BY <2>1, <2>2
    <3> QED BY <2>1, <2>2, <3>1, <3>2
  <2>4. d \in 0 .. BYTE
    BY <2>2, <2>3, <1>2
  <2> QED BY <2>4 DEF d, t
<1>5. Len(Name(h)) \in 0 .. BYTE
  BY <1>2, NameFits
<1> QED BY <1>1, <1>2, <1>3, <1>4, <1>5 DEF Value, FieldNames

\* The fields one after the other.
LEMMA Prefixes ==
    ASSUME NEW h \in Headers
    PROVE  /\ Prefix(h, 0) = <<>>
           /\ \A i \in 1 .. 11 :
                 Prefix(h, i) = IF Writes(h, Fields[i])
                                THEN Append(Prefix(h, i - 1), Value(h, Fields[i]))
                                ELSE Prefix(h, i - 1)
           /\ \A i \in 0 .. 11 : Prefix(h, i) \in Seq(0 .. BYTE)
<1> DEFINE S == Seq(0 .. BYTE)
           Next1(s, i) == IF Writes(h, Fields[i]) THEN Append(s, Value(h, Fields[i])) ELSE s
           c[i \in 0 .. Len(Fields)] ==
              IF i = 0 THEN <<>>
              ELSE IF Writes(h, Fields[i]) THEN Append(c[i - 1], Value(h, Fields[i]))
              ELSE c[i - 1]
           G == [i \in 1 .. 11 |-> [s \in S |-> Next1(s, i)]]
<1>1. ASSUME NEW s \in S, NEW i \in 1 .. 11
      PROVE  Next1(s, i) \in S
  <2>1. Value(h, Fields[i]) \in 0 .. BYTE
    BY FieldsAre, ValueFits
  <2>2. Append(s, Value(h, Fields[i])) \in S
    <3> DEFINE v == Value(h, Fields[i])
    <3> HIDE DEF v
    <3>1. Append(s, v) \in S
      BY <2>1 DEF v
    <3> QED BY <3>1 DEF v
  <2> QED BY <2>2
<1>2. \A i \in 1 .. 11 : \A s \in S : G[i][s] = Next1(s, i)
  OBVIOUS
<1>3. PICK f : Defines(f, 11, S, <<>>, G)
  <2>1. G \in [1 .. 11 -> [S -> S]]
    <3> HIDE DEF Next1, S
    <3> QED BY <1>1
  <2>2. 11 \in Nat /\ <<>> \in S
    OBVIOUS
  <2> HIDE DEF G, c, S
  <2> QED BY <2>1, <2>2, Recursion
<1>4. f = [i \in 0 .. Len(Fields) |-> IF i = 0 THEN <<>> ELSE Next1(f[i - 1], i)]
  <2> HIDE DEF G, c, Next1, S
  <2> QED BY <1>2, <1>3, FieldsAre DEF Defines
<1>5. c = [i \in 0 .. Len(Fields) |-> IF i = 0 THEN <<>> ELSE Next1(c[i - 1], i)]
  BY <1>4
<1>6. \A i : Prefix(h, i) = c[i]
  <2> HIDE DEF G
  <2> QED BY DEF Prefix
<1> HIDE DEF c, G
<1>7. c[0] = <<>> /\ \A i \in 1 .. 11 : c[i] = Next1(c[i - 1], i)
  <2> HIDE DEF Next1
  <2>1. 0 \in 0 .. 11 /\ \A i \in 1 .. 11 : i \in 0 .. 11 /\ i # 0
    OBVIOUS
  <2> QED BY <1>5, <2>1, FieldsAre
<1>8. \A i \in 0 .. 11 : c[i] \in S
  <2> DEFINE P == { i \in 0 .. 11 : c[i] \in S }
  <2>1. 0 \in P /\ \A i \in 1 .. 11 : i - 1 \in P => i \in P
    <3>1. <<>> \in S
      OBVIOUS
    <3> HIDE DEF Next1, S
    <3> QED BY <1>1, <1>7, <3>1
  <2>2. 0 .. 11 \subseteq P
    <3> HIDE DEF P
    <3> QED BY <2>1, Climb
  <2> QED BY <2>2
<1> QED BY <1>6, <1>7, <1>8

LEMMA HeaderBytesAre ==
    ASSUME NEW h \in Headers
    PROVE  /\ HeaderBytes(h) = Prefix(h, 11) \o Name(h)
           /\ HeaderBytes(h) \in Seq(0 .. BYTE)
<1>1. HeaderBytes(h) = Prefix(h, Len(Fields)) \o Name(h)
  BY DEF HeaderBytes, Prefix
<1>2. Prefix(h, 11) \in Seq(0 .. BYTE)
  BY Prefixes
<1> QED BY <1>1, <1>2, NameFits, FieldsAre

\* What follows a prefix of the fields.
LEMMA PrefixGrows ==
    ASSUME NEW h \in Headers, NEW i \in 0 .. 11
    PROVE  /\ Len(Prefix(h, i)) <= Len(Prefix(h, 11))
           /\ \A n \in 1 .. Len(Prefix(h, i)) : Prefix(h, 11)[n] = Prefix(h, i)[n]
<1> DEFINE Good(j) == /\ Len(Prefix(h, i)) <= Len(Prefix(h, i + j))
                      /\ \A n \in 1 .. Len(Prefix(h, i)) : Prefix(h, i + j)[n] = Prefix(h, i)[n]
           P == { j \in 0 .. 11 - i : Good(j) }
<1>1. \A j \in 0 .. 11 : Prefix(h, j) \in Seq(0 .. BYTE)
  BY Prefixes
<1>2. 0 \in P
  <2>1. i + 0 = i /\ 0 \in 0 .. 11 - i
    OBVIOUS
  <2> QED BY <1>1, <2>1
<1>3. ASSUME NEW j \in 1 .. 11 - i, j - 1 \in P
      PROVE  j \in P
  <2> DEFINE m == i + j
             s == Prefix(h, m - 1)
  <2>1. m \in 1 .. 11 /\ m - 1 \in 0 .. 11 /\ i + (j - 1) = m - 1 /\ j \in 0 .. 11 - i
    OBVIOUS
  <2>2. s \in Seq(0 .. BYTE) /\ Prefix(h, i) \in Seq(0 .. BYTE)
    BY <1>1, <2>1
  <2>3. /\ Len(Prefix(h, i)) <= Len(s)
        /\ \A n \in 1 .. Len(Prefix(h, i)) : s[n] = Prefix(h, i)[n]
    BY <1>3, <2>1
  <2>4. Prefix(h, m) = s \/ \E x \in 0 .. BYTE : Prefix(h, m) = Append(s, x)
    BY <2>1, Prefixes, ValueFits, FieldsAre
  <2> HIDE DEF m, s
  <2>5. /\ Len(Prefix(h, i)) <= Len(Prefix(h, m))
        /\ \A n \in 1 .. Len(Prefix(h, i)) : Prefix(h, m)[n] = Prefix(h, i)[n]
    BY <2>2, <2>3, <2>4
  <2> QED BY <2>1, <2>5 DEF m
<1>4. 11 - i \in P
  <2> HIDE DEF P
  <2>1. 11 - i \in Nat /\ 11 - i \in 0 .. 11 - i
    OBVIOUS
  <2> QED BY <1>2, <1>3, <2>1, Climb
<1>5. i + (11 - i) = 11
  OBVIOUS
<1> QED BY <1>4, <1>5

\* Where a field is among the bytes of the header.
LEMMA FieldIsAt ==
    ASSUME NEW h \in Headers, NEW i \in 1 .. 11, Writes(h, Fields[i])
    PROVE  LET n == Len(Prefix(h, i - 1)) + 1
           IN  /\ n \in 1 .. Len(HeaderBytes(h))
               /\ HeaderBytes(h)[n] = Value(h, Fields[i])
<1> DEFINE s == Prefix(h, i - 1)
           n == Len(s) + 1
           v == Value(h, Fields[i])
           all == Prefix(h, 11)
<1>1. s \in Seq(0 .. BYTE) /\ all \in Seq(0 .. BYTE) /\ Name(h) \in Seq(0 .. BYTE)
  <2>1. i - 1 \in 0 .. 11 /\ 11 \in 0 .. 11
    OBVIOUS
  <2> QED BY <2>1, Prefixes, NameFits
<1>2. Prefix(h, i) = Append(s, v) /\ v \in 0 .. BYTE
  BY Prefixes, ValueFits, FieldsAre
<1>3. /\ Len(Prefix(h, i)) <= Len(all)
      /\ \A m \in 1 .. Len(Prefix(h, i)) : all[m] = Prefix(h, i)[m]
  <2>1. i \in 0 .. 11
    OBVIOUS
  <2> QED BY <2>1, PrefixGrows
<1>4. HeaderBytes(h) = all \o Name(h)
  BY HeaderBytesAre
<1> HIDE DEF s, v, all
<1>5. n \in 1 .. Len(Prefix(h, i)) /\ Prefix(h, i)[n] = v
  BY <1>1, <1>2
<1>6. n \in 1 .. Len(all) /\ all[n] = v
  BY <1>1, <1>3, <1>5
<1>7. n \in 1 .. Len(HeaderBytes(h)) /\ HeaderBytes(h)[n] = v
  <2> HIDE DEF n
  <2> QED BY <1>1, <1>4, <1>6
<1> QED BY <1>7 DEF s, v

LEMMA SumsAre ==
    ASSUME NEW bytes \in Seq(0 .. BYTE)
    PROVE  /\ Sums(bytes)[0] = <<1, 0>>
           /\ \A n \in 1 .. Len(bytes) :
                 Sums(bytes)[n] = NextSums(Sums(bytes)[n - 1], bytes[n])
<1> DEFINE N == Len(bytes)
           S == (0 .. HALF - 1) \X (0 .. HALF - 1)
           c[n \in 0 .. N] == IF n = 0 THEN <<1, 0>> ELSE NextSums(c[n - 1], bytes[n])
           G == [n \in 1 .. N |-> [s \in S |-> NextSums(s, bytes[n])]]
<1>1. ASSUME NEW s \in S, NEW byte \in 0 .. BYTE
      PROVE  NextSums(s, byte) \in S
  <2>1. MOD \in Nat \ {0} /\ HALF \in Nat /\ MOD <= HALF /\ BYTE \in Nat
    BY AdlerAssumption DEF AdlerAssumption
  <2>2. \A x \in Nat : x % MOD \in 0 .. HALF - 1
    BY <2>1
  <2>3. s[1] \in Nat /\ s[2] \in Nat /\ byte \in Nat
    BY <2>1
  <2>4. (s[1] + byte) % MOD \in 0 .. HALF - 1
    <3>1. s[1] + byte \in Nat
      BY <2>3
    <3> QED BY <3>1, <2>2
  <2> DEFINE x == (s[1] + byte) % MOD
  <2> HIDE DEF x
  <2>5. x \in 0 .. HALF - 1 /\ (s[2] + x) % MOD \in 0 .. HALF - 1
    <3>1. x \in 0 .. HALF - 1
      BY <2>4 DEF x
    <3>2. s[2] + x \in Nat
      BY <3>1, <2>1, <2>3
    <3> QED BY <3>1, <3>2, <2>2
  <2>6. <<x, (s[2] + x) % MOD>> \in S
    BY <2>5
  <2> QED BY <2>6 DEF x, NextSums
<1>2. \A n \in 1 .. N : bytes[n] \in 0 .. BYTE
  BY ElementOfSeq
<1>3. PICK f : Defines(f, N, S, <<1, 0>>, G)
  <2>1. G \in [1 .. N -> [S -> S]]
    <3> HIDE DEF S, N
    <3> QED BY <1>1, <1>2
  <2>2. N \in Nat /\ <<1, 0>> \in S
    <3>1. 1 \in 0 .. HALF - 1 /\ 0 \in 0 .. HALF - 1
      BY AdlerAssumption, HeaderAssumption DEF AdlerAssumption, HeaderAssumption
    <3>2. N \in Nat
      BY LenProperties
    <3>3. <<1, 0>> \in S
      BY <3>1
    <3> HIDE DEF G, c, N, S
    <3> QED BY <3>2, <3>3
  <2> HIDE DEF G, c, S, N
  <2> QED BY <2>1, <2>2, Recursion
<1>4. \A n \in 1 .. N : \A s \in S : G[n][s] = NextSums(s, bytes[n])
  OBVIOUS
<1>5. f = [n \in 0 .. N |-> IF n = 0 THEN <<1, 0>> ELSE NextSums(f[n - 1], bytes[n])]
  <2>1. N \in Nat
    BY LenProperties
  <2> HIDE DEF G, c, S, N
  <2>2. /\ f \in [0 .. N -> S] /\ f[0] = <<1, 0>>
        /\ \A n \in 1 .. N : f[n] = G[n][f[n - 1]]
    BY <1>3 DEF Defines
  <2>3. ASSUME NEW n \in 0 .. N
        PROVE  f[n] = IF n = 0 THEN <<1, 0>> ELSE NextSums(f[n - 1], bytes[n])
    <3>1. CASE n = 0
      BY <2>2, <3>1
    <3>2. CASE n # 0
      <4>1. n \in 1 .. N /\ n - 1 \in 0 .. N
        BY <2>1, <3>2
      <4>2. f[n - 1] \in S
        BY <2>2, <4>1
      <4> QED BY <1>4, <2>2, <3>2, <4>1, <4>2
    <3> QED BY <3>1, <3>2
  <2> QED BY <2>2, <2>3
<1>6. c = [n \in 0 .. N |-> IF n = 0 THEN <<1, 0>> ELSE NextSums(c[n - 1], bytes[n])]
  BY <1>5
<1>7. Sums(bytes) = c
  <2> HIDE DEF G, S
  <2> QED BY DEF Sums
<1> HIDE DEF c, G, S
<1>8. c[0] = <<1, 0>> /\ \A n \in 1 .. N : c[n] = NextSums(c[n - 1], bytes[n])
  <2>1. 0 \in 0 .. N /\ \A n \in 1 .. N : n \in 0 .. N /\ n # 0
    OBVIOUS
  <2> QED BY <1>6, <2>1
<1> QED BY <1>7, <1>8
-----------------------------------------------------------------------------
(* The cells of a file.                                                      *)

LEMMA AsByteOfByte ==
    ASSUME NEW x
    PROVE  AsByte(<<"byte", x>>) = {x}
  BY DEF AsByte

LEMMA AsByteOfCell ==
    ASSUME NEW cell \in Cells
    PROVE  AsByte(cell) \subseteq 0 .. BYTE /\ AsByte(cell) # {}
<1>1. cell[1] = "byte" => cell[2] \in 0 .. BYTE
  BY DEF Cells
<1>2. 0 \in 0 .. BYTE
  BY AdlerAssumption DEF AdlerAssumption
<1> QED BY <1>1, <1>2 DEF AsByte

LEMMA CellsOfBytes ==
    ASSUME NEW bytes \in Seq(0 .. BYTE)
    PROVE  /\ ByteCells(bytes) \in Seq(Cells) /\ Len(ByteCells(bytes)) = Len(bytes)
           /\ \A i \in 1 .. Len(bytes) : ByteCells(bytes)[i] = <<"byte", bytes[i]>>
<1> DEFINE n == Len(bytes)
<1>1. n \in Nat /\ DOMAIN bytes = 1 .. n
  BY LenProperties
<1>2. ByteCells(bytes) = [i \in 1 .. n |-> <<"byte", bytes[i]>>]
  BY <1>1 DEF ByteCells
<1>3. \A i \in 1 .. n : <<"byte", bytes[i]>> \in Cells
  BY ElementOfSeq DEF Cells
<1> HIDE DEF n
<1>4. ByteCells(bytes) \in [1 .. n -> Cells]
  BY <1>2, <1>3
<1>5. ByteCells(bytes) \in Seq(Cells) /\ Len(ByteCells(bytes)) = n
  BY <1>1, <1>4
<1> QED BY <1>2, <1>5 DEF n

HasExtra(h) == h.writer # "this" /\ Asks(h, EXTRA_FIELD)

LEMMA ExtraIs ==
    ASSUME NEW h \in Headers
    PROVE  /\ Extra(h) \in Seq(Cells) /\ h.extra \in 0 .. BYTE
           /\ ~ HasExtra(h) => Extra(h) = <<>>
           /\ HasExtra(h) => Len(Extra(h)) = h.extra + 2 /\ Extra(h)[1] = <<"byte", h.extra>>
<1> DEFINE zeros == [i \in 1 .. h.extra |-> 0]
           first == <<<<"byte", h.extra>>>>
           last == <<<<"word", {}>>>>
<1>1. h.extra \in 0 .. BYTE /\ BYTE \in Nat
  BY HeaderAssumption, AdlerAssumption DEF HeaderAssumption, AdlerAssumption
<1>2. zeros \in Seq(0 .. BYTE) /\ Len(zeros) = h.extra
  <2> DEFINE n == h.extra
  <2>1. n \in Nat /\ 0 \in 0 .. BYTE
    BY <1>1
  <2> HIDE DEF n
  <2>2. [i \in 1 .. n |-> 0] \in [1 .. n -> 0 .. BYTE]
    BY <2>1
  <2>3. [i \in 1 .. n |-> 0] \in Seq(0 .. BYTE) /\ Len([i \in 1 .. n |-> 0]) = n
    BY <2>1, <2>2
  <2> QED BY <2>3 DEF n
<1>3. ByteCells(zeros) \in Seq(Cells) /\ Len(ByteCells(zeros)) = h.extra
  <2> HIDE DEF zeros
  <2> QED BY <1>2, CellsOfBytes
<1>4. first \in Seq(Cells) /\ last \in Seq(Cells) /\ Len(first) = 1 /\ Len(last) = 1
  BY <1>1 DEF Cells
<1>5. first[1] = <<"byte", h.extra>>
  OBVIOUS
<1>6. HasExtra(h) => Extra(h) = first \o ByteCells(zeros) \o last
  BY DEF Extra, HasExtra
<1>7. ~ HasExtra(h) => Extra(h) = <<>>
  BY DEF Extra, HasExtra
<1> DEFINE cells == ByteCells(zeros)
<1>8. cells \in Seq(Cells) /\ Len(cells) = h.extra
  BY <1>3
<1>9. HasExtra(h) => Extra(h) = first \o cells \o last
  BY <1>6
<1> HIDE DEF cells, first, last, zeros
<1>10. /\ first \o cells \in Seq(Cells) /\ Len(first \o cells) = 1 + h.extra
       /\ (first \o cells)[1] = first[1]
  BY <1>1, <1>4, <1>8, ConcatProperties, SMTT(30)
<1>11. /\ first \o cells \o last \in Seq(Cells) /\ Len(first \o cells \o last) = h.extra + 2
       /\ (first \o cells \o last)[1] = first[1]
  BY <1>1, <1>4, <1>10, ConcatProperties, SMTT(30)
<1>12. <<>> \in Seq(Cells)
  OBVIOUS
<1> QED BY <1>1, <1>5, <1>7, <1>9, <1>11, <1>12

LEMMA FinalCellIs ==
    ASSUME NEW h \in Headers
    PROVE  FinalCell(h) \in Cells
<1> DEFINE bytes == HeaderBytes(h)
           crc == Crc32({}, bytes)
           last == Sums(bytes)[Len(bytes)]
           adler == { 16 + i : i \in Bits(last[2]) } \cup Bits(last[1])
<1>1. crc \in SUBSET Nat
  <2>1. Len(bytes) \in Nat
    BY HeaderBytesAre, LenProperties
  <2> HIDE DEF bytes
  <2>2. \E c : crc = Places \ c[Len(bytes)]
    BY <2>1, ByBytes
  <2>3. Places \subseteq Nat
    BY DEF Places
  <2> HIDE DEF crc
  <2> QED BY <2>2, <2>3, Zenon
<1>2. adler \in SUBSET Nat
  <2>1. \A x : Bits(x) \subseteq 0 .. 30
    BY DEF Bits
  <2>2. \A i \in 0 .. 30 : i \in Nat /\ 16 + i \in Nat
    OBVIOUS
  <2>3. Bits(last[1]) \subseteq Nat
    BY <2>1, <2>2
  <2>4. { 16 + i : i \in Bits(last[2]) } \subseteq Nat
    BY <2>1, <2>2
  <2> QED BY <2>3, <2>4
<1>3. FinalCell(h) = <<"word", IF Asks(h, H_CRC32) THEN crc ELSE adler>>
  BY DEF FinalCell
<1> HIDE DEF crc, adler
<1>4. (IF Asks(h, H_CRC32) THEN crc ELSE adler) \in SUBSET Nat
  BY <1>1, <1>2
<1> QED BY <1>3, <1>4 DEF Cells

LEMMA Joined ==
    ASSUME NEW s \in Seq(Cells), NEW t \in Seq(Cells)
    PROVE  /\ s \o t \in Seq(Cells) /\ Len(s \o t) = Len(s) + Len(t)
           /\ \A i \in 1 .. Len(s) : (s \o t)[i] = s[i]
           /\ \A j \in 1 .. Len(t) : (s \o t)[Len(s) + j] = t[j]
<1>1. Len(s) \in Nat /\ Len(t) \in Nat
  BY LenProperties
<1>2. /\ s \o t \in Seq(Cells) /\ Len(s \o t) = Len(s) + Len(t)
      /\ \A i \in 1 .. Len(s) + Len(t) :
            (s \o t)[i] = IF i <= Len(s) THEN s[i] ELSE t[i - Len(s)]
  BY ConcatProperties
<1>3. /\ \A i \in 1 .. Len(s) : i \in 1 .. Len(s) + Len(t) /\ i <= Len(s)
      /\ \A j \in 1 .. Len(t) : /\ Len(s) + j \in 1 .. Len(s) + Len(t)
                                /\ ~ (Len(s) + j <= Len(s)) /\ (Len(s) + j) - Len(s) = j
  BY <1>1
<1> QED BY <1>2, <1>3

\* The cells of a whole file, in their places.
LEMMA FullIs ==
    ASSUME NEW h \in Headers
    PROVE  LET n == Len(HeaderBytes(h))
           IN  /\ UptoSum(h) \in Seq(Cells) /\ Len(UptoSum(h)) = n + 2
               /\ Full(h) \in Seq(Cells) /\ Len(Full(h)) = n + 2 + Len(Extra(h)) + 1
               /\ n \in Nat /\ Full(h)[1] = Magic
               /\ \A j \in 1 .. n : Full(h)[1 + j] = <<"byte", HeaderBytes(h)[j]>>
               /\ Full(h)[n + 2] = FinalCell(h)
               /\ Extra(h) # <<>> => Full(h)[n + 3] = Extra(h)[1]
<1> DEFINE n == Len(HeaderBytes(h))
           magic == <<Magic>>
           bytes == ByteCells(HeaderBytes(h))
           sum == <<FinalCell(h)>>
           extra == Extra(h)
           mb == magic \o bytes
           u == UptoSum(h)
           ue == u \o extra
           f == Full(h)
<1>1. n \in Nat /\ bytes \in Seq(Cells) /\ Len(bytes) = n
  BY HeaderBytesAre, CellsOfBytes, LenProperties
<1>2. \A j \in 1 .. n : bytes[j] = <<"byte", HeaderBytes(h)[j]>>
  BY HeaderBytesAre, CellsOfBytes
<1>3. magic \in Seq(Cells) /\ Len(magic) = 1 /\ magic[1] = Magic
  BY DEF Magic, Cells
<1>4. sum \in Seq(Cells) /\ Len(sum) = 1 /\ sum[1] = FinalCell(h)
  BY FinalCellIs
<1>5. Blocks \in Seq(Cells) /\ Len(Blocks) = 1
  BY DEF Blocks, Cells
<1>6. extra \in Seq(Cells) /\ Len(extra) \in Nat /\ (extra # <<>> => Len(extra) >= 1)
  <2>1. extra \in Seq(Cells)
    BY ExtraIs
  <2> HIDE DEF extra
  <2> QED BY <2>1, LenProperties, EmptySeq
<1>7. u = mb \o sum /\ f = ue \o Blocks
  BY DEF UptoSum, Full
<1> HIDE DEF magic, bytes, sum, extra, n, u, f
<1>8. /\ mb \in Seq(Cells) /\ Len(mb) = 1 + n
      /\ \A i \in 1 .. 1 : mb[i] = magic[i]
      /\ \A j \in 1 .. n : mb[1 + j] = bytes[j]
  <2>1. /\ mb \in Seq(Cells) /\ Len(mb) = Len(magic) + Len(bytes)
        /\ \A i \in 1 .. Len(magic) : mb[i] = magic[i]
        /\ \A j \in 1 .. Len(bytes) : mb[Len(magic) + j] = bytes[j]
    BY <1>1, <1>3, Joined
  <2> HIDE DEF mb
  <2> QED BY <2>1, <1>1, <1>3
<1> HIDE DEF mb
<1>9. /\ u \in Seq(Cells) /\ Len(u) = 1 + n + 1
      /\ \A i \in 1 .. 1 + n : u[i] = mb[i]
      /\ \A j \in 1 .. 1 : u[1 + n + j] = sum[j]
  <2>1. /\ u \in Seq(Cells) /\ Len(u) = Len(mb) + Len(sum)
        /\ \A i \in 1 .. Len(mb) : u[i] = mb[i]
        /\ \A j \in 1 .. Len(sum) : u[Len(mb) + j] = sum[j]
    BY <1>4, <1>7, <1>8, Joined
  <2> QED BY <2>1, <1>4, <1>8
<1>10. /\ ue \in Seq(Cells) /\ Len(ue) = Len(u) + Len(extra)
       /\ \A i \in 1 .. Len(u) : ue[i] = u[i]
       /\ \A j \in 1 .. Len(extra) : ue[Len(u) + j] = extra[j]
  BY <1>6, <1>9, Joined
<1> HIDE DEF ue
<1>11. /\ f \in Seq(Cells) /\ Len(f) = Len(ue) + 1
       /\ \A i \in 1 .. Len(ue) : f[i] = ue[i]
  <2>1. /\ f \in Seq(Cells) /\ Len(f) = Len(ue) + Len(Blocks)
        /\ \A i \in 1 .. Len(ue) : f[i] = ue[i]
    BY <1>5, <1>7, <1>10, Joined
  <2> QED BY <2>1, <1>5
<1>12. Len(u) = n + 2 /\ Len(f) = n + 2 + Len(extra) + 1
  BY <1>1, <1>6, <1>9, <1>10, <1>11
<1>13. \A i \in 1 .. n + 2 : f[i] = u[i]
  BY <1>1, <1>6, <1>10, <1>11, <1>12
<1>14. f[1] = Magic /\ \A j \in 1 .. n : f[1 + j] = bytes[j]
  <2>1. 1 \in 1 .. n + 2 /\ 1 \in 1 .. 1 + n /\ 1 \in 1 .. 1
    BY <1>1
  <2>2. \A j \in 1 .. n : 1 + j \in 1 .. n + 2 /\ 1 + j \in 1 .. 1 + n
    BY <1>1
  <2> QED BY <2>1, <2>2, <1>3, <1>8, <1>9, <1>13
<1>15. f[n + 2] = FinalCell(h)
  <2>1. n + 2 \in 1 .. n + 2 /\ n + 2 = 1 + n + 1 /\ 1 \in 1 .. 1
    BY <1>1
  <2>2. u[1 + n + 1] = sum[1]
    BY <2>1, <1>9
  <2> QED BY <2>1, <2>2, <1>4, <1>13
<1>16. extra # <<>> => f[n + 3] = extra[1]
  <2> SUFFICES ASSUME extra # <<>>
               PROVE  f[n + 3] = extra[1]
    OBVIOUS
  <2>1. 1 \in 1 .. Len(extra) /\ Len(u) + 1 = n + 3 /\ n + 3 \in 1 .. Len(ue)
    BY <1>1, <1>6, <1>10, <1>12
  <2>2. ue[Len(u) + 1] = extra[1]
    BY <2>1, <1>10
  <2> QED BY <2>1, <2>2, <1>11
<1> QED BY <1>1, <1>2, <1>9, <1>11, <1>12, <1>14, <1>15, <1>16 DEF n, extra, u, f
-----------------------------------------------------------------------------
(* The types, and the sums: every step.                                      *)

\* More bytes, none of which has been summed.
LEMMA DataInv ==
    ASSUME Inv, summed = 0, data' \in Seq(0 .. BYTE),
           UNCHANGED <<a, b, summed, k, sum_a, sum_b>>
    PROVE  Inv'
<1>1. /\ a' = a /\ b' = b /\ summed' = 0 /\ summed = 0 /\ k' = k /\ sum_a' = sum_a /\ sum_b' = sum_b
      /\ data' \in Seq(0 .. BYTE)
  OBVIOUS
<1>2. Len(data') \in Nat /\ 0 \in 0 .. Len(data')
  <2>1. Len(data') \in Nat
    BY LenProperties
  <2> QED BY <2>1
<1>3. AdlerTypeOK'
  BY <1>1, <1>2 DEF Inv, AdlerTypeOK
<1> QED BY <1>1, <1>3 DEF Inv, Grown, Congruent, Reduced, SumsAreExact

LEMMA StartOfSums ==
    ASSUME summed' = 0, sum_a' = 1, sum_b' = 0, data' \in Seq(0 .. BYTE)
    PROVE  sum_a' = Sums(data')[summed'][1] /\ sum_b' = Sums(data')[summed'][2]
<1>1. Sums(data')[0] = <<1, 0>>
  BY SumsAre
<1> QED BY <1>1

LEMMA InitBase == HeaderInit => HeaderInv
<1> SUFFICES ASSUME HeaderInit
             PROVE  HeaderInv
  OBVIOUS
<1>1. header \in Headers /\ data = HeaderBytes(header) /\ data \in Seq(0 .. BYTE)
  BY HeaderBytesAre DEF HeaderInit
<1>2. 1 \in 0 .. HALF - 1 /\ 0 \in 0 .. HALF - 1
  BY AdlerAssumption, HeaderAssumption DEF AdlerAssumption, HeaderAssumption
<1>3. Inv
  <2>1. Init
    BY <1>1, <1>2 DEF HeaderInit, Init
  <2> QED BY <2>1, InitInv
<1>4. HeaderTypeOK
  <2>1. DOMAIN got = FieldNames \cup {"name"} /\ got.name_len \in 0 .. BYTE
    BY AdlerAssumption DEF HeaderInit, Nothing, FieldNames, AdlerAssumption
  <2> QED BY <1>1, <2>1, FieldsAre DEF HeaderInit, HeaderTypeOK
<1>5. Fresh
  BY <1>1 DEF HeaderInit, Fresh
<1>6. SumsFollow
  <2>1. Sums(data)[0] = <<1, 0>>
    BY <1>1, SumsAre
  <2> QED BY <2>1 DEF HeaderInit, InitCall, SumsFollow
<1>7. Reading
  BY DEF HeaderInit, Reading
<1> QED BY <1>3, <1>4, <1>5, <1>6, <1>7 DEF HeaderInv, Base

LEMMA SumBase ==
    ASSUME Base, Sum
    PROVE  Base'
<1>1. Inv'
  BY SumByteInv, ReduceInv DEF Base, Sum
<1>2. data' = data /\ UNCHANGED <<store, phase, field, pos, got, outcome>>
  BY DEF Sum, SumByte, Reduce
<1>3. HeaderTypeOK'
  BY <1>2 DEF Base, HeaderTypeOK, store
<1>4. phase \in {"write", "compare"}
  BY DEF Sum
<1>5. Fresh'
  BY <1>2, <1>4 DEF Base, Fresh, store
<1>6. SumsFollow'
  <2>1. sum_a = Sums(data)[summed][1] /\ sum_b = Sums(data)[summed][2]
    BY <1>4 DEF Base, SumsFollow
  <2>2. CASE Reduce
    BY <1>2, <1>4, <2>1, <2>2 DEF SumsFollow, Reduce
  <2>3. CASE SumByte
    <3>1. summed \in 0 .. Len(data) /\ summed < Len(data) /\ data \in Seq(0 .. BYTE)
      BY <2>3 DEF SumByte, Base, Inv, AdlerTypeOK
    <3>2. Len(data) \in Nat
      BY <3>1, LenProperties
    <3>3. summed + 1 \in 1 .. Len(data) /\ (summed + 1) - 1 = summed
      BY <3>1, <3>2
    <3>4. Sums(data)[summed + 1] = NextSums(Sums(data)[summed], data[summed + 1])
      BY <3>1, <3>3, SumsAre
    <3>5. /\ summed' = summed + 1 /\ sum_a' = (sum_a + data[summed + 1]) % MOD
          /\ sum_b' = (sum_b + sum_a') % MOD
      BY <2>3 DEF SumByte
    <3>6. /\ sum_a' = Sums(data)[summed + 1][1]
          /\ sum_b' = Sums(data)[summed + 1][2]
      BY <2>1, <3>4, <3>5 DEF NextSums
    <3> QED BY <1>2, <3>5, <3>6 DEF SumsFollow
  <2> QED BY <2>2, <2>3 DEF Sum
<1> QED BY <1>1, <1>3, <1>5, <1>6 DEF Base

\* What the writer has summed is the checksum of the header.
LEMMA SumCellIs ==
    ASSUME Base, phase \in {"write", "compare"}, data = HeaderBytes(header),
           NEW h, h.flags = header.flags, Ready(h)
    PROVE  SumCell(h) = FinalCell(header)
<1>1. Asks(h, H_CRC32) <=> Asks(header, H_CRC32)
  BY DEF Asks
<1>2. CASE Asks(header, H_CRC32)
  BY <1>1, <1>2 DEF SumCell, FinalCell
<1>3. CASE ~ Asks(header, H_CRC32)
  <2>1. k = 0 /\ summed = Len(data)
    BY <1>1, <1>3 DEF Ready, Summed
  <2>2. a = sum_a /\ b = sum_b
    BY <2>1 DEF Base, Inv, SumsAreExact
  <2>3. a = Sums(data)[Len(data)][1] /\ b = Sums(data)[Len(data)][2]
    BY <2>1, <2>2 DEF Base, SumsFollow
  <2> QED BY <1>1, <1>3, <2>3 DEF SumCell, FinalCell
<1> QED BY <1>2, <1>3

LEMMA SumIsFinal ==
    ASSUME Base, phase = "write", Ready(header)
    PROVE  SumCell(header) = FinalCell(header) /\ Whole = UptoSum(header) \o Extra(header)
<1>1. data = HeaderBytes(header)
  BY DEF Base, Fresh
<1>2. SumCell(header) = FinalCell(header)
  BY <1>1, SumCellIs
<1> QED BY <1>1, <1>2 DEF Whole, UptoSum

\* A step that leaves the bytes and the sums alone.
LEMMA AdlerStays ==
    ASSUME Base, UNCHANGED adlerVars
    PROVE  Inv' /\ sum_a' = sum_a /\ sum_b' = sum_b /\ summed' = summed /\ k' = k /\ data' = data
  BY DEF Base, adlerVars, Inv, AdlerTypeOK, Grown, Congruent, Reduced, SumsAreExact

\* The file as it is stored: whole, cut, or with another cell.
LEMMA Stored ==
    ASSUME Base, Write
    PROVE  \/ file' = Full(header) /\ damage' = "none"
           \/ /\ damage' = "cut" /\ file' \in Seq(Cells)
              /\ Len(file') < Len(Full(header)) - 1
              /\ \A i \in 1 .. Len(file') : file'[i] = Full(header)[i]
           \/ damage' = "changed" /\ file' \in Seq(Cells)
<1> DEFINE whole == UptoSum(header) \o Extra(header)
<1>1. header \in Headers /\ phase = "write" /\ Ready(header)
  BY DEF Base, HeaderTypeOK, Write
<1>2. Whole = whole
  BY <1>1, SumIsFinal
<1>3. Full(header) = whole \o Blocks
  BY DEF Full
<1>4. /\ whole \in Seq(Cells) /\ Len(whole) \in Nat
      /\ Len(Full(header)) = Len(whole) + 1
      /\ \A i \in 1 .. Len(whole) : Full(header)[i] = whole[i]
  <2>1. UptoSum(header) \in Seq(Cells) /\ Extra(header) \in Seq(Cells)
    BY <1>1, FullIs, ExtraIs
  <2>2. whole \in Seq(Cells)
    BY <2>1, Joined
  <2>3. Blocks \in Seq(Cells) /\ Len(Blocks) = 1
    BY DEF Blocks, Cells
  <2> HIDE DEF whole
  <2> QED BY <2>2, <2>3, <1>3, Joined, LenProperties
<1> HIDE DEF whole
<1>5. CASE file' = whole \o Blocks /\ damage' = "none"
  BY <1>3, <1>5
<1>6. CASE \E n \in 0 .. Len(whole) - 1 : file' = SubSeq(whole, 1, n) /\ damage' = "cut"
  <2>1. PICK n \in 0 .. Len(whole) - 1 : file' = SubSeq(whole, 1, n) /\ damage' = "cut"
    BY <1>6
  <2>2. /\ 1 \in Int /\ n \in Int /\ n - 1 + 1 = n /\ (1 <= n \/ n = 0)
        /\ \A i \in 1 .. n : i \in 1 .. Len(whole) /\ 1 + i - 1 = i
        /\ n < Len(whole)
    BY <1>4
  <2>3. \A i \in 1 .. n : whole[i] \in Cells
    BY <1>4, <2>2, ElementOfSeq
  <2>4. /\ file' \in Seq(Cells) /\ Len(file') = (IF 1 <= n THEN n - 1 + 1 ELSE 0)
        /\ \A i \in 1 .. n - 1 + 1 : file'[i] = whole[1 + i - 1]
    BY <2>1, <2>2, <2>3, SubSeqProperties
  <2>5. Len(file') = n /\ \A i \in 1 .. n : file'[i] = whole[i]
    BY <2>2, <2>4
  <2> QED BY <1>4, <2>1, <2>2, <2>4, <2>5
<1>7. CASE \E n \in 1 .. Len(whole) - Len(Extra(header)) : \E cell \in Others(whole[n]) :
              file' = [whole EXCEPT ![n] = cell] \o Blocks /\ damage' = "changed"
  <2>1. PICK n \in 1 .. Len(whole) - Len(Extra(header)) : \E cell \in Others(whole[n]) :
              file' = [whole EXCEPT ![n] = cell] \o Blocks /\ damage' = "changed"
    BY <1>7
  <2>2. PICK cell \in Others(whole[n]) :
              file' = [whole EXCEPT ![n] = cell] \o Blocks /\ damage' = "changed"
    BY <2>1
  <2>3. n \in 1 .. Len(whole)
    <3>1. Len(Extra(header)) \in Nat
      BY <1>1, ExtraIs, LenProperties
    <3> QED BY <3>1, <1>4
  <2>4. cell \in Cells
    BY DEF Others, Cells
  <2>5. [whole EXCEPT ![n] = cell] \in Seq(Cells)
    BY <1>4, <2>3, <2>4, ExceptSeq
  <2>6. Blocks \in Seq(Cells)
    BY DEF Blocks, Cells
  <2> QED BY <2>2, <2>5, <2>6, Joined
<1>8. \/ file' = whole \o Blocks /\ damage' = "none"
      \/ \E n \in 0 .. Len(whole) - 1 : file' = SubSeq(whole, 1, n) /\ damage' = "cut"
      \/ \E n \in 1 .. Len(whole) - Len(Extra(header)) : \E cell \in Others(whole[n]) :
              file' = [whole EXCEPT ![n] = cell] \o Blocks /\ damage' = "changed"
  BY <1>2 DEF Write
<1> QED BY <1>5, <1>6, <1>7, <1>8

LEMMA WriteKeeps ==
    ASSUME HeaderInv, Write
    PROVE  HeaderInv'
<1>1. Base
  BY DEF HeaderInv
<1>2. /\ header \in Headers /\ phase = "write" /\ phase' = "magic" /\ pos' = pos
      /\ header' = header /\ field' = field /\ got' = got /\ UNCHANGED adlerVars
  BY <1>1 DEF Write, Base, HeaderTypeOK
<1>3. \/ file' = Full(header) /\ damage' = "none"
      \/ /\ damage' = "cut" /\ file' \in Seq(Cells)
         /\ Len(file') < Len(Full(header)) - 1
         /\ \A i \in 1 .. Len(file') : file'[i] = Full(header)[i]
      \/ damage' = "changed" /\ file' \in Seq(Cells)
  BY <1>1, Stored
<1>4. Full(header) \in Seq(Cells) /\ Len(Full(header)) \in Nat
  BY <1>2, FullIs, LenProperties
<1>5. file' \in Seq(Cells) /\ damage' \in {"none", "cut", "changed"}
  BY <1>3, <1>4
<1>6. field = 1 /\ pos = 0 /\ pos' \in 0 .. Len(file')
  <2>1. field = 1 /\ pos = 0
    BY <1>1, <1>2 DEF Base, Fresh
  <2>2. Len(file') \in Nat
    BY <1>5, LenProperties
  <2> QED BY <1>2, <2>1, <2>2
<1>7. HeaderTypeOK'
  BY <1>1, <1>2, <1>5, <1>6 DEF Base, HeaderTypeOK
<1>8. Fresh' /\ SumsFollow'
  BY <1>2, <1>6 DEF Fresh, SumsFollow
<1>9. Inv'
  BY <1>1, <1>2, AdlerStays
<1>10. Reading'
  <2>1. damage' # "changed" => LaidOut'
    <3> SUFFICES ASSUME damage' # "changed"
                 PROVE  LaidOut'
      OBVIOUS
    <3>1. Full(header)' = Full(header)
      BY <1>2
    <3>2. Len(file') \in Nat
      BY <1>5, LenProperties
    <3>3. CASE file' = Full(header) /\ damage' = "none"
      BY <1>2, <1>4, <3>3 DEF LaidOut
    <3>4. CASE /\ damage' = "cut" /\ file' \in Seq(Cells)
               /\ Len(file') < Len(Full(header)) - 1
               /\ \A i \in 1 .. Len(file') : file'[i] = Full(header)[i]
      BY <1>2, <1>4, <3>2, <3>4 DEF LaidOut
    <3> QED BY <1>3, <3>3, <3>4
  <2> QED BY <1>2, <2>1 DEF Reading, ReadingFields, ReadingName, Comparing, ReadingExtra, Ended
<1> QED BY <1>7, <1>8, <1>9, <1>10 DEF HeaderInv, Base

\* A step of the reader that gives up or comes to the end.
LEMMA ReturnBase ==
    ASSUME Base, NEW result, Return(result)
    PROVE  Base'
<1>1. /\ UNCHANGED <<adlerVars, store, field, pos, got>> /\ phase' = "done"
  BY DEF Return
<1>2. Inv'
  BY <1>1, AdlerStays
<1>3. HeaderTypeOK'
  BY <1>1 DEF Base, HeaderTypeOK, store
<1> QED BY <1>1, <1>2, <1>3 DEF Base, Fresh, SumsFollow

LEMMA SeedFits == 1 \in 0 .. HALF - 1 /\ 0 \in 0 .. HALF - 1
  BY AdlerAssumption, HeaderAssumption DEF AdlerAssumption, HeaderAssumption

LEMMA ReadMagicBase ==
    ASSUME Base, ReadMagic
    PROVE  Base'
<1>1. CASE Return("NotLzo")
  BY <1>1, ReturnBase
<1>2. CASE /\ file # <<>> /\ phase' = "fields" /\ pos' = 1 /\ Call(<<>>, 1, 0)
           /\ UNCHANGED <<store, field, got, outcome>>
  <2>1. /\ data' = <<>> /\ summed' = 0 /\ k' = 0 /\ a' = 1 /\ b' = 0
        /\ sum_a' = 1 /\ sum_b' = 0 /\ data' \in Seq(0 .. BYTE)
    BY <1>2 DEF Call
  <2>2. Inv'
    BY <2>1, SeedFits, FreshInv
  <2>3. file \in Seq(Cells) /\ file # <<>>
    BY <1>2 DEF Base, HeaderTypeOK
  <2>4. 1 \in 0 .. Len(file)
    BY <2>3, EmptySeq
  <2>5. HeaderTypeOK'
    BY <1>2, <2>4 DEF Base, HeaderTypeOK, store
  <2>6. Fresh'
    BY <1>2, <2>1 DEF Fresh
  <2>7. SumsFollow'
    BY <2>1, StartOfSums DEF SumsFollow
  <2> QED BY <2>2, <2>5, <2>6, <2>7 DEF Base
<1> QED BY <1>1, <1>2 DEF ReadMagic

\* The cell under the cursor.
LEMMA Under ==
    ASSUME Base, NEW i \in 1 .. Len(file)
    PROVE  /\ file[i] \in Cells /\ AsByte(file[i]) \subseteq 0 .. BYTE
           /\ AsByte(file[i]) # {}
<1>1. file[i] \in Cells
  BY ElementOfSeq DEF Base, HeaderTypeOK
<1> QED BY <1>1, AsByteOfCell

LEMMA ReadFieldCases ==
    ASSUME Base, ReadField
    PROVE  /\ phase = "fields" /\ pos + 1 \in 1 .. Len(file)
           /\ \E byte \in AsByte(file[pos + 1]) :
                 LET h == [got EXCEPT ![Fields[field]] = byte]
                 IN  IF Unsupported(h, Fields[field]) THEN Return("Header")
                     ELSE /\ got' = h /\ pos' = pos + 1 /\ data' = data \o <<byte>>
                          /\ IF FieldsLeft(h) = {} THEN phase' = "name" /\ UNCHANGED field
                             ELSE /\ phase' = "fields" /\ field' \in FieldsLeft(h)
                                  /\ \A i \in FieldsLeft(h) : field' <= i
                          /\ UNCHANGED <<a, b, summed, k, sum_a, sum_b, store, outcome>>
<1>1. phase = "fields" /\ pos < Len(file)
  BY DEF ReadField
<1>2. pos + 1 \in 1 .. Len(file)
  <2>1. pos \in 0 .. Len(file) /\ Len(file) \in Nat
    BY LenProperties DEF Base, HeaderTypeOK
  <2> QED BY <1>1, <2>1
<1>3. PICK byte \in AsByte(file[pos + 1]) :
          LET h == [got EXCEPT ![Fields[field]] = byte]
          IN  IF Unsupported(h, Fields[field]) THEN Return("Header")
              ELSE /\ got' = h /\ pos' = pos + 1 /\ Seen(<<byte>>)
                   /\ IF FieldsLeft(h) = {} THEN phase' = "name" /\ UNCHANGED field
                      ELSE /\ field' = CHOOSE i \in FieldsLeft(h) :
                                          \A j \in FieldsLeft(h) : i <= j
                           /\ UNCHANGED phase
                   /\ UNCHANGED <<a, b, summed, k, sum_a, sum_b, store, outcome>>
  BY DEF ReadField
<1> DEFINE h == [got EXCEPT ![Fields[field]] = byte]
           left == FieldsLeft(h)
<1>4. left # {} => \E i \in left : \A j \in left : i <= j
  <2> SUFFICES ASSUME left # {}
               PROVE  \E i \in left : \A j \in left : i <= j
    OBVIOUS
  <2>1. left \subseteq field + 1 .. Len(Fields)
    BY DEF FieldsLeft
  <2>2. field \in Nat
    BY FieldsAre DEF Base, HeaderTypeOK
  <2> HIDE DEF left
  <2>3. left \subseteq Nat
    BY <2>1, <2>2, FieldsAre
  <2> QED BY <2>3, LeastNatural
<1>5. left # {} /\ field' = (CHOOSE i \in left : \A j \in left : i <= j) =>
          field' \in left /\ \A j \in left : field' <= j
  <2> HIDE DEF left
  <2> QED BY <1>4
<1> HIDE DEF left
<1>6. IF Unsupported(h, Fields[field]) THEN Return("Header")
      ELSE /\ got' = h /\ pos' = pos + 1 /\ data' = data \o <<byte>>
           /\ IF left = {} THEN phase' = "name" /\ UNCHANGED field
              ELSE /\ phase' = "fields" /\ field' \in left
                   /\ \A i \in left : field' <= i
           /\ UNCHANGED <<a, b, summed, k, sum_a, sum_b, store, outcome>>
  <2> HIDE DEF h
  <2> QED BY <1>1, <1>3, <1>5 DEF Seen, left, h
<1> QED BY <1>1, <1>2, <1>6 DEF left

LEMMA ReadFieldBase ==
    ASSUME Base, ReadField
    PROVE  Base'
<1>1. PICK byte \in AsByte(file[pos + 1]) :
         LET h == [got EXCEPT ![Fields[field]] = byte]
         IN  IF Unsupported(h, Fields[field]) THEN Return("Header")
             ELSE /\ got' = h /\ pos' = pos + 1 /\ data' = data \o <<byte>>
                  /\ IF FieldsLeft(h) = {} THEN phase' = "name" /\ UNCHANGED field
                     ELSE /\ phase' = "fields" /\ field' \in FieldsLeft(h)
                          /\ \A i \in FieldsLeft(h) : field' <= i
                  /\ UNCHANGED <<a, b, summed, k, sum_a, sum_b, store, outcome>>
  BY ReadFieldCases
<1>2. phase = "fields" /\ pos + 1 \in 1 .. Len(file)
  BY ReadFieldCases
<1>3. byte \in 0 .. BYTE
  BY <1>2, Under
<1>4. data \in Seq(0 .. BYTE) /\ summed = 0 /\ k = 0
  BY <1>2 DEF Base, Inv, AdlerTypeOK, Fresh
<1> DEFINE h == [got EXCEPT ![Fields[field]] = byte]
<1>5. CASE Return("Header")
  BY <1>5, ReturnBase
<1>6. CASE ~ Return("Header")
  <2>1. /\ got' = h /\ pos' = pos + 1 /\ data' = data \o <<byte>>
        /\ phase' \in {"name", "fields"}
        /\ field' = field \/ field' \in FieldsLeft(h)
        /\ UNCHANGED <<a, b, summed, k, sum_a, sum_b, store, outcome>>
    BY <1>1, <1>6
  <2>2. data' \in Seq(0 .. BYTE)
    <3>1. <<byte>> \in Seq(0 .. BYTE)
      BY <1>3
    <3> QED BY <1>4, <2>1, <3>1, ConcatProperties
  <2>3. Inv'
    BY <1>4, <2>1, <2>2, DataInv DEF Base
  <2>4. field' \in 1 .. Len(Fields)
    <3>1. field \in 1 .. 11
      BY FieldsAre DEF Base, HeaderTypeOK
    <3>2. FieldsLeft(h) \subseteq field + 1 .. 11
      BY FieldsAre DEF FieldsLeft
    <3> HIDE DEF h
    <3>3. field' = field \/ field' \in field + 1 .. 11
      BY <2>1, <3>2
    <3>4. field' \in 1 .. 11
      BY <3>1, <3>3
    <3> QED BY <3>4, FieldsAre
  <2>5. DOMAIN got' = FieldNames \cup {"name"} /\ got'.name_len \in 0 .. BYTE
    <3>1. DOMAIN got = FieldNames \cup {"name"} /\ got.name_len \in 0 .. BYTE
      BY DEF Base, HeaderTypeOK
    <3>2. got' = [got EXCEPT ![Fields[field]] = byte]
      BY <2>1
    <3>3. "name_len" \in DOMAIN got
      BY <3>1 DEF FieldNames
    <3>4. DOMAIN got' = DOMAIN got
      BY <3>2
    <3>5. got'.name_len = byte \/ got'.name_len = got.name_len
      BY <3>2, <3>3
    <3> QED BY <1>3, <3>1, <3>4, <3>5
  <2>6. HeaderTypeOK'
    BY <1>2, <2>1, <2>4, <2>5 DEF Base, HeaderTypeOK, store
  <2>7. Fresh'
    BY <1>4, <2>1 DEF Fresh
  <2>8. SumsFollow'
    <3>1. sum_a = Sums(data)[0][1] /\ sum_b = Sums(data)[0][2]
      BY <1>2, <1>4 DEF Base, SumsFollow
    <3>2. Sums(data)[0] = <<1, 0>> /\ Sums(data')[0] = <<1, 0>>
      BY <1>4, <2>2, SumsAre
    <3> QED BY <1>4, <2>1, <3>1, <3>2 DEF SumsFollow
  <2> QED BY <2>3, <2>6, <2>7, <2>8 DEF Base
<1> QED BY <1>5, <1>6

LEMMA ReadNameBase ==
    ASSUME Base, ReadName
    PROVE  Base'
<1> DEFINE len == got.name_len
           name == [i \in 1 .. len |-> CHOOSE x \in AsByte(file[pos + i]) : TRUE]
<1>1. /\ phase = "name" /\ pos + len <= Len(file) /\ phase' = "compare"
      /\ got' = [got EXCEPT !.name = name] /\ Call(data \o name, 1, 0)
      /\ pos' = pos + len /\ UNCHANGED <<store, field, outcome>>
  BY DEF ReadName
<1>2. len \in 0 .. BYTE /\ pos \in 0 .. Len(file) /\ Len(file) \in Nat /\ BYTE \in Nat
  BY AdlerAssumption, LenProperties DEF Base, HeaderTypeOK, AdlerAssumption
<1> HIDE DEF len
<1>3. name \in Seq(0 .. BYTE)
  <2>1. ASSUME NEW i \in 1 .. len
        PROVE  (CHOOSE x \in AsByte(file[pos + i]) : TRUE) \in 0 .. BYTE
    <3>1. pos + i \in 1 .. Len(file)
      BY <1>1, <1>2
    <3> QED BY <3>1, Under
  <2>2. name \in [1 .. len -> 0 .. BYTE]
    BY <2>1
  <2> HIDE DEF name
  <2> QED BY <1>2, <2>2
<1> HIDE DEF name
<1>4. /\ data' = data \o name /\ summed' = 0 /\ k' = 0 /\ a' = 1 /\ b' = 0
      /\ sum_a' = 1 /\ sum_b' = 0
  BY <1>1 DEF Call
<1>5. data' \in Seq(0 .. BYTE)
  BY <1>3, <1>4, ConcatProperties DEF Base, Inv, AdlerTypeOK
<1>6. Inv'
  BY <1>4, <1>5, SeedFits, FreshInv
<1>7. DOMAIN got' = FieldNames \cup {"name"} /\ got'.name_len = got.name_len
  BY <1>1 DEF Base, HeaderTypeOK, FieldNames
<1>8. pos' \in 0 .. Len(file)
  BY <1>1, <1>2
<1>9. HeaderTypeOK'
  BY <1>1, <1>7, <1>8 DEF Base, HeaderTypeOK, store
<1>10. SumsFollow'
  BY <1>4, <1>5, StartOfSums DEF SumsFollow
<1> QED BY <1>1, <1>6, <1>9, <1>10 DEF Base, Fresh

LEMMA CompareBase ==
    ASSUME Base, Compare
    PROVE  Base'
<1>1. CASE Return("Checksum")
  BY <1>1, ReturnBase
<1>2. CASE /\ phase = "compare" /\ pos < Len(file) /\ pos' = pos + 1
           /\ phase' \in {"extra", "done"} /\ UNCHANGED <<adlerVars, store, field, got>>
  <2>1. Inv'
    BY <1>2, AdlerStays
  <2>2. pos' \in 0 .. Len(file)
    <3>1. pos \in 0 .. Len(file) /\ Len(file) \in Nat
      BY LenProperties DEF Base, HeaderTypeOK
    <3> QED BY <3>1, <1>2
  <2>3. HeaderTypeOK'
    BY <1>2, <2>2 DEF Base, HeaderTypeOK, store
  <2> QED BY <1>2, <2>1, <2>3 DEF Base, Fresh, SumsFollow
<1> QED BY <1>1, <1>2 DEF Compare

LEMMA ReadExtraBase ==
    ASSUME Base, ReadExtra
    PROVE  Base'
<1>1. PICK len \in AsByte(file[pos + 1]) :
         /\ ExtraEnd(len) <= Len(file)
         /\ pos' = ExtraEnd(len) /\ phase' = "done" /\ outcome' = "ok"
  BY DEF ReadExtra
<1>2. UNCHANGED <<adlerVars, store, field, got>> /\ pos < Len(file)
  BY DEF ReadExtra
<1>3. pos \in 0 .. Len(file) /\ Len(file) \in Nat
  BY LenProperties DEF Base, HeaderTypeOK
<1>4. len \in Nat /\ MAX_BLOCK \in Nat
  <2>1. pos + 1 \in 1 .. Len(file)
    BY <1>2, <1>3
  <2>2. len \in 0 .. BYTE
    BY <1>1, <2>1, Under
  <2> QED BY <2>2, HeaderAssumption DEF HeaderAssumption
<1>5. pos' \in 0 .. Len(file)
  BY <1>1, <1>3, <1>4 DEF ExtraEnd
<1>6. Inv'
  BY <1>2, AdlerStays
<1>7. HeaderTypeOK'
  BY <1>1, <1>2, <1>5 DEF Base, HeaderTypeOK, store
<1> QED BY <1>1, <1>6, <1>7 DEF Base, Fresh, SumsFollow
-----------------------------------------------------------------------------
(* The reader, of a file that is whole or cut.                               *)

Readable == phase # "write" /\ damage # "changed" /\ Supported(header)

\* Of a header that read_header() can give back, what is there is what was written.
LEMMA WritesPresent ==
    ASSUME NEW h \in Headers, Supported(h), NEW i \in 1 .. 11
    PROVE  Writes(h, Fields[i]) <=> Present(h, Fields[i])
  BY DEF Supported, Writes, Present

LEMMA AlwaysPresent ==
    ASSUME NEW h
    PROVE  /\ Present(h, Fields[1]) /\ Present(h, Fields[6]) /\ Present(h, Fields[11])
           /\ Present(h, "version") /\ Present(h, "method") /\ Present(h, "flags")
           /\ Present(h, "mode") /\ Present(h, "low") /\ Present(h, "name_len")
  BY DEF Present, Fields

LEMMA ValuesAre ==
    ASSUME NEW h
    PROVE  /\ Value(h, "version") = h.version /\ Value(h, "method") = h.method
           /\ Value(h, "level") = h.level /\ Value(h, "flags") = h.flags
           /\ Value(h, "mode") = h.mode /\ Value(h, "low") = h.mtime % LOW
           /\ Value(h, "high") = h.mtime \div LOW /\ Value(h, "name_len") = Len(Name(h))
           /\ Value(h, "needed") <= NEWEST_READABLE
<1>1. VERSION_NEEDED <= NEWEST_READABLE /\ VERSION_NEEDED_CRC <= NEWEST_READABLE
  BY HeaderAssumption DEF HeaderAssumption
<1> QED BY <1>1 DEF Value

\* Fields that are not written come to nothing.
LEMMA Skipped ==
    ASSUME NEW h \in Headers, NEW m \in 0 .. 11, NEW n \in m .. 11,
           \A i \in m + 1 .. n : ~ Writes(h, Fields[i])
    PROVE  Prefix(h, n) = Prefix(h, m)
<1> DEFINE P == { j \in 0 .. n - m : Prefix(h, m + j) = Prefix(h, m) }
<1>1. 0 \in P
  <2>1. m + 0 = m /\ 0 \in 0 .. n - m
    OBVIOUS
  <2> QED BY <2>1
<1>2. ASSUME NEW j \in 1 .. n - m, j - 1 \in P
      PROVE  j \in P
  <2>1. /\ m + j \in 1 .. 11 /\ m + j \in m + 1 .. n /\ (m + j) - 1 = m + (j - 1)
        /\ j \in 0 .. n - m
    OBVIOUS
  <2>2. Prefix(h, m + j) = Prefix(h, (m + j) - 1)
    BY <2>1, Prefixes
  <2> QED BY <1>2, <2>1, <2>2
<1>3. n - m \in P
  <2> HIDE DEF P
  <2>1. n - m \in Nat /\ n - m \in 0 .. n - m
    OBVIOUS
  <2> QED BY <1>1, <1>2, <2>1, Climb
<1>4. m + (n - m) = n
  OBVIOUS
<1> QED BY <1>3, <1>4

\* What is on the file, as far as it goes.
LEMMA OnFile ==
    ASSUME HeaderInv, Readable
    PROVE  LET n == Len(HeaderBytes(header))
           IN  /\ n \in Nat /\ Len(file) \in Nat /\ header \in Headers
               /\ Len(Full(header)) = n + 2 + Len(Extra(header)) + 1
               /\ Len(UptoSum(header)) = n + 2 /\ Len(Extra(header)) \in Nat
               /\ \/ damage = "none" /\ Len(file) = n + 2 + Len(Extra(header)) + 1
                  \/ damage = "cut" /\ Len(file) < n + 2 + Len(Extra(header))
               /\ Len(file) > 0 => file[1] = Magic
               /\ \A j \in 1 .. n : j < Len(file) => file[1 + j] = <<"byte", HeaderBytes(header)[j]>>
               /\ n + 2 <= Len(file) => file[n + 2] = FinalCell(header)
               /\ Extra(header) # <<>> /\ n + 3 <= Len(file) => file[n + 3] = Extra(header)[1]
<1> DEFINE n == Len(HeaderBytes(header))
<1>1. /\ header \in Headers /\ file \in Seq(Cells) /\ damage \in {"none", "cut"} /\ LaidOut
      /\ Len(file) \in Nat
  BY LenProperties DEF HeaderInv, Base, HeaderTypeOK, Readable, Reading
<1>2. /\ Len(Full(header)) = n + 2 + Len(Extra(header)) + 1 /\ Len(UptoSum(header)) = n + 2
      /\ n \in Nat /\ Full(header)[1] = Magic
      /\ \A j \in 1 .. n : Full(header)[1 + j] = <<"byte", HeaderBytes(header)[j]>>
      /\ Full(header)[n + 2] = FinalCell(header)
      /\ Extra(header) # <<>> => Full(header)[n + 3] = Extra(header)[1]
  BY <1>1, FullIs
<1>3. Len(Extra(header)) \in Nat
  BY <1>1, ExtraIs, LenProperties
<1>4. /\ \A i \in 1 .. Len(file) : file[i] = Full(header)[i]
      /\ damage = "none" => Len(file) = Len(Full(header))
      /\ damage = "cut" => Len(file) < Len(Full(header)) - 1
  BY <1>1 DEF LaidOut
<1> HIDE DEF n
<1>5. \/ damage = "none" /\ Len(file) = n + 2 + Len(Extra(header)) + 1
      \/ damage = "cut" /\ Len(file) < n + 2 + Len(Extra(header))
  BY <1>1, <1>2, <1>3, <1>4
<1>6. Len(file) > 0 => file[1] = Magic
  BY <1>1, <1>2, <1>4
<1>7. \A j \in 1 .. n : j < Len(file) => file[1 + j] = <<"byte", HeaderBytes(header)[j]>>
  <2> SUFFICES ASSUME NEW j \in 1 .. n, j < Len(file)
               PROVE  file[1 + j] = <<"byte", HeaderBytes(header)[j]>>
    OBVIOUS
  <2>1. 1 + j \in 1 .. Len(file)
    BY <1>1, <1>2
  <2> QED BY <1>2, <1>4, <2>1
<1>8. n + 2 <= Len(file) => file[n + 2] = FinalCell(header)
  <2>1. n + 2 <= Len(file) => n + 2 \in 1 .. Len(file)
    BY <1>1, <1>2
  <2> QED BY <1>2, <1>4, <2>1
<1>9. Extra(header) # <<>> /\ n + 3 <= Len(file) => file[n + 3] = Extra(header)[1]
  <2>1. n + 3 <= Len(file) => n + 3 \in 1 .. Len(file)
    BY <1>1, <1>2
  <2> QED BY <1>2, <1>4, <2>1
<1> QED BY <1>1, <1>2, <1>3, <1>5, <1>6, <1>7, <1>8, <1>9 DEF n

\* The file stays as it is.
LEMMA StoreStays ==
    ASSUME HeaderInv, Readable, UNCHANGED store
    PROVE  /\ LaidOut /\ ReadingFields /\ ReadingName /\ Comparing /\ ReadingExtra /\ Ended
           /\ LaidOut' /\ header' = header /\ file' = file /\ damage' = damage
           /\ header \in Headers
<1>1. /\ LaidOut /\ ReadingFields /\ ReadingName /\ Comparing /\ ReadingExtra /\ Ended
      /\ header \in Headers
  BY DEF HeaderInv, Readable, Reading, Base, HeaderTypeOK
<1>2. header' = header /\ file' = file /\ damage' = damage
  BY DEF store
<1> QED BY <1>1, <1>2 DEF LaidOut

LEMMA SumReads ==
    ASSUME HeaderInv, Readable, Sum
    PROVE  Reading'
<1>1. UNCHANGED <<store, phase, field, pos, got, outcome>> /\ data' = data
  BY DEF Sum, SumByte, Reduce
<1>2. phase = "compare"
  BY DEF Sum, Readable
<1>3. /\ Comparing /\ LaidOut' /\ header' = header
  BY <1>1, StoreStays
<1>4. Comparing'
  BY <1>1, <1>2, <1>3 DEF Comparing, ReadAll, ReadUpto
<1> QED BY <1>1, <1>2, <1>3, <1>4
        DEF Reading, ReadingFields, ReadingName, ReadingExtra, Ended

LEMMA ReadMagicReads ==
    ASSUME HeaderInv, Readable, ReadMagic
    PROVE  Reading'
<1>1. phase = "magic" /\ UNCHANGED store /\ field' = field /\ got' = got
  BY DEF ReadMagic, Return
<1>2. LaidOut' /\ header' = header /\ file' = file /\ header \in Headers
  BY <1>1, StoreStays
<1>3. file \in Seq(Cells) /\ Len(file) \in Nat /\ (Len(file) > 0 => file[1] = Magic)
  BY OnFile, LenProperties DEF HeaderInv, Base, HeaderTypeOK
<1>4. CASE file = <<>>
  <2>1. outcome' = "NotLzo" /\ phase' = "done"
    BY <1>4 DEF ReadMagic, Return
  <2> QED BY <1>2, <1>4, <2>1
          DEF Reading, ReadingFields, ReadingName, Comparing, ReadingExtra, Ended
<1>5. CASE file # <<>>
  <2>1. Head(file) = Magic
    BY <1>3, <1>5, EmptySeq, HeadTailProperties
  <2>2. phase' = "fields" /\ pos' = 1 /\ data' = <<>>
    BY <1>5, <2>1 DEF ReadMagic, Call
  <2>3. field' = 1
    BY <1>1 DEF HeaderInv, Base, Fresh
  <2>4. ReadingFields'
    <3>1. Present(header, Fields[1])
      BY AlwaysPresent
    <3>2. Prefix(header, 0) = <<>>
      BY <1>2, Prefixes
    <3>3. ReadUpto(field - 1)'
      BY <2>3 DEF ReadUpto
    <3>4. pos' = 1 + Len(data')
      BY <2>2
    <3>5. data' = Prefix(header, field - 1)'
      BY <1>2, <2>2, <2>3, <3>2
    <3> QED BY <1>2, <2>3, <3>1, <3>3, <3>4, <3>5 DEF ReadingFields
  <2> QED BY <1>2, <2>2, <2>4 DEF Reading, ReadingName, Comparing, ReadingExtra, Ended
<1> QED BY <1>4, <1>5

\* A field that is read is what was written, and read_header() goes on.
LEMMA FieldRead ==
    ASSUME HeaderInv, Readable, phase = "fields", pos + 1 \in 1 .. Len(file),
           NEW byte \in AsByte(file[pos + 1])
    PROVE  LET h == [got EXCEPT ![Fields[field]] = byte]
           IN  /\ field \in 1 .. 11 /\ byte = Value(header, Fields[field])
               /\ ~ Unsupported(h, Fields[field])
               /\ data \o <<byte>> = Prefix(header, field)
               /\ Len(data \o <<byte>>) = Len(data) + 1
               /\ \A i \in 1 .. field :
                     Present(header, Fields[i]) => h[Fields[i]] = Value(header, Fields[i])
<1> DEFINE h == [got EXCEPT ![Fields[field]] = byte]
           f == Fields[field]
<1>1. /\ header \in Headers /\ ReadingFields
  BY DEF HeaderInv, Base, HeaderTypeOK, Readable, Reading
<1>2. /\ field \in 1 .. 11 /\ DOMAIN got = FieldNames \cup {"name"}
      /\ f \in FieldNames
  BY FieldsAre DEF HeaderInv, Base, HeaderTypeOK
<1>3. /\ Present(header, f) /\ ReadUpto(field - 1)
      /\ data = Prefix(header, field - 1) /\ pos = 1 + Len(data)
  BY <1>1 DEF ReadingFields
<1>4. Writes(header, f)
  BY <1>1, <1>2, <1>3, WritesPresent DEF Readable
<1>5. data \in Seq(0 .. BYTE) /\ Len(data) \in Nat
  BY LenProperties DEF HeaderInv, Base, Inv, AdlerTypeOK
<1>6. byte = Value(header, f)
  <2>1. /\ Len(data) + 1 \in 1 .. Len(HeaderBytes(header))
        /\ HeaderBytes(header)[Len(data) + 1] = Value(header, f)
    BY <1>1, <1>2, <1>3, <1>4, FieldIsAt
  <2>2. Len(data) + 1 < Len(file)
    BY <1>3, <1>5
  <2>3. file[1 + (Len(data) + 1)] = <<"byte", Value(header, f)>>
    BY <2>1, <2>2, OnFile
  <2>4. pos + 1 = 1 + (Len(data) + 1)
    BY <1>3, <1>5
  <2>5. AsByte(file[pos + 1]) = {Value(header, f)}
    BY <2>3, <2>4, AsByteOfByte
  <2> QED BY <2>5
<1>7. h[f] = byte /\ \A g \in FieldNames : g # f => h[g] = got[g]
  BY <1>2
<1>8. ~ Unsupported(h, f)
  <2>1. Supported(header)
    BY DEF Readable
  <2>2. f = "needed" => h.needed <= NEWEST_READABLE
    BY <1>6, <1>7, ValuesAre
  <2>3. f = "method" => h.method \in METHODS
    BY <1>6, <1>7, <2>1, ValuesAre DEF Supported
  <2>4. f = "flags" => ~ Asks(h, MULTIPART)
    BY <1>6, <1>7, <2>1, ValuesAre DEF Supported, Asks
  <2>5. f = "needed" => ~ (h.needed > NEWEST_READABLE)
    <3>1. Value(header, f) \in 0 .. BYTE
      BY <1>1, <1>2, ValueFits
    <3>2. NEWEST_READABLE \in Nat
      BY HeaderAssumption DEF HeaderAssumption
    <3> QED BY <1>6, <1>7, <2>2, <3>1, <3>2
  <2> QED BY <2>3, <2>4, <2>5 DEF Unsupported
<1>9. byte \in 0 .. BYTE
  BY <1>1, <1>2, <1>6, ValueFits
<1>10. data \o <<byte>> = Append(data, byte) /\ Len(data \o <<byte>>) = Len(data) + 1
  <2> HIDE DEF f, h
  <2> QED BY <1>5, <1>9, AppendIsConcat, AppendProperties
<1>11. Prefix(header, field) = Append(Prefix(header, field - 1), Value(header, f))
  BY <1>1, <1>2, <1>4, Prefixes
<1>12. data \o <<byte>> = Prefix(header, field)
  BY <1>3, <1>6, <1>10, <1>11
<1>13. \A i \in 1 .. field : Present(header, Fields[i]) => h[Fields[i]] = Value(header, Fields[i])
  <2> SUFFICES ASSUME NEW i \in 1 .. field, Present(header, Fields[i])
               PROVE  h[Fields[i]] = Value(header, Fields[i])
    OBVIOUS
  <2>1. CASE i = field
    BY <1>6, <1>7, <2>1
  <2>2. CASE i # field
    <3>1. i \in 1 .. field - 1 /\ i \in 1 .. 11
      BY <1>2, <2>2
    <3>2. Fields[i] \in FieldNames /\ Fields[i] # f
      BY <1>2, <2>2, <3>1, FieldsAre
    <3>3. got[Fields[i]] = Value(header, Fields[i])
      BY <1>3, <3>1 DEF ReadUpto
    <3> QED BY <1>7, <3>2, <3>3
  <2> QED BY <2>1, <2>2
<1> QED BY <1>2, <1>6, <1>8, <1>10, <1>12, <1>13

\* The next field is the same for the reader, who has seen the version and the
\* flags, as for the header.
LEMMA NextField ==
    ASSUME NEW h, Supported(header), header \in Headers, field \in 1 .. 11,
           \A i \in 1 .. field :
              Present(header, Fields[i]) => h[Fields[i]] = Value(header, Fields[i]),
           NEW n \in FieldsLeft(h), \A i \in FieldsLeft(h) : n <= i
    PROVE  /\ n \in field + 1 .. 11 /\ Present(header, Fields[n])
           /\ Prefix(header, n - 1) = Prefix(header, field)
           /\ \A i \in field + 1 .. n - 1 : ~ Present(header, Fields[i])
<1>1. /\ n \in field + 1 .. 11 /\ Present(h, Fields[n])
      /\ \A i \in field + 1 .. n - 1 : ~ Present(h, Fields[i])
  <2>1. FieldsLeft(h) = { i \in field + 1 .. 11 : Present(h, Fields[i]) }
    BY FieldsAre DEF FieldsLeft
  <2>2. n \in field + 1 .. 11 /\ Present(h, Fields[n])
    BY <2>1
  <2>3. ASSUME NEW i \in field + 1 .. n - 1, Present(h, Fields[i])
        PROVE  FALSE
    <3>1. i \in field + 1 .. 11 /\ ~ (n <= i)
      BY <2>2
    <3> QED BY <2>1, <2>3, <3>1
  <2> QED BY <2>2, <2>3
<1>2. h.version = header.version
  <2>1. 1 \in 1 .. field /\ Fields[1] = "version"
    BY FieldsAre
  <2>2. Present(header, Fields[1]) /\ Value(header, "version") = header.version
    BY AlwaysPresent, ValuesAre
  <2> QED BY <2>1, <2>2
<1>3. field >= 6 => h.flags = header.flags
  <2>1. field >= 6 => 6 \in 1 .. field
    OBVIOUS
  <2>2. Fields[6] = "flags"
    BY FieldsAre
  <2>3. Present(header, Fields[6]) /\ Value(header, "flags") = header.flags
    BY AlwaysPresent, ValuesAre
  <2> QED BY <2>1, <2>2, <2>3
<1>4. field < 6 => n <= 6
  <2>1. field < 6 => 6 \in field + 1 .. Len(Fields)
    BY FieldsAre
  <2>2. Present(h, Fields[6])
    BY AlwaysPresent
  <2> QED BY <2>1, <2>2 DEF FieldsLeft
<1>5. ASSUME NEW i \in field + 1 .. n
      PROVE  Present(h, Fields[i]) <=> Present(header, Fields[i])
  <2>1. i \in 1 .. 11
    BY <1>1
  <2>2. Fields[i] = "filter" => h.flags = header.flags
    <3>1. Fields[i] = "filter" => i = 7
      BY <2>1, FieldsAre
    <3>2. i = 7 => field >= 6
      BY <1>1, <1>4
    <3> QED BY <1>3, <3>1, <3>2
  <2> QED BY <1>2, <2>2 DEF Present, Asks
<1>6. /\ Present(header, Fields[n])
      /\ \A i \in field + 1 .. n - 1 : ~ Present(header, Fields[i])
  <2>1. n \in field + 1 .. n /\ \A i \in field + 1 .. n - 1 : i \in field + 1 .. n
    BY <1>1
  <2> QED BY <1>1, <1>5, <2>1
<1>7. Prefix(header, n - 1) = Prefix(header, field)
  <2>1. /\ field \in 0 .. 11 /\ n - 1 \in field .. 11
        /\ \A i \in field + 1 .. n - 1 : i \in 1 .. 11
    BY <1>1
  <2>2. \A i \in field + 1 .. n - 1 : ~ Writes(header, Fields[i])
    BY <1>6, <2>1, WritesPresent
  <2> QED BY <2>1, <2>2, Skipped
<1> QED BY <1>1, <1>6, <1>7

LEMMA ReadFieldReads ==
    ASSUME HeaderInv, Readable, ReadField
    PROVE  Reading'
<1>1. PICK byte \in AsByte(file[pos + 1]) :
         LET h == [got EXCEPT ![Fields[field]] = byte]
         IN  IF Unsupported(h, Fields[field]) THEN Return("Header")
             ELSE /\ got' = h /\ pos' = pos + 1 /\ data' = data \o <<byte>>
                  /\ IF FieldsLeft(h) = {} THEN phase' = "name" /\ UNCHANGED field
                     ELSE /\ phase' = "fields" /\ field' \in FieldsLeft(h)
                          /\ \A i \in FieldsLeft(h) : field' <= i
                  /\ UNCHANGED <<a, b, summed, k, sum_a, sum_b, store, outcome>>
  BY ReadFieldCases DEF HeaderInv
<1>2. phase = "fields" /\ pos + 1 \in 1 .. Len(file)
  BY ReadFieldCases DEF HeaderInv
<1> DEFINE h == [got EXCEPT ![Fields[field]] = byte]
<1>3. /\ field \in 1 .. 11 /\ ~ Unsupported(h, Fields[field])
      /\ data \o <<byte>> = Prefix(header, field)
      /\ Len(data \o <<byte>>) = Len(data) + 1
      /\ \A i \in 1 .. field :
            Present(header, Fields[i]) => h[Fields[i]] = Value(header, Fields[i])
  BY <1>2, FieldRead
<1>4. /\ got' = h /\ pos' = pos + 1 /\ data' = data \o <<byte>> /\ UNCHANGED store
      /\ IF FieldsLeft(h) = {} THEN phase' = "name" /\ UNCHANGED field
         ELSE /\ phase' = "fields" /\ field' \in FieldsLeft(h)
              /\ \A i \in FieldsLeft(h) : field' <= i
  BY <1>1, <1>3
<1> HIDE DEF h
<1>5. LaidOut' /\ header' = header /\ header \in Headers /\ Supported(header)
  BY <1>4, StoreStays DEF Readable
<1>6. data' = Prefix(header, field) /\ pos' = 1 + Len(data')
  <2>1. pos = 1 + Len(data) /\ Len(data) \in Nat
    BY <1>2, LenProperties DEF HeaderInv, Readable, Reading, ReadingFields, Base, Inv, AdlerTypeOK
  <2> QED BY <1>3, <1>4, <2>1
<1>7. CASE FieldsLeft(h) = {}
  <2>1. field = 11
    <3>1. Present(h, Fields[11]) /\ Len(Fields) = 11
      BY AlwaysPresent, FieldsAre
    <3>2. field # 11 => 11 \in field + 1 .. Len(Fields)
      BY <1>3, <3>1
    <3> QED BY <1>7, <3>1, <3>2 DEF FieldsLeft
  <2>2. ReadUpto(Len(Fields))'
    BY <1>3, <1>4, <1>5, <2>1, FieldsAre DEF ReadUpto
  <2>3. phase' = "name" /\ data' = Prefix(header, Len(Fields))
    BY <1>4, <1>6, <1>7, <2>1, FieldsAre
  <2>4. ReadingName'
    BY <1>5, <1>6, <2>2, <2>3 DEF ReadingName
  <2> QED BY <1>5, <2>3, <2>4 DEF Reading, ReadingFields, Comparing, ReadingExtra, Ended
<1>8. CASE FieldsLeft(h) # {}
  <2>1. /\ phase' = "fields" /\ field' \in FieldsLeft(h)
        /\ \A i \in FieldsLeft(h) : field' <= i
    BY <1>4, <1>8
  <2>2. /\ field' \in field + 1 .. 11 /\ Present(header, Fields[field'])
        /\ Prefix(header, field' - 1) = Prefix(header, field)
        /\ \A i \in field + 1 .. field' - 1 : ~ Present(header, Fields[i])
    BY <1>3, <1>5, <2>1, NextField
  <2>3. ReadUpto(field - 1)'
    <3>1. ASSUME NEW i \in 1 .. field' - 1, Present(header, Fields[i])
          PROVE  got'[Fields[i]] = Value(header, Fields[i])
      <4>1. i \in 1 .. field \/ i \in field + 1 .. field' - 1
        BY <1>3, <2>2
      <4> QED BY <1>3, <1>4, <2>2, <3>1, <4>1
    <3> QED BY <1>5, <3>1 DEF ReadUpto
  <2>4. ReadingFields'
    BY <1>5, <1>6, <2>2, <2>3 DEF ReadingFields
  <2> QED BY <1>5, <2>1, <2>4 DEF Reading, ReadingName, Comparing, ReadingExtra, Ended
<1> QED BY <1>7, <1>8

\* The two halves of a number make the number.
LEMMA LowAndHigh ==
    ASSUME NEW m \in Nat \ {0}, NEW x \in Nat
    PROVE  (x % m) + m * (x \div m) = x
  BY SMT

\* What all the fields say.
LEMMA FieldsRead ==
    ASSUME ReadUpto(11)
    PROVE  /\ got.name_len = Len(Name(header)) /\ got.version = header.version
           /\ got.method = header.method /\ got.flags = header.flags
           /\ got.mode = header.mode /\ got.low = header.mtime % LOW
           /\ header.version >= SINCE_NEEDED => /\ got.level = header.level
                                                /\ got.high = header.mtime \div LOW
<1>1. \A i \in 1 .. 11 : Present(header, Fields[i]) => got[Fields[i]] = Value(header, Fields[i])
  BY DEF ReadUpto
<1>2. /\ 1 \in 1 .. 11 /\ 4 \in 1 .. 11 /\ 5 \in 1 .. 11 /\ 6 \in 1 .. 11 /\ 8 \in 1 .. 11
      /\ 9 \in 1 .. 11 /\ 10 \in 1 .. 11 /\ 11 \in 1 .. 11
  OBVIOUS
<1>3. /\ Fields[1] = "version" /\ Fields[4] = "method" /\ Fields[5] = "level"
      /\ Fields[6] = "flags" /\ Fields[8] = "mode" /\ Fields[9] = "low"
      /\ Fields[10] = "high" /\ Fields[11] = "name_len"
  BY DEF Fields
<1>4. got["name_len"] = Value(header, "name_len")
  BY <1>1, <1>2, <1>3, AlwaysPresent
<1>5. got["version"] = Value(header, "version") /\ got["method"] = Value(header, "method")
  BY <1>1, <1>2, <1>3, AlwaysPresent
<1>6. got["flags"] = Value(header, "flags") /\ got["mode"] = Value(header, "mode")
  BY <1>1, <1>2, <1>3, AlwaysPresent
<1>7. got["low"] = Value(header, "low")
  BY <1>1, <1>2, <1>3, AlwaysPresent
<1>8. header.version >= SINCE_NEEDED =>
         got["level"] = Value(header, "level") /\ got["high"] = Value(header, "high")
  <2>1. header.version >= SINCE_NEEDED =>
           Present(header, "level") /\ Present(header, "high")
    BY DEF Present
  <2> QED BY <1>1, <1>2, <1>3, <2>1
<1> QED BY <1>4, <1>5, <1>6, <1>7, <1>8, ValuesAre

\* The name, cell by cell.
LEMMA ReadNameReads ==
    ASSUME HeaderInv, Readable, ReadName
    PROVE  Reading'
<1> DEFINE len == got.name_len
           name == [i \in 1 .. len |-> CHOOSE x \in AsByte(file[pos + i]) : TRUE]
           m == Len(Prefix(header, 11))
<1>1. /\ phase = "name" /\ pos + len <= Len(file) /\ phase' = "compare"
      /\ got' = [got EXCEPT !.name = name] /\ data' = data \o name
      /\ pos' = pos + len /\ UNCHANGED store
  BY DEF ReadName, Call
<1>2. /\ LaidOut' /\ header' = header /\ header \in Headers /\ ReadingName
      /\ DOMAIN got = FieldNames \cup {"name"}
  BY <1>1, StoreStays DEF HeaderInv, Base, HeaderTypeOK
<1>3. ReadUpto(11) /\ data = Prefix(header, 11) /\ pos = 1 + m
  BY <1>1, <1>2, FieldsAre DEF ReadingName
<1>4. len = Len(Name(header))
  BY <1>3, FieldsRead
<1>5. /\ Prefix(header, 11) \in Seq(0 .. BYTE) /\ m \in Nat
      /\ Name(header) \in Seq(0 .. BYTE) /\ len \in Nat
      /\ HeaderBytes(header) = Prefix(header, 11) \o Name(header)
  <2>1. Prefix(header, 11) \in Seq(0 .. BYTE) /\ m \in Nat
    <3>1. 11 \in 0 .. 11
      OBVIOUS
    <3> QED BY <1>2, <3>1, Prefixes, LenProperties
  <2>2. Name(header) \in Seq(0 .. BYTE) /\ len \in Nat
    <3>1. Name(header) \in Seq(0 .. BYTE)
      BY <1>2, NameFits
    <3> QED BY <1>4, <3>1, LenProperties
  <2> QED BY <1>2, <2>1, <2>2, HeaderBytesAre
<1> HIDE DEF len, m
<1>6. /\ Len(HeaderBytes(header)) = m + len
      /\ \A i \in 1 .. len : HeaderBytes(header)[m + i] = Name(header)[i]
  <2>1. /\ Len(HeaderBytes(header)) = m + len
        /\ \A i \in 1 .. m + len :
              HeaderBytes(header)[i] = IF i <= m THEN Prefix(header, 11)[i] ELSE Name(header)[i - m]
    BY <1>4, <1>5, ConcatProperties DEF m
  <2>2. \A i \in 1 .. len : m + i \in 1 .. m + len /\ ~ (m + i <= m) /\ (m + i) - m = i
    BY <1>5
  <2> QED BY <2>1, <2>2
<1>7. name = Name(header)
  <2>1. ASSUME NEW i \in 1 .. len
        PROVE  (CHOOSE x \in AsByte(file[pos + i]) : TRUE) = Name(header)[i]
    <3>1. m + i \in 1 .. Len(HeaderBytes(header)) /\ m + i < Len(file) /\ pos + i = 1 + (m + i)
      <4>1. Len(file) \in Nat
        BY OnFile
      <4>2. m + i \in 1 .. Len(HeaderBytes(header))
        BY <1>5, <1>6
      <4>3. pos + i = 1 + (m + i) /\ pos + i <= pos + len
        BY <1>3, <1>5
      <4>4. m + i < Len(file)
        BY <1>1, <1>3, <1>5, <4>1, <4>3
      <4> QED BY <4>2, <4>3, <4>4
    <3>2. file[pos + i] = <<"byte", Name(header)[i]>>
      BY <1>6, <3>1, OnFile
    <3>3. AsByte(file[pos + i]) = {Name(header)[i]}
      BY <3>2, AsByteOfByte
    <3> QED BY <3>3
  <2>2. name = [i \in 1 .. len |-> Name(header)[i]]
    BY <2>1
  <2>3. Name(header) = [i \in 1 .. len |-> Name(header)[i]]
    BY <1>4, <1>5
  <2> QED BY <2>2, <2>3
<1> HIDE DEF name
<1>8. data' = HeaderBytes(header)
  BY <1>1, <1>3, <1>5, <1>7
<1>9. pos' = 1 + Len(data')
  BY <1>1, <1>3, <1>5, <1>6, <1>8
<1>10. ReadAll'
  <2>1. got'.name = Name(header)
    BY <1>1, <1>2, <1>7
  <2>2. \A i \in 1 .. 11 : got'[Fields[i]] = got[Fields[i]]
    <3>1. \A i \in 1 .. 11 : Fields[i] \in DOMAIN got /\ Fields[i] # "name"
      BY <1>2, FieldsAre DEF FieldNames
    <3> QED BY <1>1, <3>1
  <2> QED BY <1>2, <1>3, <2>1, <2>2, FieldsAre DEF ReadAll, ReadUpto
<1>11. Comparing'
  BY <1>2, <1>8, <1>9, <1>10 DEF Comparing
<1> QED BY <1>1, <1>2, <1>11
        DEF Reading, ReadingFields, ReadingName, ReadingExtra, Ended

\* An extra field is another program's.
LEMMA ExtraIfAsked ==
    ASSUME NEW h \in Headers, Supported(h)
    PROVE  /\ HasExtra(h) <=> Asks(h, EXTRA_FIELD)
           /\ HasExtra(h) => /\ Len(Extra(h)) = h.extra + 2 /\ Extra(h) # <<>>
                             /\ Extra(h)[1] = <<"byte", h.extra>>
                             /\ h.extra \in Nat /\ h.extra <= MAX_BLOCK
           /\ ~ HasExtra(h) => Len(Extra(h)) = 0
<1>1. /\ HasExtra(h) <=> Asks(h, EXTRA_FIELD)
      /\ h.extra <= MAX_BLOCK
  BY DEF HasExtra, Supported
<1>2. /\ h.extra \in 0 .. BYTE /\ BYTE \in Nat
      /\ ~ HasExtra(h) => Extra(h) = <<>>
      /\ HasExtra(h) => Len(Extra(h)) = h.extra + 2 /\ Extra(h)[1] = <<"byte", h.extra>>
  BY ExtraIs, AdlerAssumption DEF AdlerAssumption
<1>3. Len(Extra(h)) # 0 => Extra(h) # <<>>
  OBVIOUS
<1>4. Extra(h) = <<>> => Len(Extra(h)) = 0
  OBVIOUS
<1> QED BY <1>1, <1>2, <1>3, <1>4

LEMMA CompareReads ==
    ASSUME HeaderInv, Readable, Compare
    PROVE  Reading'
<1> DEFINE n == Len(HeaderBytes(header))
<1>1. phase = "compare" /\ Ready(got) /\ pos < Len(file) /\ UNCHANGED store
  BY DEF Compare, Return
<1>2. /\ LaidOut' /\ header' = header /\ file' = file /\ damage' = damage
      /\ header \in Headers /\ Comparing
  BY <1>1, StoreStays
<1>3. ReadAll /\ data = HeaderBytes(header) /\ pos = 1 + n
  BY <1>1, <1>2 DEF Comparing
<1>4. got.flags = header.flags
  BY <1>3, FieldsAre, FieldsRead DEF ReadAll
<1>5. /\ n \in Nat /\ Len(file) \in Nat /\ Len(UptoSum(header)) = n + 2
      /\ Len(Full(header)) = n + 2 + Len(Extra(header)) + 1
      /\ n + 2 <= Len(file) => file[n + 2] = FinalCell(header)
      /\ \/ damage = "none"
         \/ damage = "cut" /\ Len(file) < n + 2 + Len(Extra(header))
  BY OnFile
<1> HIDE DEF n
<1>6. file[pos + 1] = FinalCell(header)
  <2>1. pos + 1 = n + 2 /\ n + 2 <= Len(file)
    BY <1>1, <1>3, <1>5
  <2> QED BY <1>5, <2>1
<1>7. SumCell(got) = FinalCell(header)
  BY <1>1, <1>3, <1>4, SumCellIs DEF HeaderInv
<1>8. /\ pos' = pos + 1 /\ got' = got
      /\ IF Asks(got, EXTRA_FIELD) THEN phase' = "extra"
         ELSE phase' = "done" /\ outcome' = "ok"
  BY <1>6, <1>7 DEF Compare
<1>9. pos' = n + 2
  BY <1>3, <1>5, <1>8
<1>10. ReadAll'
  BY <1>2, <1>3, <1>8 DEF ReadAll, ReadUpto
<1>11. Asks(got, EXTRA_FIELD) <=> Asks(header, EXTRA_FIELD)
  BY <1>4 DEF Asks
<1>12. CASE Asks(header, EXTRA_FIELD)
  <2>1. ReadingExtra'
    BY <1>2, <1>5, <1>9, <1>10, <1>12 DEF ReadingExtra
  <2> QED BY <1>2, <1>8, <1>11, <1>12, <2>1
          DEF Reading, ReadingFields, ReadingName, Comparing, Ended
<1>13. CASE ~ Asks(header, EXTRA_FIELD)
  <2>1. Len(Extra(header)) = 0
    BY <1>2, <1>13, ExtraIfAsked DEF Readable
  <2>2. damage = "none" /\ pos' = Len(Full(header)) - 1
    BY <1>1, <1>3, <1>5, <1>9, <2>1
  <2>3. Ended'
    BY <1>2, <1>8, <1>10, <1>11, <1>13, <2>2 DEF Ended
  <2> QED BY <1>2, <1>8, <1>11, <1>13, <2>3
          DEF Reading, ReadingFields, ReadingName, Comparing, ReadingExtra
<1> QED BY <1>12, <1>13

\* Where the extra field ends.
LEMMA ExtraRead ==
    ASSUME HeaderInv, Readable, phase = "extra"
    PROVE  /\ pos < Len(file) =>
                 \A len \in AsByte(file[pos + 1]) : ExtraEnd(len) = Len(Full(header)) - 1
           /\ damage = "none" => /\ pos < Len(file)
                                 /\ Len(Full(header)) - 1 <= Len(file)
           /\ damage = "cut" => Len(file) < Len(Full(header)) - 1
<1> DEFINE n == Len(HeaderBytes(header))
<1>1. /\ ReadingExtra /\ header \in Headers /\ Supported(header)
  BY DEF HeaderInv, Readable, Reading, Base, HeaderTypeOK
<1>2. Asks(header, EXTRA_FIELD) /\ pos = Len(UptoSum(header))
  BY <1>1 DEF ReadingExtra
<1>3. /\ Len(Extra(header)) = header.extra + 2 /\ Extra(header) # <<>>
      /\ Extra(header)[1] = <<"byte", header.extra>>
      /\ header.extra \in Nat /\ header.extra <= MAX_BLOCK
  BY <1>1, <1>2, ExtraIfAsked
<1>4. /\ n \in Nat /\ Len(file) \in Nat /\ Len(UptoSum(header)) = n + 2
      /\ Len(Full(header)) = n + 2 + Len(Extra(header)) + 1
      /\ Extra(header) # <<>> /\ n + 3 <= Len(file) => file[n + 3] = Extra(header)[1]
      /\ \/ damage = "none" /\ Len(file) = n + 2 + Len(Extra(header)) + 1
         \/ damage = "cut" /\ Len(file) < n + 2 + Len(Extra(header))
  BY OnFile
<1>5. MAX_BLOCK \in Nat
  BY HeaderAssumption DEF HeaderAssumption
<1> HIDE DEF n
<1>6. Len(Full(header)) - 1 = n + header.extra + 4 /\ pos = n + 2
  <2>1. /\ Len(Full(header)) = n + 2 + Len(Extra(header)) + 1 /\ Len(UptoSum(header)) = n + 2
        /\ Len(Extra(header)) = header.extra + 2 /\ n \in Nat /\ header.extra \in Nat
    BY <1>3, <1>4
  <2>2. pos = n + 2
    BY <1>2, <2>1
  <2> DEFINE x == header.extra
             whole == Len(Full(header))
  <2>3. whole = n + 2 + (x + 2) + 1 /\ n \in Nat /\ x \in Nat
    BY <2>1
  <2> HIDE DEF x, whole
  <2>4. whole - 1 = n + x + 4
    BY <2>3
  <2> QED BY <2>2, <2>4 DEF x, whole
<1>7. ASSUME pos < Len(file), NEW len \in AsByte(file[pos + 1])
      PROVE  ExtraEnd(len) = Len(Full(header)) - 1
  <2>1. pos + 1 = n + 3 /\ n + 3 <= Len(file)
    BY <1>4, <1>6, <1>7
  <2>2. file[pos + 1] = <<"byte", header.extra>>
    BY <1>3, <1>4, <2>1
  <2>3. len = header.extra
    BY <1>7, <2>2, AsByteOfByte
  <2>4. ExtraEnd(len) = pos + 1 + header.extra + 1
    BY <1>3, <1>5, <2>3 DEF ExtraEnd
  <2>5. ExtraEnd(len) = n + header.extra + 4
    <3>1. n \in Nat /\ header.extra \in Nat /\ pos = n + 2
      BY <1>3, <1>4, <1>6
    <3> QED BY <2>4, <3>1
  <2> QED BY <1>6, <2>5
<1> DEFINE x == header.extra
           size == Len(file)
<1>8. /\ n \in Nat /\ size \in Nat /\ x \in Nat /\ pos = n + 2
      /\ Len(Full(header)) - 1 = n + x + 4
      /\ damage = "none" => size = n + 2 + (x + 2) + 1
      /\ damage = "cut" => size < n + 2 + (x + 2)
  BY <1>3, <1>4, <1>6
<1> HIDE DEF x, size
<1>9. damage = "none" => pos < size /\ n + x + 4 <= size
  BY <1>8
<1>10. damage = "cut" => size < n + x + 4
  BY <1>8
<1> QED BY <1>7, <1>8, <1>9, <1>10 DEF size

LEMMA ReadExtraReads ==
    ASSUME HeaderInv, Readable, ReadExtra
    PROVE  Reading'
<1>1. phase = "extra" /\ pos < Len(file) /\ UNCHANGED store /\ got' = got
  BY DEF ReadExtra
<1>2. PICK len \in AsByte(file[pos + 1]) :
         /\ ExtraEnd(len) <= Len(file)
         /\ pos' = ExtraEnd(len) /\ phase' = "done" /\ outcome' = "ok"
  BY DEF ReadExtra
<1>3. /\ LaidOut' /\ header' = header /\ damage' = damage
      /\ header \in Headers /\ ReadingExtra /\ damage \in {"none", "cut"}
  BY <1>1, StoreStays DEF HeaderInv, Base, HeaderTypeOK, Readable
<1>4. pos' = Len(Full(header)) - 1 /\ pos' <= Len(file)
  BY <1>1, <1>2, ExtraRead
<1>5. damage = "none"
  <2>1. damage = "cut" => Len(file) < Len(Full(header)) - 1
    BY <1>1, ExtraRead
  <2>2. Len(file) \in Nat /\ Len(Full(header)) - 1 \in Int
    BY <1>3, FullIs, LenProperties DEF HeaderInv, Base, HeaderTypeOK
  <2> QED BY <1>3, <1>4, <2>1, <2>2
<1>6. ReadAll'
  BY <1>1, <1>3 DEF ReadingExtra, ReadAll, ReadUpto
<1>7. Ended'
  BY <1>2, <1>3, <1>4, <1>5, <1>6 DEF Ended
<1> QED BY <1>2, <1>3, <1>7
        DEF Reading, ReadingFields, ReadingName, Comparing, ReadingExtra

\* Only a file that was cut is too short, and then the magic was there.
LEMMA TruncatedReads ==
    ASSUME HeaderInv, Readable, Truncated
    PROVE  Reading'
<1> DEFINE n == Len(HeaderBytes(header))
<1>1. /\ phase' = "done" /\ outcome' = "Truncated" /\ UNCHANGED store
      /\ phase \in {"fields", "name", "compare", "extra"}
  BY DEF Truncated, Return
<1>2. /\ LaidOut' /\ header' = header /\ file' = file /\ damage' = damage
      /\ header \in Headers /\ damage \in {"none", "cut"} /\ Supported(header)
      /\ ReadingFields /\ ReadingName /\ Comparing /\ ReadingExtra
      /\ pos \in 0 .. Len(file) /\ field \in 1 .. 11 /\ data \in Seq(0 .. BYTE)
  BY <1>1, StoreStays, FieldsAre
     DEF HeaderInv, Base, HeaderTypeOK, Readable, Inv, AdlerTypeOK
<1>3. /\ n \in Nat /\ Len(file) \in Nat /\ Len(UptoSum(header)) = n + 2
      /\ damage = "none" => Len(file) > n + 2
  <2>1. /\ n \in Nat /\ Len(file) \in Nat /\ Len(UptoSum(header)) = n + 2
        /\ Len(Extra(header)) \in Nat
        /\ damage = "none" => Len(file) = n + 2 + Len(Extra(header)) + 1
    BY OnFile
  <2> HIDE DEF n
  <2> QED BY <2>1
<1>4. Len(data) \in Nat
  BY <1>2, LenProperties
<1>5. pos >= 1 /\ damage # "none"
  <2>1. CASE phase = "fields"
    <3>1. pos = Len(file)
      BY <2>1 DEF Truncated
    <3>2. /\ Present(header, Fields[field]) /\ data = Prefix(header, field - 1)
          /\ pos = 1 + Len(data)
      BY <1>2, <2>1 DEF ReadingFields
    <3>3. Len(data) + 1 \in 1 .. n
      BY <1>2, <3>2, WritesPresent, FieldIsAt
    <3> HIDE DEF n
    <3> QED BY <1>3, <1>4, <3>1, <3>2, <3>3
  <2>2. CASE phase = "name"
    <3>1. pos + got.name_len > Len(file)
      BY <2>2 DEF Truncated
    <3>2. ReadUpto(11) /\ data = Prefix(header, 11) /\ pos = 1 + Len(data)
      BY <1>2, <2>2, FieldsAre DEF ReadingName
    <3>3. got.name_len = Len(Name(header))
      BY <3>2, FieldsRead
    <3>4. n = Len(data) + Len(Name(header)) /\ Len(Name(header)) \in Nat
      BY <1>2, <3>2, HeaderBytesAre, Prefixes, NameFits, ConcatProperties, LenProperties
    <3> HIDE DEF n
    <3> QED BY <1>3, <1>4, <3>1, <3>2, <3>3, <3>4
  <2>3. CASE phase = "compare"
    <3>1. pos = Len(file)
      BY <2>3 DEF Truncated
    <3>2. data = HeaderBytes(header) /\ pos = 1 + Len(data)
      BY <1>2, <2>3 DEF Comparing
    <3> QED BY <1>3, <1>4, <3>1, <3>2
  <2>4. CASE phase = "extra"
    <3>1. pos < Len(file) => \E len \in AsByte(file[pos + 1]) : ExtraEnd(len) > Len(file)
      BY <2>4 DEF Truncated
    <3>2. Len(Full(header)) - 1 \in Int
      BY <1>2, FullIs, LenProperties
    <3>3. damage # "none"
      BY <1>3, <2>4, <3>1, <3>2, ExtraRead
    <3>4. pos = n + 2
      BY <1>2, <1>3, <2>4 DEF ReadingExtra
    <3> HIDE DEF n
    <3> QED BY <1>3, <3>3, <3>4
  <2> QED BY <1>1, <2>1, <2>2, <2>3, <2>4
<1>6. file # <<>>
  <2>1. Len(file) # 0
    BY <1>2, <1>3, <1>5
  <2> QED BY <2>1
<1>7. Ended'
  BY <1>1, <1>2, <1>5, <1>6 DEF Ended
<1> QED BY <1>1, <1>2, <1>7
        DEF Reading, ReadingFields, ReadingName, Comparing, ReadingExtra
-----------------------------------------------------------------------------
LEMMA StepKeeps == HeaderInv /\ [HeaderNext]_vars => HeaderInv'
<1> SUFFICES ASSUME HeaderInv, [HeaderNext]_vars
             PROVE  HeaderInv'
  OBVIOUS
<1>1. Base
  BY DEF HeaderInv
<1>2. CASE Write
  BY <1>2, WriteKeeps
<1>3. CASE ~ Write
  <2>1. Base'
    <3>1. CASE UNCHANGED vars
      <4>1. Inv'
        BY <1>1, <3>1, AdlerStays DEF vars
      <4>2. UNCHANGED <<adlerVars, store, phase, field, pos, got, outcome>>
        BY <3>1 DEF vars
      <4>3. HeaderTypeOK'
        BY <1>1, <4>2 DEF Base, HeaderTypeOK, store
      <4>4. Fresh' /\ SumsFollow'
        BY <1>1, <4>2 DEF Base, Fresh, SumsFollow, store, adlerVars
      <4> QED BY <4>1, <4>3, <4>4 DEF Base
    <3>2. CASE Truncated
      BY <1>1, <3>2, ReturnBase DEF Truncated
    <3> QED BY <1>1, <1>3, <3>1, <3>2, SumBase, ReadMagicBase, ReadFieldBase, ReadNameBase,
               CompareBase, ReadExtraBase DEF HeaderNext
  <2>2. UNCHANGED store /\ (phase = "write" => Sum \/ UNCHANGED vars)
    BY <1>3 DEF HeaderNext, Sum, ReadMagic, ReadField, ReadName, Compare, ReadExtra,
                Truncated, Return, vars
  <2>3. phase = "write" => phase' = "write"
    BY <2>2 DEF Sum, vars
  <2>4. ASSUME Readable
        PROVE  Reading'
    <3>1. CASE UNCHANGED vars
      <4>1. /\ LaidOut /\ ReadingFields /\ ReadingName /\ Comparing /\ ReadingExtra /\ Ended
            /\ LaidOut'
        BY <2>2, <2>4, StoreStays
      <4>2. UNCHANGED <<data, header, file, damage, phase, field, pos, got, outcome>>
        BY <3>1 DEF vars, adlerVars, store
      <4>3. /\ ReadingFields' /\ ReadingName' /\ Comparing'
        BY <4>1, <4>2 DEF ReadingFields, ReadingName, Comparing, ReadUpto, ReadAll
      <4>4. ReadingExtra' /\ Ended'
        BY <4>1, <4>2 DEF ReadingExtra, Ended, ReadUpto, ReadAll
      <4> QED BY <4>1, <4>3, <4>4 DEF Reading
    <3> QED BY <1>3, <2>4, <3>1, SumReads, ReadMagicReads, ReadFieldReads, ReadNameReads,
               CompareReads, ReadExtraReads, TruncatedReads DEF HeaderNext
  <2>5. ASSUME ~ Readable
        PROVE  Reading'
    <3>1. phase' # "write" /\ damage' # "changed" /\ Supported(header') => Readable
      BY <2>2, <2>3, <1>1 DEF Readable, store, HeaderTypeOK, Base
    <3> QED BY <2>5, <3>1 DEF Reading
  <2> QED BY <2>1, <2>4, <2>5 DEF HeaderInv
<1> QED BY <1>2, <1>3

\* The inductive invariant: what is summed, what is stored, and of a header that
\* read_header() can give back, how much has been read.
THEOREM HeaderInductive == HeaderSpec => []HeaderInv
<1>1. HeaderInit => HeaderInv
  BY InitBase
<1>2. HeaderInv /\ [HeaderNext]_vars => HeaderInv'
  BY StepKeeps
<1> QED BY <1>1, <1>2, PTL DEF HeaderSpec

\* In the sums of both passes over a header, those of the writer and of the
\* reader, the deferred reduction is exact (lzop.rs:181-197).
THEOREM HeaderSumsAreExact == HeaderSpec => []SumsAreExact
<1>1. HeaderInv => SumsAreExact
  BY DEF HeaderInv, Base, Inv
<1> QED BY <1>1, HeaderInductive, PTL

\* Table by table or bit by bit, the CRC of every header is the same
\* (lzop.rs:199-221).
THEOREM HeaderCrcIsExact == HeaderSpec => []CrcIsExact
<1>1. HeaderInv => CrcIsExact
  BY TableIsExact, LenProperties DEF HeaderInv, Base, Inv, AdlerTypeOK, CrcIsExact
<1> QED BY <1>1, HeaderInductive, PTL

\* A header that nothing has damaged comes back as it was written, and the
\* reader stops where the blocks begin (lzop.rs:230-260, 295-367).
THEOREM HeaderComesBack == HeaderSpec => []HeaderReadsBack
<1>1. ASSUME HeaderInv
      PROVE  HeaderReadsBack
  <2> SUFFICES ASSUME phase = "done", damage = "none", Supported(header)
               PROVE  /\ outcome = "ok" /\ pos = Len(file) - Len(Blocks)
                      /\ \A f \in {"version", "method", "flags", "mode"} : got[f] = header[f]
                      /\ got.name = Name(header)
                      /\ header.version >= SINCE_NEEDED =>
                            got.level = header.level /\ got.low + LOW * got.high = header.mtime
    BY DEF HeaderReadsBack
  <2>1. header \in Headers /\ file \in Seq(Cells) /\ LaidOut /\ Ended
    BY <1>1 DEF HeaderInv, Reading, Base, HeaderTypeOK
  <2>2. Len(file) = Len(Full(header)) /\ Len(file) > 0
    <3>1. Len(file) = Len(Full(header))
      BY <2>1 DEF LaidOut
    <3>2. Len(Full(header)) > 0
      <4>1. Full(header) = UptoSum(header) \o Extra(header) \o Blocks
        BY DEF Full
      <4>2. Readable
        BY DEF Readable
      <4> QED BY <1>1, <4>2, OnFile
    <3> QED BY <3>1, <3>2
  <2>3. outcome = "ok" /\ ReadAll /\ pos = Len(Full(header)) - 1
    BY <2>1, <2>2 DEF Ended
  <2>4. Len(Blocks) = 1
    BY DEF Blocks
  <2>5. ReadUpto(11) /\ got.name = Name(header)
    BY <2>3, FieldsAre DEF ReadAll
  <2>6. \A f \in {"version", "method", "flags", "mode"} : got[f] = header[f]
    BY <2>5, FieldsRead
  <2>7. ASSUME header.version >= SINCE_NEEDED
        PROVE  got.level = header.level /\ got.low + LOW * got.high = header.mtime
    <3>1. header.mtime \in 0 .. LOW * (BYTE + 1) - 1 /\ LOW \in 1 .. BYTE + 1 /\ BYTE \in Nat
      BY <2>1, HeaderAssumption, AdlerAssumption DEF HeaderAssumption, AdlerAssumption
    <3>2. header.mtime \in Nat /\ LOW \in Nat \ {0}
      <4>1. LOW * (BYTE + 1) - 1 \in Int
        BY <3>1
      <4> QED BY <3>1, <4>1
    <3>3. (header.mtime % LOW) + LOW * (header.mtime \div LOW) = header.mtime
      BY <3>2, LowAndHigh
    <3> QED BY <2>5, <2>7, <3>3, FieldsRead
  <2> QED BY <2>2, <2>3, <2>4, <2>5, <2>6, <2>7
<1> QED BY <1>1, HeaderInductive, PTL

\* A header that was cut is refused as "truncated", or as no .lzo file at all
\* when not even the magic is left (lzop.rs:126-131, 297-302).
THEOREM CutsAreTruncated == HeaderSpec => []CutIsTruncated
<1>1. HeaderInv => CutIsTruncated
  BY DEF HeaderInv, Reading, Ended, CutIsTruncated
<1> QED BY <1>1, HeaderInductive, PTL
=============================================================================
