----------------------- MODULE LengthExtensionProofs -----------------------
(* What LengthExtension states, for every length, increment and cap.         *)
EXTENDS LengthExtension, TLAPS

\* What n zero bytes are worth.  Below, only the lemmas about it are used, so
\* that no proof has to multiply.
Worth(n) == ZERO_RUN_INCREMENT * n

\* What the bytes on the way say of the length, and what each side knows.
Transmitted == Worth(zeros) + Base

IInv ==
    /\ TypeOK
    /\ phase = "emit" => left >= 1 /\ length = Transmitted + left /\ seen = 0
    /\ phase # "emit" => /\ last \in 1 .. ZERO_RUN_INCREMENT
                         /\ length = Transmitted + last
                         /\ seen <= zeros
    /\ phase \in {"read", "refused"} => len = instr.full + Worth(seen)
    /\ phase = "refused" => /\ seen < zeros
                            /\ len + ZERO_RUN_INCREMENT > MAX_EXTENDED_LENGTH
    /\ phase = "readback" => len = length
    /\ instr.name # "literals" => length <= MAX_MATCH

\* The instructions' fields are numbers.
LEMMA Fields == instr \in Instruction => instr.full \in Nat /\ instr.implied \in Nat
BY DEF Instruction

LEMMA WorthNat == ASSUME NEW n \in Nat PROVE Worth(n) \in Nat
BY LengthAssumption DEF Worth

LEMMA WorthNothing == Worth(0) = 0
BY LengthAssumption DEF Worth

\* Each zero byte counts once more for the increment.
LEMMA WorthOneMore ==
    ASSUME NEW n \in Nat PROVE Worth(n + 1) = Worth(n) + ZERO_RUN_INCREMENT
BY LengthAssumption DEF Worth

\* More zero bytes count for more.
LEMMA WorthMore ==
    ASSUME NEW m \in Nat, NEW n \in Nat, m < n
    PROVE  Worth(m) + ZERO_RUN_INCREMENT <= Worth(n)
<1> DEFINE k == n - (m + 1)
<1>1. k \in Nat /\ n = (m + 1) + k
  OBVIOUS
<1>2. Worth((m + 1) + k) = Worth(m + 1) + Worth(k)
  BY <1>1, LengthAssumption DEF Worth
<1> QED  BY <1>1, <1>2, WorthNat, WorthOneMore, LengthAssumption

LEMMA InitInvariant == Init => IInv
<1> SUFFICES ASSUME Init PROVE IInv
  OBVIOUS
<1>1. instr.full \in Nat /\ instr.implied \in Nat
  BY Fields DEF Init
<1> QED  BY <1>1, WorthNothing, LengthAssumption DEF Init, IInv, TypeOK, Transmitted, Base

LEMMA StepInvariant == IInv /\ [Next]_vars => IInv'
<1> SUFFICES ASSUME IInv, [Next]_vars PROVE IInv'
  OBVIOUS
<1>0. /\ instr.full \in Nat /\ instr.implied \in Nat
      /\ Worth(zeros) \in Nat /\ Worth(seen) \in Nat
      /\ ZERO_RUN_INCREMENT \in 1 .. 255
  BY WorthNat, Fields, LengthAssumption DEF IInv, TypeOK
<1>1. CASE EmitZero
  <2>1. Worth(zeros') = Worth(zeros) + ZERO_RUN_INCREMENT
    BY <1>1, WorthOneMore DEF EmitZero, IInv, TypeOK
  <2>2. TypeOK' /\ left' >= 1
    BY <1>0, <1>1 DEF EmitZero, IInv, TypeOK
  <2>3. Transmitted' + left' = Transmitted + left
    BY <1>0, <1>1, <2>1 DEF EmitZero, IInv, TypeOK, Transmitted, Base
  <2> QED  BY <1>1, <2>2, <2>3 DEF EmitZero, IInv
<1>2. CASE EmitLast
  <2>1. last' = left
    BY <1>0, <1>2 DEF EmitLast, IInv, TypeOK
  <2> QED  BY <1>0, <1>2, <2>1, WorthNothing DEF EmitLast, IInv, TypeOK, Transmitted, Base
<1>3. CASE ReadZero
  <2>1. Worth(seen') = Worth(seen) + ZERO_RUN_INCREMENT
    BY <1>3, WorthOneMore DEF ReadZero, IInv, TypeOK
  <2>2. TypeOK'
    BY <1>0, <1>3 DEF ReadZero, IInv, TypeOK
  <2>3. len' = instr.full + Worth(seen')
    BY <1>0, <1>3, <2>1 DEF ReadZero, IInv, TypeOK
  <2>4. Transmitted' = Transmitted
    BY <1>3 DEF ReadZero, Transmitted, Base
  <2> QED  BY <1>3, <2>2, <2>3, <2>4 DEF ReadZero, IInv, TypeOK
<1>4. CASE Refuse
  BY <1>0, <1>4 DEF Refuse, IInv, TypeOK, Transmitted, Base
<1>5. CASE ReadLast
  BY <1>0, <1>5 DEF ReadLast, IInv, TypeOK, Transmitted, Base
<1>6. CASE UNCHANGED vars
  BY <1>6 DEF vars, IInv, TypeOK, Transmitted, Base
<1> QED  BY <1>1, <1>2, <1>3, <1>4, <1>5, <1>6 DEF Next

THEOREM Invariant == Spec => []IInv
BY InitInvariant, StepInvariant, PTL DEF Spec

\* The numbers of either side keep their types (compress.rs:297-305,
\* lib.rs:244-258).
THEOREM TypeCorrect == Spec => []TypeOK
<1>1. IInv => TypeOK
  BY DEF IInv
<1> QED  BY <1>1, Invariant, PTL

\* Whatever the length and the field it is split over, the decoder reads back
\* the length the encoder wrote (compress.rs:297-305, lib.rs:244-258).
THEOREM LengthsAreReadBackExactly == Spec => []ReadBackExactly
<1>1. IInv => ReadBackExactly
  BY DEF IInv, ReadBackExactly
<1> QED  BY <1>1, Invariant, PTL

\* The terminating byte never looks like one of the run.
THEOREM ExtensionsNeverRunOn == Spec => []NeverRunsOn
<1>1. IInv => NeverRunsOn
  BY DEF IInv, NeverRunsOn
<1> QED  BY <1>1, Invariant, PTL

\* A length the cap does not exceed is never refused; with MAX_MATCH below
\* the cap, no match of the encoder is (compress.rs:50-54).
THEOREM TheCapSparesShorterLengths == Spec => []CapSparesShorterLengths
<1>1. IInv => CapSparesShorterLengths
  <2> SUFFICES ASSUME IInv, phase = "refused" PROVE length > MAX_EXTENDED_LENGTH
    BY DEF CapSparesShorterLengths
  <2>1. Worth(seen) + ZERO_RUN_INCREMENT <= Worth(zeros)
    BY WorthMore DEF IInv, TypeOK
  <2>2. Worth(seen) \in Nat /\ Worth(zeros) \in Nat
    BY WorthNat DEF IInv, TypeOK
  <2> QED  BY <2>1, <2>2, Fields, LengthAssumption DEF IInv, TypeOK, Transmitted, Base
<1> QED  BY <1>1, Invariant, PTL

\* No match is ever refused, since its length is capped well below the cap of
\* the decoder.
THEOREM NoMatchIsRefused == Spec => []MatchesAreNeverRefused
<1>1. IInv /\ CapSparesShorterLengths => MatchesAreNeverRefused
  BY LengthAssumption DEF IInv, TypeOK, CapSparesShorterLengths, MatchesAreNeverRefused
<1> QED  BY <1>1, Invariant, TheCapSparesShorterLengths, PTL
=============================================================================
