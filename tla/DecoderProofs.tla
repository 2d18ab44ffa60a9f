--------------------------- MODULE DecoderProofs ---------------------------
(* The safety of the decoder, for every stream, every bound and every value  *)
(* of the constants.  The invariant adds to what Decoder states what the     *)
(* check of copy_match promises to the copy that follows it: the bytes still *)
(* to be written fit, and the length is that of a real match.                *)
EXTENDS Decoder, TLAPS, SequenceTheorems

LengthKnown ==
    /\ pc = "literals" => len > 0
    /\ pc \in {"operand", "match", "copy"} => len >= 2

RestFits == pc = "copy" => Len(out) + (len - copied) <= max_out

NothingCopied == pc # "copy" => copied = 0

IInv == /\ TypeOK /\ OutputWithinBound /\ SentinelNotLive /\ CopyIsPeriodic
        /\ LengthKnown /\ RestFits /\ NothingCopied
-----------------------------------------------------------------------------
\* What the bit fields of a command byte can hold.
LEMMA Fields ==
    ASSUME NEW b \in Byte
    PROVE  /\ b % 4 \in 0 .. 3
           /\ b % 8 \in 0 .. 7 /\ b % 32 \in 0 .. 31
           /\ (b \div 4) % 8 \in Nat /\ (b \div 4) % 4 \in Nat
           /\ (b \div 32) % 4 \in Nat /\ (b \div 32) % 2 \in Nat
           /\ (b \div 8) % 2 \in 0 .. 1
BY DEF Byte

\* What the operand can hold.
LEMMA OperandFields ==
    ASSUME NEW a \in Byte, NEW b \in Byte
    PROVE  (a + 256 * b) % 4 \in 0 .. 3 /\ (a + 256 * b) \div 4 \in Nat
BY DEF Byte

\* An unread byte is a byte.
LEMMA NextByte ==
    ASSUME TypeOK, NEW k \in Nat \ {0}, Has(k)
    PROVE  At(k) \in Byte
<1>1. ip + k \in 1 .. Len(input)
  BY LenProperties DEF TypeOK, Has
<1> QED  BY <1>1, ElementOfSeq DEF TypeOK, At

\* Copying literals appends exactly the bytes it consumes last.
LEMMA LiteralsCopied ==
    ASSUME TypeOK, NEW skip \in Nat, NEW n \in Nat,
           CanCopyLiterals(skip, n), CopyLiterals(skip, n)
    PROVE  /\ out' \in Seq(Byte)
           /\ Len(out') = Len(out) + n
           /\ Len(out') <= max_out
           /\ ip' = ip + skip + n
           /\ ip' \in 0 .. Len(input)
           /\ out' = out \o SubSeq(input, ip' - n + 1, ip')
<1> DEFINE taken == SubSeq(input, ip + skip + 1, ip + skip + n)
<1>0. ip \in Nat /\ Len(input) \in Nat /\ Len(out) \in Nat /\ ip + (skip + n) <= Len(input)
  BY LenProperties DEF TypeOK, CanCopyLiterals, Has
<1>1. \A i \in ip + skip + 1 .. ip + skip + n : input[i] \in Byte
  BY <1>0, ElementOfSeq DEF TypeOK
<1>2. taken \in Seq(Byte) /\ Len(taken) = n
  BY <1>0, <1>1, SubSeqProperties
<1>3. out \o taken \in Seq(Byte) /\ Len(out \o taken) = Len(out) + n
  BY <1>2, ConcatProperties DEF TypeOK
<1>4. out' = out \o taken /\ ip' = ip + skip + n
  BY DEF CopyLiterals
<1>5. ip' - n + 1 = ip + skip + 1
  BY <1>0, <1>4
<1> QED  BY <1>0, <1>3, <1>4, <1>5 DEF CanCopyLiterals, Fits

LEMMA InitInvariant == Init => IInv
<1> SUFFICES ASSUME NEW i \in Inputs, NEW m \in Bounds, InitCall(i, m) PROVE IInv
  BY DEF Init
<1>1. input \in Seq(Byte) /\ max_out \in Nat /\ Len(input) \in Nat
  BY DecoderAssumption, LenProperties DEF InitCall
<1>2. out \in Seq(Byte) /\ Len(out) = 0
  BY EmptySeq DEF InitCall
<1> QED  BY <1>1, <1>2 DEF InitCall, IInv, TypeOK, OutputWithinBound, SentinelNotLive,
            CopyIsPeriodic, LengthKnown, RestFits, NothingCopied, Phases, Verdicts,
            LONG_LITERAL_RUN_STATE

\* The registers alone do not disturb what is said of the output.
LEMMA OutputUntouched ==
    ASSUME IInv, UNCHANGED <<args, out, copied>>, pc # "copy", pc' # "copy",
           TypeOK', SentinelNotLive', LengthKnown'
    PROVE  IInv'
BY DEF IInv, OutputWithinBound, CopyIsPeriodic, RestFits, NothingCopied, args

\* A decoded command: where it may go, and what it knows by then.
LEMMA CommandDecoded ==
    ASSUME IInv, UNCHANGED <<args, out, copied>>, pc = "command",
           ip' \in 0 .. Len(input), len' \in Nat, dist' \in Nat,
           arm' \in {"short", "tiny", "literals", "C", "D"},
           \/ pc' = "match" /\ len' >= 2 /\ state' \in 0 .. 3
           \/ pc' = "operand" /\ len' >= 2 /\ state' = state
           \/ pc' = "extend" /\ len' <= MAX_EXTENDED_LENGTH /\ state' = state
           \/ pc' = "literals" /\ len' > 0 /\ state' = state
    PROVE  IInv'
<1>1. TypeOK'
  BY DEF IInv, TypeOK, Phases, args, LONG_LITERAL_RUN_STATE
<1>2. SentinelNotLive'
  BY DEF IInv, SentinelNotLive, LONG_LITERAL_RUN_STATE
<1>3. LengthKnown'
  BY DEF LengthKnown
<1> QED  BY <1>1, <1>2, <1>3, OutputUntouched

\* The cursor after n bytes that can be read.
LEMMA Advance ==
    ASSUME TypeOK, NEW n \in Nat, Has(n), ip' = ip + n
    PROVE  ip' \in 0 .. Len(input)
BY LenProperties DEF TypeOK, Has

\* The decoding of commands.
LEMMA CommandsKeepInvariant ==
    IInv /\ (ShortMatch \/ MatchC \/ MatchD \/ LiteralRun \/ TinyMatch) => IInv'
<1> SUFFICES ASSUME IInv, ShortMatch \/ MatchC \/ MatchD \/ LiteralRun \/ TinyMatch
             PROVE  IInv'
  OBVIOUS
<1> DEFINE t == At(1)
<1>0. /\ TypeOK /\ ip \in Nat /\ Len(input) \in Nat /\ len \in Nat /\ dist \in Nat
      /\ MAX_EXTENDED_LENGTH \in Nat /\ MAX_EXTENDED_LENGTH >= 31
  BY LenProperties, DecoderAssumption DEF IInv, TypeOK
<1>1. CASE ShortMatch
  <2>1. t \in Byte /\ At(2) \in Byte
    BY <1>0, <1>1, NextByte DEF ShortMatch, Has
  <2>2. /\ t % 4 \in 0 .. 3 /\ (t \div 4) % 8 \in Nat
        /\ (t \div 32) % 4 \in Nat /\ (t \div 32) % 2 \in Nat /\ At(2) \in Nat
    BY <2>1, Fields DEF Byte
  <2>3. dist' \in Nat /\ len' \in Nat /\ len' >= 2 /\ state' \in 0 .. 3
    BY <1>1, <2>2 DEF ShortMatch
  <2>4. ip' \in 0 .. Len(input)
    BY <1>0, <1>1, Advance DEF ShortMatch
  <2>5. arm' = "short" /\ pc' = "match" /\ pc = "command" /\ UNCHANGED <<args, out, copied>>
    BY <1>1 DEF ShortMatch
  <2> QED  BY <2>3, <2>4, <2>5, CommandDecoded
<1>2. CASE MatchC
  <2>1. t % 32 \in 0 .. 31
    BY <1>0, <1>2, NextByte, Fields DEF MatchC
  <2>2. \/ pc' = "extend" /\ len' \in Nat /\ len' <= MAX_EXTENDED_LENGTH
        \/ pc' = "operand" /\ len' \in Nat /\ len' >= 2
    <3> DEFINE field == t % 32
    <3>1. \/ len' = 31 /\ pc' = "extend"
          \/ field # 0 /\ len' = field + 2 /\ pc' = "operand"
      BY <1>2 DEF MatchC, LongMatch
    <3>2. field \in 0 .. 31
      BY <2>1
    <3> HIDE DEF field
    <3> QED  BY <1>0, <3>1, <3>2
  <2>3. ip' \in 0 .. Len(input)
    BY <1>0, <1>2, Advance DEF MatchC, LongMatch
  <2> QED  BY <1>2, <2>2, <2>3, CommandDecoded DEF MatchC, LongMatch
<1>3. CASE MatchD
  <2>1. t % 8 \in 0 .. 7 /\ (t \div 8) % 2 \in 0 .. 1
    BY <1>0, <1>3, NextByte, Fields DEF MatchD
  <2>2. \/ pc' = "extend" /\ len' \in Nat /\ len' <= MAX_EXTENDED_LENGTH
        \/ pc' = "operand" /\ len' \in Nat /\ len' >= 2
    BY <1>0, <1>3, <2>1 DEF MatchD, LongMatch
  <2>3. dist' \in Nat
    <3>1. ((t \div 8) % 2) * DISTANCE_FIELD \in Nat
      BY <2>1, DecoderAssumption
    <3> QED  BY <1>3, <3>1, DecoderAssumption DEF MatchD, LongMatch
  <2>4. ip' \in 0 .. Len(input)
    BY <1>0, <1>3, Advance DEF MatchD, LongMatch
  <2> QED  BY <1>3, <2>2, <2>3, <2>4, CommandDecoded DEF MatchD, LongMatch
<1>4. CASE LiteralRun
  <2>1. t \in Nat
    <3>1. t \in Byte
      BY <1>0, <1>4, NextByte DEF LiteralRun
    <3> QED  BY <3>1 DEF Byte
  <2>2. \/ pc' = "extend" /\ len' \in Nat /\ len' <= MAX_EXTENDED_LENGTH
        \/ pc' = "literals" /\ len' \in Nat /\ len' > 0
    BY <1>0, <1>4, <2>1 DEF LiteralRun
  <2>3. ip' \in 0 .. Len(input)
    BY <1>0, <1>4, Advance DEF LiteralRun
  <2> QED  BY <1>0, <1>4, <2>2, <2>3, CommandDecoded DEF LiteralRun
<1>5. CASE TinyMatch
  <2>1. t \in Byte /\ At(2) \in Byte
    BY <1>0, <1>5, NextByte DEF TinyMatch, Has
  <2>2. t % 4 \in 0 .. 3 /\ (t \div 4) % 4 \in Nat /\ At(2) \in Nat
    BY <2>1, Fields DEF Byte
  <2>3. dist' \in Nat /\ len' \in Nat /\ len' >= 2 /\ state' \in 0 .. 3
    BY <1>5, <2>2, DecoderAssumption DEF TinyMatch
  <2>4. ip' \in 0 .. Len(input)
    BY <1>0, <1>5, Advance DEF TinyMatch
  <2> QED  BY <1>5, <2>3, <2>4, CommandDecoded DEF TinyMatch
<1> QED  BY <1>1, <1>2, <1>3, <1>4, <1>5

\* Length extensions and operands.
LEMMA OperandsKeepInvariant ==
    IInv /\ (ExtendZero \/ ExtendLast \/ Operand) => IInv'
<1> SUFFICES ASSUME IInv, ExtendZero \/ ExtendLast \/ Operand PROVE IInv'
  OBVIOUS
<1>0. TypeOK /\ ip \in Nat /\ len \in Nat /\ dist \in Nat
  BY DEF IInv, TypeOK
<1>1. CASE ExtendZero
  <2>1. ip' \in 0 .. Len(input)
    BY <1>0, <1>1, Advance DEF ExtendZero
  <2>2. TypeOK'
    BY <1>0, <1>1, <2>1, DecoderAssumption DEF ExtendZero, TypeOK, args
  <2> QED  BY <1>1, <2>2, OutputUntouched DEF ExtendZero, SentinelNotLive, LengthKnown
<1>2. CASE ExtendLast
  <2>1. At(1) \in Nat
    BY <1>0, <1>2, NextByte DEF ExtendLast, Byte
  <2>2. len' \in Nat /\ len' >= 2 /\ pc' \in {"literals", "operand"}
    BY <1>0, <1>2, <2>1 DEF ExtendLast
  <2>3. ip' \in 0 .. Len(input)
    BY <1>0, <1>2, Advance DEF ExtendLast
  <2>4. TypeOK'
    BY <1>0, <1>2, <2>2, <2>3 DEF ExtendLast, TypeOK, args, Phases
  <2> QED  BY <1>2, <2>2, <2>4, OutputUntouched DEF ExtendLast, SentinelNotLive, LengthKnown
<1>3. CASE Operand
  <2> DEFINE op == At(1) + 256 * At(2)
  <2>1. op % 4 \in 0 .. 3 /\ op \div 4 \in Nat
    BY <1>0, <1>3, NextByte, OperandFields DEF Operand, Has
  <2>2. \/ pc' = "ok" /\ dist' = dist /\ state' = state
        \/ pc' = "match" /\ dist' \in Nat /\ state' \in 0 .. 3
    BY <1>0, <1>3, <2>1 DEF Operand
  <2>3. ip' \in 0 .. Len(input)
    BY <1>0, <1>3, Advance DEF Operand
  <2>4. TypeOK'
    BY <1>0, <1>3, <2>2, <2>3 DEF Operand, TypeOK, args, Phases, Verdicts, LONG_LITERAL_RUN_STATE
  <2>5. SentinelNotLive' /\ LengthKnown'
    BY <1>3, <2>2 DEF Operand, IInv, SentinelNotLive, LengthKnown, LONG_LITERAL_RUN_STATE
  <2> QED  BY <1>3, <2>2, <2>4, <2>5, OutputUntouched DEF Operand
<1> QED  BY <1>1, <1>2, <1>3

\* The actions that write literals; none of them is in the middle of a copy.
LEMMA LiteralsKeepInvariant == IInv /\ (Bootstrap \/ Literals \/ Trailing) => IInv'
<1> SUFFICES ASSUME IInv, Bootstrap \/ Literals \/ Trailing PROVE IInv'
  OBVIOUS
<1>0. TypeOK /\ ip \in Nat /\ len \in Nat /\ dist \in Nat /\ state \in Nat
  BY DEF IInv, TypeOK, LONG_LITERAL_RUN_STATE
<1>1. SUFFICES /\ out' \in Seq(Byte) /\ Len(out') <= max_out
               /\ ip' \in 0 .. Len(input)
               /\ state' \in 0 .. LONG_LITERAL_RUN_STATE
  <2>1. /\ pc' = "command" /\ pc # "copy"
        /\ UNCHANGED <<args, arm, len, dist, copied>>
    BY DEF Bootstrap, Literals, Trailing
  <2>2. TypeOK'
    BY <1>0, <1>1, <2>1 DEF TypeOK, args, Phases
  <2> QED  BY <1>1, <2>1, <2>2 DEF IInv, OutputWithinBound, SentinelNotLive, CopyIsPeriodic,
              LengthKnown, RestFits, NothingCopied, args
<1>2. CASE Bootstrap
  <2>0. At(1) \in Nat
    <3>1. At(1) \in Byte
      BY <1>0, <1>2, NextByte DEF Bootstrap
    <3> QED  BY <3>1 DEF Byte
  <2>1. CASE At(1) < 18
    BY <1>0, <1>2, <2>0, <2>1 DEF Bootstrap, LeadingState, IInv, TypeOK, OutputWithinBound, LONG_LITERAL_RUN_STATE
  <2>2. CASE At(1) >= 18
    <3> DEFINE n == At(1) - 17
    <3>1. n \in Nat
      BY <2>0, <2>2
    <3>2. CanCopyLiterals(1, n) /\ CopyLiterals(1, n)
      BY <1>2, <2>0, <2>2 DEF Bootstrap
    <3>3. state' \in 0 .. LONG_LITERAL_RUN_STATE
      BY <1>2, <2>0, <2>2, <3>1 DEF Bootstrap, LeadingState, LONG_LITERAL_RUN_STATE
    <3> QED  BY <1>0, <3>1, <3>2, <3>3, LiteralsCopied
  <2> QED  BY <2>0, <2>1, <2>2
<1>3. CASE Literals
  BY <1>0, <1>3, LiteralsCopied DEF Literals, LONG_LITERAL_RUN_STATE
<1>4. CASE Trailing
  BY <1>0, <1>4, LiteralsCopied DEF Trailing, IInv, TypeOK
<1> QED  BY <1>2, <1>3, <1>4

LEMMA CopyMatchKeepsInvariant == IInv /\ CopyMatch => IInv'
<1> SUFFICES ASSUME IInv, CopyMatch PROVE IInv'
  OBVIOUS
<1>1. /\ UNCHANGED <<args, out, copied>> /\ copied = 0 /\ len >= 2
      /\ dist \in 1 .. Len(out) /\ Len(out) + len <= max_out /\ Len(out) \in Nat
      /\ dist' = dist /\ len' = len /\ pc' = "copy" /\ pc = "match"
  BY LenProperties DEF CopyMatch, CanCopyMatch, Fits, IInv, TypeOK, NothingCopied, LengthKnown
<1>2. TypeOK'
  BY DEF CopyMatch, IInv, TypeOK, Phases, args
<1>3. CopyIsPeriodic' /\ RestFits'
  BY <1>1 DEF CopyIsPeriodic, RestFits, args, IInv, TypeOK
<1> QED  BY <1>1, <1>2, <1>3 DEF CopyMatch, IInv, OutputWithinBound, SentinelNotLive,
            LengthKnown, NothingCopied, args

\* The byte written is the byte `dist` before it, so the copy stays periodic.
LEMMA ByteCopied ==
    ASSUME IInv, CopyByte
    PROVE  /\ out' \in Seq(Byte) /\ Len(out') = Len(out) + 1 /\ Len(out) \in Nat
           /\ \A i \in 1 .. Len(out) : out'[i] = out[i]
           /\ out'[Len(out) + 1] = out[Len(out) + 1 - dist]
<1>1. Len(out) \in Nat /\ dist \in 1 .. Len(out) /\ out \in Seq(Byte)
  BY LenProperties DEF IInv, TypeOK, CopyIsPeriodic, CopyByte
<1>2. out[Len(out) + 1 - dist] \in Byte
  BY <1>1, ElementOfSeq
<1> QED  BY <1>1, <1>2, AppendProperties DEF CopyByte

LEMMA CopyByteKeepsInvariant == IInv /\ CopyByte => IInv'
<1> SUFFICES ASSUME IInv, CopyByte PROVE IInv'
  OBVIOUS
<1>0. /\ TypeOK /\ pc = "copy" /\ copied < len /\ len >= 2 /\ state < LONG_LITERAL_RUN_STATE
      /\ dist \in 1 .. Len(out) - copied
      /\ Len(out) + (len - copied) <= max_out
      /\ \A i \in Len(out) - copied + 1 .. Len(out) : out[i] = out[i - dist]
      /\ copied \in Nat /\ len \in Nat /\ dist \in Nat /\ max_out \in Nat
  BY DEF CopyByte, IInv, CopyIsPeriodic, RestFits, LengthKnown, TypeOK, SentinelNotLive
<1>1. /\ out' \in Seq(Byte) /\ Len(out') = Len(out) + 1 /\ Len(out) \in Nat
      /\ \A i \in 1 .. Len(out) : out'[i] = out[i]
      /\ out'[Len(out) + 1] = out[Len(out) + 1 - dist]
  BY ByteCopied
<1>2. UNCHANGED <<args, ip, state, arm, len, dist>>
  BY DEF CopyByte
<1>3. CASE copied + 1 < len
  <2>1. copied' = copied + 1 /\ pc' = "copy"
    BY <1>3 DEF CopyByte
  <2>2. TypeOK'
    BY <1>0, <1>1, <1>2, <2>1 DEF TypeOK, args
  <2>3. OutputWithinBound' /\ RestFits'
    BY <1>0, <1>1, <1>2, <1>3, <2>1 DEF OutputWithinBound, RestFits, args
  <2>4. CopyIsPeriodic'
    <3>1. Len(out') - copied' = Len(out) - copied
      BY <1>0, <1>1, <2>1
    <3>2. ASSUME NEW i \in Len(out) - copied + 1 .. Len(out) + 1
          PROVE  out'[i] = out'[i - dist]
      <4>1. i \in 1 .. Len(out) + 1 /\ i - dist \in 1 .. Len(out)
        BY <1>0, <1>1
      <4>0. out'[i - dist] = out[i - dist]
        BY <1>1, <4>1
      <4>2. CASE i = Len(out) + 1
        <5>1. i - dist = Len(out) + 1 - dist
          BY <1>0, <1>1, <4>2
        <5> QED  BY <1>1, <4>0, <4>2, <5>1
      <4>3. CASE i # Len(out) + 1
        <5>0. Len(out) \in Nat /\ copied \in Nat /\ i \in Nat
          BY <1>0, <1>1, <4>1
        <5>1. i \in Len(out) - copied + 1 .. Len(out) /\ i \in 1 .. Len(out)
          BY <4>1, <4>3, <5>0
        <5>2. out'[i] = out[i] /\ out[i] = out[i - dist]
          BY <1>0, <1>1, <5>1
        <5> QED  BY <4>0, <5>2
      <4> QED  BY <4>2, <4>3
    <3> QED  BY <1>0, <1>1, <1>2, <1>3, <2>1, <3>1, <3>2 DEF CopyIsPeriodic
  <2> QED  BY <1>0, <1>2, <2>1, <2>2, <2>3, <2>4
           DEF IInv, SentinelNotLive, LengthKnown, NothingCopied
<1>4. CASE ~(copied + 1 < len)
  <2>1. copied' = 0 /\ pc' = "trailing"
    BY <1>4 DEF CopyByte
  <2>2. TypeOK'
    BY <1>0, <1>1, <1>2, <2>1 DEF TypeOK, args, Phases
  <2>3. OutputWithinBound'
    BY <1>0, <1>1, <1>2 DEF OutputWithinBound, args
  <2> QED  BY <1>0, <1>2, <2>1, <2>2, <2>3
           DEF IInv, SentinelNotLive, LengthKnown, NothingCopied, RestFits, CopyIsPeriodic
<1> QED  BY <1>3, <1>4

LEMMA RejectKeepsInvariant == IInv /\ Reject => IInv'
<1> SUFFICES ASSUME IInv, Reject PROVE IInv'
  OBVIOUS
<1>1. pc # "copy" /\ pc' = "err" /\ UNCHANGED <<args, ip, out, state, arm, len, dist, copied>>
  BY DEF Reject, Malformed
<1>2. TypeOK'
  BY <1>1 DEF IInv, TypeOK, Phases, Verdicts, args
<1> QED  BY <1>1, <1>2, OutputUntouched DEF SentinelNotLive, LengthKnown

LEMMA StepInvariant == IInv /\ [Next]_vars => IInv'
<1> SUFFICES ASSUME IInv, [Next]_vars PROVE IInv'
  OBVIOUS
<1>1. CASE UNCHANGED vars
  BY <1>1 DEF vars, IInv, TypeOK, OutputWithinBound, SentinelNotLive, CopyIsPeriodic,
              LengthKnown, RestFits, NothingCopied
<1>2. CASE Next
  BY <1>2, CommandsKeepInvariant, OperandsKeepInvariant, LiteralsKeepInvariant,
     CopyMatchKeepsInvariant, CopyByteKeepsInvariant, RejectKeepsInvariant DEF Next
<1> QED  BY <1>1, <1>2

THEOREM Invariant == Spec => []IInv
BY InitInvariant, StepInvariant, PTL DEF Spec

\* The cursor stays inside the stream, the output is bytes, every register is
\* a number, no index of the decoder is ever out of range (lib.rs:215-289), and
\* a length is extended no further than the cap.
THEOREM TypeCorrect == Spec => []TypeOK
BY Invariant, PTL DEF IInv

\* Whatever the stream, the output never exceeds the caller's bound, not even
\* in the middle of a back-reference (lib.rs:190-203, 264-289).
THEOREM OutputNeverExceedsBound == Spec => []OutputWithinBound
BY Invariant, PTL DEF IInv

\* The debug assertion at lib.rs:427-430 never fails.
THEOREM SentinelIsNeverLive == Spec => []SentinelNotLive
BY Invariant, PTL DEF IInv

\* The source of every byte copied is inside the output (lib.rs:264-277).
THEOREM CopiesArePeriodic == Spec => []CopyIsPeriodic
BY Invariant, PTL DEF IInv
-----------------------------------------------------------------------------
LEMMA StepWorks == IInv /\ Next => pc' \in Verdicts \/ Work' > Work
<1> SUFFICES ASSUME IInv, Next PROVE pc' \in Verdicts \/ Work' > Work
  OBVIOUS
<1>0. /\ TypeOK /\ ip \in Nat /\ Len(out) \in Nat /\ len \in Nat
      /\ state \in Nat /\ LengthKnown
  BY LenProperties DEF IInv, TypeOK, LONG_LITERAL_RUN_STATE
<1>1. CASE ShortMatch \/ MatchC \/ MatchD \/ LiteralRun \/ TinyMatch \/ ExtendZero \/ ExtendLast
  <2>1. ip' \in Nat /\ ip' > ip /\ out' = out
    BY <1>0, <1>1 DEF ShortMatch, MatchC, MatchD, LongMatch, LiteralRun, TinyMatch,
                      ExtendZero, ExtendLast
  <2> QED  BY <1>0, <2>1 DEF Work
<1>2. CASE Bootstrap
  <2>1. CASE UNCHANGED <<ip, out>>
    BY <1>0, <1>2, <2>1 DEF Bootstrap, Work
  <2>2. CASE At(1) >= 18 /\ CanCopyLiterals(1, At(1) - 17) /\ CopyLiterals(1, At(1) - 17)
    <3>1. At(1) \in Byte
      BY <1>0, <1>2, NextByte DEF Bootstrap
    <3>2. At(1) - 17 \in Nat
      BY <2>2, <3>1 DEF Byte
    <3>3. Len(out') = Len(out) + (At(1) - 17) /\ ip' = ip + 1 + (At(1) - 17)
      BY <1>0, <2>2, <3>2, LiteralsCopied
    <3> QED  BY <1>0, <3>2, <3>3, SMTT(30) DEF Work
  <2> QED  BY <1>2, <2>1, <2>2 DEF Bootstrap
<1>3. CASE Literals
  <2>1. Len(out') = Len(out) + len /\ ip' = ip + 0 + len /\ len > 0
    BY <1>0, <1>3, LiteralsCopied DEF Literals, LengthKnown
  <2> QED  BY <1>0, <1>3, <2>1 DEF Literals, Work
<1>4. CASE Operand
  BY <1>0, <1>4 DEF Operand, Work
<1>5. CASE CopyMatch
  BY <1>0, <1>5 DEF CopyMatch, Work
<1>6. CASE CopyByte
  <2>1. Len(out') = Len(out) + 1 /\ ip' = ip
    BY <1>6, ByteCopied DEF CopyByte
  <2> QED  BY <1>0, <2>1 DEF Work
<1>7. CASE Trailing
  <2>1. Len(out') = Len(out) + state /\ ip' = ip + 0 + state
    BY <1>0, <1>7, LiteralsCopied DEF Trailing
  <2> QED  BY <1>0, <1>7, <2>1 DEF Trailing, Work
<1>8. CASE Reject
  BY <1>8 DEF Reject, Verdicts
<1> QED  BY <1>1, <1>2, <1>3, <1>4, <1>5, <1>6, <1>7, <1>8 DEF Next

\* No stream makes the decoder spin: every step but the last is paid for by a
\* byte read, a byte written or the one step that may precede it, and there
\* are only so many bytes (lib.rs:131-136).
THEOREM NoStepIsIdle == Spec => EveryStepWorks
<1>1. IInv /\ [Next]_vars => [pc' \in Verdicts \/ Work' > Work]_vars
  BY StepWorks
<1> QED  BY <1>1, Invariant, PTL DEF Spec, EveryStepWorks

THEOREM WorkIsBounded == Spec => [](Work <= 3 * (Len(input) + max_out) + 1)
<1>1. IInv => Work <= 3 * (Len(input) + max_out) + 1
  BY LenProperties DEF IInv, TypeOK, OutputWithinBound, Work
<1> QED  BY <1>1, Invariant, PTL
-----------------------------------------------------------------------------
(* The decoder implements Lz77: each of its steps is, on the committed       *)
(* output, a step of Lz77 or none.  Most steps commit nothing; the last byte *)
(* of a back-reference commits all of it.                                    *)

\* What the abstract decoder sees of a state.
shown == <<input, max_out, ip, committed, verdict>>

LEMMA AllCommitted == ASSUME IInv, copied = 0 PROVE committed = out
BY SubSeqFull, LenProperties DEF committed, IInv, TypeOK

LEMMA AllCommittedNext == ASSUME IInv', copied' = 0 PROVE committed' = out'
BY SubSeqFull, LenProperties DEF committed, IInv, TypeOK

\* The initial states map to the abstract one.
LEMMA InitRefines == Init => Abstract!Lz77Init
<1> SUFFICES ASSUME Init PROVE Abstract!Lz77Init
  OBVIOUS
<1>1. IInv /\ ip = 0 /\ out = <<>> /\ copied = 0 /\ pc = "bootstrap"
  BY InitInvariant DEF Init, InitCall
<1> QED  BY <1>1, AllCommitted DEF verdict, Verdicts, Abstract!Lz77Init

\* A step that only consumes input, or does not even that.
LEMMA SkipRefines ==
    ASSUME IInv, IInv', UNCHANGED <<args, out>>, copied = 0, copied' = 0,
           pc \notin Verdicts, pc' \notin Verdicts, ip' >= ip
    PROVE  Abstract!SkipCommand \/ UNCHANGED shown
<1>1. committed' = committed /\ verdict' = verdict /\ verdict = "running"
  BY AllCommitted DEF verdict, committed
<1>2. ip \in Nat /\ ip' \in 0 .. Len(input)
  BY DEF IInv, TypeOK, args
<1>3. CASE ip' = ip
  BY <1>1, <1>3 DEF shown, args
<1>4. CASE ip' > ip
  BY <1>1, <1>2, <1>4 DEF Abstract!SkipCommand, Abstract!Running, args
<1> QED  BY <1>2, <1>3, <1>4

\* A step that takes literals.
LEMMA LiteralsRefine ==
    ASSUME IInv, IInv', UNCHANGED args, copied = 0, copied' = 0,
           pc \notin Verdicts, pc' \notin Verdicts,
           NEW skip \in Nat, NEW n \in Nat, n > 0,
           CanCopyLiterals(skip, n), CopyLiterals(skip, n)
    PROVE  Abstract!TakeLiterals
<1>0. TypeOK /\ ip \in Nat /\ Len(out) \in Nat
  BY LenProperties DEF IInv, TypeOK
<1>1. committed = out /\ committed' = out' /\ verdict' = verdict /\ verdict = "running"
  BY AllCommitted, AllCommittedNext DEF verdict
<1>2. /\ Len(out') = Len(out) + n /\ Len(out') <= max_out
      /\ ip' = ip + skip + n /\ ip' \in 0 .. Len(input)
      /\ out' = out \o SubSeq(input, ip' - n + 1, ip')
  BY <1>0, LiteralsCopied
<1>3. Len(committed') - Len(committed) = n
  BY <1>0, <1>1, <1>2
<1> QED  BY <1>0, <1>1, <1>2, <1>3 DEF Abstract!TakeLiterals, Abstract!Running, args

\* A verdict: the end marker or an error.
LEMMA VerdictRefines ==
    ASSUME IInv, IInv', UNCHANGED <<args, out, copied>>,
           pc \notin Verdicts, pc' \in Verdicts, ip' >= ip
    PROVE  Abstract!Conclude
<1>1. committed' = committed /\ verdict = "running" /\ verdict' \in {"ok", "err"}
  BY DEF verdict, Verdicts, committed
<1>2. ip' \in 0 .. Len(input)
  BY DEF IInv, TypeOK, args
<1> QED  BY <1>1, <1>2 DEF Abstract!Conclude, args

\* A byte of a back-reference that is not the last changes nothing that shows.
LEMMA PartialCopyRefines ==
    ASSUME IInv, CopyByte, copied + 1 < len
    PROVE  UNCHANGED shown
<1> DEFINE c == Len(out) - copied
<1>1. /\ out' \in Seq(Byte) /\ Len(out') = Len(out) + 1 /\ Len(out) \in Nat
      /\ \A i \in 1 .. Len(out) : out'[i] = out[i]
  BY ByteCopied
<1>2. /\ copied' = copied + 1 /\ pc' = "copy" /\ pc = "copy"
      /\ copied \in Nat /\ dist \in 1 .. c /\ out \in Seq(Byte)
      /\ UNCHANGED <<args, ip>>
  BY DEF CopyByte, IInv, TypeOK, CopyIsPeriodic
<1>3. Len(out') - copied' = c /\ c \in 1 .. Len(out) /\ c \in Int
  BY <1>1, <1>2
<1>4. \A i \in 1 .. c : out[i] \in Byte /\ out'[i] \in Byte /\ out'[i] = out[i]
  BY <1>1, <1>2, <1>3, ElementOfSeq
<1>5. /\ committed \in Seq(Byte) /\ Len(committed) = c
      /\ \A i \in 1 .. c : committed[i] = out[i]
  BY <1>3, <1>4, SubSeqProperties DEF committed
<1>6. /\ committed' \in Seq(Byte) /\ Len(committed') = c
      /\ \A i \in 1 .. c : committed'[i] = out'[i]
  <2>1. committed' = SubSeq(out', 1, c)
    BY <1>3 DEF committed
  <2> QED  BY <1>3, <1>4, <2>1, SubSeqProperties
<1>7. committed' = committed
  BY <1>4, <1>5, <1>6, SeqEqual
<1> QED  BY <1>2, <1>7 DEF shown, verdict, Verdicts, args

\* The last byte of a back-reference commits the whole of it.
LEMMA LastByteRefines ==
    ASSUME IInv, IInv', CopyByte, ~(copied + 1 < len)
    PROVE  Abstract!Repeat
<1> DEFINE c == Len(out) - copied
<1>1. /\ out' \in Seq(Byte) /\ Len(out') = Len(out) + 1 /\ Len(out) \in Nat
      /\ \A i \in 1 .. Len(out) : out'[i] = out[i]
      /\ out'[Len(out) + 1] = out[Len(out) + 1 - dist]
  BY ByteCopied
<1>2. /\ copied' = 0 /\ pc' = "trailing" /\ pc = "copy" /\ len >= 2
      /\ copied \in Nat /\ len \in Nat /\ copied + 1 = len
      /\ dist \in 1 .. c /\ out \in Seq(Byte)
      /\ \A i \in c + 1 .. Len(out) : out[i] = out[i - dist]
      /\ UNCHANGED <<args, ip>>
  BY DEF CopyByte, IInv, TypeOK, CopyIsPeriodic, LengthKnown
<1>3. c \in 1 .. Len(out) /\ c \in Int /\ Len(out') = c + len
  <2>1. Len(out) \in Nat /\ copied \in Nat /\ len = copied + 1 /\ Len(out') = Len(out) + 1
    BY <1>1, <1>2
  <2>2. c \in Int /\ c <= Len(out) /\ Len(out') = c + len
    BY <2>1
  <2> QED  BY <1>2, <2>1, <2>2
<1>4. \A i \in 1 .. c : out[i] \in Byte
  BY <1>2, <1>3, ElementOfSeq
<1>5. /\ Len(committed) = c
      /\ \A i \in 1 .. c : committed[i] = out[i]
  BY <1>3, <1>4, SubSeqProperties DEF committed
<1>6. committed' = out'
  BY <1>2, AllCommittedNext
<1>7. ASSUME NEW i \in 1 .. Len(out')
      PROVE  out'[i] = IF i <= c THEN committed[i] ELSE out'[i - dist]
  <2>1. CASE i <= c
    BY <1>1, <1>3, <1>5, <2>1
  <2>2. CASE ~(i <= c)
    <3>1. i - dist \in 1 .. Len(out)
      BY <1>1, <1>2, <1>3, <2>2
    <3>2. out'[i - dist] = out[i - dist]
      BY <1>1, <3>1
    <3>3. CASE i \in c + 1 .. Len(out)
      BY <1>1, <1>2, <1>3, <3>2, <3>3
    <3>4. CASE i = Len(out) + 1
      <4>1. i - dist = Len(out) + 1 - dist
        BY <1>1, <1>2, <3>4
      <4> QED  BY <1>1, <2>2, <3>2, <3>4, <4>1
    <3> QED  BY <1>1, <1>3, <2>2, <3>3, <3>4
  <2> QED  BY <2>1, <2>2
<1>8. verdict = "running" /\ verdict' = "running"
  BY <1>2 DEF verdict, Verdicts
<1>9. Len(out') <= max_out
  BY <1>2 DEF IInv, OutputWithinBound, args
<1> QED
  <2>1. Abstract!RepeatAt(dist)
    <3>1. Abstract!Running /\ UNCHANGED ip
      BY <1>2, <1>8 DEF Abstract!Running, args
    <3>2. Len(committed') > Len(committed) + 1 /\ Len(committed') <= max_out
      <4>1. Len(committed') = c + len /\ Len(committed) = c /\ Len(committed') <= max_out
        BY <1>3, <1>5, <1>6, <1>9
      <4>2. c \in Int /\ len \in Nat /\ len >= 2
        BY <1>2, <1>3
      <4> QED  BY <4>1, <4>2
    <3>3. \A i \in 1 .. Len(committed') :
             committed'[i] = IF i <= Len(committed) THEN committed[i] ELSE committed'[i - dist]
      BY <1>5, <1>6, <1>7
    <3> QED  BY <3>1, <3>2, <3>3 DEF Abstract!RepeatAt
  <2>2. dist \in 1 .. Len(committed)
    BY <1>2, <1>5
  <2> QED  BY <2>1, <2>2 DEF Abstract!Repeat

\* Every step is a step of Lz77 or changes nothing that shows.
LEMMA StepRefines ==
    ASSUME IInv, IInv', [Next]_vars
    PROVE  Abstract!Lz77Next \/ UNCHANGED shown
<1>0. TypeOK /\ ip \in Nat /\ Len(out) \in Nat /\ len \in Nat /\ state \in Nat
  BY LenProperties DEF IInv, TypeOK, LONG_LITERAL_RUN_STATE
<1>1. CASE ShortMatch \/ MatchC \/ MatchD \/ LiteralRun \/ TinyMatch \/ ExtendZero \/ ExtendLast
  <2>1. /\ pc \in {"command", "extend"}
        /\ pc' \in {"match", "extend", "operand", "literals"}
        /\ UNCHANGED <<args, out, copied>> /\ ip' >= ip
    BY <1>0, <1>1 DEF ShortMatch, MatchC, MatchD, LongMatch, LiteralRun, TinyMatch,
                      ExtendZero, ExtendLast
  <2>2. copied = 0
    BY <2>1 DEF IInv, NothingCopied
  <2>3. Abstract!SkipCommand \/ UNCHANGED shown
    BY <2>1, <2>2, SkipRefines DEF Verdicts
  <2> QED  BY <2>3 DEF Abstract!Lz77Next
<1>2. CASE Bootstrap
  <2>0. /\ pc = "bootstrap" /\ pc' = "command" /\ UNCHANGED <<args, copied>> /\ copied = 0
    BY <1>2 DEF Bootstrap, IInv, NothingCopied
  <2>1. CASE UNCHANGED <<ip, out>>
    <3>1. Abstract!SkipCommand \/ UNCHANGED shown
      BY <1>0, <2>0, <2>1, SkipRefines DEF Verdicts
    <3> QED  BY <3>1 DEF Abstract!Lz77Next
  <2>2. CASE At(1) >= 18 /\ CanCopyLiterals(1, At(1) - 17) /\ CopyLiterals(1, At(1) - 17)
    <3>1. At(1) \in Byte
      BY <1>0, <1>2, NextByte DEF Bootstrap
    <3>2. At(1) - 17 \in Nat /\ At(1) - 17 > 0
      BY <2>2, <3>1 DEF Byte
    <3>3. Abstract!TakeLiterals
      BY <2>0, <2>2, <3>2, LiteralsRefine DEF Verdicts
    <3> QED  BY <3>3 DEF Abstract!Lz77Next
  <2> QED  BY <1>2, <2>1, <2>2 DEF Bootstrap
<1>3. CASE Literals
  <2>1. /\ pc = "literals" /\ pc' = "command" /\ UNCHANGED <<args, copied>> /\ copied = 0
        /\ len > 0 /\ CanCopyLiterals(0, len) /\ CopyLiterals(0, len)
    BY <1>3 DEF Literals, IInv, NothingCopied, LengthKnown
  <2>2. Abstract!TakeLiterals
    BY <1>0, <2>1, LiteralsRefine DEF Verdicts
  <2> QED  BY <2>2 DEF Abstract!Lz77Next
<1>4. CASE Operand
  <2>1. /\ pc = "operand" /\ pc' \in {"ok", "match"} /\ ip' >= ip
        /\ UNCHANGED <<args, out, copied>> /\ copied = 0
    BY <1>0, <1>4 DEF Operand, IInv, NothingCopied
  <2>2. CASE pc' = "ok"
    <3>1. Abstract!Conclude
      BY <2>1, <2>2, VerdictRefines DEF Verdicts
    <3> QED  BY <3>1 DEF Abstract!Lz77Next
  <2>3. CASE pc' = "match"
    <3>1. Abstract!SkipCommand \/ UNCHANGED shown
      BY <2>1, <2>3, SkipRefines DEF Verdicts
    <3> QED  BY <3>1 DEF Abstract!Lz77Next
  <2> QED  BY <2>1, <2>2, <2>3
<1>5. CASE CopyMatch
  <2>1. /\ pc = "match" /\ pc' = "copy" /\ UNCHANGED <<args, ip, out, copied>> /\ copied = 0
    BY <1>5 DEF CopyMatch, IInv, NothingCopied
  <2>2. Abstract!SkipCommand \/ UNCHANGED shown
    BY <1>0, <2>1, SkipRefines DEF Verdicts
  <2> QED  BY <2>2 DEF Abstract!Lz77Next
<1>6. CASE CopyByte
  BY <1>6, PartialCopyRefines, LastByteRefines DEF Abstract!Lz77Next
<1>7. CASE Trailing
  <2>1. /\ pc = "trailing" /\ pc' = "command" /\ UNCHANGED <<args, copied>> /\ copied = 0
        /\ CanCopyLiterals(0, state) /\ CopyLiterals(0, state)
    BY <1>7 DEF Trailing, IInv, NothingCopied
  <2>2. CASE state > 0
    <3>1. Abstract!TakeLiterals
      BY <1>0, <2>1, <2>2, LiteralsRefine DEF Verdicts
    <3> QED  BY <3>1 DEF Abstract!Lz77Next
  <2>3. CASE state = 0
    <3>1. /\ ip' = ip /\ out' = out \o SubSeq(input, ip + 1, ip)
      BY <1>0, <2>1, <2>3 DEF CopyLiterals
    <3>2. SubSeq(input, ip + 1, ip) = <<>>
      BY <1>0, SubSeqEmpty
    <3>3. out' = out
      BY <1>0, <3>1, <3>2, ConcatEmptySeq DEF TypeOK
    <3>4. Abstract!SkipCommand \/ UNCHANGED shown
      BY <1>0, <2>1, <3>1, <3>3, SkipRefines DEF Verdicts
    <3> QED  BY <3>4 DEF Abstract!Lz77Next
  <2> QED  BY <1>0, <2>2, <2>3
<1>8. CASE Reject
  <2>1. /\ pc \notin Verdicts /\ pc' = "err" /\ UNCHANGED <<args, ip, out, copied>>
    BY <1>8 DEF Reject, Malformed, Verdicts
  <2>2. Abstract!Conclude
    BY <1>0, <2>1, VerdictRefines DEF Verdicts
  <2> QED  BY <2>2 DEF Abstract!Lz77Next
<1>9. CASE UNCHANGED vars
  BY <1>9 DEF vars, shown, committed, verdict
<1> QED  BY <1>1, <1>2, <1>3, <1>4, <1>5, <1>6, <1>7, <1>8, <1>9 DEF Next

\* The decoder implements the abstract decoder: whatever the stream, each byte
\* of its output is an input byte taken in its turn or repeats an earlier one,
\* within the bound, and no verdict is revised (lib.rs:190-213).
THEOREM DecoderIsLz77 == Spec => ImplementsLz77
<1>1. IInv /\ IInv' /\ [Next]_vars => [Abstract!Lz77Next]_(Abstract!lz77Vars)
  BY StepRefines DEF shown, Abstract!lz77Vars
<1> QED  BY <1>1, InitRefines, Invariant, PTL DEF Spec, ImplementsLz77, Abstract!Lz77Spec
=============================================================================
