----------------------------- MODULE CodecProofs -----------------------------
(* First the contract between the halves of compress(): what ParseProofs     *)
(* proves of the tokens is what emit() needs, for every input, every hash    *)
(* function and every value of the limits.                                   *)
(* Then the round trip: decompress() reads back what compress() wrote.  The  *)
(* stream is laid out in boundaries, pairs of an offset in the stream and a  *)
(* position in the input: emit() adds one with each instruction it writes,   *)
(* and the decoder, between two instructions, stands at one of them.         *)
EXTENDS Codec, TLAPS, SequenceTheorems

PP == INSTANCE ParseProofs

\* Where emit() stands among the tokens: past the first, never before a
\* literal run, since a match takes the run that follows along.
AtNoRun ==
    /\ index \in 0 .. Len(tokens)
    /\ parsing = "searching" => index = 0
    /\ index > 0 /\ index < Len(tokens) => tokens[index + 1].kind = "match"

CInv == PP!IInv /\ AtNoRun

\* What the invariant of parse() says of a list of tokens.
LEMMA TokensFacts ==
    ASSUME PP!IInv
    PROVE  /\ tokens \in Seq(PP!Token) /\ Len(tokens) \in Nat
           /\ \A i \in 1 .. Len(tokens) : tokens[i].kind \in {"match", "literals"}
           /\ \A i \in 1 .. Len(tokens) : tokens[i].len \in Nat /\ tokens[i].dist \in Nat
           /\ \A i \in 1 .. Len(tokens) - 1 :
                 tokens[i].kind = "literals" => tokens[i + 1].kind = "match"
           /\ \A i \in 1 .. Len(tokens) : tokens[i].kind = "match" => PP!MatchIsTrue(tokens[i])
<1>1. tokens \in Seq(PP!Token)
  BY DEF PP!IInv, PP!Good
<1>2. \A i \in 1 .. Len(tokens) : tokens[i] \in PP!Token
  BY <1>1
<1>3. \A i \in 1 .. Len(tokens) :
         tokens[i].kind \in {"match", "literals"} /\ tokens[i].len \in Nat /\ tokens[i].dist \in Nat
  BY <1>2 DEF PP!Token
<1> QED  BY <1>1, <1>3 DEF PP!IInv, PP!Good, PP!Alternates

\* One instance of Parse is the other.
LEMMA SameInit == P!Init => PP!Init
BY DEF P!Init, PP!Init, P!Slots, PP!Slots

LEMMA SameNext == P!Next => PP!Next
BY DEF P!Next, PP!Next, P!NoMatch, PP!NoMatch, P!TakeMatch, PP!TakeMatch,
       P!FinalLiterals, PP!FinalLiterals, P!Searching, PP!Searching, P!Usable, PP!Usable,
       P!Record, PP!Record, P!PendingLiterals, PP!PendingLiterals,
       P!MatchLength, PP!MatchLength, P!Found, PP!Found, P!SearchEnd, PP!SearchEnd,
       P!Slot, PP!Slot, P!Trigram, PP!Trigram, P!Agree, PP!Agree, P!Limit, PP!Limit,
       P!Entry, PP!Entry, P!Match, PP!Match, P!LiteralRun, PP!LiteralRun

LEMMA Assumed == PP!ParseAssumption /\ PP!HashAssumption
BY CodecAssumption
   DEF P!ParseAssumption, PP!ParseAssumption, P!HashAssumption, PP!HashAssumption, P!Byte, PP!Byte

LEMMA Initially == Init => CInv
<1> SUFFICES ASSUME Init PROVE CInv
  OBVIOUS
<1>1. PP!IInv
  BY SameInit, Assumed, PP!Initially DEF Init
<1>2. index = 0
  BY DEF Init, InitRest, E!InitCall
<1>3. AtNoRun
  BY <1>1, <1>2, TokensFacts DEF AtNoRun
<1> QED  BY <1>1, <1>3 DEF CInv

\* A step of parse() keeps its own invariant, and emit() has not begun.
LEMMA ParsingKeeps == CInv /\ Parsing => CInv'
<1> SUFFICES ASSUME CInv, Parsing PROVE CInv'
  OBVIOUS
<1>1. PP!Next
  BY SameNext DEF Parsing
<1>2. PP!IInv'
  BY <1>1, Assumed, PP!NoMatchKeeps, PP!TakeMatchKeeps, PP!FinalLiteralsKeeps DEF CInv, PP!Next
<1>3. parsing = "searching"
  BY DEF Parsing, P!Next, P!NoMatch, P!TakeMatch, P!FinalLiterals, P!Searching
<1>4. index' = 0
  BY <1>3 DEF CInv, AtNoRun, Parsing, emitVars
<1>5. Len(tokens') \in Nat
  <2>1. tokens' \in Seq(PP!Token')
    BY <1>2 DEF PP!IInv, PP!Good
  <2> QED  BY <2>1
<1>6. AtNoRun'
  BY <1>4, <1>5 DEF AtNoRun
<1> QED  BY <1>2, <1>6 DEF CInv

\* Whatever is emitted, what comes next is a match.
LEMMA EmittingKeeps == CInv /\ Emitting => CInv'
<1> SUFFICES ASSUME CInv, Emitting PROVE CInv'
  OBVIOUS
<1>1. UNCHANGED <<input, hash, table, pos, literal_start, tokens, parsing>>
  BY DEF Emitting, E!Next, E!Leading, E!MatchInline, E!MatchThenRun, E!Finish
<1>2. PP!IInv'
  BY <1>1, Assumed, PP!StuttersKeep DEF CInv, PP!vars
<1>3. /\ Len(tokens) \in Nat /\ index \in 0 .. Len(tokens)
      /\ \A i \in 1 .. Len(tokens) : tokens[i].kind \in {"match", "literals"}
      /\ \A i \in 1 .. Len(tokens) - 1 :
            tokens[i].kind = "literals" => tokens[i + 1].kind = "match"
  BY TokensFacts DEF CInv, AtNoRun
<1>4. /\ index' \in 0 .. Len(tokens)
      /\ index' < Len(tokens) /\ index' > 0 => tokens[index' + 1].kind = "match"
  <2>1. CASE E!Leading
    <3>1. index' = 1 /\ tokens # <<>> /\ tokens[1].kind = "literals"
      BY <2>1 DEF E!Leading
    <3>2. Len(tokens) >= 1
      <4>1. tokens \in Seq(PP!Token)
        BY TokensFacts DEF CInv
      <4> QED  BY <3>1, <4>1
    <3> QED  BY <1>3, <3>1, <3>2
  <2>2. CASE E!MatchInline \/ E!MatchThenRun
    <3>1. /\ index < Len(tokens)
          /\ index' = IF index + 2 <= Len(tokens) /\ tokens[index + 2].kind = "literals"
                      THEN index + 2 ELSE index + 1
      BY <2>2 DEF E!MatchInline, E!MatchThenRun, E!AtMatch, E!Following
    <3>2. CASE index + 2 <= Len(tokens) /\ tokens[index + 2].kind = "literals"
      BY <1>3, <3>1, <3>2
    <3>3. CASE ~(index + 2 <= Len(tokens) /\ tokens[index + 2].kind = "literals")
      BY <1>3, <3>1, <3>3
    <3> QED  BY <3>2, <3>3
  <2>3. CASE E!Finish
    BY <2>3 DEF E!Finish, CInv, AtNoRun
  <2> QED  BY <2>1, <2>2, <2>3 DEF Emitting, E!Next
<1>5. AtNoRun'
  BY <1>1, <1>4 DEF AtNoRun, Emitting
<1> QED  BY <1>2, <1>5 DEF CInv

LEMMA OthersKeep == CInv /\ (Decoding \/ UNCHANGED vars) => CInv'
<1> SUFFICES ASSUME CInv, Decoding \/ UNCHANGED vars PROVE CInv'
  OBVIOUS
<1>1. UNCHANGED <<input, hash, table, pos, literal_start, tokens, parsing>> /\ index' = index
  BY DEF Decoding, vars, parseVars, emitVars
<1>2. PP!IInv'
  BY <1>1, Assumed, PP!StuttersKeep DEF CInv, PP!vars
<1> QED  BY <1>1, <1>2 DEF CInv, AtNoRun

THEOREM Invariant == Spec => []CInv
<1>1. CInv /\ [Next]_vars => CInv'
  BY ParsingKeeps, EmittingKeeps, OthersKeep DEF Next
<1> QED  BY Initially, <1>1, PTL DEF Spec
-----------------------------------------------------------------------------
\* No assertion of emit() fails and its unreachable! is not reached, whatever
\* compress() is given (compress.rs:222-226, 278-281, 309-311).
THEOREM EmitIsSafe == Spec => []EmitNeverPanics
<1>1. CInv => EmitNeverPanics
  <2> SUFFICES ASSUME CInv, parsing = "parsed", E!Panics PROVE FALSE
    BY DEF EmitNeverPanics
  <2>1. /\ index < Len(tokens) /\ index \in Nat /\ Len(tokens) \in Nat
        /\ \A i \in 1 .. Len(tokens) : tokens[i].len \in Nat
        /\ \A i \in 1 .. Len(tokens) : tokens[i].kind = "match" => PP!MatchIsTrue(tokens[i])
        /\ input \in Seq(PP!Byte)
    BY TokensFacts, Assumed, PP!InputIsBytes DEF CInv, AtNoRun, E!Panics
  <2>2. CASE index = 0 /\ tokens[1].len > MAX_BOOTSTRAP_LITERALS /\ ~E!LiteralRunAsserts(tokens[1])
    BY <2>1, <2>2, CodecAssumption DEF E!LiteralRunAsserts, E!MAX_INLINE_LITERALS
  <2>3. CASE index > 0 /\ tokens[index + 1].kind = "literals"
    BY <2>1, <2>3 DEF CInv, AtNoRun
  <2>4. CASE tokens[index + 1].kind = "match" /\ ~E!MatchAsserts(tokens[index + 1])
    <3>1. PP!MatchIsTrue(tokens[index + 1])
      BY <2>1, <2>4
    <3>2. tokens[index + 1].dist \in Nat
      BY <2>1, TokensFacts DEF CInv
    <3>3. tokens[index + 1].dist >= 1 /\ tokens[index + 1].dist <= MAX_DISTANCE
      BY <3>1, <3>2 DEF PP!MatchIsTrue
    <3>4. tokens[index + 1].len \in MIN_MATCH .. MAX_MATCH
      BY <3>1 DEF PP!MatchIsTrue
    <3> QED  BY <2>4, <3>2, <3>3, <3>4, Assumed DEF E!MatchAsserts, PP!ParseAssumption
  <2>5. CASE E!Following /\ tokens[index + 2].len > E!MAX_INLINE_LITERALS
             /\ ~E!LiteralRunAsserts(tokens[index + 2])
    BY <2>1, <2>5 DEF E!Following, E!LiteralRunAsserts, E!MAX_INLINE_LITERALS
  <2> QED  BY <2>2, <2>3, <2>4, <2>5 DEF E!Panics
<1> QED  BY <1>1, Invariant, PTL
-----------------------------------------------------------------------------
Byte == 0 .. 255

\* A number in a range, in the words of arithmetic.
Between(x, a, b) == x \in Nat /\ a <= x /\ x <= b

\* What n zero bytes of a length extension are worth; only the lemmas about it
\* are used, so that no proof has to multiply.
Worth(n) == ZERO_RUN_INCREMENT * n

\* At offset q begin z zero bytes and a last one that is not zero.
ExtensionAt(q, z, b) ==
    /\ q + z + 1 <= Len(stream) /\ Between(b, 1, 255)
    /\ \A k \in 1 .. z : stream[q + k] = 0
    /\ stream[q + z + 1] = b

\* B is a set of boundaries.  At offset q lie the n bytes of the input that
\* follow the first p, and after them there is a boundary.
LiteralsAt(B, q, p, n) ==
    /\ q + n <= Len(stream) /\ p + n <= Len(input) /\ n <= MAX_EXTENDED_LENGTH
    /\ \A k \in 1 .. n : stream[q + k] = input[p + k]
    /\ <<q + n, p + n>> \in B

\* At offset q is a literal run in an instruction of its own.
LongRunIs(B, q, p, z, b) ==
    /\ ExtensionAt(q + 1, z, b)
    /\ LiteralsAt(B, q + 1 + z + 1, p, 15 + Worth(z) + b + 3)

RunAt(B, q, p) ==
    /\ q + 1 <= Len(stream)
    /\ \/ /\ Between(stream[q + 1], 1, 15)
          /\ LiteralsAt(B, q + 1, p, stream[q + 1] + 3)
       \/ /\ stream[q + 1] = 0
          /\ \E z \in 0 .. Len(stream), b \in Byte : LongRunIs(B, q, p, z, b)

\* What follows a match: the literals it carries, or else a boundary or a run.
FollowsAt(B, q, p, inline) ==
    /\ Between(inline, 0, 3)
    /\ inline > 0 => LiteralsAt(B, q, p, inline)
    /\ inline = 0 => <<q, p>> \in B \/ RunAt(B, q, p)

\* n bytes after the first p repeat what lies d before them, and the match that
\* says so ends at offset q.
RepeatsAt(B, q, p, n, d, inline) ==
    /\ n >= 2 /\ d \in 1 .. p /\ p + n <= Len(input)
    /\ \A k \in 1 .. n : input[p + k] = input[p + k - d]
    /\ FollowsAt(B, q, p + n, inline)

\* The two bytes at offset q complete a match of length n; `base` is what the
\* command byte told of the distance.
OperandIs(B, q, p, n, name, base, bits, inline) ==
    /\ stream[q + 1] + 256 * stream[q + 2] = 4 * bits + inline
    /\ (name = "D" /\ base = LONG_MATCH_DISTANCE_BASE) => bits > 0
    /\ RepeatsAt(B, q + 2, p, n, base + bits, inline)

OperandAt(B, q, p, n, name, base) ==
    /\ q + 2 <= Len(stream)
    /\ stream[q + 1] \in Byte /\ stream[q + 2] \in Byte
    /\ \E bits \in Nat, inline \in 0 .. 3 :
          OperandIs(B, q, p, n, name, base, bits, inline)

\* The length field of a command byte at offset q has `size` values; it is
\* zero, and z zero bytes and the byte b go on with the length.
ExtendedIs(B, q, p, name, size, base, z, b) ==
    /\ ExtensionAt(q + 1, z, b)
    /\ size - 1 + Worth(z) + b + 2 <= MAX_EXTENDED_LENGTH
    /\ OperandAt(B, q + 1 + z + 1, p, size - 1 + Worth(z) + b + 2, name, base)

\* A command byte c of bucket `name`, and what follows it.
BucketAt(B, q, p, c, name, size, base) ==
    \/ c % size # 0 /\ OperandAt(B, q + 1, p, (c % size) + 2, name, base)
    \/ /\ c % size = 0
       /\ \E z \in 0 .. Len(stream), b \in Byte :
             ExtendedIs(B, q, p, name, size, base, z, b)

\* What the H bit of a command byte of bucket D adds.
HighPart(c) == IF (c \div 8) % 2 = 1 THEN DISTANCE_FIELD ELSE 0

MatchAt(B, q, p) ==
    /\ q + 1 <= Len(stream)
    /\ \/ /\ Between(stream[q + 1], 32, 63)
          /\ BucketAt(B, q, p, stream[q + 1], "C", 32, 1)
       \/ /\ Between(stream[q + 1], 16, 31)
          /\ BucketAt(B, q, p, stream[q + 1], "D", 8,
                      LONG_MATCH_DISTANCE_BASE + HighPart(stream[q + 1]))

EndAt(q, p) ==
    /\ q + 3 = Len(stream) /\ p = Len(input)
    /\ stream[q + 1] = 17 /\ stream[q + 2] = 0 /\ stream[q + 3] = 0

\* How the stream begins: with a leading run, in either form, or its end.
OpeningAt(B) ==
    \/ <<0, 0>> \in B /\ EndAt(0, 0)
    \/ RunAt(B, 0, 0)
    \/ /\ 1 <= Len(stream) /\ Between(stream[1], 18, 255)
       /\ LiteralsAt(B, 1, 0, stream[1] - 17)
-----------------------------------------------------------------------------
\* How much of the input the first i tokens cover.
EndOf(i) == IF i < Len(tokens) THEN tokens[i + 1].at ELSE Len(input)

\* The last boundary while emit() runs: where the next token is written.
Frontier == <<Len(stream), EndOf(index)>>

Boundaries(B) == \A x \in B : x[1] \in Nat /\ x[2] \in Nat

DecoderWaits ==
    /\ ip = 0 /\ out = <<>> /\ state = 0 /\ pc = "bootstrap"
    /\ len = 0 /\ dist = 0 /\ copied = 0

Emits(B) ==
    /\ Boundaries(B) /\ Frontier \in B
    /\ OpeningAt(B)
    /\ \A x \in B : x = Frontier \/ MatchAt(B, x[1], x[2])

Emitted(B) ==
    /\ Boundaries(B)
    /\ OpeningAt(B)
    /\ \A x \in B : MatchAt(B, x[1], x[2]) \/ EndAt(x[1], x[2])

EmitInv ==
    /\ max_out \in Nat
    /\ emitting \in {"emitting", "emitted"}
    /\ parsing = "searching" => emitting = "emitting"
    /\ emitting = "emitting" => DecoderWaits
    /\ (index = 0 /\ emitting = "emitting") => stream = <<>>
    /\ RunsFit => stream \in Seq(Byte)
    /\ (RunsFit /\ index > 0 /\ emitting = "emitting") =>
          \E B \in SUBSET (Nat \X Nat) : Emits(B)
-----------------------------------------------------------------------------
\* What the decoder has written so far is the beginning of the input.
OutIsPrefix ==
    /\ out \in Seq(Byte) /\ Len(out) <= Len(input) /\ Len(out) <= max_out
    /\ \A k \in 1 .. Len(out) : out[k] = input[k]

Registers ==
    /\ OutIsPrefix /\ ip \in 0 .. Len(stream) /\ len \in Nat /\ dist \in Nat
    /\ pc # "copy" => copied = 0

\* The length in hand, once the z zero bytes and the last one are read.
Complete(z, b, more) == len + Worth(z) + b + more

Decodes(B) ==
    LET p == Len(out)
    IN  \/ pc = "bootstrap" /\ ip = 0 /\ p = 0
        \/ pc = "command" /\ <<ip, p>> \in B
        \/ pc = "command" /\ state = 0 /\ RunAt(B, ip, p)
        \/ /\ pc = "extend" /\ arm = "literals"
           /\ \E z \in 0 .. Len(stream), b \in Byte :
                 /\ ExtensionAt(ip, z, b)
                 /\ LiteralsAt(B, ip + z + 1, p, Complete(z, b, 3))
        \/ pc = "literals" /\ LiteralsAt(B, ip, p, len)
        \/ /\ pc = "extend" /\ arm \in {"C", "D"}
           /\ \E z \in 0 .. Len(stream), b \in Byte :
                 /\ ExtensionAt(ip, z, b)
                 /\ Complete(z, b, 2) <= MAX_EXTENDED_LENGTH
                 /\ OperandAt(B, ip + z + 1, p, Complete(z, b, 2), arm, dist)
        \/ pc = "operand" /\ arm \in {"C", "D"} /\ OperandAt(B, ip, p, len, arm, dist)
        \/ /\ pc = "operand" /\ arm = "D" /\ dist = LONG_MATCH_DISTANCE_BASE
           /\ ip + 2 = Len(stream) /\ stream[ip + 1] = 0 /\ stream[ip + 2] = 0
           /\ p = Len(input)
        \/ pc = "match" /\ RepeatsAt(B, ip, p, len, dist, state)
        \/ /\ pc = "copy" /\ copied \in Nat /\ copied < len /\ copied <= p
           /\ p - copied + len <= max_out
           /\ RepeatsAt(B, ip, p - copied, len, dist, state)
        \/ pc = "trailing" /\ FollowsAt(B, ip, p, state)
        \/ pc = "ok" /\ ip = Len(stream) /\ p = Len(input)
        \/ pc = "err" /\ max_out < Len(input)

DecodeInv ==
    emitting = "emitted" =>
        /\ parsing = "parsed"
        /\ RunsFit => /\ Registers
                      /\ \E B \in SUBSET (Nat \X Nat) : Emitted(B) /\ Decodes(B)

RInv == CInv /\ EmitInv /\ DecodeInv
-----------------------------------------------------------------------------
(* The ranges of bytes the proofs need, and what zero bytes are worth.       *)

LEMMA Ranges ==
    /\ \A x : x \in Byte <=> Between(x, 0, 255)
    /\ \A x : x \in 16 .. 31 <=> Between(x, 16, 31)
    /\ \A x : x \in 32 .. 63 <=> Between(x, 32, 63)
<1>1. \A x : x \in Byte <=> Between(x, 0, 255)
  BY DEF Byte, Between
<1>2. \A x : x \in 16 .. 31 <=> Between(x, 16, 31)
  BY DEF Between
<1>3. \A x : x \in 32 .. 63 <=> Between(x, 32, 63)
  BY DEF Between
<1> QED  BY <1>1, <1>2, <1>3, Zenon

LEMMA ByteIs == ASSUME NEW x \in Byte PROVE x \in Nat /\ x <= 255
BY Ranges, ZenonT(40) DEF Between

LEMMA IsByte == ASSUME NEW x \in Nat, x <= 255 PROVE x \in Byte
<1>1. Between(x, 0, 255)
  BY DEF Between
<1> QED  BY <1>1, Ranges, Zenon

LEMMA WorthNat == ASSUME NEW n \in Nat PROVE Worth(n) \in Nat
BY RoundTripAssumption DEF Worth

LEMMA WorthNothing == Worth(0) = 0
BY RoundTripAssumption DEF Worth

\* Each zero byte counts once more for the increment.
LEMMA WorthOneMore ==
    ASSUME NEW n \in Nat PROVE Worth(n + 1) = Worth(n) + ZERO_RUN_INCREMENT
BY RoundTripAssumption DEF Worth

-----------------------------------------------------------------------------
(* A layout stays one when the stream grows and boundaries are added.        *)

Grows(B, C) ==
    /\ B \subseteq C /\ input' = input
    /\ Len(stream) \in Nat /\ Len(stream') \in Nat /\ Len(stream) <= Len(stream')
    /\ \A k \in 1 .. Len(stream) : stream'[k] = stream[k]

LEMMA ExtensionGrows ==
    ASSUME NEW B, NEW C, Grows(B, C), NEW q \in Nat, NEW z \in Nat, NEW b, ExtensionAt(q, z, b)
    PROVE  ExtensionAt(q, z, b)'
<1>1. /\ q + z + 1 <= Len(stream) /\ Len(stream) \in Nat /\ Len(stream) <= Len(stream')
      /\ Len(stream') \in Nat
      /\ \A k \in 1 .. Len(stream) : stream'[k] = stream[k]
  BY DEF Grows, ExtensionAt
<1>2. q + z + 1 <= Len(stream')
  BY <1>1
<1>3. stream'[q + z + 1] = stream[q + z + 1]
  <2>1. q + z + 1 \in 1 .. Len(stream)
    BY <1>1
  <2> QED  BY <1>1, <2>1
<1>4. ASSUME NEW k \in 1 .. z PROVE stream'[q + k] = 0
  <2>1. q + k \in 1 .. Len(stream)
    BY <1>1
  <2>2. stream'[q + k] = stream[q + k]
    BY <1>1, <2>1
  <2> QED  BY <2>2 DEF ExtensionAt
<1> QED  BY <1>2, <1>3, <1>4 DEF ExtensionAt

LEMMA LiteralsGrow ==
    ASSUME NEW B, NEW C, Grows(B, C), NEW q \in Nat, NEW p, NEW n \in Nat, LiteralsAt(B, q, p, n)
    PROVE  LiteralsAt(C, q, p, n)'
<1>1. /\ Len(stream) \in Nat /\ Len(stream') \in Nat /\ Len(stream) <= Len(stream')
      /\ B \subseteq C /\ input' = input
      /\ \A k \in 1 .. Len(stream) : stream'[k] = stream[k]
  BY Zenon DEF Grows
<1>2. /\ q + n <= Len(stream) /\ p + n <= Len(input) /\ <<q + n, p + n>> \in B
      /\ \A k \in 1 .. n : stream[q + k] = input[p + k]
  BY Zenon DEF LiteralsAt
<1>3. q + n <= Len(stream')
  BY <1>1, <1>2
<1>4. \A k \in 1 .. n : q + k \in 1 .. Len(stream)
  BY <1>1, <1>2
<1>5. <<q + n, p + n>> \in C
  BY <1>1, <1>2
<1> QED  BY <1>1, <1>2, <1>3, <1>4, <1>5, Zenon DEF LiteralsAt

LEMMA LongRunGrows ==
    ASSUME NEW B, NEW C, Grows(B, C), NEW q \in Nat, NEW p, NEW z \in Nat, NEW b \in Nat,
           LongRunIs(B, q, p, z, b)
    PROVE  LongRunIs(C, q, p, z, b)'
<1>1. ExtensionAt(q + 1, z, b)'
  BY ExtensionGrows DEF LongRunIs
<1>2. LiteralsAt(C, q + 1 + z + 1, p, 15 + Worth(z) + b + 3)'
  BY LiteralsGrow, WorthNat DEF LongRunIs
<1> QED  BY <1>1, <1>2 DEF LongRunIs, Worth

LEMMA RunGrows ==
    ASSUME NEW B, NEW C, Grows(B, C), NEW q \in Nat, NEW p, RunAt(B, q, p)
    PROVE  RunAt(C, q, p)'
<1>1. q + 1 <= Len(stream') /\ stream'[q + 1] = stream[q + 1]
  <2>1. q + 1 <= Len(stream)
    BY Zenon DEF RunAt
  <2> QED  BY <2>1 DEF Grows
<1>2. CASE Between(stream[q + 1], 1, 15) /\ LiteralsAt(B, q + 1, p, stream[q + 1] + 3)
  <2>0. q + 1 \in Nat /\ stream[q + 1] + 3 \in Nat
    BY <1>2 DEF Between
  <2>1. \A n \in Nat : LiteralsAt(B, q + 1, p, n) => LiteralsAt(C, q + 1, p, n)'
    BY <2>0, LiteralsGrow
  <2>2. LiteralsAt(C, q + 1, p, stream[q + 1] + 3)'
    BY <1>1, <1>2, <2>0, <2>1
  <2> QED  BY <1>1, <1>2, <2>2 DEF RunAt
<1>3. CASE stream[q + 1] = 0 /\ \E z \in 0 .. Len(stream), b \in Byte : LongRunIs(B, q, p, z, b)
  <2>1. PICK z \in 0 .. Len(stream), b \in Byte : LongRunIs(B, q, p, z, b)
    BY <1>3
  <2>2. z \in 0 .. Len(stream')
    BY <2>1 DEF Grows
  <2>3. LongRunIs(C, q, p, z, b)'
    BY <2>1, LongRunGrows, ByteIs
  <2> QED  BY <1>1, <1>3, <2>2, <2>3 DEF RunAt
<1> QED  BY <1>2, <1>3, Zenon DEF RunAt

LEMMA FollowsGrows ==
    ASSUME NEW B, NEW C, Grows(B, C), NEW q \in Nat, NEW p, NEW i, FollowsAt(B, q, p, i)
    PROVE  FollowsAt(C, q, p, i)'
<1>1. i \in Nat /\ Between(i, 0, 3)
  BY DEF FollowsAt, Between
<1>2. CASE i = 0
  <2>1. <<q, p>> \in C \/ RunAt(C, q, p)'
    BY <1>2, RunGrows DEF FollowsAt, Grows
  <2> QED  BY <1>2, <2>1 DEF FollowsAt
<1>3. CASE i > 0
  <2>1. LiteralsAt(C, q, p, i)'
    BY <1>1, <1>3, LiteralsGrow DEF FollowsAt
  <2> QED  BY <1>1, <1>3, <2>1 DEF FollowsAt
<1> QED  BY <1>1, <1>2, <1>3

LEMMA RepeatsGrows ==
    ASSUME NEW B, NEW C, Grows(B, C), NEW q \in Nat, NEW p, NEW n, NEW d, NEW i,
           RepeatsAt(B, q, p, n, d, i)
    PROVE  RepeatsAt(C, q, p, n, d, i)'
BY FollowsGrows DEF RepeatsAt, Grows

LEMMA OperandGrows ==
    ASSUME NEW B, NEW C, Grows(B, C), NEW q \in Nat, NEW p, NEW n, NEW name, NEW base,
           OperandAt(B, q, p, n, name, base)
    PROVE  OperandAt(C, q, p, n, name, base)'
<1>1. /\ q + 2 <= Len(stream') /\ stream'[q + 1] = stream[q + 1] /\ stream'[q + 2] = stream[q + 2]
  BY DEF Grows, OperandAt
<1>2. PICK bits \in Nat, inline \in 0 .. 3 :
         OperandIs(B, q, p, n, name, base, bits, inline)
  BY DEF OperandAt
<1>3. OperandIs(C, q, p, n, name, base, bits, inline)'
  <2>1. RepeatsAt(C, q + 2, p, n, base + bits, inline)'
    BY <1>2, RepeatsGrows DEF OperandIs
  <2> QED  BY <1>1, <1>2, <2>1 DEF OperandIs
<1> QED  BY <1>1, <1>3 DEF OperandAt

LEMMA ExtendedGrows ==
    ASSUME NEW B, NEW C, Grows(B, C), NEW q \in Nat, NEW p, NEW name, NEW size, NEW base,
           NEW z, NEW b, ExtendedIs(B, q, p, name, size, base, z, b), z \in Nat
    PROVE  ExtendedIs(C, q, p, name, size, base, z, b)'
<1>1. ExtensionAt(q + 1, z, b)'
  BY ExtensionGrows DEF ExtendedIs
<1>2. OperandAt(C, q + 1 + z + 1, p, size - 1 + Worth(z) + b + 2, name, base)'
  BY OperandGrows DEF ExtendedIs
<1> QED  BY <1>1, <1>2 DEF ExtendedIs, Worth

LEMMA BucketGrows ==
    ASSUME NEW B, NEW C, Grows(B, C), NEW q \in Nat, NEW p, NEW c, NEW name, NEW size, NEW base,
           BucketAt(B, q, p, c, name, size, base)
    PROVE  BucketAt(C, q, p, c, name, size, base)'
<1>1. CASE c % size # 0 /\ OperandAt(B, q + 1, p, (c % size) + 2, name, base)
  <2>1. OperandAt(C, q + 1, p, (c % size) + 2, name, base)'
    BY <1>1, OperandGrows
  <2> QED  BY <1>1, <2>1 DEF BucketAt
<1>2. CASE c % size = 0
  <2>1. PICK z \in 0 .. Len(stream), b \in Byte : ExtendedIs(B, q, p, name, size, base, z, b)
    BY <1>2 DEF BucketAt
  <2>2. z \in Nat /\ z \in 0 .. Len(stream')
    BY <2>1 DEF Grows
  <2>3. ExtendedIs(C, q, p, name, size, base, z, b)'
    BY <2>1, <2>2, ExtendedGrows
  <2> QED  BY <1>2, <2>1, <2>2, <2>3 DEF BucketAt
<1> QED  BY <1>1, <1>2 DEF BucketAt

LEMMA MatchGrows ==
    ASSUME NEW B, NEW C, Grows(B, C), NEW q \in Nat, NEW p, MatchAt(B, q, p)
    PROVE  MatchAt(C, q, p)'
<1>1. q + 1 <= Len(stream') /\ stream'[q + 1] = stream[q + 1]
  BY DEF Grows, MatchAt
<1>2. CASE Between(stream[q + 1], 32, 63) /\ BucketAt(B, q, p, stream[q + 1], "C", 32, 1)
  <2>1. BucketAt(C, q, p, stream[q + 1], "C", 32, 1)'
    BY <1>1, <1>2, BucketGrows
  <2> QED  BY <1>1, <1>2, <2>1 DEF MatchAt
<1>3. CASE /\ Between(stream[q + 1], 16, 31)
           /\ BucketAt(B, q, p, stream[q + 1], "D", 8,
                       LONG_MATCH_DISTANCE_BASE + HighPart(stream[q + 1]))
  <2>1. BucketAt(C, q, p, stream[q + 1], "D", 8,
                 LONG_MATCH_DISTANCE_BASE + HighPart(stream[q + 1]))'
    BY <1>1, <1>3, BucketGrows
  <2> QED  BY <1>1, <1>3, <2>1 DEF MatchAt, HighPart
<1> QED  BY <1>2, <1>3 DEF MatchAt
-----------------------------------------------------------------------------
(* n elements of a sequence, from the one after the first a.                 *)

LEMMA Slice ==
    ASSUME NEW S, NEW s \in Seq(S), NEW a \in Nat, NEW n \in Nat, a + n <= Len(s)
    PROVE  /\ SubSeq(s, a + 1, a + n) \in Seq(S)
           /\ Len(SubSeq(s, a + 1, a + n)) = n
           /\ \A k \in 1 .. n : SubSeq(s, a + 1, a + n)[k] = s[a + k]
OBVIOUS

-----------------------------------------------------------------------------
(* The decoder follows the layout.  Each lemma is about one of the places    *)
(* where Decodes says it may stand, and the step it takes from there.        *)

\* A step of the decoder in an emitted stream.
Reading(B) ==
    /\ Registers /\ Emitted(B)
    /\ stream \in Seq(Byte) /\ input \in Seq(Byte) /\ max_out \in Nat
    /\ D!Next /\ UNCHANGED <<input, stream, max_out>>

LEMMA ReadingGrows == ASSUME NEW B, Reading(B) PROVE Grows(B, B)
<1>1. Len(stream) \in Nat /\ stream' = stream /\ input' = input
  BY DEF Reading
<1> QED  BY <1>1 DEF Grows

LEMMA Cursor ==
    ASSUME NEW B, Reading(B)
    PROVE  /\ ip \in Nat /\ Len(stream) \in Nat /\ ip <= Len(stream)
           /\ Len(out) \in Nat /\ Len(input) \in Nat /\ max_out \in Nat
           /\ len \in Nat /\ dist \in Nat /\ Len(out) <= Len(input) /\ Len(out) <= max_out
           /\ stream' = stream /\ input' = input /\ max_out' = max_out
           /\ pc # "copy" => copied = 0
           /\ MAX_EXTENDED_LENGTH \in Nat
BY RoundTripAssumption DEF Reading, Registers, OutIsPrefix

LEMMA AnyByte ==
    ASSUME NEW B, Reading(B), NEW q \in Nat, q + 1 <= Len(stream)
    PROVE  stream[q + 1] \in Byte
<1>1. stream \in Seq(Byte) /\ q + 1 \in 1 .. Len(stream)
  BY DEF Reading
<1> QED  BY <1>1, ElementOfSeq

\* Which actions there are at each value of the program counter.
LEMMA ByPhase ==
    ASSUME D!Next
    PROVE  /\ pc = "bootstrap" => D!Bootstrap \/ D!Reject
           /\ pc = "command" =>
                 D!ShortMatch \/ D!MatchC \/ D!MatchD \/ D!LiteralRun \/ D!TinyMatch \/ D!Reject
           /\ pc = "extend" => D!ExtendZero \/ D!ExtendLast \/ D!Reject
           /\ pc = "literals" => D!Literals \/ D!Reject
           /\ pc = "operand" => D!Operand \/ D!Reject
           /\ pc = "match" => D!CopyMatch \/ D!Reject
           /\ pc = "copy" => D!CopyByte
           /\ pc = "trailing" => D!Trailing \/ D!Reject
           /\ pc \notin {"ok", "err"}
<1>1. /\ D!Bootstrap => pc = "bootstrap"
      /\ D!Literals => pc = "literals"
      /\ D!CopyMatch => pc = "match"
      /\ D!CopyByte => pc = "copy"
      /\ D!Trailing => pc = "trailing"
      /\ D!Operand => pc = "operand"
  BY DEF D!Bootstrap, D!Literals, D!CopyMatch, D!CopyByte, D!Trailing, D!Operand
<1>2. /\ D!ShortMatch => pc = "command"
      /\ D!MatchC => pc = "command"
      /\ D!MatchD => pc = "command"
      /\ D!LiteralRun => pc = "command"
      /\ D!TinyMatch => pc = "command"
      /\ D!ExtendZero => pc = "extend"
      /\ D!ExtendLast => pc = "extend"
  BY DEF D!ShortMatch, D!MatchC, D!MatchD, D!LiteralRun, D!TinyMatch, D!ExtendZero, D!ExtendLast
<1>3. D!Reject => pc \in {"bootstrap", "command", "extend", "literals", "operand", "match",
                          "trailing"}
  BY DEF D!Reject, D!Malformed
<1> QED  BY <1>1, <1>2, <1>3 DEF D!Next

\* The command bytes the actions of the loop are for.
LEMMA Guards ==
    /\ D!ShortMatch => D!At(1) >= 64
    /\ D!TinyMatch => D!At(1) < 16 /\ state # 0
    /\ D!LiteralRun => D!At(1) < 16 /\ state = 0
    /\ D!MatchC => Between(D!At(1), 32, 63)
    /\ D!MatchD => Between(D!At(1), 16, 31)
BY Ranges, Zenon DEF D!ShortMatch, D!TinyMatch, D!LiteralRun, D!MatchC, D!MatchD

\* What a refusal leaves behind.
LEMMA Refused ==
    ASSUME NEW B, Reading(B), D!Reject, max_out < Len(input)
    PROVE  Registers' /\ Decodes(B)'
<1>1. pc' = "err" /\ UNCHANGED <<ip, out, len, dist, copied>> /\ copied' = 0
  <2>1. pc # "copy"
    BY DEF D!Reject, D!Malformed
  <2> QED  BY <2>1, Cursor DEF D!Reject
<1>2. Registers'
  BY <1>1, Cursor DEF Reading, Registers, OutIsPrefix
<1>3. Decodes(B)'
  BY <1>1, Cursor DEF Decodes
<1> QED  BY <1>2, <1>3

\* The literals of the layout fail to be copied only for want of room, and
\* extend the output by as many bytes of the input.
LEMMA NoRoom ==
    ASSUME NEW B, Reading(B), NEW skip \in Nat, NEW n \in Nat,
           LiteralsAt(B, ip + skip, Len(out), n), ~D!CanCopyLiterals(skip, n)
    PROVE  max_out < Len(input)
BY Cursor DEF LiteralsAt, D!CanCopyLiterals, D!Fits, D!Has

LEMMA LiteralsCopied ==
    ASSUME NEW B, Reading(B), NEW skip \in Nat, NEW n \in Nat,
           LiteralsAt(B, ip + skip, Len(out), n),
           D!CanCopyLiterals(skip, n), D!CopyLiterals(skip, n)
    PROVE  /\ OutIsPrefix' /\ ip' \in 0 .. Len(stream')
           /\ <<ip', Len(out')>> \in B
<1> DEFINE copy == SubSeq(stream, ip + skip + 1, ip + skip + n)
<1>1. /\ ip + skip + n <= Len(stream) /\ Len(out) + n <= Len(input)
      /\ Len(out) + n <= max_out
      /\ \A k \in 1 .. n : stream[ip + skip + k] = input[Len(out) + k]
      /\ <<ip + skip + n, Len(out) + n>> \in B
      /\ out' = out \o copy /\ ip' = ip + skip + n
  BY DEF LiteralsAt, D!CanCopyLiterals, D!Fits, D!CopyLiterals
<1>2. copy \in Seq(Byte) /\ Len(copy) = n /\ \A k \in 1 .. n : copy[k] = stream[ip + skip + k]
  <2>1. ip + skip \in Nat /\ stream \in Seq(Byte)
    BY Cursor DEF Reading
  <2> QED  BY <1>1, <2>1, Slice
<1> HIDE DEF copy
<1>3. /\ out' \in Seq(Byte) /\ Len(out') = Len(out) + n
      /\ \A i \in 1 .. Len(out) + n : out'[i] = IF i <= Len(out) THEN out[i] ELSE copy[i - Len(out)]
  <2>1. out \in Seq(Byte)
    BY DEF Reading, Registers, OutIsPrefix
  <2> QED  BY <1>1, <1>2, <2>1, ConcatProperties
<1>4. ASSUME NEW i \in 1 .. Len(out') PROVE out'[i] = input'[i]
  <2>1. CASE i <= Len(out)
    <3>1. out'[i] = out[i] /\ i \in 1 .. Len(out)
      BY <1>3, <2>1, Cursor
    <3>2. out[i] = input[i]
      BY <3>1 DEF Reading, Registers, OutIsPrefix
    <3> QED  BY <3>1, <3>2, Cursor
  <2>2. CASE i > Len(out)
    <3>1. i - Len(out) \in 1 .. n /\ Len(out) + (i - Len(out)) = i
      BY <1>3, <2>2, Cursor
    <3>2. copy[i - Len(out)] = input[i]
      BY <1>1, <1>2, <3>1
    <3> QED  BY <1>3, <2>2, <3>2, Cursor
  <2> QED  BY <2>1, <2>2, <1>3, Cursor
<1>5. OutIsPrefix'
  BY <1>1, <1>3, <1>4, Cursor DEF OutIsPrefix
<1> QED  BY <1>1, <1>3, <1>5, Cursor

\* The first byte begins a run, which bootstrap reads or leaves to the loop, or
\* the end of the stream.
LEMMA BootstrapReads ==
    ASSUME NEW B, Reading(B), pc = "bootstrap", ip = 0, Len(out) = 0
    PROVE  Registers' /\ Decodes(B)'
<1>1. D!Bootstrap \/ D!Reject
  BY ByPhase DEF Reading
<1>2. OpeningAt(B) /\ ip + 1 = 1 /\ D!At(1) = stream[1] /\ (1 <= Len(stream) => D!Has(1))
  BY DEF Reading, Emitted, D!At, D!Has
<1>3. CASE Between(stream[1], 0, 17) /\ 1 <= Len(stream) /\ (<<0, 0>> \in B \/ RunAt(B, 0, 0))
  <2>1. D!Bootstrap
    <3>1. D!Has(1) /\ ~(D!At(1) >= 18)
      BY <1>2, <1>3 DEF Between
    <3> QED  BY <1>1, <3>1 DEF D!Reject, D!Malformed
  <2>2. pc' = "command" /\ state' = 0 /\ UNCHANGED <<ip, out, len, dist, copied>>
    <3>1. ~(D!At(1) >= 18)
      BY <1>2, <1>3 DEF Between
    <3> QED  BY <2>1, <3>1, Zenon DEF D!Bootstrap
  <2>3. Registers'
    BY <2>2, Cursor DEF Reading, Registers, OutIsPrefix
  <2>4. RunAt(B, 0, 0) => RunAt(B, 0, 0)'
    BY ReadingGrows, RunGrows
  <2>5. Decodes(B)'
    BY <1>3, <2>2, <2>4 DEF Decodes
  <2> QED  BY <2>3, <2>5
<1>4. CASE 1 <= Len(stream) /\ Between(stream[1], 18, 255) /\ LiteralsAt(B, 1, 0, stream[1] - 17)
  <2> DEFINE n == stream[1] - 17
  <2>1. n \in Nat /\ LiteralsAt(B, ip + 1, Len(out), n) /\ D!Has(1)
        /\ D!At(1) - 17 = n /\ ~(D!At(1) < 18)
    <3>1. n \in Nat /\ stream[1] - 17 = n /\ ~(stream[1] < 18)
      BY <1>4 DEF Between
    <3>2. LiteralsAt(B, ip + 1, Len(out), n)
      BY <1>2, <1>4
    <3> QED  BY <1>2, <1>4, <3>1, <3>2
  <2> HIDE DEF n
  <2>2. CASE D!Bootstrap
    <3>1. /\ D!CanCopyLiterals(1, n) /\ D!CopyLiterals(1, n) /\ pc' = "command"
          /\ UNCHANGED <<len, dist, copied>>
      BY <2>1, <2>2, Zenon DEF D!Bootstrap
    <3>2. OutIsPrefix' /\ ip' \in 0 .. Len(stream') /\ <<ip', Len(out')>> \in B
      BY <2>1, <3>1, LiteralsCopied
    <3> QED  BY <3>1, <3>2, Cursor DEF Registers, Decodes
  <2>3. CASE D!Reject
    <3>1. ~D!CanCopyLiterals(1, n)
      BY <2>1, <2>3 DEF D!Reject, D!Malformed
    <3> QED  BY <2>1, <2>3, <3>1, NoRoom, Refused
  <2> QED  BY <1>1, <2>2, <2>3
<1>6. /\ RunAt(B, 0, 0) => 1 <= Len(stream) /\ Between(stream[1], 0, 17)
      /\ EndAt(0, 0) => 1 <= Len(stream) /\ Between(stream[1], 0, 17)
  BY DEF EndAt, RunAt, Between
<1> QED  BY <1>2, <1>3, <1>4, <1>6, Zenon DEF OpeningAt

\* A literal run in an instruction of its own, when nothing is pending.
LEMMA RunReads ==
    ASSUME NEW B, Reading(B), pc = "command", state = 0, RunAt(B, ip, Len(out))
    PROVE  Registers' /\ Decodes(B)'
<1>1. D!Has(1) /\ Between(D!At(1), 0, 15)
  <2>1. D!At(1) = stream[ip + 1] /\ (ip + 1 <= Len(stream) => D!Has(1))
    BY Zenon DEF D!At, D!Has
  <2>2. ip + 1 <= Len(stream) /\ (Between(stream[ip + 1], 1, 15) \/ stream[ip + 1] = 0)
    BY Zenon DEF RunAt
  <2> QED  BY <2>1, <2>2 DEF Between
<1>2. D!LiteralRun
  <2>1. ~D!Reject
    BY <1>1 DEF D!Reject, D!Malformed, Between
  <2>2. ~D!ShortMatch /\ ~D!TinyMatch /\ ~D!MatchC /\ ~D!MatchD
    <3>1. ~(D!At(1) >= 64) /\ ~Between(D!At(1), 32, 63) /\ ~Between(D!At(1), 16, 31)
      BY <1>1 DEF Between
    <3> QED  BY <3>1, Guards, Zenon
  <2> QED  BY <2>1, <2>2, ByPhase DEF Reading
<1>3. /\ ip' = ip + 1 /\ arm' = "literals" /\ UNCHANGED <<out, dist, copied>>
      /\ stream[ip + 1] = 0 => len' = 15 /\ pc' = "extend"
      /\ stream[ip + 1] # 0 => len' = stream[ip + 1] + 3 /\ pc' = "literals"
  BY <1>2 DEF D!LiteralRun, D!At
<1>4. ip' \in Nat /\ ip' \in 0 .. Len(stream')
  BY <1>1, <1>3, Cursor DEF D!Has
<1>5. CASE Between(stream[ip + 1], 1, 15) /\ LiteralsAt(B, ip + 1, Len(out), stream[ip + 1] + 3)
  <2>1. len' \in Nat /\ pc' = "literals" /\ LiteralsAt(B, ip', Len(out'), len')
    BY <1>3, <1>5 DEF Between
  <2>2. Registers'
    BY <1>3, <1>4, <2>1, Cursor DEF Reading, Registers, OutIsPrefix
  <2>3. LiteralsAt(B, ip, Len(out), len)'
    BY <1>4, <2>1, ReadingGrows, LiteralsGrow
  <2> QED  BY <2>1, <2>2, <2>3 DEF Decodes
<1>6. CASE stream[ip + 1] = 0 /\ \E z \in 0 .. Len(stream), b \in Byte :
                                     LongRunIs(B, ip, Len(out), z, b)
  <2>1. PICK z \in 0 .. Len(stream), b \in Byte : LongRunIs(B, ip, Len(out), z, b)
    BY <1>6
  <2>2. z \in Nat /\ b \in Nat /\ Worth(z) \in Nat
    BY WorthNat, ByteIs
  <2>3. len' = 15 /\ pc' = "extend"
    BY <1>3, <1>6
  <2>4. Registers'
    BY <1>3, <1>4, <2>3, Cursor DEF Reading, Registers, OutIsPrefix
  <2>5. PICK q \in Nat : q = ip'
    BY <1>4
  <2>9. PICK r \in Nat : r = q + z + 1
    BY <2>2
  <2>10. PICK m \in Nat : m = 15 + Worth(z) + b + 3
    BY <2>2
  <2>6. ExtensionAt(q, z, b)' /\ LiteralsAt(B, r, Len(out), m)'
    <3>1. ExtensionAt(q, z, b) /\ LiteralsAt(B, r, Len(out), m)
      BY <1>3, <2>1, <2>5, <2>9, <2>10, Zenon DEF LongRunIs
    <3>2. out' = out
      BY <1>3
    <3> QED  BY <2>2, <3>1, <3>2, ReadingGrows, ExtensionGrows, LiteralsGrow
  <2>7. z \in 0 .. Len(stream') /\ m = Complete(z, b, 3)'
    BY <2>1, <2>3, <2>10, Cursor DEF Complete, Worth
  <2>8. \E y \in 0 .. Len(stream'), c \in Byte :
           /\ ExtensionAt(ip, y, c)'
           /\ LiteralsAt(B, ip + y + 1, Len(out), Complete(y, c, 3))'
    BY <2>1, <2>5, <2>9, <2>6, <2>7, Zenon
  <2> QED  BY <1>3, <2>3, <2>4, <2>8 DEF Decodes
<1> QED  BY <1>5, <1>6 DEF RunAt

\* Both long matches: what the command byte tells, and what it leaves to an
\* extension or to the operand.
LEMMA BucketReads ==
    ASSUME NEW B, Reading(B), pc = "command", NEW name \in {"C", "D"}, NEW size \in Nat, size >= 2,
           NEW base \in Nat, ip + 1 <= Len(stream), stream[ip + 1] \in Nat,
           BucketAt(B, ip, Len(out), stream[ip + 1], name, size, base),
           D!LongMatch(name, size, base)
    PROVE  Registers' /\ Decodes(B)'
<1>1. /\ ip' = ip + 1 /\ arm' = name /\ dist' = base /\ UNCHANGED <<out, state, copied>>
      /\ stream[ip + 1] % size = 0 => len' = size - 1 /\ pc' = "extend"
      /\ stream[ip + 1] % size # 0 => len' = (stream[ip + 1] % size) + 2 /\ pc' = "operand"
  BY DEF D!LongMatch, D!At
<1>2. ip' \in Nat /\ ip' \in 0 .. Len(stream') /\ stream[ip + 1] % size \in Nat
  BY <1>1, Cursor, SMTT(30)
<1>3. Registers'
  <2>1. len' \in Nat /\ dist' \in Nat /\ copied' = 0 /\ pc' # "copy"
    BY <1>1, <1>2, Cursor, SMTT(30)
  <2> QED  BY <1>1, <1>2, <2>1, Cursor DEF Reading, Registers, OutIsPrefix
<1>4. PICK q \in Nat : q = ip'
  BY <1>2
<1>5. CASE stream[ip + 1] % size # 0
  <2>1. PICK n \in Nat : n = (stream[ip + 1] % size) + 2
    BY <1>2
  <2>2. OperandAt(B, q, Len(out), n, name, base)
    BY <1>1, <1>4, <1>5, <2>1, Zenon DEF BucketAt
  <2>3. OperandAt(B, q, Len(out), n, name, base)'
    BY <1>1, <2>2, ReadingGrows, OperandGrows
  <2>4. OperandAt(B, ip, Len(out), len, arm, dist)' /\ arm' \in {"C", "D"} /\ pc' = "operand"
    BY <1>1, <1>4, <1>5, <2>1, <2>3
  <2> QED  BY <1>3, <2>4, Zenon DEF Decodes
<1>6. CASE stream[ip + 1] % size = 0
  <2>1. PICK z \in 0 .. Len(stream), b \in Byte :
           ExtendedIs(B, ip, Len(out), name, size, base, z, b)
    BY <1>6, Zenon DEF BucketAt
  <2>2. z \in Nat /\ b \in Nat /\ Worth(z) \in Nat
    BY WorthNat, ByteIs
  <2>3. PICK r \in Nat : r = q + z + 1
    BY <2>2
  <2>4. PICK m \in Nat : m = size - 1 + Worth(z) + b + 2
    BY <2>2
  <2>5. /\ ExtensionAt(q, z, b) /\ m <= MAX_EXTENDED_LENGTH
        /\ OperandAt(B, r, Len(out), m, name, base)
    BY <1>1, <1>4, <2>1, <2>3, <2>4, Zenon DEF ExtendedIs
  <2>6. ExtensionAt(q, z, b)' /\ OperandAt(B, r, Len(out), m, name, base)'
    BY <1>1, <2>2, <2>5, ReadingGrows, ExtensionGrows, OperandGrows
  <2>7. z \in 0 .. Len(stream') /\ m = Complete(z, b, 2)'
    BY <1>1, <1>6, <2>1, <2>4, Cursor DEF Complete, Worth
  <2>8. \E y \in 0 .. Len(stream'), c \in Byte :
           /\ ExtensionAt(ip, y, c)' /\ Complete(y, c, 2)' <= MAX_EXTENDED_LENGTH
           /\ OperandAt(B, ip + y + 1, Len(out), Complete(y, c, 2), arm, dist)'
    BY <1>1, <1>4, <2>1, <2>3, <2>5, <2>6, <2>7, Zenon
  <2>9. pc' = "extend" /\ arm' \in {"C", "D"}
    BY <1>1, <1>6
  <2> QED  BY <1>3, <2>8, <2>9, Zenon DEF Decodes
<1> QED  BY <1>5, <1>6

\* At a boundary begins a match, or the end of the stream, which is a match of
\* bucket D that adds nothing to the base.
LEMMA HighPartNat == ASSUME NEW c \in Nat PROVE HighPart(c) \in Nat
BY RoundTripAssumption DEF HighPart

LEMMA HighPartIs == ASSUME NEW c \in Nat PROVE ((c \div 8) % 2) * DISTANCE_FIELD = HighPart(c)
<1>1. DISTANCE_FIELD \in Nat
  BY RoundTripAssumption
<1>2. (c \div 8) % 2 = 0 \/ (c \div 8) % 2 = 1
  OBVIOUS
<1>3. 0 * DISTANCE_FIELD = 0 /\ 1 * DISTANCE_FIELD = DISTANCE_FIELD
  BY <1>1
<1> QED  BY <1>2, <1>3 DEF HighPart

LEMMA BoundaryReads ==
    ASSUME NEW B, Reading(B), pc = "command", <<ip, Len(out)>> \in B
    PROVE  Registers' /\ Decodes(B)'
<1>1. MatchAt(B, ip, Len(out)) \/ EndAt(ip, Len(out))
  BY DEF Reading, Emitted
<1>2. D!At(1) = stream[ip + 1] /\ (ip + 1 <= Len(stream) => D!Has(1))
  BY Zenon DEF D!At, D!Has
<1>3. CASE /\ ip + 1 <= Len(stream) /\ Between(stream[ip + 1], 32, 63)
           /\ BucketAt(B, ip, Len(out), stream[ip + 1], "C", 32, 1)
  <2>1. D!Has(1) /\ Between(D!At(1), 32, 63)
    BY <1>2, <1>3, Zenon
  <2>2. /\ ~(D!At(1) >= 64) /\ ~(D!At(1) < 16) /\ ~Between(D!At(1), 16, 31)
    BY <2>1 DEF Between
  <2>3. ~D!Reject
    BY <2>1, <2>2, Zenon DEF D!Reject, D!Malformed
  <2>4. D!MatchC
    BY <2>2, <2>3, Guards, ByPhase, Zenon DEF Reading
  <2>5. D!LongMatch("C", 32, 1)
    BY <2>4, Zenon DEF D!MatchC
  <2>6. stream[ip + 1] \in Nat
    BY <1>3, Zenon DEF Between
  <2>7. 32 \in Nat /\ 32 >= 2 /\ 1 \in Nat
    OBVIOUS
  <2> QED  BY <1>3, <2>5, <2>6, <2>7, BucketReads
<1>4. ASSUME ip + 1 <= Len(stream), Between(stream[ip + 1], 16, 31)
      PROVE  D!LongMatch("D", 8, LONG_MATCH_DISTANCE_BASE + HighPart(stream[ip + 1]))
  <2>1. D!Has(1) /\ Between(D!At(1), 16, 31)
    BY <1>2, <1>4, Zenon
  <2>2. /\ ~(D!At(1) >= 64) /\ ~(D!At(1) < 16) /\ ~Between(D!At(1), 32, 63)
    BY <2>1 DEF Between
  <2>3. ~D!Reject
    BY <2>1, <2>2, Zenon DEF D!Reject, D!Malformed
  <2>4. D!MatchD
    BY <2>2, <2>3, Guards, ByPhase, Zenon DEF Reading
  <2>5. D!LongMatch("D", 8, LONG_MATCH_DISTANCE_BASE + ((D!At(1) \div 8) % 2) * DISTANCE_FIELD)
    BY <2>4, Zenon DEF D!MatchD
  <2>6. ((D!At(1) \div 8) % 2) * DISTANCE_FIELD = HighPart(stream[ip + 1])
    <3>1. stream[ip + 1] \in Nat
      BY <1>4, Zenon DEF Between
    <3> QED  BY <1>2, <3>1, HighPartIs, Zenon
  <2> QED  BY <2>5, <2>6, Zenon
<1>5. CASE /\ ip + 1 <= Len(stream) /\ Between(stream[ip + 1], 16, 31)
           /\ BucketAt(B, ip, Len(out), stream[ip + 1], "D", 8,
                       LONG_MATCH_DISTANCE_BASE + HighPart(stream[ip + 1]))
  <2>1. stream[ip + 1] \in Nat
    BY <1>5, Zenon DEF Between
  <2>2. PICK base \in Nat : base = LONG_MATCH_DISTANCE_BASE + HighPart(stream[ip + 1])
    <3>1. HighPart(stream[ip + 1]) \in Nat
      BY <2>1, HighPartNat, Zenon
    <3>2. LONG_MATCH_DISTANCE_BASE \in Nat
      BY RoundTripAssumption
    <3>3. LONG_MATCH_DISTANCE_BASE + HighPart(stream[ip + 1]) \in Nat
      BY <3>1, <3>2
    <3> QED  BY <3>3, Zenon
  <2>3. 8 \in Nat /\ 8 >= 2
    OBVIOUS
  <2>4. D!LongMatch("D", 8, base) /\ BucketAt(B, ip, Len(out), stream[ip + 1], "D", 8, base)
    BY <1>4, <1>5, <2>2, Zenon
  <2> QED  BY <1>5, <2>1, <2>3, <2>4, BucketReads
<1>6. CASE EndAt(ip, Len(out))
  <2>1. /\ ip + 3 = Len(stream) /\ Len(out) = Len(input)
        /\ stream[ip + 1] = 17 /\ stream[ip + 2] = 0 /\ stream[ip + 3] = 0
    BY <1>6, Zenon DEF EndAt
  <2>2. ip + 1 <= Len(stream) /\ Between(stream[ip + 1], 16, 31)
    BY <2>1, Cursor DEF Between
  <2>3. HighPart(17) = 0 /\ 17 % 8 = 1
    <3>1. (17 \div 8) % 2 = 0 /\ 17 % 8 = 1
      OBVIOUS
    <3> QED  BY <3>1 DEF HighPart
  <2>4. D!LongMatch("D", 8, LONG_MATCH_DISTANCE_BASE)
    <3>1. LONG_MATCH_DISTANCE_BASE + 0 = LONG_MATCH_DISTANCE_BASE
      BY RoundTripAssumption
    <3> QED  BY <1>4, <2>1, <2>2, <2>3, <3>1, Zenon
  <2>5. /\ ip' = ip + 1 /\ arm' = "D" /\ dist' = LONG_MATCH_DISTANCE_BASE
        /\ UNCHANGED <<out, copied>> /\ len' = 3 /\ pc' = "operand"
    <3>1. D!At(1) % 8 = 1
      BY <1>2, <2>1, <2>3, Zenon
    <3> QED  BY <2>4, <3>1 DEF D!LongMatch
  <2>6. ip' \in 0 .. Len(stream') /\ dist' \in Nat /\ copied' = 0
    BY <2>1, <2>5, Cursor, RoundTripAssumption
  <2>7. Registers'
    BY <2>5, <2>6, Cursor DEF Reading, Registers, OutIsPrefix
  <2>8. ip + 1 + 1 = ip + 2 /\ ip + 1 + 2 = ip + 3
    BY Cursor
  <2>9. /\ pc' = "operand" /\ arm' = "D" /\ dist' = LONG_MATCH_DISTANCE_BASE
        /\ ip' + 2 = Len(stream') /\ stream'[ip' + 1] = 0 /\ stream'[ip' + 2] = 0
        /\ Len(out') = Len(input')
    BY <2>1, <2>5, <2>8, Cursor
  <2> QED  BY <2>7, <2>9, Zenon DEF Decodes
<1> QED  BY <1>1, <1>3, <1>5, <1>6, Zenon DEF MatchAt

\* The zero bytes of an extension, down to the last byte.  `next` says what
\* the decoder does with the length in the end.
LEMMA ZeroReads ==
    ASSUME NEW B, Reading(B), pc = "extend", NEW z \in Nat, z > 0, NEW b, ExtensionAt(ip, z, b),
           NEW more \in Nat, b \in Nat, Complete(z, b, more) <= MAX_EXTENDED_LENGTH
    PROVE  /\ ip' = ip + 1 /\ ip' \in Nat /\ ip' <= Len(stream)
           /\ len' \in Nat /\ UNCHANGED <<out, pc, arm, dist, copied>>
           /\ ExtensionAt(ip + 1, z - 1, b)
           /\ len + Worth(z) = len' + Worth(z - 1)
<1>1. z - 1 \in Nat /\ Worth(z) = Worth(z - 1) + ZERO_RUN_INCREMENT
      /\ Worth(z - 1) \in Nat /\ ZERO_RUN_INCREMENT \in Nat
  <2>1. z - 1 \in Nat /\ (z - 1) + 1 = z
    OBVIOUS
  <2>2. ZERO_RUN_INCREMENT \in Nat
    BY RoundTripAssumption
  <2> QED  BY <2>1, <2>2, WorthNat, WorthOneMore
<1>2. /\ ip + z + 1 <= Len(stream) /\ Between(b, 1, 255)
      /\ \A k \in 1 .. z : stream[ip + k] = 0
      /\ stream[ip + z + 1] = b
  BY Zenon DEF ExtensionAt
<1>3. stream[ip + 1] = 0 /\ ip + 1 <= Len(stream)
  <2>1. 1 \in 1 .. z /\ ip + 1 <= Len(stream)
    BY <1>2, Cursor
  <2> QED  BY <1>2, <2>1
<1>4. len + ZERO_RUN_INCREMENT <= MAX_EXTENDED_LENGTH
  BY <1>1, Cursor DEF Complete
<1>5. D!ExtendZero
  <2>1. D!Has(1) /\ D!At(1) = 0
    BY <1>3, Zenon DEF D!Has, D!At
  <2>2. ~(len + ZERO_RUN_INCREMENT > MAX_EXTENDED_LENGTH)
    BY <1>1, <1>4, Cursor
  <2>3. ~D!Reject
    BY <2>1, <2>2, Zenon DEF D!Reject, D!Malformed
  <2>4. ~D!ExtendLast
    BY <2>1, Zenon DEF D!ExtendLast
  <2> QED  BY <2>3, <2>4, ByPhase, Zenon DEF Reading
<1>6. /\ ip' = ip + 1 /\ len' = len + ZERO_RUN_INCREMENT
      /\ UNCHANGED <<out, pc, arm, dist, copied>>
  BY <1>5, Zenon DEF D!ExtendZero
<1>7. ExtensionAt(ip + 1, z - 1, b)
  <2>1. ip + 1 + (z - 1) + 1 = ip + z + 1
    BY Cursor
  <2>2. ASSUME NEW k \in 1 .. z - 1 PROVE stream[ip + 1 + k] = 0
    <3>1. k + 1 \in 1 .. z /\ ip + 1 + k = ip + (k + 1)
      BY Cursor
    <3> QED  BY <1>2, <3>1
  <2> QED  BY <1>2, <2>1, <2>2 DEF ExtensionAt
<1>8. ip + 1 \in Nat /\ len + ZERO_RUN_INCREMENT \in Nat
      /\ len + Worth(z) = len + ZERO_RUN_INCREMENT + Worth(z - 1)
  BY <1>1, Cursor, SMTT(30)
<1> QED  BY <1>3, <1>6, <1>7, <1>8

\* The last byte of an extension.
LEMMA LastReads ==
    ASSUME NEW B, Reading(B), pc = "extend", NEW b, ExtensionAt(ip, 0, b)
    PROVE  /\ ip' = ip + 1 /\ ip' \in Nat /\ ip' <= Len(stream) /\ b \in Nat
           /\ UNCHANGED <<out, state, arm, dist, copied>>
           /\ arm = "literals" => len' = len + b + 3 /\ pc' = "literals"
           /\ arm # "literals" => len' = len + b + 2 /\ pc' = "operand"
<1>1. ip + 1 <= Len(stream) /\ stream[ip + 1] = b /\ b \in Nat /\ b # 0
  <2>1. ip + 0 + 1 = ip + 1
    BY Cursor
  <2>2. ip + 0 + 1 <= Len(stream) /\ stream[ip + 0 + 1] = b /\ Between(b, 1, 255)
    BY Zenon DEF ExtensionAt
  <2> QED  BY <2>1, <2>2 DEF Between
<1>2. D!ExtendLast
  <2>1. D!Has(1) /\ D!At(1) # 0
    BY <1>1, Zenon DEF D!Has, D!At
  <2>2. ~D!Reject /\ ~D!ExtendZero
    BY <2>1, Zenon DEF D!Reject, D!Malformed, D!ExtendZero
  <2> QED  BY <2>2, ByPhase, Zenon DEF Reading
<1>3. D!At(1) = b
  BY <1>1, Zenon DEF D!At
<1>4. /\ ip' = ip + 1 /\ UNCHANGED <<out, state, arm, dist, copied>>
      /\ arm = "literals" => len' = len + b + 3 /\ pc' = "literals"
      /\ arm # "literals" => len' = len + b + 2 /\ pc' = "operand"
  BY <1>2, <1>3, Zenon DEF D!ExtendLast
<1>5. ip + 1 \in Nat
  BY Cursor
<1> QED  BY <1>1, <1>4, <1>5, Zenon

LEMMA CompleteNat ==
    ASSUME NEW z \in Nat, NEW b \in Nat, NEW more \in Nat, len \in Nat
    PROVE  Complete(z, b, more) \in Nat
BY WorthNat DEF Complete

LEMMA CompleteNothing ==
    ASSUME NEW b \in Nat, NEW more \in Nat, len \in Nat PROVE Complete(0, b, more) = len + b + more
BY WorthNothing DEF Complete

\* A length extension, of a literal run and of a match.
LEMMA ExtendRunReads ==
    ASSUME NEW B, Reading(B), pc = "extend", arm = "literals",
           NEW z \in 0 .. Len(stream), NEW b \in Byte, ExtensionAt(ip, z, b),
           LiteralsAt(B, ip + z + 1, Len(out), Complete(z, b, 3))
    PROVE  Registers' /\ Decodes(B)'
<1>1. z \in Nat /\ b \in Nat /\ Worth(z) \in Nat /\ Complete(z, b, 3) \in Nat
  <2>1. z \in Nat /\ b \in Nat
    BY ByteIs, Cursor
  <2> QED  BY <2>1, WorthNat, CompleteNat, Cursor
<1>2. CASE z = 0
  <2>1. /\ ip' = ip + 1 /\ ip' \in Nat /\ ip' <= Len(stream)
        /\ UNCHANGED <<out, state, arm, dist, copied>>
        /\ len' = len + b + 3 /\ pc' = "literals"
    BY <1>2, LastReads
  <2>2. PICK q \in Nat : q = ip'
    BY <2>1
  <2>3. PICK n \in Nat : n = len'
    BY <1>1, <2>1, Cursor, SMTT(30)
  <2>4. LiteralsAt(B, q, Len(out), n)
    <3>1. ip + z + 1 = q /\ Complete(z, b, 3) = n
      BY <1>1, <1>2, <2>1, <2>2, <2>3, CompleteNothing, Cursor
    <3> QED  BY <3>1, Zenon
  <2>5. LiteralsAt(B, q, Len(out), n)'
    BY <2>1, <2>4, ReadingGrows, LiteralsGrow
  <2>6. LiteralsAt(B, ip, Len(out), len)'
    BY <2>2, <2>3, <2>5, Zenon
  <2>7. Registers'
    BY <2>1, <2>3, Cursor DEF Reading, Registers, OutIsPrefix
  <2> QED  BY <2>1, <2>6, <2>7, Zenon DEF Decodes
<1>3. CASE z > 0
  <2>1. Complete(z, b, 3) <= MAX_EXTENDED_LENGTH
    BY Zenon DEF LiteralsAt
  <2>2. /\ ip' = ip + 1 /\ ip' \in Nat /\ ip' <= Len(stream)
        /\ len' \in Nat /\ UNCHANGED <<out, pc, arm, dist, copied>>
        /\ ExtensionAt(ip + 1, z - 1, b)
        /\ len + Worth(z) = len' + Worth(z - 1)
    BY <1>1, <1>3, <2>1, ZeroReads
  <2>3. z - 1 \in Nat /\ z - 1 \in 0 .. Len(stream')
    BY <1>1, <1>3, Cursor
  <2>4. PICK y \in Nat : y = z - 1
    BY <2>3
  <2>5. PICK q \in Nat : q = ip'
    BY <2>2
  <2>6. PICK n \in Nat : n = Complete(z, b, 3)
    BY <1>1
  <2>7. PICK r \in Nat : r = ip + z + 1
    BY <1>1, Cursor
  <2>8. ExtensionAt(q, y, b)' /\ LiteralsAt(B, r, Len(out), n)'
    <3>1. ExtensionAt(q, y, b) /\ LiteralsAt(B, r, Len(out), n)
      BY <2>2, <2>4, <2>5, <2>6, <2>7, Zenon
    <3> QED  BY <2>2, <3>1, ReadingGrows, ExtensionGrows, LiteralsGrow
  <2>9. r = ip' + y + 1
    BY <1>1, <2>2, <2>4, <2>7, Cursor, SMTT(30)
  <2>10. n = Complete(y, b, 3)'
    <3>1. Worth(y) \in Nat /\ n = len + Worth(z) + b + 3
      BY <2>6, WorthNat, Zenon DEF Complete
    <3>2. n = len' + Worth(y) + b + 3
      BY <1>1, <2>2, <2>4, <3>1, Cursor
    <3> QED  BY <3>2, Zenon DEF Complete, Worth
  <2>11. \E x \in 0 .. Len(stream'), c \in Byte :
            ExtensionAt(ip, x, c)' /\ LiteralsAt(B, ip + x + 1, Len(out), Complete(x, c, 3))'
    BY <2>3, <2>4, <2>5, <2>8, <2>9, <2>10, Zenon
  <2>12. Registers' /\ pc' = "extend" /\ arm' = "literals"
    BY <2>2, Cursor DEF Reading, Registers, OutIsPrefix
  <2> QED  BY <2>11, <2>12, Zenon DEF Decodes
<1> QED  BY <1>1, <1>2, <1>3

LEMMA ExtendMatchReads ==
    ASSUME NEW B, Reading(B), pc = "extend", arm \in {"C", "D"},
           NEW z \in 0 .. Len(stream), NEW b \in Byte, ExtensionAt(ip, z, b),
           Complete(z, b, 2) <= MAX_EXTENDED_LENGTH,
           OperandAt(B, ip + z + 1, Len(out), Complete(z, b, 2), arm, dist)
    PROVE  Registers' /\ Decodes(B)'
<1>1. z \in Nat /\ b \in Nat /\ Worth(z) \in Nat /\ Complete(z, b, 2) \in Nat
  <2>1. z \in Nat /\ b \in Nat
    BY ByteIs, Cursor
  <2> QED  BY <2>1, WorthNat, CompleteNat, Cursor
<1>2. CASE z = 0
  <2>1. /\ ip' = ip + 1 /\ ip' \in Nat /\ ip' <= Len(stream)
        /\ UNCHANGED <<out, state, arm, dist, copied>>
        /\ len' = len + b + 2 /\ pc' = "operand"
    BY <1>2, LastReads
  <2>2. PICK q \in Nat : q = ip'
    BY <2>1
  <2>3. PICK n \in Nat : n = len'
    BY <1>1, <2>1, Cursor, SMTT(30)
  <2>4. OperandAt(B, q, Len(out), n, arm, dist)
    <3>1. ip + z + 1 = q /\ Complete(z, b, 2) = n
      BY <1>1, <1>2, <2>1, <2>2, <2>3, CompleteNothing, Cursor
    <3> QED  BY <3>1, Zenon
  <2>5. OperandAt(B, q, Len(out), n, arm, dist)'
    BY <2>1, <2>4, ReadingGrows, OperandGrows
  <2>6. OperandAt(B, ip, Len(out), len, arm, dist)'
    BY <2>2, <2>3, <2>5, Zenon
  <2>7. Registers' /\ arm' \in {"C", "D"}
    BY <2>1, <2>3, Cursor DEF Reading, Registers, OutIsPrefix
  <2> QED  BY <2>1, <2>6, <2>7, Zenon DEF Decodes
<1>3. CASE z > 0
  <2>2. /\ ip' = ip + 1 /\ ip' \in Nat /\ ip' <= Len(stream)
        /\ len' \in Nat /\ UNCHANGED <<out, pc, arm, dist, copied>>
        /\ ExtensionAt(ip + 1, z - 1, b)
        /\ len + Worth(z) = len' + Worth(z - 1)
    BY <1>1, <1>3, ZeroReads
  <2>3. z - 1 \in Nat /\ z - 1 \in 0 .. Len(stream')
    BY <1>1, <1>3, Cursor
  <2>4. PICK y \in Nat : y = z - 1
    BY <2>3
  <2>5. PICK q \in Nat : q = ip'
    BY <2>2
  <2>6. PICK n \in Nat : n = Complete(z, b, 2)
    BY <1>1
  <2>7. PICK r \in Nat : r = ip + z + 1
    BY <1>1, Cursor
  <2>8. ExtensionAt(q, y, b)' /\ OperandAt(B, r, Len(out), n, arm, dist)'
    <3>1. ExtensionAt(q, y, b) /\ OperandAt(B, r, Len(out), n, arm, dist)
      BY <2>2, <2>4, <2>5, <2>6, <2>7, Zenon
    <3> QED  BY <2>2, <3>1, ReadingGrows, ExtensionGrows, OperandGrows
  <2>9. r = ip' + y + 1
    BY <1>1, <2>2, <2>4, <2>7, Cursor, SMTT(30)
  <2>10. n = Complete(y, b, 2)' /\ n <= MAX_EXTENDED_LENGTH
    <3>1. Worth(y) \in Nat /\ n = len + Worth(z) + b + 2
      BY <2>6, WorthNat, Zenon DEF Complete
    <3>2. n = len' + Worth(y) + b + 2
      BY <1>1, <2>2, <2>4, <3>1, Cursor
    <3> QED  BY <2>6, <3>2, Zenon DEF Complete, Worth
  <2>11. \E x \in 0 .. Len(stream'), c \in Byte :
            /\ ExtensionAt(ip, x, c)' /\ Complete(x, c, 2)' <= MAX_EXTENDED_LENGTH
            /\ OperandAt(B, ip + x + 1, Len(out), Complete(x, c, 2), arm, dist)'
    BY <2>3, <2>4, <2>5, <2>8, <2>9, <2>10, Zenon
  <2>12. Registers' /\ pc' = "extend" /\ arm' \in {"C", "D"}
    BY <2>2, Cursor DEF Reading, Registers, OutIsPrefix
  <2> QED  BY <2>11, <2>12, Zenon DEF Decodes
<1> QED  BY <1>1, <1>2, <1>3

\* The literals of a run in an instruction of its own.
LEMMA LiteralsRead ==
    ASSUME NEW B, Reading(B), pc = "literals", LiteralsAt(B, ip, Len(out), len)
    PROVE  Registers' /\ Decodes(B)'
<1>1. len \in Nat /\ 0 \in Nat /\ LiteralsAt(B, ip + 0, Len(out), len)
  <2>1. ip + 0 = ip
    BY Cursor
  <2> QED  BY <2>1, Cursor
<1>2. CASE D!Reject
  <2>1. ~D!CanCopyLiterals(0, len)
    BY <1>2, Zenon DEF D!Reject, D!Malformed
  <2> QED  BY <1>1, <1>2, <2>1, NoRoom, Refused
<1>3. CASE D!Literals
  <2>1. /\ D!CanCopyLiterals(0, len) /\ D!CopyLiterals(0, len) /\ pc' = "command"
        /\ UNCHANGED <<len, dist, copied>>
    BY <1>3, Zenon DEF D!Literals
  <2>2. OutIsPrefix' /\ ip' \in 0 .. Len(stream') /\ <<ip', Len(out')>> \in B
    BY <1>1, <2>1, LiteralsCopied
  <2> QED  BY <2>1, <2>2, Cursor DEF Registers, Decodes
<1> QED  BY <1>2, <1>3, ByPhase DEF Reading

\* The two bytes of an operand.
LEMMA OperandParts ==
    ASSUME NEW bits \in Nat, NEW inline \in 0 .. 3
    PROVE  (4 * bits + inline) \div 4 = bits /\ (4 * bits + inline) % 4 = inline
OBVIOUS

LEMMA OperandReads ==
    ASSUME NEW B, Reading(B), pc = "operand", arm \in {"C", "D"},
           OperandAt(B, ip, Len(out), len, arm, dist)
    PROVE  Registers' /\ Decodes(B)'
<1>1. PICK bits \in Nat, inline \in 0 .. 3 :
         OperandIs(B, ip, Len(out), len, arm, dist, bits, inline)
  BY Zenon DEF OperandAt
<1>2. /\ ip + 2 <= Len(stream)
      /\ stream[ip + 1] + 256 * stream[ip + 2] = 4 * bits + inline
      /\ (arm = "D" /\ dist = LONG_MATCH_DISTANCE_BASE) => bits > 0
      /\ RepeatsAt(B, ip + 2, Len(out), len, dist + bits, inline)
  BY <1>1, Zenon DEF OperandAt, OperandIs
<1>3. D!Has(2) /\ D!At(1) + 256 * D!At(2) = 4 * bits + inline
  BY <1>2, Zenon DEF D!Has, D!At
<1>4. D!Operand
  <2>1. ~D!Reject
    BY <1>3, Zenon DEF D!Reject, D!Malformed
  <2> QED  BY <2>1, ByPhase, Zenon DEF Reading
<1>5. ~(arm = "D" /\ bits = 0 /\ dist = LONG_MATCH_DISTANCE_BASE)
  BY <1>2
<1>6. /\ ip' = ip + 2 /\ pc' = "match" /\ dist' = dist + bits /\ state' = inline
      /\ UNCHANGED <<out, arm, len, copied>>
  <2>1. (4 * bits + inline) \div 4 = bits /\ (4 * bits + inline) % 4 = inline
    BY OperandParts
  <2> QED  BY <1>3, <1>4, <1>5, <2>1, Zenon DEF D!Operand
<1>7. PICK q \in Nat : q = ip'
  BY <1>6, Cursor
<1>8. PICK d \in Nat : d = dist'
  BY <1>6, Cursor
<1>9. RepeatsAt(B, q, Len(out), len, d, inline)'
  <2>1. RepeatsAt(B, q, Len(out), len, d, inline)
    BY <1>2, <1>6, <1>7, <1>8, Zenon
  <2> QED  BY <1>6, <2>1, ReadingGrows, RepeatsGrows
<1>10. RepeatsAt(B, ip, Len(out), len, dist, state)' /\ pc' = "match"
  BY <1>6, <1>7, <1>8, <1>9, Zenon
<1>11. Registers'
  BY <1>2, <1>6, <1>8, Cursor DEF Reading, Registers, OutIsPrefix
<1> QED  BY <1>10, <1>11, Zenon DEF Decodes

\* The operand of the token that ends the stream.
LEMMA EndReads ==
    ASSUME NEW B, Reading(B), pc = "operand", arm = "D", dist = LONG_MATCH_DISTANCE_BASE,
           ip + 2 = Len(stream), stream[ip + 1] = 0, stream[ip + 2] = 0, Len(out) = Len(input)
    PROVE  Registers' /\ Decodes(B)'
<1>1. D!Has(2) /\ (D!At(1) + 256 * D!At(2)) \div 4 = 0
  <2>1. D!At(1) = 0 /\ D!At(2) = 0 /\ (0 + 256 * 0) \div 4 = 0
    BY DEF D!At
  <2>2. ip + 2 <= Len(stream)
    BY Cursor
  <2> QED  BY <2>1, <2>2, Zenon DEF D!Has
<1>2. D!Operand
  <2>1. ~D!Reject
    BY <1>1, Zenon DEF D!Reject, D!Malformed
  <2> QED  BY <2>1, ByPhase, Zenon DEF Reading
<1>3. ip' = ip + 2 /\ pc' = "ok" /\ UNCHANGED <<out, dist, len, copied>>
  BY <1>1, <1>2, Zenon DEF D!Operand
<1>4. ip' = Len(stream') /\ Len(out') = Len(input') /\ ip' \in 0 .. Len(stream')
  BY <1>3, Cursor
<1>5. Registers'
  BY <1>3, <1>4, Cursor DEF Reading, Registers, OutIsPrefix
<1> QED  BY <1>3, <1>4, <1>5, Zenon DEF Decodes

\* A match of the layout is refused only for want of room.
LEMMA MatchReads ==
    ASSUME NEW B, Reading(B), pc = "match", RepeatsAt(B, ip, Len(out), len, dist, state)
    PROVE  Registers' /\ Decodes(B)'
<1>1. /\ len >= 2 /\ dist \in 1 .. Len(out) /\ Len(out) + len <= Len(input)
  BY Zenon DEF RepeatsAt
<1>2. CASE D!Reject
  <2>1. ~D!CanCopyMatch
    BY <1>2, Zenon DEF D!Reject, D!Malformed
  <2>2. dist # 0 /\ dist <= Len(out)
    BY <1>1, Cursor
  <2>3. ~(Len(out) + len <= max_out)
    BY <2>1, <2>2, Zenon DEF D!CanCopyMatch, D!Fits
  <2>4. max_out < Len(input)
    BY <1>1, <2>3, Cursor
  <2> QED  BY <1>2, <2>4, Refused
<1>3. CASE D!CopyMatch
  <2>1. /\ pc' = "copy" /\ UNCHANGED <<ip, out, state, len, dist, copied>>
        /\ Len(out) + len <= max_out
    BY <1>3, Zenon DEF D!CopyMatch, D!CanCopyMatch, D!Fits
  <2>2. copied = 0 /\ Len(out) - 0 = Len(out)
    BY Cursor
  <2>3. Registers'
    BY <2>1, Cursor DEF Reading, Registers, OutIsPrefix
  <2>4. RepeatsAt(B, ip, Len(out), len, dist, state)'
    <3>1. PICK q \in Nat : q = ip
      BY Cursor
    <3>2. RepeatsAt(B, q, Len(out), len, dist, state)'
      BY <2>1, <3>1, ReadingGrows, RepeatsGrows
    <3> QED  BY <2>1, <3>1, <3>2, Zenon
  <2>5. /\ copied' \in Nat /\ copied' < len' /\ copied' <= Len(out')
        /\ Len(out') - copied' + len' <= max_out'
        /\ Len(out') - copied' = Len(out')
    BY <1>1, <2>1, <2>2, Cursor
  <2>6. RepeatsAt(B, ip, Len(out) - copied, len, dist, state)'
    BY <2>4, <2>5, Zenon
  <2> QED  BY <2>1, <2>3, <2>5, <2>6, Zenon DEF Decodes
<1> QED  BY <1>2, <1>3, ByPhase DEF Reading

\* Every byte of a back-reference is the next byte of the input.
LEMMA CopyReads ==
    ASSUME NEW B, Reading(B), pc = "copy", copied \in Nat, copied < len, copied <= Len(out),
           Len(out) - copied + len <= max_out,
           RepeatsAt(B, ip, Len(out) - copied, len, dist, state)
    PROVE  Registers' /\ Decodes(B)'
<1> DEFINE p == Len(out) - copied
<1>1. p \in Nat /\ p + copied = Len(out)
  BY Cursor
<1>2. /\ dist \in 1 .. p /\ p + len <= Len(input)
      /\ \A k \in 1 .. len : input[p + k] = input[p + k - dist]
      /\ FollowsAt(B, ip, p + len, state)
  BY Zenon DEF RepeatsAt
<1> HIDE DEF p
<1>3. /\ out' = Append(out, out[Len(out) + 1 - dist])
      /\ copied + 1 < len => copied' = copied + 1 /\ pc' = pc
      /\ ~(copied + 1 < len) => copied' = 0 /\ pc' = "trailing"
      /\ UNCHANGED <<ip, state, len, dist>>
  <2>1. D!CopyByte
    BY ByPhase DEF Reading
  <2> QED  BY <2>1, Zenon DEF D!CopyByte
<1>4. out[Len(out) + 1 - dist] = input[Len(out) + 1]
  <2>1. Len(out) + 1 - dist \in 1 .. Len(out)
    BY <1>1, <1>2, Cursor
  <2>2. out[Len(out) + 1 - dist] = input[Len(out) + 1 - dist]
    BY <2>1 DEF Reading, Registers, OutIsPrefix
  <2>3. copied + 1 \in 1 .. len /\ p + (copied + 1) = Len(out) + 1
    BY <1>1, Cursor
  <2>4. PICK k \in 1 .. len : p + k = Len(out) + 1
    BY <2>3
  <2>6. input[p + k] = input[p + k - dist]
    BY <1>2
  <2>5. input[Len(out) + 1] = input[Len(out) + 1 - dist]
    BY <1>1, <1>2, <2>4, <2>6, Cursor, SMTT(30)
  <2> QED  BY <2>2, <2>5, Zenon
<1>5. input[Len(out) + 1] \in Byte /\ Len(out) + 1 <= Len(input) /\ Len(out) + 1 <= max_out
  <2>1. Len(out) + 1 \in 1 .. Len(input) /\ Len(out) + 1 <= max_out
    BY <1>1, <1>2, Cursor DEF p
  <2> QED  BY <2>1, ElementOfSeq DEF Reading
<1>6. /\ out' \in Seq(Byte) /\ Len(out') = Len(out) + 1
      /\ \A i \in 1 .. Len(out) : out'[i] = out[i]
      /\ out'[Len(out) + 1] = input[Len(out) + 1]
  <2>1. out \in Seq(Byte)
    BY DEF Reading, Registers, OutIsPrefix
  <2> QED  BY <1>3, <1>4, <1>5, <2>1, AppendProperties
<1>7. OutIsPrefix'
  <2>1. ASSUME NEW i \in 1 .. Len(out') PROVE out'[i] = input'[i]
    <3>1. i \in 1 .. Len(out) \/ i = Len(out) + 1
      BY <1>6, Cursor
    <3>2. \A k \in 1 .. Len(out) : out[k] = input[k]
      BY DEF Reading, Registers, OutIsPrefix
    <3> QED  BY <1>6, <3>1, <3>2, Cursor
  <2> QED  BY <1>5, <1>6, <2>1, Cursor DEF OutIsPrefix
<1>8. Registers'
  BY <1>3, <1>7, Cursor DEF Registers
<1>9. PICK q \in Nat : q = ip
  BY Cursor
<1>10. CASE copied + 1 < len
  <2>1. copied' = copied + 1 /\ pc' = "copy"
    BY <1>3, <1>10, Zenon
  <2>2. /\ copied' \in Nat /\ copied' < len' /\ copied' <= Len(out')
        /\ Len(out') - copied' + len' <= max_out'
        /\ Len(out') - copied' = Len(out) - copied
    BY <1>3, <1>6, <1>10, <2>1, Cursor
  <2>3. RepeatsAt(B, ip, Len(out) - copied, len, dist, state)'
    <3>1. PICK n \in Nat : n = Len(out) - copied
      BY <1>1 DEF p
    <3>2. RepeatsAt(B, q, n, len, dist, state)'
      BY <1>3, <1>9, <3>1, ReadingGrows, RepeatsGrows
    <3> QED  BY <1>3, <1>9, <2>2, <3>1, <3>2, Zenon
  <2> QED  BY <1>8, <2>1, <2>2, <2>3, Zenon DEF Decodes
<1>11. CASE ~(copied + 1 < len)
  <2>1. pc' = "trailing" /\ p + len = Len(out')
    BY <1>1, <1>3, <1>6, <1>11, Cursor
  <2>2. FollowsAt(B, ip, Len(out), state)'
    <3>1. PICK n \in Nat : n = p + len
      BY <1>1, Cursor
    <3>2. FollowsAt(B, q, n, state)'
      BY <1>2, <1>3, <1>9, <3>1, ReadingGrows, FollowsGrows
    <3> QED  BY <1>3, <1>9, <2>1, <3>1, <3>2, Zenon
  <2> QED  BY <1>8, <2>1, <2>2, Zenon DEF Decodes
<1> QED  BY <1>10, <1>11, Zenon

\* The literals a match carries, or none and then a boundary or a run.
LEMMA TrailingReads ==
    ASSUME NEW B, Reading(B), pc = "trailing", FollowsAt(B, ip, Len(out), state)
    PROVE  Registers' /\ Decodes(B)'
<1>1. state \in Nat
  BY Zenon DEF FollowsAt, Between
<1>2. CASE state > 0
  <2>1. LiteralsAt(B, ip + 0, Len(out), state) /\ 0 \in Nat
    <3>1. ip + 0 = ip
      BY Cursor
    <3> QED  BY <1>2, <3>1 DEF FollowsAt
  <2>2. CASE D!Reject
    <3>1. ~D!CanCopyLiterals(0, state)
      BY <2>2, Zenon DEF D!Reject, D!Malformed
    <3> QED  BY <1>1, <2>1, <2>2, <3>1, NoRoom, Refused
  <2>3. CASE D!Trailing
    <3>1. /\ D!CanCopyLiterals(0, state) /\ D!CopyLiterals(0, state) /\ pc' = "command"
          /\ UNCHANGED <<len, dist, copied>>
      BY <2>3, Zenon DEF D!Trailing
    <3>2. OutIsPrefix' /\ ip' \in 0 .. Len(stream') /\ <<ip', Len(out')>> \in B
      BY <1>1, <2>1, <3>1, LiteralsCopied
    <3> QED  BY <3>1, <3>2, Cursor DEF Registers, Decodes
  <2> QED  BY <2>2, <2>3, ByPhase DEF Reading
<1>3. CASE state = 0
  <2>1. <<ip, Len(out)>> \in B \/ RunAt(B, ip, Len(out))
    BY <1>3, Zenon DEF FollowsAt
  <2>2. ~D!Reject
    <3>1. Len(out) + 0 <= max_out /\ ip + (0 + 0) <= Len(stream)
      BY Cursor
    <3>2. D!CanCopyLiterals(0, state)
      BY <1>3, <3>1, Zenon DEF D!CanCopyLiterals, D!Fits, D!Has
    <3> QED  BY <3>2, Zenon DEF D!Reject, D!Malformed
  <2>3. D!CopyLiterals(0, 0) /\ pc' = "command" /\ UNCHANGED <<state, len, dist, copied>>
    <3>1. D!Trailing
      BY <2>2, ByPhase, Zenon DEF Reading
    <3> QED  BY <1>3, <3>1, Zenon DEF D!Trailing
  <2>4. ip' = ip /\ out' = out
    <3>1. out' = out \o SubSeq(stream, ip + 0 + 1, ip + 0 + 0) /\ ip' = ip + 0 + 0
      BY <2>3, Zenon DEF D!CopyLiterals
    <3>2. SubSeq(stream, ip + 0 + 1, ip + 0 + 0) = <<>>
      <4>1. ip + 0 + 0 < ip + 0 + 1 /\ ip + 0 + 1 \in Int /\ ip + 0 + 0 \in Int
        BY Cursor
      <4> QED  BY <4>1, SubSeqEmpty, Zenon
    <3>3. out \in Seq(Byte)
      BY DEF Reading, Registers, OutIsPrefix
    <3>4. out \o <<>> = out
      BY <3>3, ConcatEmptySeq
    <3>5. ip + 0 + 0 = ip
      BY Cursor
    <3> QED  BY <3>1, <3>2, <3>4, <3>5, Zenon
  <2>5. Registers'
    BY <2>3, <2>4, Cursor DEF Reading, Registers, OutIsPrefix
  <2>6. <<ip', Len(out')>> \in B \/ RunAt(B, ip, Len(out))'
    <3>1. PICK q \in Nat : q = ip
      BY Cursor
    <3>2. RunAt(B, q, Len(out)) => RunAt(B, q, Len(out))'
      BY <2>4, ReadingGrows, RunGrows
    <3> QED  BY <2>1, <2>4, <3>1, <3>2, Zenon
  <2>7. pc' = "command" /\ state' = 0
    BY <1>3, <2>3, Zenon
  <2> QED  BY <2>5, <2>6, <2>7, Zenon DEF Decodes
<1> QED  BY <1>1, <1>2, <1>3

\* Emitting is over: the layout stays what it is.
LEMMA EmittedStays == ASSUME NEW B, Reading(B) PROVE Emitted(B)'
<1>1. Boundaries(B) /\ OpeningAt(B) /\ \A x \in B : MatchAt(B, x[1], x[2]) \/ EndAt(x[1], x[2])
  BY Zenon DEF Reading, Emitted
<1>2. OpeningAt(B)'
  <2>1. RunAt(B, 0, 0) => RunAt(B, 0, 0)'
    BY ReadingGrows, RunGrows
  <2>2. EndAt(0, 0) => EndAt(0, 0)'
    BY Cursor, Zenon DEF EndAt
  <2>3. ASSUME Between(stream[1], 18, 255), LiteralsAt(B, 1, 0, stream[1] - 17)
        PROVE  LiteralsAt(B, 1, 0, stream[1] - 17)'
    <3>1. PICK n \in Nat : n = stream[1] - 17
      BY <2>3 DEF Between
    <3>2. LiteralsAt(B, 1, 0, n)'
      BY <2>3, <3>1, ReadingGrows, LiteralsGrow
    <3> QED  BY <3>1, <3>2, Cursor, Zenon
  <2> QED  BY <1>1, <2>1, <2>2, <2>3, Cursor, Zenon DEF OpeningAt
<1>3. ASSUME NEW x \in B PROVE MatchAt(B, x[1], x[2])' \/ EndAt(x[1], x[2])'
  <2>1. x[1] \in Nat
    BY <1>1, Zenon DEF Boundaries
  <2>2. MatchAt(B, x[1], x[2]) => MatchAt(B, x[1], x[2])'
    BY <2>1, ReadingGrows, MatchGrows
  <2>3. EndAt(x[1], x[2]) => EndAt(x[1], x[2])'
    BY Cursor, Zenon DEF EndAt
  <2> QED  BY <1>1, <2>2, <2>3, Zenon
<1> QED  BY <1>1, <1>2, <1>3, Zenon DEF Emitted, Boundaries

\* From wherever the layout lets the decoder stand, a step leads to such a
\* place.
LEMMA DecoderFollows ==
    ASSUME NEW B, Reading(B), Decodes(B)
    PROVE  Registers' /\ Decodes(B)' /\ Emitted(B)'
<1> USE EmittedStays
<1> DEFINE p == Len(out)
<1>1. CASE pc = "bootstrap" /\ ip = 0 /\ p = 0
  BY <1>1, BootstrapReads
<1>2. CASE pc = "command" /\ <<ip, p>> \in B
  BY <1>2, BoundaryReads
<1>3. CASE pc = "command" /\ state = 0 /\ RunAt(B, ip, p)
  BY <1>3, RunReads
<1>4. CASE /\ pc = "extend" /\ arm = "literals"
           /\ \E z \in 0 .. Len(stream), b \in Byte :
                 ExtensionAt(ip, z, b) /\ LiteralsAt(B, ip + z + 1, p, Complete(z, b, 3))
  BY <1>4, ExtendRunReads
<1>5. CASE pc = "literals" /\ LiteralsAt(B, ip, p, len)
  BY <1>5, LiteralsRead
<1>6. CASE /\ pc = "extend" /\ arm \in {"C", "D"}
           /\ \E z \in 0 .. Len(stream), b \in Byte :
                 /\ ExtensionAt(ip, z, b)
                 /\ Complete(z, b, 2) <= MAX_EXTENDED_LENGTH
                 /\ OperandAt(B, ip + z + 1, p, Complete(z, b, 2), arm, dist)
  BY <1>6, ExtendMatchReads
<1>7. CASE pc = "operand" /\ arm \in {"C", "D"} /\ OperandAt(B, ip, p, len, arm, dist)
  BY <1>7, OperandReads
<1>8. CASE /\ pc = "operand" /\ arm = "D" /\ dist = LONG_MATCH_DISTANCE_BASE
           /\ ip + 2 = Len(stream) /\ stream[ip + 1] = 0 /\ stream[ip + 2] = 0
           /\ p = Len(input)
  BY <1>8, EndReads
<1>9. CASE pc = "match" /\ RepeatsAt(B, ip, p, len, dist, state)
  BY <1>9, MatchReads
<1>10. CASE /\ pc = "copy" /\ copied \in Nat /\ copied < len /\ copied <= p
            /\ p - copied + len <= max_out
            /\ RepeatsAt(B, ip, p - copied, len, dist, state)
  BY <1>10, CopyReads
<1>11. CASE pc = "trailing" /\ FollowsAt(B, ip, p, state)
  BY <1>11, TrailingReads
<1>12. pc # "ok" /\ pc # "err"
  BY ByPhase DEF Reading
<1> QED
  BY <1>1, <1>2, <1>3, <1>4, <1>5, <1>6, <1>7, <1>8, <1>9, <1>10, <1>11, <1>12, Zenon DEF Decodes
-----------------------------------------------------------------------------
(* What emit() writes is what the layout asks for.  The step that writes     *)
(* leaves the bytes s in the new stream, from offset o on.                   *)

Written(o, s) ==
    /\ Len(stream') \in Nat /\ o + Len(s) <= Len(stream')
    /\ \A k \in 1 .. Len(s) : stream'[o + k] = s[k]

Writing == input \in Seq(Byte) /\ input' = input

LEMMA Regrouped ==
    ASSUME NEW S, NEW s \in Seq(S), NEW t \in Seq(S), NEW u \in Seq(S)
    PROVE  (s \o t) \o u = s \o (t \o u)
BY ConcatAssociative

LEMMA Joined ==
    ASSUME NEW S, NEW s \in Seq(S), NEW t \in Seq(S)
    PROVE  /\ s \o t \in Seq(S) /\ Len(s \o t) = Len(s) + Len(t)
           /\ Len(s) \in Nat /\ Len(t) \in Nat
BY ConcatProperties, LenProperties

LEMMA WrittenParts ==
    ASSUME NEW S, NEW s \in Seq(S), NEW t \in Seq(S), NEW o \in Nat, Written(o, s \o t)
    PROVE  Written(o, s) /\ Written(o + Len(s), t)
<1>1. /\ Len(s \o t) = Len(s) + Len(t) /\ Len(s) \in Nat /\ Len(t) \in Nat
      /\ \A k \in 1 .. Len(s) + Len(t) : (s \o t)[k] = IF k <= Len(s) THEN s[k] ELSE t[k - Len(s)]
  BY ConcatProperties, LenProperties
<1>2. /\ Len(stream') \in Nat /\ o + (Len(s) + Len(t)) <= Len(stream')
      /\ \A k \in 1 .. Len(s) + Len(t) : stream'[o + k] = (s \o t)[k]
  BY <1>1, Zenon DEF Written
<1>3. ASSUME NEW k \in 1 .. Len(s) PROVE stream'[o + k] = s[k]
  BY <1>1, <1>2
<1>4. ASSUME NEW k \in 1 .. Len(t) PROVE stream'[o + Len(s) + k] = t[k]
  <2>1. /\ Len(s) + k \in 1 .. Len(s) + Len(t) /\ ~(Len(s) + k <= Len(s))
        /\ Len(s) + k - Len(s) = k /\ o + (Len(s) + k) = o + Len(s) + k
    BY <1>1
  <2>2. stream'[o + (Len(s) + k)] = (s \o t)[Len(s) + k] /\ (s \o t)[Len(s) + k] = t[k]
    BY <1>1, <1>2, <2>1
  <2> QED  BY <2>1, <2>2
<1>5. o + Len(s) <= Len(stream') /\ o + Len(s) + Len(t) <= Len(stream')
  BY <1>1, <1>2
<1> QED  BY <1>2, <1>3, <1>4, <1>5, Zenon DEF Written

\* A number that fits a byte is kept.
LEMMA Byte1Is ==
    ASSUME NEW n \in Nat
    PROVE  /\ E!Byte1(n) \in Seq(Byte) /\ Len(E!Byte1(n)) = 1 /\ E!Byte1(n)[1] = n % 256
           /\ n <= 255 => n % 256 = n
<1>1. n % 256 \in Nat /\ n % 256 <= 255 /\ (n <= 255 => n % 256 = n)
  OBVIOUS
<1>2. n % 256 \in Byte
  BY <1>1, IsByte
<1> QED  BY <1>1, <1>2 DEF E!Byte1

LEMMA Byte1Written ==
    ASSUME NEW n \in Nat, n <= 255, NEW o \in Nat, Written(o, E!Byte1(n))
    PROVE  o + 1 <= Len(stream') /\ stream'[o + 1] = n
<1>1. Len(E!Byte1(n)) = 1 /\ E!Byte1(n)[1] = n
  BY Byte1Is
<1>2. 1 \in 1 .. Len(E!Byte1(n))
  BY <1>1
<1> QED  BY <1>1, <1>2, Zenon DEF Written

\* emit_length_extension: as many zero bytes as leave a last byte that is not
\* zero, worth the remainder together.
LEMMA ExtensionBytes ==
    ASSUME NEW r \in Nat, r > 0
    PROVE  \E z \in Nat, b \in Nat :
              /\ Between(b, 1, 255) /\ r = Worth(z) + b
              /\ E!LengthExtension(r) \in Seq(Byte) /\ Len(E!LengthExtension(r)) = z + 1
              /\ \A k \in 1 .. z : E!LengthExtension(r)[k] = 0
              /\ E!LengthExtension(r)[z + 1] = b
<1>1. ZERO_RUN_INCREMENT \in Nat /\ ZERO_RUN_INCREMENT > 0 /\ ZERO_RUN_INCREMENT <= 255
  BY RoundTripAssumption
<1>2. PICK z : z = (r - 1) \div ZERO_RUN_INCREMENT
  OBVIOUS
<1>3. /\ z \in Nat
      /\ ZERO_RUN_INCREMENT * z <= r - 1
      /\ r - 1 < ZERO_RUN_INCREMENT * z + ZERO_RUN_INCREMENT
  <2>1. r - 1 \in Nat
    OBVIOUS
  <2> QED  BY <1>1, <1>2, <2>1
<1>4. z * ZERO_RUN_INCREMENT = Worth(z) /\ Worth(z) \in Nat
      /\ Worth(z) <= r - 1 /\ r - 1 < Worth(z) + ZERO_RUN_INCREMENT
  BY <1>1, <1>3 DEF Worth
<1>5. PICK b \in Nat : b = r - Worth(z)
  BY <1>4
<1>6. Between(b, 1, 255) /\ r = Worth(z) + b
  BY <1>1, <1>4, <1>5 DEF Between
<1>7. E!LengthExtension(r) = E!Zeros(z) \o E!Byte1(b)
  <2>1. r # 0
    OBVIOUS
  <2> QED  BY <1>2, <1>4, <1>5, <2>1, Zenon DEF E!LengthExtension
<1>8. /\ E!Zeros(z) \in Seq(Byte) /\ Len(E!Zeros(z)) = z
      /\ \A k \in 1 .. z : E!Zeros(z)[k] = 0
  <2>1. 0 \in Byte
    BY IsByte
  <2> QED  BY <1>3, <2>1 DEF E!Zeros
<1>9. E!Byte1(b) \in Seq(Byte) /\ Len(E!Byte1(b)) = 1 /\ E!Byte1(b)[1] = b
  BY <1>6, Byte1Is DEF Between
<1> DEFINE s == E!Zeros(z)
           t == E!Byte1(b)
<1>10. /\ s \o t \in Seq(Byte) /\ Len(s \o t) = z + 1
       /\ \A k \in 1 .. z : (s \o t)[k] = 0
       /\ (s \o t)[z + 1] = b
  <2>1. s \in Seq(Byte) /\ Len(s) = z /\ t \in Seq(Byte) /\ Len(t) = 1 /\ t[1] = b
        /\ \A k \in 1 .. z : s[k] = 0
    BY <1>8, <1>9
  <2> HIDE DEF s, t
  <2>2. /\ s \o t \in Seq(Byte) /\ Len(s \o t) = z + 1
        /\ \A k \in 1 .. z + 1 : (s \o t)[k] = IF k <= z THEN s[k] ELSE t[k - z]
    <3>1. /\ s \o t \in Seq(Byte) /\ Len(s \o t) = Len(s) + Len(t)
          /\ \A k \in 1 .. Len(s) + Len(t) :
                (s \o t)[k] = IF k <= Len(s) THEN s[k] ELSE t[k - Len(s)]
      BY <2>1, ConcatProperties
    <3> QED  BY <2>1, <3>1, Zenon
  <2>3. z + 1 \in 1 .. z + 1 /\ ~(z + 1 <= z) /\ z + 1 - z = 1
        /\ \A k \in 1 .. z : k \in 1 .. z + 1 /\ k <= z
    BY <1>3
  <2> QED  BY <2>1, <2>2, <2>3
<1> QED  BY <1>3, <1>5, <1>6, <1>7, <1>10, Zenon

LEMMA ExtensionWritten ==
    ASSUME NEW o \in Nat, NEW r, NEW z \in Nat, NEW b, Between(b, 1, 255),
           Len(E!LengthExtension(r)) = z + 1,
           \A k \in 1 .. z : E!LengthExtension(r)[k] = 0,
           E!LengthExtension(r)[z + 1] = b,
           Written(o, E!LengthExtension(r))
    PROVE  ExtensionAt(o, z, b)'
<1> DEFINE s == E!LengthExtension(r)
<1>1. /\ Len(s) = z + 1 /\ \A k \in 1 .. z : s[k] = 0
      /\ s[z + 1] = b
      /\ o + Len(s) <= Len(stream') /\ \A k \in 1 .. Len(s) : stream'[o + k] = s[k]
  BY Zenon DEF Written
<1> HIDE DEF s
<1>2. \A k \in 1 .. z : k \in 1 .. Len(s)
  BY <1>1
<1>3. z + 1 \in 1 .. Len(s) /\ o + (z + 1) = o + z + 1 /\ o + Len(s) = o + z + 1
  BY <1>1
<1>4. stream'[o + z + 1] = b
  BY <1>1, <1>3
<1>5. \A k \in 1 .. z : stream'[o + k] = 0
  BY <1>1, <1>2
<1> QED  BY <1>1, <1>3, <1>4, <1>5, Zenon DEF ExtensionAt, Between

\* A literal run is copied out of the input.
LEMMA LiteralsBytes ==
    ASSUME Writing, NEW t, t.at \in Nat, t.len \in Nat, t.at + t.len <= Len(input)
    PROVE  /\ E!Literals(t) \in Seq(Byte) /\ Len(E!Literals(t)) = t.len
           /\ \A k \in 1 .. t.len : E!Literals(t)[k] = input[t.at + k]
<1>1. input \in Seq(Byte)
  BY Zenon DEF Writing
<1>2. /\ SubSeq(input, t.at + 1, t.at + t.len) \in Seq(Byte)
      /\ Len(SubSeq(input, t.at + 1, t.at + t.len)) = t.len
      /\ \A k \in 1 .. t.len : SubSeq(input, t.at + 1, t.at + t.len)[k] = input[t.at + k]
  BY <1>1, Slice, Zenon
<1> QED  BY <1>2, Zenon DEF E!Literals

LEMMA LiteralsWritten ==
    ASSUME Writing, NEW t, t.at \in Nat, t.len \in Nat, t.at + t.len <= Len(input),
           t.len <= MAX_EXTENDED_LENGTH,
           NEW o \in Nat, Written(o, E!Literals(t)), NEW C, <<o + t.len, t.at + t.len>> \in C
    PROVE  LiteralsAt(C, o, t.at, t.len)'
<1>1. /\ Len(E!Literals(t)) = t.len
      /\ \A k \in 1 .. t.len : E!Literals(t)[k] = input[t.at + k]
  BY LiteralsBytes
<1>2. /\ o + t.len <= Len(stream')
      /\ \A k \in 1 .. t.len : stream'[o + k] = input[t.at + k]
  BY <1>1, Zenon DEF Written
<1> QED  BY <1>2, Zenon DEF LiteralsAt, Writing

\* emit_literal_run
LEMMA RunWritten ==
    ASSUME Writing, NEW t, t.at \in Nat, t.len \in Nat, t.at + t.len <= Len(input), t.len >= 4,
           t.len <= MAX_EXTENDED_LENGTH
    PROVE  /\ E!LiteralRunBytes(t) \in Seq(Byte)
           /\ \A C : \A o \in Nat :
                 /\ Written(o, E!LiteralRunBytes(t))
                 /\ <<o + Len(E!LiteralRunBytes(t)), t.at + t.len>> \in C
                 => RunAt(C, o, t.at)'
<1> DEFINE l == E!Literals(t)
<1>1. l \in Seq(Byte) /\ Len(l) = t.len
  BY LiteralsBytes
<1>2. CASE t.len <= 18
  <2> DEFINE s == E!Byte1(t.len - 3)
  <2>1. t.len - 3 \in Nat /\ t.len - 3 <= 255 /\ 1 <= t.len - 3 /\ t.len - 3 <= 15
    BY <1>2
  <2>2. s \in Seq(Byte) /\ Len(s) = 1
    BY <2>1, Byte1Is, Zenon
  <2>3. E!LiteralRunBytes(t) = s \o l
    BY <1>2, Zenon DEF E!LiteralRunBytes
  <2> HIDE DEF s, l
  <2>4. s \o l \in Seq(Byte) /\ Len(s \o l) = 1 + t.len
    BY <1>1, <2>2, Joined, Zenon
  <2>5. ASSUME NEW o \in Nat, NEW C, Written(o, s \o l), <<o + Len(s \o l), t.at + t.len>> \in C
        PROVE  RunAt(C, o, t.at)'
    <3>1. Written(o, s) /\ Written(o + 1, l)
      BY <1>1, <2>2, <2>5, WrittenParts, Zenon
    <3>2. o + 1 <= Len(stream') /\ stream'[o + 1] = t.len - 3
      BY <2>1, <3>1, Byte1Written, Zenon DEF s
    <3>3. o + 1 \in Nat /\ o + 1 + t.len = o + (1 + t.len) /\ t.len - 3 + 3 = t.len
      OBVIOUS
    <3>4. LiteralsAt(C, o + 1, t.at, t.len)'
      BY <2>4, <2>5, <3>1, <3>3, LiteralsWritten, Zenon DEF l
    <3>5. Between(t.len - 3, 1, 15)
      BY <2>1 DEF Between
    <3>6. Between(stream[o + 1], 1, 15)'
      BY <3>2, <3>5, Zenon DEF Between
    <3>7. LiteralsAt(C, o + 1, t.at, stream[o + 1] + 3)'
      BY <3>2, <3>3, <3>4, Zenon
    <3> QED  BY <3>2, <3>6, <3>7, Zenon DEF RunAt
  <2> QED  BY <2>3, <2>4, <2>5, Zenon
<1>3. CASE ~(t.len <= 18)
  <2> DEFINE s == E!Byte1(0)
             r == t.len - 18
             x == E!LengthExtension(r)
  <2>1. r \in Nat /\ r > 0
    BY <1>3
  <2>2. PICK z \in Nat, b \in Nat :
           /\ Between(b, 1, 255) /\ r = Worth(z) + b
           /\ x \in Seq(Byte) /\ Len(x) = z + 1
           /\ \A k \in 1 .. z : x[k] = 0
           /\ x[z + 1] = b
    BY <2>1, ExtensionBytes
  <2>3. s \in Seq(Byte) /\ Len(s) = 1
    BY Byte1Is
  <2>4. E!LiteralRunBytes(t) = (s \o x) \o l
    BY <1>3, Zenon DEF E!LiteralRunBytes
  <2> HIDE DEF s, x, l, r
  <2>5. s \o x \in Seq(Byte) /\ Len(s \o x) = 1 + (z + 1)
    BY <2>2, <2>3, Joined, Zenon
  <2>6. (s \o x) \o l \in Seq(Byte) /\ Len((s \o x) \o l) = 1 + (z + 1) + t.len
    <3>1. /\ (s \o x) \o l \in Seq(Byte)
          /\ Len((s \o x) \o l) = Len(s \o x) + Len(l)
      BY <1>1, <2>5, Joined, Zenon
    <3> QED  BY <1>1, <2>5, <3>1, Zenon
  <2>7. ASSUME NEW o \in Nat, NEW C, Written(o, (s \o x) \o l),
               <<o + Len((s \o x) \o l), t.at + t.len>> \in C
        PROVE  RunAt(C, o, t.at)'
    <3>1. Written(o, s \o x) /\ Written(o + Len(s \o x), l)
      BY <1>1, <2>5, <2>7, WrittenParts, Zenon
    <3>2. Written(o, s) /\ Written(o + 1, x)
      BY <2>2, <2>3, <3>1, WrittenParts, Zenon
    <3>3. o + 1 <= Len(stream') /\ stream'[o + 1] = 0
      <4>1. Written(o, E!Byte1(0))
        BY <3>2, Zenon DEF s
      <4>2. 0 \in Nat /\ 0 <= 255
        OBVIOUS
      <4> QED  BY <4>1, <4>2, Byte1Written, Zenon
    <3>4. ExtensionAt(o + 1, z, b)'
      <4>1. o + 1 \in Nat
        OBVIOUS
      <4>2. /\ Between(b, 1, 255) /\ Len(E!LengthExtension(r)) = z + 1
            /\ \A k \in 1 .. z : E!LengthExtension(r)[k] = 0
            /\ E!LengthExtension(r)[z + 1] = b
            /\ Written(o + 1, E!LengthExtension(r))
        BY <2>2, <3>2, Zenon DEF x
      <4> QED  BY <4>1, <4>2, ExtensionWritten, Zenon
    <3>5. PICK q \in Nat : q = o + 1 + z + 1
      OBVIOUS
    <3>6. q = o + Len(s \o x) /\ q + t.len = o + Len((s \o x) \o l)
      <4>1. q = o + (1 + (z + 1)) /\ q + t.len = o + (1 + (z + 1) + t.len)
        BY <3>5
      <4> QED  BY <2>5, <2>6, <4>1, Zenon
    <3>7. LiteralsAt(C, q, t.at, t.len)'
      <4>1. q \in Nat /\ <<q + t.len, t.at + t.len>> \in C /\ Written(q, E!Literals(t))
        BY <2>7, <3>1, <3>5, <3>6 DEF l
      <4> QED  BY <4>1, LiteralsWritten, Zenon
    <3>8. 15 + Worth(z) + b + 3 = t.len
      <4>1. t.len - 18 = Worth(z) + b /\ Worth(z) \in Nat
        BY <2>2, WorthNat, Zenon DEF r
      <4> QED  BY <4>1
    <3>9. LongRunIs(C, o, t.at, z, b)'
      BY <3>4, <3>5, <3>7, <3>8, Zenon DEF LongRunIs, Worth
    <3>10. z \in 0 .. Len(stream') /\ b \in Byte
      <4>1. o + 1 + z + 1 <= Len(stream') /\ Len(stream') \in Nat
        BY <3>1, <3>4, Zenon DEF ExtensionAt, Written
      <4>2. b <= 255
        BY <2>2, Zenon DEF Between
      <4> QED  BY <4>1, <4>2, IsByte
    <3> QED  BY <3>3, <3>9, <3>10, Zenon DEF RunAt
  <2> QED  BY <2>4, <2>6, <2>7, Zenon
<1> QED  BY <1>2, <1>3

\* emit_leading_literals
LEMMA LeadingWritten ==
    ASSUME Writing, NEW t, t.at = 0, t.len \in Nat, t.len > 0, t.len <= Len(input),
           t.len <= MAX_EXTENDED_LENGTH
    PROVE  /\ E!LeadingBytes(t) \in Seq(Byte)
           /\ \A C : /\ Written(0, E!LeadingBytes(t))
                    /\ <<Len(E!LeadingBytes(t)), t.len>> \in C
                    => OpeningAt(C)'
<1>1. t.at \in Nat /\ t.at + t.len = t.len /\ MAX_BOOTSTRAP_LITERALS \in Nat
      /\ MAX_BOOTSTRAP_LITERALS <= 238 /\ 3 <= MAX_BOOTSTRAP_LITERALS
  BY CodecAssumption, RoundTripAssumption DEF E!MAX_INLINE_LITERALS
<1>2. CASE t.len <= MAX_BOOTSTRAP_LITERALS
  <2> DEFINE s == E!Byte1(t.len + 17)
             l == E!Literals(t)
  <2>1. t.len + 17 \in Nat /\ t.len + 17 <= 255 /\ 18 <= t.len + 17
    BY <1>1, <1>2
  <2>2. s \in Seq(Byte) /\ Len(s) = 1 /\ l \in Seq(Byte) /\ Len(l) = t.len
    <3>1. s \in Seq(Byte) /\ Len(s) = 1
      BY <2>1, Byte1Is, Zenon
    <3>2. t.at + t.len <= Len(input)
      BY <1>1, Zenon
    <3>3. l \in Seq(Byte) /\ Len(l) = t.len
      BY <1>1, <3>2, LiteralsBytes, Zenon
    <3> QED  BY <3>1, <3>3
  <2>3. E!LeadingBytes(t) = s \o l
    BY <1>2, Zenon DEF E!LeadingBytes
  <2> HIDE DEF s, l
  <2>4. s \o l \in Seq(Byte) /\ Len(s \o l) = 1 + t.len
    BY <2>2, Joined, Zenon
  <2>5. ASSUME NEW C, Written(0, s \o l), <<Len(s \o l), t.len>> \in C PROVE OpeningAt(C)'
    <3>1. Written(0, s) /\ Written(1, l)
      <4>1. 0 + 1 = 1 /\ 0 \in Nat
        OBVIOUS
      <4>2. Written(0, s) /\ Written(0 + Len(s), l)
        BY <2>2, <2>5, <4>1, WrittenParts, Zenon
      <4> QED  BY <2>2, <4>1, <4>2, Zenon
    <3>2. 1 <= Len(stream') /\ stream'[1] = t.len + 17
      <4>1. Written(0, E!Byte1(t.len + 17))
        BY <3>1, Zenon DEF s
      <4>2. 0 \in Nat /\ 0 + 1 = 1
        OBVIOUS
      <4>3. 0 + 1 <= Len(stream') /\ stream'[0 + 1] = t.len + 17
        BY <2>1, <4>1, <4>2, Byte1Written, Zenon
      <4> QED  BY <4>2, <4>3, Zenon
    <3>3. LiteralsAt(C, 1, 0, t.len)'
      <4>1. <<1 + t.len, t.at + t.len>> \in C /\ t.at + t.len <= Len(input) /\ 1 \in Nat
        BY <1>1, <2>4, <2>5
      <4>2. Written(1, E!Literals(t))
        BY <3>1, Zenon DEF l
      <4>3. LiteralsAt(C, 1, t.at, t.len)'
        BY <1>1, <4>1, <4>2, LiteralsWritten, Zenon
      <4> QED  BY <4>3, Zenon
    <3>4. Between(stream[1], 18, 255)' /\ stream'[1] - 17 = t.len
      BY <2>1, <3>2 DEF Between
    <3>5. LiteralsAt(C, 1, 0, stream[1] - 17)'
      BY <3>3, <3>4, Zenon
    <3> QED  BY <3>2, <3>4, <3>5, Zenon DEF OpeningAt
  <2> QED  BY <2>3, <2>4, <2>5, Zenon
<1>3. CASE ~(t.len <= MAX_BOOTSTRAP_LITERALS)
  <2>1. t.len >= 4 /\ E!LeadingBytes(t) = E!LiteralRunBytes(t)
    BY <1>1, <1>3 DEF E!LeadingBytes
  <2>2. t.at + t.len <= Len(input)
    BY <1>1, Zenon
  <2> DEFINE u == E!LiteralRunBytes(t)
  <2>3. /\ u \in Seq(Byte)
        /\ \A C : \A o \in Nat : Written(o, u) /\ <<o + Len(u), t.at + t.len>> \in C
                                => RunAt(C, o, t.at)'
    BY <1>1, <2>1, <2>2, RunWritten, Zenon
  <2> HIDE DEF u
  <2>4. ASSUME NEW C, Written(0, u), <<Len(u), t.len>> \in C PROVE OpeningAt(C)'
    <3>1. 0 \in Nat /\ 0 + Len(u) = Len(u)
      BY <2>3, LenProperties
    <3>2. RunAt(C, 0, t.at)'
      BY <1>1, <2>3, <2>4, <3>1, Zenon
    <3> QED  BY <3>2, Zenon DEF OpeningAt
  <2> QED  BY <2>1, <2>3, <2>4, Zenon DEF u
<1> QED  BY <1>2, <1>3, Zenon

\* What two bytes have room for.
Fits(bits, inline) == 4 * bits + inline <= 65535

\* push_operand: the low byte first.
LEMMA OperandBytesAre ==
    ASSUME NEW bits \in Nat, NEW inline \in Nat, Fits(bits, inline)
    PROVE  /\ E!OperandBytes(bits, inline) \in Seq(Byte) /\ Len(E!OperandBytes(bits, inline)) = 2
           /\ E!OperandBytes(bits, inline)[1] + 256 * E!OperandBytes(bits, inline)[2]
                  = 4 * bits + inline
<1>1. PICK op \in Nat : op = 4 * bits + inline
  OBVIOUS
<1>2. /\ op % 256 \in Nat /\ op \div 256 \in Nat /\ op \div 256 <= 255
      /\ (op % 256) + 256 * (op \div 256) = op
  BY <1>1 DEF Fits
<1>3. PICK h \in Nat : h = op \div 256
  BY <1>2
<1> DEFINE s == E!Byte1(op)
           t == E!Byte1(h)
<1>4. s \in Seq(Byte) /\ Len(s) = 1 /\ s[1] = op % 256
  BY Byte1Is, Zenon
<1>5. t \in Seq(Byte) /\ Len(t) = 1 /\ t[1] = h
  <2>1. h <= 255
    BY <1>2, <1>3
  <2>2. h % 256 = h
    BY <2>1, Byte1Is, Zenon
  <2> QED  BY <2>2, Byte1Is, Zenon
<1>6. E!OperandBytes(bits, inline) = s \o t
  BY <1>1, <1>3, Zenon DEF E!OperandBytes
<1> HIDE DEF s, t
<1>7. s \o t \in Seq(Byte) /\ Len(s \o t) = 2 /\ (s \o t)[1] = s[1] /\ (s \o t)[2] = t[1]
  <2>1. /\ s \o t \in Seq(Byte) /\ Len(s \o t) = 1 + 1
        /\ \A k \in 1 .. 1 + 1 : (s \o t)[k] = IF k <= 1 THEN s[k] ELSE t[k - 1]
    <3>1. /\ s \o t \in Seq(Byte) /\ Len(s \o t) = Len(s) + Len(t)
          /\ \A k \in 1 .. Len(s) + Len(t) :
                (s \o t)[k] = IF k <= Len(s) THEN s[k] ELSE t[k - Len(s)]
      BY <1>4, <1>5, ConcatProperties
    <3> QED  BY <1>4, <1>5, <3>1, Zenon
  <2>2. 1 + 1 = 2 /\ 1 \in 1 .. 2 /\ 2 \in 1 .. 2 /\ 1 <= 1 /\ ~(2 <= 1) /\ 2 - 1 = 1
    OBVIOUS
  <2> QED  BY <2>1, <2>2
<1> QED  BY <1>1, <1>2, <1>3, <1>4, <1>5, <1>6, <1>7, Zenon

LEMMA OperandWritten ==
    ASSUME Writing, NEW o \in Nat, NEW bits \in Nat, NEW inline \in Nat, inline <= 3,
           Fits(bits, inline), Written(o, E!OperandBytes(bits, inline)),
           NEW C, NEW p, NEW n, NEW name, NEW base,
           (name = "D" /\ base = LONG_MATCH_DISTANCE_BASE) => bits > 0,
           RepeatsAt(C, o + 2, p, n, base + bits, inline)'
    PROVE  OperandAt(C, o, p, n, name, base)'
<1> DEFINE s == E!OperandBytes(bits, inline)
<1>1. s \in Seq(Byte) /\ Len(s) = 2 /\ s[1] + 256 * s[2] = 4 * bits + inline
  BY OperandBytesAre, Zenon
<1>2. o + Len(s) <= Len(stream') /\ \A k \in 1 .. Len(s) : stream'[o + k] = s[k]
  BY Zenon DEF Written
<1> HIDE DEF s
<1>3. 1 \in 1 .. Len(s) /\ 2 \in 1 .. Len(s) /\ s[1] \in Byte /\ s[2] \in Byte
  BY <1>1
<1>4. o + 2 <= Len(stream') /\ stream'[o + 1] = s[1] /\ stream'[o + 2] = s[2]
  BY <1>1, <1>2, <1>3, Zenon
<1>5. OperandIs(C, o, p, n, name, base, bits, inline)'
  BY <1>1, <1>4, Zenon DEF OperandIs
<1>6. inline \in 0 .. 3
  OBVIOUS
<1> QED  BY <1>3, <1>4, <1>5, <1>6, Zenon DEF OperandAt

\* A command byte with a field of `size` values.
Field(command, size) ==
    \A m \in Nat : m < size => /\ command + m \in Nat /\ command + m <= 255
                               /\ (command + m) % size = m

\* What emit_match wrote for a bucket begins with a command byte c, and is laid
\* out as the layout asks for.
BucketIs(C, o, p, command, size, name, base) ==
    \E m \in Nat : /\ m < size /\ o + 1 <= Len(stream') /\ stream'[o + 1] = command + m
                   /\ BucketAt(C, o, p, command + m, name, size, base)'

\* The length fits the field.
LEMMA ShortBucketWritten ==
    ASSUME Writing, NEW command \in Nat, NEW size \in Nat, size > 0, Field(command, size),
           NEW n \in Nat, n > 2, n <= size + 1,
           NEW distance \in Nat, NEW inline \in Nat, inline <= 3, Fits(distance, inline)
    PROVE  /\ E!BucketBytes(command, size, n, distance, inline) \in Seq(Byte)
           /\ \A C, p, name, base : \A o \in Nat :
                 /\ Written(o, E!BucketBytes(command, size, n, distance, inline))
                 /\ (name = "D" /\ base = LONG_MATCH_DISTANCE_BASE) => distance > 0
                 /\ RepeatsAt(C, o + Len(E!BucketBytes(command, size, n, distance, inline)),
                              p, n, base + distance, inline)'
                 => BucketIs(C, o, p, command, size, name, base)
<1>1. PICK m \in Nat : m = n - 2
  OBVIOUS
<1>2. m > 0 /\ m < size /\ m + 2 = n /\ command + n - 2 = command + m
  BY <1>1
<1>3. command + m \in Nat /\ command + m <= 255 /\ (command + m) % size = m /\ m # 0
  <2>1. command + m \in Nat /\ command + m <= 255 /\ (command + m) % size = m
    BY <1>2, Zenon DEF Field
  <2> QED  BY <1>2, <2>1
<1> DEFINE s == E!Byte1(command + m)
           t == E!OperandBytes(distance, inline)
<1>4. s \in Seq(Byte) /\ Len(s) = 1
  BY <1>3, Byte1Is, Zenon
<1>5. t \in Seq(Byte) /\ Len(t) = 2
  BY OperandBytesAre, Zenon
<1>6. E!BucketBytes(command, size, n, distance, inline) = s \o t
  BY <1>2, Zenon DEF E!BucketBytes
<1> HIDE DEF s, t
<1>7. s \o t \in Seq(Byte) /\ Len(s \o t) = 1 + 2
  BY <1>4, <1>5, Joined, Zenon
<1>8. ASSUME NEW o \in Nat, NEW C, NEW p, NEW name, NEW base, Written(o, s \o t),
             (name = "D" /\ base = LONG_MATCH_DISTANCE_BASE) => distance > 0,
             RepeatsAt(C, o + Len(s \o t), p, n, base + distance, inline)'
      PROVE  BucketIs(C, o, p, command, size, name, base)
  <2>1. Written(o, s) /\ Written(o + 1, t)
    BY <1>4, <1>5, <1>8, WrittenParts, Zenon
  <2>2. o + 1 <= Len(stream') /\ stream'[o + 1] = command + m
    BY <1>3, <2>1, Byte1Written, Zenon DEF s
  <2>3. o + 1 \in Nat /\ o + (1 + 2) = o + 1 + 2
    OBVIOUS
  <2>4. RepeatsAt(C, o + 1 + 2, p, n, base + distance, inline)'
    BY <1>7, <1>8, <2>3, Zenon
  <2>5. OperandAt(C, o + 1, p, n, name, base)'
    BY <1>8, <2>1, <2>3, <2>4, OperandWritten, Zenon DEF t
  <2>6. BucketAt(C, o, p, command + m, name, size, base)'
    BY <1>2, <1>3, <2>5, Zenon DEF BucketAt
  <2> QED  BY <1>2, <2>2, <2>6, Zenon DEF BucketIs
<1> QED  BY <1>6, <1>7, <1>8, Zenon

\* It does not, and the rest of it is in the bytes that follow.
LEMMA LongBucketWritten ==
    ASSUME Writing, NEW command \in Nat, NEW size \in Nat, size > 0, Field(command, size),
           NEW n \in Nat, n > size + 1, n <= MAX_EXTENDED_LENGTH,
           NEW distance \in Nat, NEW inline \in Nat, inline <= 3, Fits(distance, inline)
    PROVE  /\ E!BucketBytes(command, size, n, distance, inline) \in Seq(Byte)
           /\ \A C, p, name, base : \A o \in Nat :
                 /\ Written(o, E!BucketBytes(command, size, n, distance, inline))
                 /\ (name = "D" /\ base = LONG_MATCH_DISTANCE_BASE) => distance > 0
                 /\ RepeatsAt(C, o + Len(E!BucketBytes(command, size, n, distance, inline)),
                              p, n, base + distance, inline)'
                 => BucketIs(C, o, p, command, size, name, base)
<1>1. PICK r \in Nat : r = n - (size + 1)
  OBVIOUS
<1>2. r > 0 /\ ~(n <= size + 1)
  BY <1>1
<1>3. command + 0 \in Nat /\ command + 0 <= 255 /\ (command + 0) % size = 0
      /\ command + 0 = command /\ 0 \in Nat /\ 0 < size
  <2>1. command + 0 = command /\ 0 \in Nat /\ 0 < size
    OBVIOUS
  <2> QED  BY <2>1, Zenon DEF Field
<1> DEFINE s == E!Byte1(command)
           x == E!LengthExtension(r)
           t == E!OperandBytes(distance, inline)
<1>4. PICK z \in Nat, b \in Nat :
         /\ Between(b, 1, 255) /\ r = Worth(z) + b
         /\ x \in Seq(Byte) /\ Len(x) = z + 1
         /\ \A k \in 1 .. z : x[k] = 0
         /\ x[z + 1] = b
  BY <1>2, ExtensionBytes, Zenon
<1>5. s \in Seq(Byte) /\ Len(s) = 1
  BY <1>3, Byte1Is, Zenon
<1>6. t \in Seq(Byte) /\ Len(t) = 2
  BY OperandBytesAre, Zenon
<1>7. E!BucketBytes(command, size, n, distance, inline) = (s \o x) \o t
  BY <1>1, <1>2, Zenon DEF E!BucketBytes
<1> HIDE DEF s, x, t
<1>8. s \o x \in Seq(Byte) /\ Len(s \o x) = 1 + (z + 1)
  BY <1>4, <1>5, Joined, Zenon
<1>9. (s \o x) \o t \in Seq(Byte) /\ Len((s \o x) \o t) = 1 + (z + 1) + 2
  BY <1>6, <1>8, Joined, ZenonT(40)
<1>10. ASSUME NEW o \in Nat, NEW C, NEW p, NEW name, NEW base, Written(o, (s \o x) \o t),
              (name = "D" /\ base = LONG_MATCH_DISTANCE_BASE) => distance > 0,
              RepeatsAt(C, o + Len((s \o x) \o t), p, n, base + distance, inline)'
       PROVE  BucketIs(C, o, p, command, size, name, base)
  <2>1. Written(o, s \o x) /\ Written(o + Len(s \o x), t)
    BY <1>6, <1>8, <1>10, WrittenParts, Zenon
  <2>2. Written(o, s) /\ Written(o + 1, x)
    BY <1>4, <1>5, <2>1, WrittenParts, Zenon
  <2>3. o + 1 <= Len(stream') /\ stream'[o + 1] = command
    BY <1>3, <2>2, Byte1Written, Zenon DEF s
  <2>4. ExtensionAt(o + 1, z, b)'
    <3>1. o + 1 \in Nat
      OBVIOUS
    <3>2. /\ Between(b, 1, 255) /\ Len(E!LengthExtension(r)) = z + 1
          /\ \A k \in 1 .. z : E!LengthExtension(r)[k] = 0
          /\ E!LengthExtension(r)[z + 1] = b
          /\ Written(o + 1, E!LengthExtension(r))
      BY <1>4, <2>2, Zenon DEF x
    <3> QED  BY <3>1, <3>2, ExtensionWritten, Zenon
  <2>5. PICK q \in Nat : q = o + 1 + z + 1
    OBVIOUS
  <2>6. q = o + Len(s \o x) /\ q + 2 = o + Len((s \o x) \o t)
    <3>1. q = o + (1 + (z + 1)) /\ q + 2 = o + (1 + (z + 1) + 2)
      BY <2>5
    <3> QED  BY <1>8, <1>9, <3>1, Zenon
  <2>7. OperandAt(C, q, p, n, name, base)'
    <3>1. RepeatsAt(C, q + 2, p, n, base + distance, inline)' /\ Written(q, t)
      BY <1>10, <2>1, <2>6, Zenon
    <3> QED  BY <1>10, <3>1, OperandWritten, Zenon DEF t
  <2>8. size - 1 + Worth(z) + b + 2 = n
    <3>1. n - (size + 1) = Worth(z) + b /\ Worth(z) \in Nat
      BY <1>1, <1>4, WorthNat, Zenon
    <3> QED  BY <3>1
  <2>9. ExtendedIs(C, o, p, name, size, base, z, b)'
    BY <2>4, <2>5, <2>7, <2>8, Zenon DEF ExtendedIs, Worth
  <2>10. z \in 0 .. Len(stream') /\ b \in Byte
    <3>1. o + 1 + z + 1 <= Len(stream') /\ Len(stream') \in Nat
      BY <2>1, <2>4, Zenon DEF ExtensionAt, Written
    <3>2. b <= 255
      BY <1>4, Zenon DEF Between
    <3> QED  BY <3>1, <3>2, IsByte
  <2>11. BucketAt(C, o, p, command, name, size, base)'
    BY <1>3, <2>9, <2>10, Zenon DEF BucketAt
  <2> QED  BY <1>3, <2>3, <2>11, Zenon DEF BucketIs
<1> QED  BY <1>7, <1>9, <1>10, Zenon

\* What parse() says of a match is what the layout asks of a repetition.
LEMMA RepeatsWritten ==
    ASSUME Writing, NEW t, t.at \in Nat, t.len \in Nat, t.dist \in Nat, PP!MatchIsTrue(t),
           NEW C, NEW q, NEW inline, FollowsAt(C, q, t.at + t.len, inline)'
    PROVE  RepeatsAt(C, q, t.at, t.len, t.dist, inline)'
<1>1. MIN_MATCH = 3
  BY Assumed, Zenon DEF PP!ParseAssumption
<1>2. t.len \in MIN_MATCH .. MAX_MATCH
  BY Zenon DEF PP!MatchIsTrue
<1>3. t.len >= 2
  BY <1>1, <1>2
<1>4. /\ t.dist \in 1 .. t.at /\ t.at + t.len <= Len(input')
      /\ \A k \in 1 .. t.len : input'[t.at + k] = input'[t.at + k - t.dist]
  BY Zenon DEF PP!MatchIsTrue, Writing
<1> QED  BY <1>3, <1>4, Zenon DEF RepeatsAt

\* The commands emit_match writes leave every value of the field its own.
LEMMA Fields == Field(32, 32) /\ Field(16, 8) /\ Field(24, 8)
BY DEF Field

\* The H bit and the field of the operand tell an offset below twice the weight
\* of the bit.
LEMMA OffsetParts ==
    ASSUME NEW offset \in Nat, offset < 2 * DISTANCE_FIELD
    PROVE  \/ /\ (offset \div DISTANCE_FIELD) % 2 = 0
              /\ offset % DISTANCE_FIELD = offset /\ offset < DISTANCE_FIELD
           \/ /\ (offset \div DISTANCE_FIELD) % 2 = 1
              /\ offset % DISTANCE_FIELD \in Nat /\ offset % DISTANCE_FIELD < DISTANCE_FIELD
              /\ offset = DISTANCE_FIELD + (offset % DISTANCE_FIELD)
<1>1. DISTANCE_FIELD \in Nat /\ DISTANCE_FIELD > 0
  BY RoundTripAssumption
<1>2. PICK w \in Nat : w = offset \div DISTANCE_FIELD
  BY <1>1
<1>3. PICK l \in Nat : l = offset % DISTANCE_FIELD
  BY <1>1
<1>4. DISTANCE_FIELD * w + l = offset /\ l < DISTANCE_FIELD
  BY <1>1, <1>2, <1>3
<1>5. w = 0 \/ w = 1
  <2>1. SUFFICES ASSUME w >= 2 PROVE FALSE
    OBVIOUS
  <2>2. PICK v \in Nat : w = v + 2
    BY <2>1
  <2>3. DISTANCE_FIELD * w = DISTANCE_FIELD * v + 2 * DISTANCE_FIELD /\ DISTANCE_FIELD * v \in Nat
    BY <1>1, <2>2
  <2> QED  BY <1>1, <1>4, <2>3
<1>6. CASE w = 0
  <2>1. DISTANCE_FIELD * w = 0 /\ w % 2 = 0
    BY <1>1, <1>6
  <2>2. l = offset
    BY <1>4, <2>1
  <2> QED  BY <1>2, <1>3, <1>4, <2>1, <2>2, Zenon
<1>7. CASE w = 1
  <2>1. DISTANCE_FIELD * w = DISTANCE_FIELD /\ w % 2 = 1
    BY <1>1, <1>7
  <2> QED  BY <1>2, <1>3, <1>4, <2>1, Zenon
<1> QED  BY <1>5, <1>6, <1>7

\* What MatchIsTrue says in numbers.
LEMMA TrueMatch ==
    ASSUME NEW t, t.at \in Nat, t.len \in Nat, t.dist \in Nat, PP!MatchIsTrue(t)
    PROVE  /\ t.len > 2 /\ t.len <= MAX_EXTENDED_LENGTH
           /\ t.dist >= 1 /\ t.dist < LONG_MATCH_DISTANCE_BASE + 2 * DISTANCE_FIELD
<1>1. MIN_MATCH = 3 /\ MAX_MATCH \in Nat /\ MAX_DISTANCE \in Nat
  BY Assumed, Zenon DEF PP!ParseAssumption
<1>2. /\ MAX_DISTANCE < LONG_MATCH_DISTANCE_BASE + 2 * DISTANCE_FIELD
      /\ MAX_EXTENDED_LENGTH \in Nat /\ MAX_MATCH <= MAX_EXTENDED_LENGTH
      /\ LONG_MATCH_DISTANCE_BASE \in Nat /\ DISTANCE_FIELD \in Nat
  BY RoundTripAssumption
<1>3. t.len \in MIN_MATCH .. MAX_MATCH /\ t.dist \in 1 .. t.at /\ t.dist <= MAX_DISTANCE
  BY Zenon DEF PP!MatchIsTrue
<1>4. t.len > 2 /\ t.len <= MAX_EXTENDED_LENGTH
  BY <1>1, <1>2, <1>3
<1>5. t.dist >= 1 /\ t.dist < LONG_MATCH_DISTANCE_BASE + 2 * DISTANCE_FIELD
  BY <1>1, <1>2, <1>3
<1> QED  BY <1>4, <1>5

\* Either form of emit_match's bucket, in one statement.
LEMMA BucketWritten ==
    ASSUME Writing, NEW command \in Nat, NEW size \in Nat, size > 0, Field(command, size),
           NEW n \in Nat, n > 2, n <= MAX_EXTENDED_LENGTH,
           NEW distance \in Nat, NEW inline \in Nat, inline <= 3, Fits(distance, inline)
    PROVE  /\ E!BucketBytes(command, size, n, distance, inline) \in Seq(Byte)
           /\ \A C, p, name, base : \A o \in Nat :
                 /\ Written(o, E!BucketBytes(command, size, n, distance, inline))
                 /\ (name = "D" /\ base = LONG_MATCH_DISTANCE_BASE) => distance > 0
                 /\ RepeatsAt(C, o + Len(E!BucketBytes(command, size, n, distance, inline)),
                              p, n, base + distance, inline)'
                 => BucketIs(C, o, p, command, size, name, base)
<1>1. n <= size + 1 \/ n > size + 1
  OBVIOUS
<1>2. CASE n <= size + 1
  BY <1>2, ShortBucketWritten, Zenon
<1>3. CASE n > size + 1
  BY <1>3, LongBucketWritten, Zenon
<1> QED  BY <1>1, <1>2, <1>3, Zenon

\* A bucket at its place in the range of command bytes is a match.
LEMMA CommandOf ==
    ASSUME NEW C, NEW o, NEW p
    PROVE  /\ BucketIs(C, o, p, 32, 32, "C", 1) => MatchAt(C, o, p)'
           /\ BucketIs(C, o, p, 16, 8, "D", LONG_MATCH_DISTANCE_BASE) => MatchAt(C, o, p)'
           /\ BucketIs(C, o, p, 24, 8, "D", LONG_MATCH_DISTANCE_BASE + DISTANCE_FIELD)
                 => MatchAt(C, o, p)'
<1>1. ASSUME BucketIs(C, o, p, 32, 32, "C", 1) PROVE MatchAt(C, o, p)'
  <2>1. PICK m \in Nat : /\ m < 32 /\ o + 1 <= Len(stream') /\ stream'[o + 1] = 32 + m
                         /\ BucketAt(C, o, p, 32 + m, "C", 32, 1)'
    BY <1>1, Zenon DEF BucketIs
  <2>2. Between(32 + m, 32, 63)
    BY <2>1 DEF Between
  <2> QED  BY <2>1, <2>2, Zenon DEF MatchAt, Between
<1>2. ASSUME BucketIs(C, o, p, 16, 8, "D", LONG_MATCH_DISTANCE_BASE) PROVE MatchAt(C, o, p)'
  <2>1. PICK m \in Nat : /\ m < 8 /\ o + 1 <= Len(stream') /\ stream'[o + 1] = 16 + m
                         /\ BucketAt(C, o, p, 16 + m, "D", 8, LONG_MATCH_DISTANCE_BASE)'
    BY <1>2, Zenon DEF BucketIs
  <2>2. Between(16 + m, 16, 31)
    BY <2>1 DEF Between
  <2>3. (16 + m) \div 8 = 2 /\ 2 % 2 # 1
    BY <2>1
  <2>4. HighPart(16 + m) = 0
    BY <2>3, Zenon DEF HighPart
  <2>5. LONG_MATCH_DISTANCE_BASE + HighPart(16 + m) = LONG_MATCH_DISTANCE_BASE
    <3>1. LONG_MATCH_DISTANCE_BASE \in Nat
      BY RoundTripAssumption
    <3> QED  BY <2>4, <3>1
  <2> QED  BY <2>1, <2>2, <2>5, Zenon DEF MatchAt, Between, HighPart
<1>3. ASSUME BucketIs(C, o, p, 24, 8, "D", LONG_MATCH_DISTANCE_BASE + DISTANCE_FIELD)
      PROVE  MatchAt(C, o, p)'
  <2>1. PICK m \in Nat :
           /\ m < 8 /\ o + 1 <= Len(stream') /\ stream'[o + 1] = 24 + m
           /\ BucketAt(C, o, p, 24 + m, "D", 8, LONG_MATCH_DISTANCE_BASE + DISTANCE_FIELD)'
    BY <1>3, Zenon DEF BucketIs
  <2>2. Between(24 + m, 16, 31)
    BY <2>1 DEF Between
  <2>3. (24 + m) \div 8 = 3 /\ 3 % 2 = 1
    BY <2>1
  <2>4. HighPart(24 + m) = DISTANCE_FIELD
    BY <2>3, Zenon DEF HighPart
  <2> QED  BY <2>1, <2>2, <2>4, Zenon DEF MatchAt, Between, HighPart
<1> QED  BY <1>1, <1>2, <1>3, Zenon

\* A number below the weight of the H bit fits the operand, with the literals.
LEMMA SmallFits ==
    ASSUME NEW bits \in Nat, bits < 16384, NEW inline \in Nat, inline <= 3
    PROVE  Fits(bits, inline)
BY DEF Fits

\* emit_match, in either bucket.
LEMMA MatchWritten ==
    ASSUME Writing, NEW t, t.at \in Nat, t.len \in Nat, t.dist \in Nat, PP!MatchIsTrue(t),
           NEW inline \in Nat, inline <= 3
    PROVE  /\ E!MatchBytes(t, inline) \in Seq(Byte)
           /\ \A C : \A o \in Nat :
                 /\ Written(o, E!MatchBytes(t, inline))
                 /\ FollowsAt(C, o + Len(E!MatchBytes(t, inline)), t.at + t.len, inline)'
                 => MatchAt(C, o, t.at)'
<1>1. /\ t.len > 2 /\ t.len <= MAX_EXTENDED_LENGTH
      /\ t.dist >= 1 /\ t.dist < LONG_MATCH_DISTANCE_BASE + 2 * DISTANCE_FIELD
  BY TrueMatch
<1>2. /\ MAX_BUCKET_C_DISTANCE \in Nat /\ LONG_MATCH_DISTANCE_BASE \in Nat
      /\ LONG_MATCH_DISTANCE_BASE <= MAX_BUCKET_C_DISTANCE
      /\ DISTANCE_FIELD \in Nat /\ DISTANCE_FIELD > 0
  BY RoundTripAssumption
<1>3. CASE t.dist <= MAX_BUCKET_C_DISTANCE
  <2>1. PICK bits \in Nat : bits = t.dist - 1
    BY <1>1
  <2>2. bits < 16384 /\ 1 + bits = t.dist /\ 32 \in Nat /\ 32 > 0
    BY <1>2, <1>3, <2>1, RoundTripAssumption
  <2>3. Fits(bits, inline)
    BY <2>2, SmallFits
  <2> DEFINE s == E!BucketBytes(32, 32, t.len, bits, inline)
  <2>4. E!MatchBytes(t, inline) = s
    BY <1>3, <2>1, Zenon DEF E!MatchBytes
  <2>5. /\ s \in Seq(Byte)
        /\ \A C, p : \A o \in Nat :
              Written(o, s) /\ RepeatsAt(C, o + Len(s), p, t.len, 1 + bits, inline)'
                 => BucketIs(C, o, p, 32, 32, "C", 1)
    <3>1. 32 \in Nat /\ 32 > 0 /\ "C" # "D"
      OBVIOUS
    <3> QED  BY <1>1, <2>3, <3>1, Fields, BucketWritten, Zenon
  <2> HIDE DEF s
  <2>6. ASSUME NEW o \in Nat, NEW C, Written(o, s),
               FollowsAt(C, o + Len(s), t.at + t.len, inline)'
        PROVE  MatchAt(C, o, t.at)'
    <3>1. RepeatsAt(C, o + Len(s), t.at, t.len, t.dist, inline)'
      BY <2>6, RepeatsWritten, Zenon
    <3>2. 1 + bits = t.dist
      BY <1>1, <2>1
    <3>3. BucketIs(C, o, t.at, 32, 32, "C", 1)
      BY <2>5, <2>6, <3>1, <3>2, Zenon
    <3> QED  BY <3>3, CommandOf, Zenon
  <2> QED  BY <2>4, <2>5, <2>6, Zenon
<1>4. CASE ~(t.dist <= MAX_BUCKET_C_DISTANCE)
  <2>1. PICK offset \in Nat : offset = t.dist - LONG_MATCH_DISTANCE_BASE
    BY <1>1, <1>2, <1>4
  <2>2. offset > 0 /\ offset < 2 * DISTANCE_FIELD /\ LONG_MATCH_DISTANCE_BASE + offset = t.dist
    BY <1>1, <1>2, <1>4, <2>1
  <2>3. PICK high : high = (offset \div DISTANCE_FIELD) % 2
    OBVIOUS
  <2>4. PICK low : low = offset % DISTANCE_FIELD
    OBVIOUS
  <2>5. E!MatchBytes(t, inline) = E!BucketBytes(16 + 8 * high, 8, t.len, low, inline)
    BY <1>4, <2>1, <2>3, <2>4, Zenon DEF E!MatchBytes
  <2>6. \/ high = 0 /\ low = offset /\ offset < DISTANCE_FIELD
        \/ high = 1 /\ low \in Nat /\ low < DISTANCE_FIELD /\ offset = DISTANCE_FIELD + low
    BY <2>2, <2>3, <2>4, OffsetParts, Zenon
  <2>7. low \in Nat /\ low < 16384
    <3>1. DISTANCE_FIELD <= 16384
      BY RoundTripAssumption
    <3> QED  BY <1>2, <2>6, <3>1
  <2>8. Fits(low, inline)
    BY <2>7, SmallFits
  <2>9. PICK base : base = IF high = 1 THEN LONG_MATCH_DISTANCE_BASE + DISTANCE_FIELD
                                       ELSE LONG_MATCH_DISTANCE_BASE
    OBVIOUS
  <2>10. base + low = t.dist /\ (base = LONG_MATCH_DISTANCE_BASE => low > 0)
    BY <1>2, <2>2, <2>6, <2>9
  <2>11. PICK command : command = 16 + 8 * high
    OBVIOUS
  <2>12. (high = 0 /\ command = 16) \/ (high = 1 /\ command = 24)
    <3>1. 16 + 8 * 0 = 16 /\ 16 + 8 * 1 = 24
      OBVIOUS
    <3> QED  BY <2>6, <2>11, <3>1, Zenon
  <2>13. Field(command, 8)
    BY <2>12, Fields, Zenon
  <2> DEFINE s == E!BucketBytes(command, 8, t.len, low, inline)
  <2>14. E!MatchBytes(t, inline) = s
    BY <2>5, <2>11, Zenon
  <2>15. /\ s \in Seq(Byte)
         /\ \A C, p : \A o \in Nat :
               Written(o, s) /\ RepeatsAt(C, o + Len(s), p, t.len, base + low, inline)'
                  => BucketIs(C, o, p, command, 8, "D", base)
    <3>1. 8 \in Nat /\ 8 > 0 /\ command \in Nat
      BY <2>12
    <3>2. low \in Nat
      BY <2>7
    <3> QED  BY <1>1, <2>8, <2>10, <2>13, <3>1, <3>2, BucketWritten, Zenon
  <2> HIDE DEF s
  <2>16. ASSUME NEW o \in Nat, NEW C, Written(o, s),
                FollowsAt(C, o + Len(s), t.at + t.len, inline)'
         PROVE  MatchAt(C, o, t.at)'
    <3>1. RepeatsAt(C, o + Len(s), t.at, t.len, t.dist, inline)'
      BY <2>16, RepeatsWritten, Zenon
    <3>2. BucketIs(C, o, t.at, command, 8, "D", base)
      BY <2>10, <2>15, <2>16, <3>1, Zenon
    <3>3. 0 # 1
      OBVIOUS
    <3> QED  BY <2>9, <2>12, <3>2, <3>3, CommandOf, Zenon
  <2> QED  BY <2>14, <2>15, <2>16, Zenon
<1> QED  BY <1>3, <1>4, Zenon
-----------------------------------------------------------------------------
(* Each step of emit() adds a boundary to the layout.                        *)

\* A token as emit() finds it.
TokenIs(i) ==
    /\ tokens[i].at \in Nat /\ tokens[i].len \in Nat /\ tokens[i].dist \in Nat
    /\ tokens[i].len > 0
    /\ EndOf(i) \in Nat /\ tokens[i].at + tokens[i].len = EndOf(i) /\ EndOf(i) <= Len(input)
    /\ tokens[i].kind = "match" => PP!MatchIsTrue(tokens[i])

LEMMA TokensAre ==
    ASSUME CInv, parsing = "parsed"
    PROVE  /\ input \in Seq(Byte) /\ Len(input) \in Nat
           /\ Len(tokens) \in Nat /\ index \in Nat /\ index <= Len(tokens)
           /\ \A i \in 1 .. Len(tokens) : TokenIs(i)
           /\ Len(tokens) > 0 => tokens[1].at = 0
           /\ Len(tokens) = 0 => Len(input) = 0
<1>1. input \in Seq(Byte) /\ Len(input) \in Nat
  BY Assumed, PP!InputIsBytes, Zenon DEF CInv, PP!Byte, Byte
<1>2. Len(tokens) \in Nat /\ index \in Nat /\ index <= Len(tokens)
  BY TokensFacts DEF CInv, AtNoRun
<1>3. PP!Good(tokens, Len(input))
  BY Zenon DEF CInv, PP!IInv, PP!Covered
<1>4. /\ tokens \in Seq(PP!Token) /\ PP!Tiles(tokens, Len(input)) /\ PP!Alternates(tokens)
      /\ \A i \in 1 .. Len(tokens) : tokens[i].kind = "match" => PP!MatchIsTrue(tokens[i])
  BY <1>3, Zenon DEF PP!Good
<1>5. tokens = <<>> <=> Len(tokens) = 0
  BY <1>4
<1>6. \A i \in 1 .. Len(tokens) : /\ tokens[i].at \in Nat /\ tokens[i].len \in Nat
                                  /\ tokens[i].dist \in Nat
                                  /\ tokens[i].kind \in {"match", "literals"}
  <2>1. \A i \in 1 .. Len(tokens) : tokens[i] \in PP!Token
    BY <1>4
  <2> QED  BY <2>1 DEF PP!Token
<1>7. /\ Len(tokens) > 0 => tokens[1].at = 0
      /\ Len(tokens) = 0 => Len(input) = 0
      /\ \A i \in 1 .. Len(tokens) :
            /\ tokens[i].len > 0
            /\ tokens[i].at + tokens[i].len =
                  IF i < Len(tokens) THEN tokens[i + 1].at ELSE Len(input)
  <2>1. Len(tokens) > 0 => Len(tokens) # 0
    BY <1>2
  <2>2. CASE tokens = <<>>
    BY <1>2, <1>4, <1>5, <2>2 DEF PP!Tiles
  <2>3. CASE tokens # <<>>
    BY <1>4, <1>5, <2>1, <2>3, Zenon DEF PP!Tiles
  <2> QED  BY <2>2, <2>3, Zenon
<1>8. ASSUME NEW i \in 1 .. Len(tokens) PROVE TokenIs(i)
  <2>1. i < Len(tokens) => i + 1 \in 1 .. Len(tokens) /\ i \in 1 .. Len(tokens) - 1
    BY <1>2
  <2>2. EndOf(i) \in Nat /\ tokens[i].at + tokens[i].len = EndOf(i)
    BY <1>1, <1>6, <1>7, <2>1, Zenon DEF EndOf
  <2>3. EndOf(i) <= Len(input)
    <3>1. CASE tokens[i].kind = "match"
      BY <1>4, <2>2, <3>1, Zenon DEF PP!MatchIsTrue
    <3>2. CASE ~(i < Len(tokens))
      BY <1>1, <3>2 DEF EndOf
    <3>3. CASE i < Len(tokens) /\ tokens[i].kind = "literals"
      <4>1. PICK t : t = tokens[i + 1]
        OBVIOUS
      <4>2. t.kind = "match"
        BY <2>1, <3>3, <4>1, <1>4, Zenon DEF PP!Alternates
      <4>3. t.at + t.len <= Len(input)
        BY <1>4, <2>1, <3>3, <4>1, <4>2, Zenon DEF PP!MatchIsTrue
      <4>4. t.at \in Nat /\ t.len \in Nat
        BY <1>6, <2>1, <3>3, <4>1, Zenon
      <4>5. EndOf(i) = t.at
        BY <3>3, <4>1, Zenon DEF EndOf
      <4> QED  BY <1>1, <4>3, <4>4, <4>5
    <3> QED  BY <1>6, <3>1, <3>2, <3>3, Zenon
  <2> QED  BY <1>4, <1>6, <1>7, <2>2, <2>3, Zenon DEF TokenIs
<1> QED  BY <1>1, <1>2, <1>7, <1>8, Zenon

\* Bytes appended to the stream are written where it ended.
LEMMA Appended ==
    ASSUME stream \in Seq(Byte), NEW u \in Seq(Byte), stream' = stream \o u,
           NEW o, o = Len(stream)
    PROVE  /\ stream' \in Seq(Byte) /\ o \in Nat /\ Len(stream') = o + Len(u)
           /\ Len(stream') \in Nat /\ Len(u) \in Nat /\ o <= Len(stream')
           /\ \A k \in 1 .. o : stream'[k] = stream[k]
           /\ Written(o, u)
<1>1. /\ stream' \in Seq(Byte) /\ o \in Nat /\ Len(stream') = o + Len(u) /\ Len(u) \in Nat
  BY Joined, Zenon
<1>2. Len(stream') \in Nat /\ o <= Len(stream')
  BY <1>1
<1>3. \A k \in 1 .. o + Len(u) : stream'[k] = IF k <= o THEN stream[k] ELSE u[k - o]
  BY ConcatProperties
<1>4. \A k \in 1 .. o : stream'[k] = stream[k]
  BY <1>1, <1>3
<1>5. \A k \in 1 .. Len(u) : stream'[o + k] = u[k]
  <2>1. TAKE k \in 1 .. Len(u)
  <2>2. o + k \in 1 .. o + Len(u) /\ ~(o + k <= o) /\ o + k - o = k
    BY <1>1
  <2> QED  BY <1>3, <2>2
<1>6. o + Len(u) <= Len(stream')
  BY <1>1
<1> QED  BY <1>1, <1>2, <1>4, <1>5, <1>6, Zenon DEF Written

\* A step writes a unit of bytes: wherever it stands, a match begins there if
\* there is a boundary behind it.
UnitIs(u, o, p, e) ==
    /\ u \in Seq(Byte) /\ stream' = stream \o u
    /\ \A C : Written(o, u) /\ <<o + Len(u), e>> \in C => MatchAt(C, o, p)'

LEMMA UnitOf ==
    ASSUME Writing, stream \in Seq(Byte), NEW o \in Nat, NEW e,
           NEW t, t.at \in Nat, t.len \in Nat, t.dist \in Nat, PP!MatchIsTrue(t),
           NEW inline \in Nat, inline <= 3, NEW w \in Seq(Byte),
           stream' = stream \o E!MatchBytes(t, inline) \o w,
           \A C : \A q \in Nat :
              Written(q, w) /\ <<q + Len(w), e>> \in C => FollowsAt(C, q, t.at + t.len, inline)'
    PROVE  \E u : UnitIs(u, o, t.at, e)
<1> DEFINE m == E!MatchBytes(t, inline)
<1>1. /\ m \in Seq(Byte)
      /\ \A C : Written(o, m) /\ FollowsAt(C, o + Len(m), t.at + t.len, inline)'
                   => MatchAt(C, o, t.at)'
  BY MatchWritten, Zenon
<1>2. stream' = (stream \o m) \o w
  OBVIOUS
<1> HIDE DEF m
<1>3. stream' = stream \o (m \o w)
  <2>1. stream \in Seq(Byte) /\ m \in Seq(Byte) /\ w \in Seq(Byte)
    BY <1>1, Zenon
  <2>2. \A x, y, z \in Seq(Byte) : (x \o y) \o z = x \o (y \o z)
    BY ONLY Regrouped
  <2>3. (stream \o m) \o w = stream \o (m \o w)
    BY ONLY <2>1, <2>2, Zenon
  <2> QED  BY <1>2, <2>3
<1>4. m \o w \in Seq(Byte) /\ Len(m \o w) = Len(m) + Len(w) /\ Len(m) \in Nat /\ Len(w) \in Nat
  BY <1>1, Joined, ZenonT(40)
<1>5. ASSUME NEW C, Written(o, m \o w), <<o + Len(m \o w), e>> \in C PROVE MatchAt(C, o, t.at)'
  <2>1. Written(o, m) /\ Written(o + Len(m), w)
    BY <1>1, <1>5, WrittenParts, Zenon
  <2>2. PICK q \in Nat : q = o + Len(m)
    BY <1>4
  <2>3. q + Len(w) = o + (Len(m) + Len(w))
    BY <1>4, <2>2
  <2>4. FollowsAt(C, q, t.at + t.len, inline)'
    BY <1>4, <1>5, <2>1, <2>2, <2>3, Zenon
  <2> QED  BY <1>1, <2>1, <2>2, <2>4, Zenon
<1> QED  BY <1>3, <1>4, <1>5, Zenon DEF UnitIs

\* emit_match and the literals or the run behind the match.
LEMMA MatchStep ==
    ASSUME CInv, RunsFit, parsing = "parsed", stream \in Seq(Byte), E!MatchInline \/ E!MatchThenRun
    PROVE  \A p, e : \A o \in Nat : p = EndOf(index) /\ e = EndOf(index') => \E u : UnitIs(u, o, p, e)
<1>1. /\ index < Len(tokens) /\ tokens[index + 1].kind = "match"
      /\ input' = input /\ tokens' = tokens
  BY DEF E!MatchInline, E!MatchThenRun, E!AtMatch
<1>2. /\ input \in Seq(Byte) /\ Len(input) \in Nat /\ Len(tokens) \in Nat /\ index \in Nat
      /\ \A i \in 1 .. Len(tokens) : TokenIs(i)
  BY TokensAre, Zenon
<1>3. Writing
  BY <1>1, <1>2, Zenon DEF Writing
<1>4. index + 1 \in 1 .. Len(tokens)
  BY <1>1, <1>2
<1>5. PICK t : t = tokens[index + 1]
  OBVIOUS
<1>6. /\ t.at \in Nat /\ t.len \in Nat /\ t.dist \in Nat /\ PP!MatchIsTrue(t)
      /\ t.at + t.len = EndOf(index + 1) /\ t.at = EndOf(index)
  BY <1>1, <1>2, <1>4, <1>5, Zenon DEF TokenIs, EndOf
<1>7. 0 \in Nat /\ 0 <= 3 /\ ~(0 > 0) /\ Between(0, 0, 3)
  BY DEF Between
<1>8. CASE E!MatchInline /\ ~E!Following
  <2>1. stream' = stream \o E!MatchBytes(t, 0) \o <<>> /\ index' = index + 1
    BY <1>5, <1>8, Zenon DEF E!MatchInline
  <2>2. <<>> \in Seq(Byte) /\ \A q \in Nat : q + Len(<<>>) = q
    OBVIOUS
  <2>3. ASSUME NEW e, e = EndOf(index'), NEW q \in Nat, NEW C, <<q + Len(<<>>), e>> \in C
        PROVE  FollowsAt(C, q, t.at + t.len, 0)'
    <3>1. <<q, t.at + t.len>> \in C
      BY <1>6, <2>1, <2>2, <2>3, Zenon
    <3> QED  BY <1>7, <3>1, Zenon DEF FollowsAt, Between
  <2>4. \A e : e = EndOf(index') => \A o \in Nat : \E u : UnitIs(u, o, t.at, e)
    BY <1>3, <1>6, <1>7, <2>1, <2>2, <2>3, UnitOf, Zenon
  <2> QED  BY <1>6, <2>4, Zenon
<1>9. ASSUME E!Following
      PROVE  \E l : /\ l = tokens[index + 2] /\ l.at \in Nat /\ l.len \in Nat /\ l.len > 0
                    /\ l.at + l.len <= Len(input) /\ l.at + l.len = EndOf(index + 2)
                    /\ l.at = t.at + t.len /\ l.len <= MAX_EXTENDED_LENGTH
  <2>1. index + 2 <= Len(tokens)
    BY <1>9, Zenon DEF E!Following
  <2>2. index + 2 \in 1 .. Len(tokens) /\ index + 1 < Len(tokens) /\ index + 1 + 1 = index + 2
    BY <1>2, <2>1
  <2>3. EndOf(index + 1) = tokens[index + 2].at
    BY <2>2, Zenon DEF EndOf
  <2>4. tokens[index + 2].len <= MAX_EXTENDED_LENGTH
    BY <2>2, Zenon DEF RunsFit
  <2> QED  BY <1>2, <1>6, <2>2, <2>3, <2>4, Zenon DEF TokenIs
<1>10. CASE E!MatchInline /\ E!Following
  <2>1. PICK l : /\ l = tokens[index + 2] /\ l.at \in Nat /\ l.len \in Nat /\ l.len > 0
                 /\ l.at + l.len <= Len(input) /\ l.at + l.len = EndOf(index + 2)
                 /\ l.at = t.at + t.len /\ l.len <= MAX_EXTENDED_LENGTH
    BY <1>9, <1>10
  <2>2. /\ stream' = stream \o E!MatchBytes(t, l.len) \o E!Literals(l)
        /\ index' = index + 2 /\ l.len <= 3
    BY <1>5, <1>10, <2>1, Zenon DEF E!MatchInline, E!MAX_INLINE_LITERALS
  <2>3. E!Literals(l) \in Seq(Byte) /\ Len(E!Literals(l)) = l.len
    BY <1>3, <2>1, LiteralsBytes, Zenon
  <2>4. Between(l.len, 0, 3) /\ l.len # 0
    BY <2>1, <2>2 DEF Between
  <2>5. ASSUME NEW e, e = EndOf(index'), NEW q \in Nat, NEW C, Written(q, E!Literals(l)),
               <<q + Len(E!Literals(l)), e>> \in C
        PROVE  FollowsAt(C, q, t.at + t.len, l.len)'
    <3>1. <<q + l.len, l.at + l.len>> \in C
      BY <2>1, <2>2, <2>3, <2>5, Zenon
    <3>2. LiteralsAt(C, q, l.at, l.len)'
      BY <1>3, <2>1, <2>5, <3>1, LiteralsWritten, Zenon
    <3> QED  BY <2>1, <2>4, <3>2, Zenon DEF FollowsAt, Between
  <2>6. \A e : e = EndOf(index') => \A o \in Nat : \E u : UnitIs(u, o, t.at, e)
    BY <1>3, <1>6, <2>1, <2>2, <2>3, <2>5, UnitOf, Zenon
  <2> QED  BY <1>6, <2>6, Zenon
<1>11. CASE E!MatchThenRun
  <2>1. PICK l : /\ l = tokens[index + 2] /\ l.at \in Nat /\ l.len \in Nat /\ l.len > 0
                 /\ l.at + l.len <= Len(input) /\ l.at + l.len = EndOf(index + 2)
                 /\ l.at = t.at + t.len /\ l.len <= MAX_EXTENDED_LENGTH
    BY <1>9, <1>11, Zenon DEF E!MatchThenRun
  <2>2. /\ stream' = stream \o E!MatchBytes(t, 0) \o E!LiteralRunBytes(l)
        /\ index' = index + 2 /\ l.len > 3
    BY <1>5, <1>11, <2>1, Zenon DEF E!MatchThenRun, E!MAX_INLINE_LITERALS
  <2>3. l.len >= 4
    BY <2>1, <2>2
  <2>4. /\ E!LiteralRunBytes(l) \in Seq(Byte)
        /\ \A C : \A o \in Nat :
              /\ Written(o, E!LiteralRunBytes(l))
              /\ <<o + Len(E!LiteralRunBytes(l)), l.at + l.len>> \in C
              => RunAt(C, o, l.at)'
    BY <1>3, <2>1, <2>3, RunWritten, Zenon
  <2>5. ASSUME NEW e, e = EndOf(index'), NEW q \in Nat, NEW C, Written(q, E!LiteralRunBytes(l)),
               <<q + Len(E!LiteralRunBytes(l)), e>> \in C
        PROVE  FollowsAt(C, q, t.at + t.len, 0)'
    <3>1. RunAt(C, q, l.at)'
      BY <2>1, <2>2, <2>4, <2>5, Zenon
    <3> QED  BY <1>7, <2>1, <3>1, Zenon DEF FollowsAt, Between
  <2>6. \A e : e = EndOf(index') => \A o \in Nat : \E u : UnitIs(u, o, t.at, e)
    BY <1>3, <1>6, <1>7, <2>2, <2>4, <2>5, UnitOf, Zenon
  <2> QED  BY <1>6, <2>6, Zenon
<1> QED  BY <1>8, <1>10, <1>11, Zenon

\* emit() has bytes in the stream only if there was something to compress.
LEMMA SomeInput == ASSUME CInv, parsing = "parsed", index > 0 PROVE Len(input) > 0
<1>1. /\ Len(input) \in Nat /\ Len(tokens) \in Nat /\ index \in Nat /\ index <= Len(tokens)
      /\ \A i \in 1 .. Len(tokens) : TokenIs(i)
  BY TokensAre, Zenon
<1>2. 1 \in 1 .. Len(tokens)
  BY <1>1
<1>3. PICK t : t = tokens[1]
  OBVIOUS
<1>4. t.at \in Nat /\ t.len \in Nat /\ t.len > 0 /\ t.at + t.len <= Len(input)
  BY <1>1, <1>2, <1>3, Zenon DEF TokenIs
<1> QED  BY <1>1, <1>4

\* The opening survives what is written behind it.
LEMMA OpeningGrows ==
    ASSUME NEW B, NEW C, Grows(B, C), OpeningAt(B), Len(input) # 0
    PROVE  OpeningAt(C)'
<1>1. ~EndAt(0, 0)
  BY Zenon DEF EndAt
<1>2. RunAt(B, 0, 0) => RunAt(C, 0, 0)'
  BY RunGrows
<1>3. ASSUME 1 <= Len(stream), Between(stream[1], 18, 255), LiteralsAt(B, 1, 0, stream[1] - 17)
      PROVE  1 <= Len(stream') /\ Between(stream'[1], 18, 255)
             /\ LiteralsAt(C, 1, 0, stream[1] - 17)'
  <2>1. 1 <= Len(stream') /\ stream'[1] = stream[1]
    BY <1>3 DEF Grows
  <2>2. PICK n \in Nat : n = stream[1] - 17
    BY <1>3 DEF Between
  <2>3. LiteralsAt(C, 1, 0, n)'
    BY <1>3, <2>2, LiteralsGrow
  <2> QED  BY <1>3, <2>1, <2>2, <2>3, Zenon
<1> QED  BY <1>1, <1>2, <1>3, Zenon DEF OpeningAt

\* emit_leading_literals begins the layout.
LEMMA LeadingStep ==
    ASSUME CInv, RunsFit, parsing = "parsed", E!Leading
    PROVE  stream' \in Seq(Byte) /\ index' > 0 /\ \E B \in SUBSET (Nat \X Nat) : Emits(B)'
<1>1. /\ stream' = E!LeadingBytes(tokens[1]) /\ index' = 1 /\ tokens # <<>>
      /\ input' = input /\ tokens' = tokens
  BY Zenon DEF E!Leading
<1>2. /\ input \in Seq(Byte) /\ Len(input) \in Nat /\ Len(tokens) \in Nat
      /\ \A i \in 1 .. Len(tokens) : TokenIs(i)
      /\ Len(tokens) > 0 => tokens[1].at = 0
  BY TokensAre, Zenon
<1>3. Len(tokens) > 0 /\ 1 \in 1 .. Len(tokens)
  <2>1. tokens \in Seq(PP!Token)
    BY TokensFacts DEF CInv
  <2> QED  BY <1>1, <2>1
<1>4. PICK t : t = tokens[1]
  OBVIOUS
<1>5. /\ t.at = 0 /\ t.len \in Nat /\ t.len > 0 /\ t.at + t.len = EndOf(1) /\ EndOf(1) <= Len(input)
  BY <1>2, <1>3, <1>4, Zenon DEF TokenIs
<1>6. t.len = EndOf(1) /\ t.len <= Len(input) /\ t.len <= MAX_EXTENDED_LENGTH
  <2>1. t.len <= MAX_EXTENDED_LENGTH
    BY <1>3, <1>4, Zenon DEF RunsFit
  <2> QED  BY <1>5, <2>1
<1>7. Writing
  BY <1>1, <1>2, Zenon DEF Writing
<1>8. /\ stream' \in Seq(Byte)
      /\ \A C : Written(0, stream') /\ <<Len(stream'), t.len>> \in C => OpeningAt(C)'
  BY <1>1, <1>4, <1>5, <1>6, <1>7, LeadingWritten, Zenon
<1>9. Len(stream') \in Nat /\ Written(0, stream')
  <2>1. Len(stream') \in Nat
    BY <1>8, LenProperties
  <2>2. 0 + Len(stream') <= Len(stream') /\ \A k \in 1 .. Len(stream') : 0 + k = k
    BY <2>1
  <2> QED  BY <2>1, <2>2, Zenon DEF Written
<1>10. PICK n \in Nat : n = Len(stream')
  BY <1>9
<1> DEFINE B == {<<n, t.len>>}
<1>11. B \in SUBSET (Nat \X Nat)
  BY <1>5
<1>12. Frontier' = <<n, t.len>>
  BY <1>1, <1>6, <1>10, Zenon DEF Frontier, EndOf
<1>13. OpeningAt(B)'
  BY <1>8, <1>9, <1>10
<1>14. Emits(B)'
  BY <1>5, <1>12, <1>13 DEF Emits, Boundaries
<1> QED  BY <1>1, <1>8, <1>11, <1>14

\* A match, and what it takes along, is a boundary more.
LEMMA EmitsOneMore ==
    ASSUME CInv, RunsFit, parsing = "parsed", stream \in Seq(Byte), index > 0,
           E!MatchInline \/ E!MatchThenRun,
           NEW B \in SUBSET (Nat \X Nat), Emits(B)
    PROVE  stream' \in Seq(Byte) /\ index' > 0 /\ \E C \in SUBSET (Nat \X Nat) : Emits(C)'
<1>1. PICK o \in Nat : o = Len(stream)
  BY LenProperties
<1>2. PICK p : p = EndOf(index)
  OBVIOUS
<1>3. PICK e : e = EndOf(index')
  OBVIOUS
<1>4. PICK u : UnitIs(u, o, p, e)
  BY <1>1, <1>2, <1>3, MatchStep, Zenon
<1>5. /\ stream' \in Seq(Byte) /\ Len(stream') = o + Len(u) /\ Len(stream') \in Nat
      /\ o <= Len(stream') /\ Written(o, u)
      /\ \A k \in 1 .. o : stream'[k] = stream[k]
  BY <1>1, <1>4, Appended, Zenon DEF UnitIs
<1>6. input' = input /\ tokens' = tokens /\ index \in Nat
      /\ (index' = index + 1 \/ index' = index + 2)
  BY TokensAre DEF E!MatchInline, E!MatchThenRun
<1>7. index' > 0 /\ index' \in Nat
  BY <1>6
<1>8. e \in Nat
  <2>1. Len(input) \in Nat /\ Len(tokens) \in Nat /\ \A i \in 1 .. Len(tokens) : TokenIs(i)
    BY TokensAre, Zenon
  <2>2. PICK j \in Nat : j = index'
    BY <1>7
  <2>3. CASE j < Len(tokens)
    <3>1. j + 1 \in 1 .. Len(tokens)
      BY <2>1, <2>3
    <3>2. tokens[j + 1].at \in Nat
      BY <2>1, <3>1, Zenon DEF TokenIs
    <3> QED  BY <1>3, <2>2, <2>3, <3>2, Zenon DEF EndOf
  <2>4. CASE ~(j < Len(tokens))
    BY <1>3, <2>1, <2>2, <2>4, Zenon DEF EndOf
  <2> QED  BY <2>3, <2>4, Zenon
<1>9. PICK n \in Nat : n = Len(stream')
  BY <1>5
<1> DEFINE C == B \cup {<<n, e>>}
<1>10. C \in SUBSET (Nat \X Nat)
  BY <1>8
<1>11. Grows(B, C)
  BY <1>1, <1>5, <1>6 DEF Grows
<1>12. Frontier' = <<n, e>> /\ Frontier = <<o, p>>
  BY <1>1, <1>2, <1>3, <1>6, <1>9, Zenon DEF Frontier, EndOf
<1>13. MatchAt(C, o, p)'
  <2>1. <<o + Len(u), e>> \in C
    BY <1>5, <1>9
  <2> QED  BY <1>4, <1>5, <2>1, Zenon DEF UnitIs
<1>14. OpeningAt(C)'
  <2>1. Len(input) # 0
    BY SomeInput
  <2> QED  BY <1>11, <2>1, OpeningGrows, Zenon DEF Emits
<1>15. ASSUME NEW x \in B PROVE MatchAt(C, x[1], x[2])'
  <2>1. x[1] \in Nat
    BY <1>15, Zenon DEF Emits, Boundaries
  <2>2. CASE x = Frontier
    <3>1. x[1] = o /\ x[2] = p
      <4>1. x = <<o, p>>
        BY <1>12, <2>2, Zenon
      <4> QED  BY <4>1
    <3> QED  BY <1>13, <3>1, Zenon
  <2>3. CASE MatchAt(B, x[1], x[2])
    BY <1>11, <2>1, <2>3, MatchGrows
  <2> QED  BY <2>2, <2>3, Zenon DEF Emits
<1>16. Boundaries(C)
  BY <1>8 DEF Emits, Boundaries
<1>17. \A x \in C : x = <<n, e>> \/ x \in B
  BY Zenon
<1>18. <<n, e>> \in C
  BY Zenon
<1> HIDE DEF C
<1>19. Emits(C)'
  BY <1>12, <1>14, <1>15, <1>16, <1>17, <1>18, Zenon DEF Emits, Boundaries
<1> QED  BY <1>5, <1>7, <1>10, <1>19, Zenon

\* The last bytes: behind all tokens the marker, where the last boundary is.
LEMMA FinishStep ==
    ASSUME CInv, EmitInv, RunsFit, parsing = "parsed", E!Finish
    PROVE  stream' \in Seq(Byte) /\ \E B \in SUBSET (Nat \X Nat) : Emitted(B)'
<1>1. /\ stream' = stream \o <<17, 0, 0>> /\ emitting = "emitting" /\ index = Len(tokens)
      /\ input' = input /\ tokens' = tokens
  BY Zenon DEF E!Finish, E!EndOfStream
<1>2. /\ stream \in Seq(Byte) /\ index \in Nat /\ Len(tokens) \in Nat /\ Len(input) \in Nat
      /\ (Len(tokens) = 0 => Len(input) = 0)
  BY TokensAre, Zenon DEF EmitInv
<1>3. PICK o \in Nat : o = Len(stream)
  BY <1>2, LenProperties
<1> DEFINE u == <<17, 0, 0>>
<1>4. u \in Seq(Byte) /\ Len(u) = 3 /\ u[1] = 17 /\ u[2] = 0 /\ u[3] = 0
  <2>1. 17 \in Byte /\ 0 \in Byte
    BY IsByte
  <2> QED  BY <2>1
<1> HIDE DEF u
<1>5. stream' = stream \o u
  BY <1>1, Zenon DEF u
<1>6. /\ stream' \in Seq(Byte) /\ Len(stream') = o + Len(u) /\ Len(stream') \in Nat
      /\ o <= Len(stream') /\ \A k \in 1 .. o : stream'[k] = stream[k]
      /\ \A k \in 1 .. Len(u) : stream'[o + k] = u[k]
  <2>1. /\ stream' \in Seq(Byte) /\ Len(stream') = o + Len(u) /\ Len(stream') \in Nat
        /\ o <= Len(stream') /\ (\A k \in 1 .. o : stream'[k] = stream[k]) /\ Written(o, u)
    BY <1>2, <1>3, <1>4, <1>5, Appended, Zenon
  <2> QED  BY <2>1, Zenon DEF Written
<1>7. EndAt(o, Len(input))'
  <2>1. 1 \in 1 .. 3 /\ 2 \in 1 .. 3 /\ 3 \in 1 .. 3
    OBVIOUS
  <2> QED  BY <1>1, <1>4, <1>6, <2>1, Zenon DEF EndAt
<1>8. CASE index > 0
  <2>1. PICK B \in SUBSET (Nat \X Nat) : Emits(B)
    BY <1>1, <1>8, Zenon DEF EmitInv
  <2>2. Grows(B, B)
    BY <1>1, <1>3, <1>6 DEF Grows
  <2>3. Frontier = <<o, Len(input)>>
    <3>1. ~(index < Len(tokens))
      BY <1>1, <1>2
    <3> QED  BY <1>3, <3>1, Zenon DEF Frontier, EndOf
  <2>4. OpeningAt(B)'
    <3>1. Len(input) # 0
      BY <1>8, SomeInput
    <3> QED  BY <2>1, <2>2, <3>1, OpeningGrows, Zenon DEF Emits
  <2>5. ASSUME NEW x \in B PROVE MatchAt(B, x[1], x[2])' \/ EndAt(x[1], x[2])'
    <3>1. x[1] \in Nat
      BY <2>1, <2>5, Zenon DEF Emits, Boundaries
    <3>2. CASE x = Frontier
      <4>1. x = <<o, Len(input)>>
        BY <2>3, <3>2, Zenon
      <4>2. x[1] = o /\ x[2] = Len(input)
        BY <4>1
      <4> QED  BY <1>1, <1>7, <4>2, Zenon
    <3>3. CASE MatchAt(B, x[1], x[2])
      BY <2>2, <3>1, <3>3, MatchGrows
    <3> QED  BY <2>1, <3>2, <3>3, Zenon DEF Emits
  <2>6. Emitted(B)'
    BY <2>1, <2>4, <2>5, Zenon DEF Emits, Emitted, Boundaries
  <2> QED  BY <1>6, <2>1, <2>6, Zenon
<1>9. CASE index = 0
  <2>1. stream = <<>> /\ o = 0 /\ Len(input) = 0
    BY <1>1, <1>2, <1>3, <1>9 DEF EmitInv
  <2> DEFINE B == {<<0, 0>>}
  <2>2. B \in SUBSET (Nat \X Nat) /\ <<0, 0>> \in B
        /\ \A x \in B : x[1] = 0 /\ x[2] = 0 /\ x[1] \in Nat /\ x[2] \in Nat
    OBVIOUS
  <2> HIDE DEF B
  <2>3. EndAt(0, 0)'
    BY <1>1, <1>7, <2>1, Zenon
  <2>4. Emitted(B)'
    BY <2>2, <2>3, Zenon DEF Emitted, OpeningAt, Boundaries
  <2> QED  BY <1>6, <2>2, <2>4, Zenon
<1> QED  BY <1>2, <1>8, <1>9
-----------------------------------------------------------------------------
(* The invariant, step by step.                                              *)

LEMMA RInitially == Init => RInv
<1> SUFFICES ASSUME Init PROVE RInv
  OBVIOUS
<1>1. CInv
  BY Initially
<1>2. /\ index = 0 /\ stream = <<>> /\ emitting = "emitting"
      /\ max_out \in Nat /\ DecoderWaits
  <2>1. index = 0 /\ stream = <<>> /\ emitting = "emitting" /\ DecoderWaits
    BY DEF Init, InitRest, E!InitCall, D!InitCall, DecoderWaits
  <2>2. \E d \in Slack : max_out = Len(input) + d - 1 /\ max_out >= 0
    BY DEF Init, InitRest
  <2>3. Len(input) \in Nat /\ Slack \subseteq Nat
    BY <1>1, Assumed, PP!InputIsBytes, RoundTripAssumption DEF CInv
  <2>4. max_out \in Nat
    BY <2>2, <2>3
  <2> QED  BY <2>1, <2>4
<1>3. stream \in Seq(Byte) /\ ~(index > 0) /\ emitting # "emitted"
  BY <1>2
<1>4. EmitInv
  BY <1>2, <1>3, Zenon DEF EmitInv
<1> QED  BY <1>1, <1>3, <1>4, Zenon DEF RInv, DecodeInv

\* parse() runs before a byte is written.
LEMMA RParsing == RInv /\ Parsing => RInv'
<1> SUFFICES ASSUME RInv, Parsing PROVE RInv'
  OBVIOUS
<1>1. CInv'
  BY ParsingKeeps, Zenon DEF RInv
<1>2. parsing = "searching" /\ UNCHANGED <<input, emitVars, decodeVars>>
  BY DEF Parsing, P!Next, P!NoMatch, P!TakeMatch, P!FinalLiterals, P!Searching
<1>3. UNCHANGED <<input, index, stream, emitting, max_out, ip, out, state, pc, len, dist, copied>>
  BY <1>2 DEF emitVars, decodeVars
<1>4. index = 0 /\ emitting = "emitting"
  BY <1>2, Zenon DEF RInv, EmitInv, CInv, AtNoRun
<1>5. ~(index' > 0) /\ index' = 0 /\ emitting' = "emitting" /\ emitting' # "emitted"
  BY <1>3, <1>4
<1>6. stream' = <<>> /\ stream' \in Seq(Byte)
  <2>1. stream' = <<>>
    BY <1>3, <1>4, Zenon DEF RInv, EmitInv
  <2> QED  BY <2>1
<1>7. EmitInv'
  BY <1>3, <1>4, <1>5, <1>6, Zenon DEF RInv, EmitInv, DecoderWaits
<1> QED  BY <1>1, <1>5, <1>7, Zenon DEF RInv, DecodeInv

\* emit() lays the stream out, and the decoder waits for the end of it.
LEMMA REmitting == RInv /\ Emitting => RInv'
<1> SUFFICES ASSUME RInv, Emitting PROVE RInv'
  OBVIOUS
<1>1. CInv'
  BY EmittingKeeps, Zenon DEF RInv
<1>2. /\ parsing = "parsed" /\ parsing' = "parsed" /\ input' = input
      /\ UNCHANGED <<max_out, ip, out, state, pc, len, dist, copied>>
  BY DEF Emitting, decodeVars, E!Next, E!Leading, E!MatchInline, E!MatchThenRun, E!Finish
<1>3. CInv /\ EmitInv /\ emitting = "emitting"
  BY DEF RInv, Emitting, E!Next, E!Leading, E!MatchInline, E!MatchThenRun, E!AtMatch, E!Finish
<1>4. DecoderWaits /\ DecoderWaits'
  BY <1>2, <1>3, Zenon DEF EmitInv, DecoderWaits
<1>5. /\ max_out' \in Nat /\ tokens' = tokens
      /\ RunsFit => stream \in Seq(Byte)
      /\ RunsFit' <=> RunsFit
  <2>1. tokens' = tokens
    BY DEF Emitting, E!Next, E!Leading, E!MatchInline, E!MatchThenRun, E!Finish
  <2> QED  BY <1>2, <1>3, <2>1, Zenon DEF EmitInv, RunsFit
<1>6. CASE E!Leading \/ E!MatchInline \/ E!MatchThenRun
  <2>0. index' # 0
    <3>1. index \in Nat /\ index' \in {1, index + 1, index + 2}
      BY <1>2, <1>3, <1>6, TokensAre DEF E!Leading, E!MatchInline, E!MatchThenRun
    <3> QED  BY <3>1
  <2>1. ASSUME RunsFit
        PROVE  stream' \in Seq(Byte) /\ index' > 0 /\ \E B \in SUBSET (Nat \X Nat) : Emits(B)'
    <3>1. CASE E!Leading
      BY <1>2, <1>3, <2>1, <3>1, LeadingStep, Zenon
    <3>2. CASE E!MatchInline \/ E!MatchThenRun
      <4>1. index > 0
        <5>1. index < Len(tokens) /\ tokens[index + 1].kind = "match"
          BY <3>2 DEF E!MatchInline, E!MatchThenRun, E!AtMatch
        <5>2. index \in Nat /\ Len(tokens) \in Nat
          BY <1>2, <1>3, TokensAre, Zenon
        <5>3. index = 0 => tokens[1].kind = "literals"
          <6>1. PP!Good(tokens, Len(input))
            BY <1>2, <1>3, Zenon DEF CInv, PP!IInv, PP!Covered
          <6>2. tokens \in Seq(PP!Token) /\ (tokens # <<>> => tokens[1].kind = "literals")
            BY <6>1, Zenon DEF PP!Good
          <6>3. index = 0 => tokens # <<>>
            BY <5>1, <5>2, <6>2
          <6> QED  BY <6>2, <6>3, Zenon
        <5> QED  BY <5>1, <5>2, <5>3
      <4>2. PICK B \in SUBSET (Nat \X Nat) : Emits(B)
        BY <1>3, <2>1, <4>1, Zenon DEF EmitInv
      <4> QED  BY <1>2, <1>3, <1>5, <2>1, <3>2, <4>1, <4>2, EmitsOneMore, Zenon
    <3> QED  BY <1>6, <3>1, <3>2, Zenon
  <2>2. emitting' = "emitting" /\ emitting' # "emitted"
    BY <1>3, <1>6 DEF E!Leading, E!MatchInline, E!MatchThenRun
  <2>3. EmitInv'
    BY <1>4, <1>5, <2>0, <2>1, <2>2, Zenon DEF EmitInv
  <2> QED  BY <1>1, <2>2, <2>3, Zenon DEF RInv, DecodeInv
<1>7. CASE E!Finish
  <2>1. RunsFit => stream' \in Seq(Byte) /\ \E B \in SUBSET (Nat \X Nat) : Emitted(B)'
    BY <1>2, <1>3, <1>7, FinishStep, Zenon
  <2>2. emitting' = "emitted" /\ emitting' # "emitting" /\ parsing' # "searching"
    BY <1>2, <1>7 DEF E!Finish
  <2>3. EmitInv'
    BY <1>5, <2>1, <2>2, Zenon DEF EmitInv
  <2>4. ASSUME RunsFit PROVE Registers'
    <3>1. /\ ip' = 0 /\ out' = <<>> /\ len' = 0 /\ dist' = 0 /\ copied' = 0
          /\ Len(stream') \in Nat /\ max_out' \in Nat /\ Len(input') \in Nat
      <4>1. Len(input) \in Nat
        BY <1>2, <1>3, TokensAre, Zenon
      <4>2. Len(stream') \in Nat
        BY <2>1, <2>4, LenProperties
      <4> QED  BY <1>2, <1>4, <1>5, <4>1, <4>2, Zenon DEF DecoderWaits
    <3> QED  BY <3>1 DEF Registers, OutIsPrefix
  <2>5. \A B : Decodes(B)'
    BY <1>4 DEF Decodes, DecoderWaits
  <2> QED  BY <1>1, <1>2, <1>5, <2>1, <2>3, <2>4, <2>5, Zenon DEF RInv, DecodeInv
<1> QED  BY <1>6, <1>7, Zenon DEF Emitting, E!Next

\* decompress() does not write its arguments.
LEMMA ArgumentsStay == ASSUME D!Next PROVE UNCHANGED <<stream, max_out>>
<1>1. D!Bootstrap => UNCHANGED <<stream, max_out>>
  BY DEF D!Bootstrap, D!args
<1>2. D!ShortMatch \/ D!TinyMatch => UNCHANGED <<stream, max_out>>
  BY DEF D!ShortMatch, D!TinyMatch, D!args
<1>3. D!MatchC \/ D!MatchD => UNCHANGED <<stream, max_out>>
  <2>1. \A name, size, base :
           D!LongMatch(name, size, base) => UNCHANGED <<stream, max_out>>
    BY DEF D!LongMatch, D!args
  <2> QED  BY <2>1, Zenon DEF D!MatchC, D!MatchD
<1>4. D!LiteralRun \/ D!Literals => UNCHANGED <<stream, max_out>>
  BY DEF D!LiteralRun, D!Literals, D!args
<1>5. D!ExtendZero \/ D!ExtendLast => UNCHANGED <<stream, max_out>>
  BY DEF D!ExtendZero, D!ExtendLast, D!args
<1>6. D!Operand \/ D!Trailing => UNCHANGED <<stream, max_out>>
  BY DEF D!Operand, D!Trailing, D!args
<1>7. D!CopyMatch \/ D!CopyByte \/ D!Reject => UNCHANGED <<stream, max_out>>
  BY DEF D!CopyMatch, D!CopyByte, D!Reject, D!args
<1> QED  BY <1>1, <1>2, <1>3, <1>4, <1>5, <1>6, <1>7, Zenon DEF D!Next

\* The decoder follows the layout.
LEMMA RDecoding == RInv /\ Decoding => RInv'
<1> SUFFICES ASSUME RInv, Decoding PROVE RInv'
  OBVIOUS
<1>1. CInv'
  BY OthersKeep, Zenon DEF RInv
<1>2. emitting = "emitted" /\ D!Next /\ UNCHANGED <<parseVars, index, emitting>>
  BY Zenon DEF Decoding
<1>3. UNCHANGED <<input, tokens, parsing, index, emitting>>
  BY <1>2 DEF parseVars
<1>4. UNCHANGED <<stream, max_out>>
  BY <1>2, ArgumentsStay
<1>5. EmitInv /\ parsing = "parsed" /\ (RunsFit' <=> RunsFit)
  BY <1>2, <1>3, Zenon DEF RInv, DecodeInv, RunsFit
<1>6. ASSUME RunsFit
      PROVE  Registers' /\ \E B \in SUBSET (Nat \X Nat) : Emitted(B)' /\ Decodes(B)'
  <2>1. PICK B \in SUBSET (Nat \X Nat) : Registers /\ Emitted(B) /\ Decodes(B)
    BY <1>2, <1>6, Zenon DEF RInv, DecodeInv
  <2>2. input \in Seq(Byte)
    BY <1>5, TokensAre, Zenon DEF RInv
  <2>3. Reading(B)
    BY <1>2, <1>3, <1>4, <1>5, <1>6, <2>1, <2>2 DEF Reading, EmitInv
  <2> QED  BY <2>1, <2>3, DecoderFollows, Zenon
<1>7. DecodeInv'
  BY <1>3, <1>5, <1>6, Zenon DEF DecodeInv
<1>8. emitting' # "emitting" /\ parsing' # "searching"
  BY <1>2, <1>3, <1>5
<1>9. EmitInv'
  BY <1>3, <1>4, <1>5, <1>8 DEF EmitInv
<1> QED  BY <1>1, <1>7, <1>9, Zenon DEF RInv

\* A layout stays what it is while the input and the stream do.
LEMMA LayoutStays ==
    ASSUME UNCHANGED <<input, stream>>, NEW B
    PROVE  /\ \A q, z, b : ExtensionAt(q, z, b)' <=> ExtensionAt(q, z, b)
           /\ \A q, p, n : LiteralsAt(B, q, p, n)' <=> LiteralsAt(B, q, p, n)
           /\ \A q, p : RunAt(B, q, p)' <=> RunAt(B, q, p)
           /\ \A q, p, i : FollowsAt(B, q, p, i)' <=> FollowsAt(B, q, p, i)
           /\ \A q, p, n, d, i : RepeatsAt(B, q, p, n, d, i)' <=> RepeatsAt(B, q, p, n, d, i)
           /\ \A q, p, n, name, base :
                 OperandAt(B, q, p, n, name, base)' <=> OperandAt(B, q, p, n, name, base)
           /\ \A q, p : MatchAt(B, q, p)' <=> MatchAt(B, q, p)
           /\ \A q, p : EndAt(q, p)' <=> EndAt(q, p)
           /\ OpeningAt(B)' <=> OpeningAt(B)
<1>0. input' = input /\ stream' = stream
  OBVIOUS
<1>1. \A q, z, b : ExtensionAt(q, z, b)' <=> ExtensionAt(q, z, b)
  BY <1>0, Zenon DEF ExtensionAt
<1>2. \A q, p, n : LiteralsAt(B, q, p, n)' <=> LiteralsAt(B, q, p, n)
  BY <1>0, Zenon DEF LiteralsAt
<1>3. \A q, p, z, b : LongRunIs(B, q, p, z, b)' <=> LongRunIs(B, q, p, z, b)
  BY <1>1, <1>2, Zenon DEF LongRunIs, Worth
<1>4. \A q, p : RunAt(B, q, p)' <=> RunAt(B, q, p)
  BY <1>0, <1>2, <1>3, Zenon DEF RunAt
<1>5. \A q, p, i : FollowsAt(B, q, p, i)' <=> FollowsAt(B, q, p, i)
  BY <1>2, <1>4, Zenon DEF FollowsAt
<1>6. \A q, p, n, d, i : RepeatsAt(B, q, p, n, d, i)' <=> RepeatsAt(B, q, p, n, d, i)
  BY <1>0, <1>5, Zenon DEF RepeatsAt
<1>7. \A q, p, n, name, base, bits, i :
         OperandIs(B, q, p, n, name, base, bits, i)' <=> OperandIs(B, q, p, n, name, base, bits, i)
  BY <1>0, <1>6 DEF OperandIs
<1>8. \A q, p, n, name, base :
         OperandAt(B, q, p, n, name, base)' <=> OperandAt(B, q, p, n, name, base)
  BY <1>0, <1>7, Zenon DEF OperandAt
<1>9. \A q, p, name, size, base, z, b :
         ExtendedIs(B, q, p, name, size, base, z, b)' <=> ExtendedIs(B, q, p, name, size, base, z, b)
  BY <1>1, <1>8 DEF ExtendedIs, Worth
<1>10. \A q, p, c, name, size, base :
          BucketAt(B, q, p, c, name, size, base)' <=> BucketAt(B, q, p, c, name, size, base)
  BY <1>0, <1>8, <1>9 DEF BucketAt
<1>11. \A q, p : MatchAt(B, q, p)' <=> MatchAt(B, q, p)
  BY <1>0, <1>10, Zenon DEF MatchAt, HighPart
<1>12. \A q, p : EndAt(q, p)' <=> EndAt(q, p)
  BY <1>0, Zenon DEF EndAt
<1>13. OpeningAt(B)' <=> OpeningAt(B)
  BY <1>0, <1>2, <1>4, <1>12, Zenon DEF OpeningAt
<1> QED  BY <1>1, <1>2, <1>4, <1>5, <1>6, <1>8, <1>11, <1>12, <1>13, Zenon

LEMMA RStutters == RInv /\ UNCHANGED vars => RInv'
<1> SUFFICES ASSUME RInv, UNCHANGED vars PROVE RInv'
  OBVIOUS
<1>1. CInv'
  BY OthersKeep, Zenon DEF RInv
<1>2. UNCHANGED <<input, tokens, parsing, index, stream, emitting, max_out, ip, out, state, pc,
                  arm, len, dist, copied>>
  BY DEF vars, parseVars, emitVars, decodeVars
<1>3. /\ input' = input /\ tokens' = tokens /\ parsing' = parsing /\ index' = index
      /\ stream' = stream /\ emitting' = emitting /\ max_out' = max_out /\ ip' = ip
      /\ out' = out /\ state' = state /\ pc' = pc /\ arm' = arm /\ len' = len
      /\ dist' = dist /\ copied' = copied
  BY <1>2
<1>4. ASSUME NEW B, Emits(B) PROVE Emits(B)'
  BY <1>3, <1>4, LayoutStays, Zenon DEF Emits, Frontier, EndOf, Boundaries
<1>5. ASSUME NEW B, Emitted(B) PROVE Emitted(B)'
  BY <1>3, <1>5, LayoutStays, Zenon DEF Emitted, Boundaries
<1>6. ASSUME NEW B, Decodes(B) PROVE Decodes(B)'
  <2>1. /\ \A q, z, b : ExtensionAt(q, z, b)' <=> ExtensionAt(q, z, b)
        /\ \A q, p, n : LiteralsAt(B, q, p, n)' <=> LiteralsAt(B, q, p, n)
        /\ \A q, p : RunAt(B, q, p)' <=> RunAt(B, q, p)
        /\ \A q, p, i : FollowsAt(B, q, p, i)' <=> FollowsAt(B, q, p, i)
        /\ \A q, p, n, d, i : RepeatsAt(B, q, p, n, d, i)' <=> RepeatsAt(B, q, p, n, d, i)
        /\ \A q, p, n, name, base :
              OperandAt(B, q, p, n, name, base)' <=> OperandAt(B, q, p, n, name, base)
    BY <1>3, LayoutStays, Zenon
  <2>2. /\ \A z, b, n : Complete(z, b, n)' = Complete(z, b, n)
        /\ Len(out') = Len(out) /\ Len(stream') = Len(stream) /\ Len(input') = Len(input)
    BY <1>3, Zenon DEF Complete, Worth
  <2> DEFINE p == Len(out)
  <2>3. CASE pc = "bootstrap" /\ ip = 0 /\ p = 0
    BY <1>3, <2>2, <2>3, Zenon DEF Decodes
  <2>4. CASE pc = "command" /\ <<ip, p>> \in B
    BY <1>3, <2>2, <2>4, Zenon DEF Decodes
  <2>5. CASE pc = "command" /\ state = 0 /\ RunAt(B, ip, p)
    BY <1>3, <2>1, <2>2, <2>5, Zenon DEF Decodes
  <2>6. CASE /\ pc = "extend" /\ arm = "literals"
             /\ \E z \in 0 .. Len(stream), b \in Byte :
                   ExtensionAt(ip, z, b) /\ LiteralsAt(B, ip + z + 1, p, Complete(z, b, 3))
    BY <1>3, <2>1, <2>2, <2>6, Zenon DEF Decodes
  <2>7. CASE pc = "literals" /\ LiteralsAt(B, ip, p, len)
    BY <1>3, <2>1, <2>2, <2>7, Zenon DEF Decodes
  <2>8. CASE /\ pc = "extend" /\ arm \in {"C", "D"}
             /\ \E z \in 0 .. Len(stream), b \in Byte :
                   /\ ExtensionAt(ip, z, b)
                   /\ Complete(z, b, 2) <= MAX_EXTENDED_LENGTH
                   /\ OperandAt(B, ip + z + 1, p, Complete(z, b, 2), arm, dist)
    BY <1>3, <2>1, <2>2, <2>8, Zenon DEF Decodes
  <2>9. CASE pc = "operand" /\ arm \in {"C", "D"} /\ OperandAt(B, ip, p, len, arm, dist)
    BY <1>3, <2>1, <2>2, <2>9, Zenon DEF Decodes
  <2>10. CASE /\ pc = "operand" /\ arm = "D" /\ dist = LONG_MATCH_DISTANCE_BASE
              /\ ip + 2 = Len(stream) /\ stream[ip + 1] = 0 /\ stream[ip + 2] = 0
              /\ p = Len(input)
    BY <1>3, <2>2, <2>10, Zenon DEF Decodes
  <2>11. CASE pc = "match" /\ RepeatsAt(B, ip, p, len, dist, state)
    BY <1>3, <2>1, <2>2, <2>11, Zenon DEF Decodes
  <2>12. CASE /\ pc = "copy" /\ copied \in Nat /\ copied < len /\ copied <= p
              /\ p - copied + len <= max_out
              /\ RepeatsAt(B, ip, p - copied, len, dist, state)
    BY <1>3, <2>1, <2>2, <2>12, Zenon DEF Decodes
  <2>13. CASE pc = "trailing" /\ FollowsAt(B, ip, p, state)
    BY <1>3, <2>1, <2>2, <2>13, Zenon DEF Decodes
  <2>14. CASE pc = "ok" /\ ip = Len(stream) /\ p = Len(input)
    BY <1>3, <2>2, <2>14, Zenon DEF Decodes
  <2>15. CASE pc = "err" /\ max_out < Len(input)
    BY <1>3, <2>2, <2>15, Zenon DEF Decodes
  <2> QED
    BY <1>6, <2>3, <2>4, <2>5, <2>6, <2>7, <2>8, <2>9, <2>10, <2>11, <2>12, <2>13, <2>14, <2>15,
       Zenon DEF Decodes
<1>7. Registers => Registers'
  BY <1>3, Zenon DEF Registers, OutIsPrefix
<1>8. RunsFit' <=> RunsFit
  BY <1>3, Zenon DEF RunsFit
<1>9. EmitInv'
  BY <1>3, <1>4, <1>8, Zenon DEF RInv, EmitInv, DecoderWaits
<1>10. DecodeInv'
  BY <1>3, <1>5, <1>6, <1>7, <1>8, Zenon DEF RInv, DecodeInv
<1> QED  BY <1>1, <1>9, <1>10, Zenon DEF RInv

\* What the decoder has written is a prefix of the input, what remains of the
\* stream spells the rest, and before that emit() lays the stream out.
THEOREM RoundTripInvariant == Spec => []RInv
<1>1. RInv /\ [Next]_vars => RInv'
  BY RParsing, REmitting, RDecoding, RStutters, Zenon DEF Next
<1> QED  BY RInitially, <1>1, PTL DEF Spec

\* compress() then decompress() gives the input back, to the last byte of the
\* stream, under every bound that leaves room for it and under no other, if no
\* literal run is longer than the cap of the decoder (compress.rs:123-124,
\* lib.rs:190-203).  The inputs may be of any length; the condition is needed,
\* since the code writes longer runs too (compress.rs:286).
THEOREM CompressedReadsBack == Spec => [](RunsFit => RoundTrip)
<1>1. RInv => (RunsFit => RoundTrip)
  <2> SUFFICES ASSUME RInv, RunsFit, Decoded
               PROVE  IF max_out >= Len(input)
                      THEN pc = "ok" /\ out = input /\ ip = Len(stream)
                      ELSE pc = "err"
    BY DEF RoundTrip
  <2>1. pc \in {"ok", "err"} /\ emitting # "emitting"
    BY DEF Decoded, RInv, EmitInv, DecoderWaits
  <2>2. emitting = "emitted"
    BY <2>1 DEF RInv, EmitInv
  <2>3. /\ out \in Seq(Byte) /\ input \in Seq(Byte) /\ max_out \in Nat
        /\ Len(out) \in Nat /\ Len(input) \in Nat /\ Len(out) <= max_out
        /\ \A k \in 1 .. Len(out) : out[k] = input[k]
    <3>1. parsing = "parsed" /\ OutIsPrefix /\ max_out \in Nat /\ CInv
      BY <2>2, Zenon DEF RInv, DecodeInv, Registers, EmitInv
    <3>2. input \in Seq(Byte)
      BY <3>1, TokensAre, Zenon
    <3> QED  BY <3>1, <3>2, LenProperties DEF OutIsPrefix
  <2>4. PICK B : Decodes(B)
    BY <2>2, Zenon DEF RInv, DecodeInv
  <2>5. CASE pc = "ok"
    <3>1. ip = Len(stream) /\ Len(out) = Len(input)
      BY <2>4, <2>5 DEF Decodes
    <3>2. out = input
      BY <2>3, <3>1, SeqEqual
    <3> QED  BY <2>3, <2>5, <3>1, <3>2
  <2>6. CASE pc = "err"
    <3>1. max_out < Len(input)
      BY <2>4, <2>6 DEF Decodes
    <3> QED  BY <2>3, <2>6, <3>1
  <2> QED  BY <2>1, <2>5, <2>6
<1> QED  BY <1>1, RoundTripInvariant, PTL

\* A wrong length or distance would show at the first byte it spoils: what is
\* written is a prefix of the input in every state of the decoder
\* (lib.rs:186-188), under the same condition.
THEOREM DecodedIsAPrefix == Spec => [](RunsFit => DecodesAPrefix)
<1>1. RInv => (RunsFit => DecodesAPrefix)
  <2> SUFFICES ASSUME RInv, RunsFit, emitting = "emitted"
               PROVE  Len(out) <= Len(input) /\ out = SubSeq(input, 1, Len(out))
    BY DEF DecodesAPrefix
  <2>1. parsing = "parsed" /\ OutIsPrefix /\ CInv
    BY Zenon DEF RInv, DecodeInv, Registers
  <2>2. input \in Seq(Byte) /\ Len(input) \in Nat
    BY <2>1, TokensAre, Zenon
  <2>3. /\ out \in Seq(Byte) /\ Len(out) \in Nat /\ Len(out) <= Len(input)
        /\ \A k \in 1 .. Len(out) : out[k] = input[k]
    BY <2>1, LenProperties DEF OutIsPrefix
  <2>4. PICK n \in Nat : n = Len(out)
    BY <2>3
  <2>5. 0 \in Nat /\ 0 + n <= Len(input) /\ 0 + 1 = 1 /\ 0 + n = n
        /\ \A k \in 1 .. n : 0 + k = k
    BY <2>3, <2>4
  <2>6. /\ SubSeq(input, 0 + 1, 0 + n) \in Seq(Byte) /\ Len(SubSeq(input, 0 + 1, 0 + n)) = n
        /\ \A k \in 1 .. n : SubSeq(input, 0 + 1, 0 + n)[k] = input[0 + k]
    BY <2>2, <2>4, <2>5, Slice
  <2>7. /\ SubSeq(input, 1, n) \in Seq(Byte) /\ Len(SubSeq(input, 1, n)) = n
        /\ \A k \in 1 .. n : SubSeq(input, 1, n)[k] = input[k]
    BY <2>5, <2>6, Zenon
  <2>8. out = SubSeq(input, 1, n)
    BY <2>3, <2>4, <2>7, SeqEqual
  <2> QED  BY <2>3, <2>4, <2>8
<1> QED  BY <1>1, RoundTripInvariant, PTL
=============================================================================
