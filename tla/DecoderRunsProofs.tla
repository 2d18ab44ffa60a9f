------------------------- MODULE DecoderRunsProofs -------------------------
(* What lib.rs promises of two calls on related streams, for all streams.    *)
(* decompress() is deterministic and looks only at what it consumes: where a *)
(* call goes next is a function of the configuration it is in and of a few   *)
(* bytes after its cursor.  So a call that returned left a trail of          *)
(* configurations, and a second call follows it until it is refused or its   *)
(* stream differs.                                                           *)
EXTENDS DecoderRuns, DecoderProofs

Config(i, o, s, p, a, l, d, c) ==
    [ip |-> i, out |-> o, state |-> s, pc |-> p, arm |-> a, len |-> l, dist |-> d, copied |-> c]

here == Config(ip, out, state, pc, arm, len, dist, copied)

Start == Config(0, <<>>, 0, "bootstrap", "none", 0, 0, 0)

\* The configuration c after n literals that lie behind `skip` bytes.
Taken(i, c, skip, n, s) ==
    Config(c.ip + skip + n, c.out \o SubSeq(i, c.ip + skip + 1, c.ip + skip + n), s,
           "command", c.arm, c.len, c.dist, c.copied)

AfterBootstrap(i, c) ==
    IF i[c.ip + 1] >= 18
    THEN Taken(i, c, 1, i[c.ip + 1] - 17, LeadingState(i[c.ip + 1] - 17))
    ELSE Config(c.ip, c.out, 0, "command", c.arm, c.len, c.dist, c.copied)

AfterShort(c, t, u) ==
    Config(c.ip + 2, c.out, t % 4, "match", "short",
           IF t >= 128 THEN 5 + ((t \div 32) % 4) ELSE 3 + ((t \div 32) % 2),
           8 * u + ((t \div 4) % 8) + 1, c.copied)

AfterLong(c, t, name, bits, base) ==
    Config(c.ip + 1, c.out, c.state,
           IF t % bits = 0 THEN "extend" ELSE "operand", name,
           IF t % bits = 0 THEN bits - 1 ELSE (t % bits) + 2, base, c.copied)

AfterLiteralRun(c, t) ==
    Config(c.ip + 1, c.out, c.state, IF t = 0 THEN "extend" ELSE "literals", "literals",
           IF t = 0 THEN 15 ELSE t + 3, c.dist, c.copied)

AfterTiny(c, t, u) ==
    Config(c.ip + 2, c.out, t % 4, "match", "tiny",
           IF c.state = LONG_LITERAL_RUN_STATE THEN 3 ELSE 2,
           (4 * u + ((t \div 4) % 4)) +
              (IF c.state = LONG_LITERAL_RUN_STATE THEN POST_LITERAL_MATCH_DISTANCE_BASE ELSE 1),
           c.copied)

AfterCommand(c, t, u) ==
    IF t >= 64 THEN AfterShort(c, t, u)
    ELSE IF t >= 32 THEN AfterLong(c, t, "C", 32, 1)
    ELSE IF t >= 16 THEN AfterLong(c, t, "D", 8, LONG_MATCH_DISTANCE_BASE
                                                   + ((t \div 8) % 2) * DISTANCE_FIELD)
    ELSE IF c.state = 0 THEN AfterLiteralRun(c, t)
    ELSE AfterTiny(c, t, u)

AfterExtend(c, t) ==
    IF t = 0
    THEN Config(c.ip + 1, c.out, c.state, "extend", c.arm, c.len + ZERO_RUN_INCREMENT,
                c.dist, c.copied)
    ELSE IF c.arm = "literals"
    THEN Config(c.ip + 1, c.out, c.state, "literals", c.arm, c.len + t + 3, c.dist, c.copied)
    ELSE Config(c.ip + 1, c.out, c.state, "operand", c.arm, c.len + t + 2, c.dist, c.copied)

AfterOperand(c, op) ==
    IF c.arm = "D" /\ op \div 4 = 0 /\ c.dist = LONG_MATCH_DISTANCE_BASE
    THEN Config(c.ip + 2, c.out, c.state, "ok", c.arm, c.len, c.dist, c.copied)
    ELSE Config(c.ip + 2, c.out, op % 4, "match", c.arm, c.len, c.dist + (op \div 4), c.copied)

AfterCopyMatch(c) == Config(c.ip, c.out, c.state, "copy", c.arm, c.len, c.dist, c.copied)

AfterCopyByte(c) ==
    LET o == Append(c.out, c.out[Len(c.out) + 1 - c.dist])
    IN  IF c.copied + 1 < c.len
        THEN Config(c.ip, o, c.state, "copy", c.arm, c.len, c.dist, c.copied + 1)
        ELSE Config(c.ip, o, c.state, "trailing", c.arm, c.len, c.dist, 0)

\* Where a call on the stream i that is at c goes, unless it is refused.
After(i, c) ==
    CASE c.pc = "bootstrap" -> AfterBootstrap(i, c)
      [] c.pc = "command"   -> AfterCommand(c, i[c.ip + 1], i[c.ip + 2])
      [] c.pc = "extend"    -> AfterExtend(c, i[c.ip + 1])
      [] c.pc = "literals"  -> Taken(i, c, 0, c.len, LONG_LITERAL_RUN_STATE)
      [] c.pc = "operand"   -> AfterOperand(c, i[c.ip + 1] + 256 * i[c.ip + 2])
      [] c.pc = "match"     -> AfterCopyMatch(c)
      [] c.pc = "copy"      -> AfterCopyByte(c)
      [] c.pc = "trailing"  -> Taken(i, c, 0, c.state, c.state)
-----------------------------------------------------------------------------
\* What a call that was not refused at c found there: a match had its source
\* and its room, of which `reach` bytes were filled in the end, and a length
\* kept below the cap.
Passed(i, c, reach) ==
    /\ c.pc \notin Verdicts
    /\ c.pc = "match" => c.dist # 0 /\ c.dist <= Len(c.out) /\ Len(c.out) + c.len <= reach
    /\ c.pc = "extend" /\ i[c.ip + 1] = 0 => c.len + ZERO_RUN_INCREMENT <= MAX_EXTENDED_LENGTH

\* The configurations of a call on i up to `last`: each leads to another of
\* them, and what has been read and written only grows.
Trail(T, i, last, reach) ==
    /\ Start \in T /\ last \in T
    /\ \A c \in T :
          /\ c.ip \in Nat /\ Len(c.out) \in Nat /\ c.len \in Nat
          /\ c.ip <= last.ip /\ Len(c.out) <= Len(last.out)
          /\ \/ c = last
             \/ /\ Passed(i, c, reach) /\ After(i, c) \in T
                /\ last.pc = "ok" => c.ip + 2 <= last.ip

\* The bytes that the call will have written once the copy under way is done.
Promised == Len(out) + (IF pc = "copy" THEN len - copied ELSE 0)

FirstTrail(T) == Trail(T, input, here, Promised)

\* The second stream repeats what the first call consumed, as far as it goes.
Agree == \A k \in 1 .. first.consumed : k <= Len(input) => input[k] = first.input[k]

SecondTrail(T, last) ==
    /\ Trail(T, first.input, last, Len(first.out))
    /\ last.pc = "ok" /\ last.ip = first.consumed /\ last.out = first.out
    /\ Agree => here \in T \/ pc = "err"
    /\ SameStream /\ max_out >= Len(first.out) => pc # "err"

RunsInv ==
    /\ IInv
    /\ \/ first = NoCall /\ (pc = "err" \/ \E T : FirstTrail(T))
       \/ first.verdict = "err"
       \/ first.verdict = "ok" /\ \E T, last : SecondTrail(T, last)
-----------------------------------------------------------------------------
LEMMA ByteIsNat == \A b \in Byte : b \in Nat
BY DEF Byte

LEMMA Here ==
    /\ here.ip = ip /\ here.out = out /\ here.state = state /\ here.pc = pc
    /\ here.arm = arm /\ here.len = len /\ here.dist = dist /\ here.copied = copied
BY DEF here, Config

LEMMA TakenIp ==
    ASSUME NEW i, NEW skip, NEW n, NEW s
    PROVE  Taken(i, here, skip, n, s).ip = ip + skip + n
BY Here DEF Taken, Config

LEMMA HereNext == here' = Config(ip', out', state', pc', arm', len', dist', copied')
BY DEF here

\* i has the bytes of the input wherever a step from here to the cursor `to`
\* looks, as far as the input goes.
ReadsSame(i, to) ==
    /\ \A k \in Nat : ip < k /\ k <= ip + 2 /\ k <= Len(input) => i[k] = input[k]
    /\ \A k \in Nat : ip < k /\ k <= to /\ k <= Len(input) => i[k] = input[k]

LEMMA ByteRead ==
    ASSUME TypeOK, NEW i, NEW to, ReadsSame(i, to), NEW k \in {1, 2}, Has(k)
    PROVE  i[ip + k] = At(k) /\ At(k) \in Byte
<1>1. ip \in Nat /\ k \in Nat \ {0} /\ Len(input) \in Nat
  BY LenProperties DEF TypeOK
<1>2. ip + k \in Nat /\ ip < ip + k /\ ip + k <= ip + 2 /\ ip + k <= Len(input)
  BY <1>1 DEF Has
<1>3. i[ip + k] = input[ip + k]
  BY <1>2 DEF ReadsSame
<1> QED  BY <1>1, <1>3, NextByte DEF At

LEMMA SameLiterals ==
    ASSUME TypeOK, NEW i, NEW skip \in Nat, NEW n \in Nat,
           Has(skip + n), ReadsSame(i, ip + skip + n)
    PROVE  SubSeq(input, ip + skip + 1, ip + skip + n) = SubSeq(i, ip + skip + 1, ip + skip + n)
<1>1. ip \in Nat /\ Len(input) \in Nat /\ ip + skip + n <= Len(input) /\ input \in Seq(Byte)
  BY LenProperties DEF TypeOK, Has
<1> DEFINE a == ip + skip + 1
           b == ip + skip + n
<1>2. \A k \in a .. b : input[k] \in Byte /\ i[k] = input[k]
  <2> SUFFICES ASSUME NEW k \in a .. b PROVE input[k] \in Byte /\ i[k] = input[k]
    OBVIOUS
  <2>1. k \in 1 .. Len(input) /\ k \in Nat /\ ip < k /\ k <= b /\ k <= Len(input)
    BY <1>1
  <2> QED  BY <1>1, <2>1, ElementOfSeq DEF ReadsSame
<1>3. a \in Int /\ b \in Int
  BY <1>1
<1> DEFINE s == SubSeq(input, a, b)
           t == SubSeq(i, a, b)
<1>4. /\ s \in Seq(Byte) /\ Len(s) = (IF a <= b THEN b - a + 1 ELSE 0)
      /\ \A k \in 1 .. b - a + 1 : s[k] = input[a + k - 1]
  BY <1>2, <1>3, SubSeqProperties
<1>5. /\ t \in Seq(Byte) /\ Len(t) = (IF a <= b THEN b - a + 1 ELSE 0)
      /\ \A k \in 1 .. b - a + 1 : t[k] = i[a + k - 1]
  <2>1. \A k \in a .. b : i[k] \in Byte
    BY <1>2
  <2> QED  BY <1>3, <2>1, SubSeqProperties
<1>6. \A k \in 1 .. Len(s) : s[k] = t[k]
  <2> SUFFICES ASSUME NEW k \in 1 .. Len(s) PROVE s[k] = t[k]
    OBVIOUS
  <2> HIDE DEF s, t, a, b
  <2>1. k \in 1 .. b - a + 1 /\ a + k - 1 \in a .. b
    BY <1>3, <1>4
  <2> QED  BY <1>2, <1>4, <1>5, <2>1
<1>7. s = t
  <2> HIDE DEF s, t, a, b
  <2> QED  BY <1>4, <1>5, <1>6, SeqEqual
<1> QED  BY <1>7
-----------------------------------------------------------------------------
(* Every step that is not a refusal goes where After says, for any stream    *)
(* that has the same bytes where the step looks.                             *)

LEMMA LiteralsGo ==
    ASSUME TypeOK, NEW i, NEW skip \in Nat, NEW n \in Nat,
           CanCopyLiterals(skip, n), CopyLiterals(skip, n), ReadsSame(i, ip + skip + n),
           pc' = "command", UNCHANGED <<arm, len, dist, copied>>
    PROVE  here' = Taken(i, here, skip, n, state')
<1>1. out' = out \o SubSeq(i, ip + skip + 1, ip + skip + n) /\ ip' = ip + skip + n
  BY SameLiterals DEF CanCopyLiterals, CopyLiterals
<1> QED  BY <1>1, Here, HereNext, Zenon DEF Taken

LEMMA BootstrapGoes ==
    ASSUME IInv, NEW i, Bootstrap, ReadsSame(i, After(i, here).ip)
    PROVE  here' = After(i, here)
<1> DEFINE t == At(1)
<1>1. pc = "bootstrap" /\ TypeOK /\ Has(1) /\ pc' = "command" /\ UNCHANGED <<arm, len, dist, copied>>
  BY DEF Bootstrap, IInv
<1>2. i[ip + 1] = t /\ t \in Byte
  BY <1>1, ByteRead
<1>3. After(i, here) = AfterBootstrap(i, here)
  BY <1>1, Here DEF After
<1>4. CASE t >= 18
  <2>1. t - 17 \in Nat /\ ~(t < 18)
    BY <1>2, <1>4 DEF Byte
  <2>2. /\ CanCopyLiterals(1, t - 17) /\ CopyLiterals(1, t - 17)
        /\ state' = LeadingState(t - 17)
    BY <2>1 DEF Bootstrap
  <2>3. After(i, here) = Taken(i, here, 1, t - 17, LeadingState(t - 17))
    BY <1>2, <1>3, <1>4, Here, Zenon DEF AfterBootstrap
  <2>4. After(i, here).ip = ip + 1 + (t - 17)
    BY <2>3, TakenIp
  <2>5. PICK n \in Nat : n = t - 17
    BY <2>1
  <2>6. /\ CanCopyLiterals(1, n) /\ CopyLiterals(1, n) /\ state' = LeadingState(n)
        /\ ReadsSame(i, ip + 1 + n) /\ After(i, here) = Taken(i, here, 1, n, LeadingState(n))
    BY <2>2, <2>3, <2>4, <2>5, Zenon
  <2>7. here' = Taken(i, here, 1, n, state')
    BY <1>1, <2>6, LiteralsGo
  <2> QED  BY <2>6, <2>7
<1>5. CASE ~(t >= 18)
  <2>1. state' = 0 /\ ip' = ip /\ out' = out
    BY <1>5 DEF Bootstrap
  <2>2. After(i, here) = Config(ip, out, 0, "command", arm, len, dist, copied)
    BY <1>2, <1>3, <1>5, Here, Zenon DEF AfterBootstrap
  <2> QED  BY <1>1, <2>1, <2>2, HereNext, Zenon
<1> QED  BY <1>4, <1>5

LEMMA CommandGoes ==
    ASSUME IInv, NEW i, ReadsSame(i, After(i, here).ip),
           ShortMatch \/ MatchC \/ MatchD \/ LiteralRun \/ TinyMatch
    PROVE  here' = After(i, here)
<1> DEFINE t == At(1)
           u == i[ip + 2]
<1>1. pc = "command" /\ TypeOK /\ Has(1)
  <2>1. pc = "command" /\ TypeOK /\ (Has(1) \/ Has(2))
    BY DEF ShortMatch, MatchC, MatchD, LiteralRun, TinyMatch, IInv
  <2>2. ip \in Nat /\ Len(input) \in Nat
    BY <2>1, LenProperties DEF TypeOK
  <2> QED  BY <2>1, <2>2 DEF Has
<1>2. i[ip + 1] = t /\ t \in Byte
  BY <1>1, ByteRead
<1>3. After(i, here) = AfterCommand(here, t, u)
  BY <1>1, <1>2, Here DEF After
<1>4. t \in Nat
  BY <1>2 DEF Byte
<1>5. CASE ShortMatch
  <2>1. t >= 64 /\ Has(2)
    BY <1>5 DEF ShortMatch
  <2>2. u = At(2)
    BY <1>1, <2>1, ByteRead
  <2>3. After(i, here) = AfterShort(here, t, u)
    BY <1>3, <2>1, Zenon DEF AfterCommand
  <2> HIDE DEF t, u
  <2>4. /\ len' = IF t >= 128 THEN 5 + ((t \div 32) % 4) ELSE 3 + ((t \div 32) % 2)
        /\ dist' = 8 * u + ((t \div 4) % 8) + 1 /\ state' = t % 4
        /\ ip' = ip + 2 /\ pc' = "match" /\ arm' = "short" /\ out' = out /\ copied' = copied
    BY <1>5, <2>2, Zenon DEF ShortMatch, t
  <2> QED  BY <2>3, <2>4, Here, HereNext, Zenon DEF AfterShort
<1>6. ASSUME NEW name, NEW bits \in {8, 32}, NEW base, LongMatch(name, bits, base)
      PROVE  here' = AfterLong(here, t, name, bits, base)
  <2>1. ip' = ip + 1 /\ dist' = base /\ arm' = name /\ UNCHANGED <<out, state, copied>>
    BY <1>6 DEF LongMatch
  <2>2. CASE t % bits = 0
    <3>1. len' = bits - 1 /\ pc' = "extend"
      BY <1>6, <2>2 DEF LongMatch
    <3> HIDE DEF t
    <3>2. AfterLong(here, t, name, bits, base)
            = Config(ip + 1, out, state, "extend", name, bits - 1, base, copied)
      BY <2>2, Here, Zenon DEF AfterLong
    <3> QED  BY <2>1, <3>1, <3>2, HereNext, Zenon
  <2>3. CASE t % bits # 0
    <3>1. len' = (t % bits) + 2 /\ pc' = "operand"
      BY <1>6, <2>3 DEF LongMatch
    <3> HIDE DEF t
    <3>2. AfterLong(here, t, name, bits, base)
            = Config(ip + 1, out, state, "operand", name, (t % bits) + 2, base, copied)
      BY <2>3, Here, Zenon DEF AfterLong
    <3> QED  BY <2>1, <3>1, <3>2, HereNext, Zenon
  <2> QED  BY <2>2, <2>3
<1>7. CASE MatchC
  <2>1. ~(t >= 64) /\ t >= 32
    BY <1>7 DEF MatchC
  <2>2. After(i, here) = AfterLong(here, t, "C", 32, 1)
    BY <1>3, <2>1, Zenon DEF AfterCommand
  <2> QED  BY <1>6, <1>7, <2>2 DEF MatchC
<1>8. CASE MatchD
  <2> DEFINE base == LONG_MATCH_DISTANCE_BASE + ((t \div 8) % 2) * DISTANCE_FIELD
  <2>1. ~(t >= 64) /\ ~(t >= 32) /\ t >= 16
    BY <1>8 DEF MatchD
  <2>2. After(i, here) = AfterLong(here, t, "D", 8, base)
    BY <1>3, <2>1, Zenon DEF AfterCommand
  <2>3. LongMatch("D", 8, base)
    BY <1>8, Zenon DEF MatchD
  <2> HIDE DEF base
  <2> QED  BY <1>6, <2>2, <2>3
<1>9. CASE LiteralRun
  <2>1. ~(t >= 64) /\ ~(t >= 32) /\ ~(t >= 16) /\ state = 0
    BY <1>4, <1>9 DEF LiteralRun
  <2>2. After(i, here) = AfterLiteralRun(here, t)
    BY <1>3, <2>1, Here, Zenon DEF AfterCommand
  <2>3. /\ pc' = (IF t = 0 THEN "extend" ELSE "literals")
        /\ len' = (IF t = 0 THEN 15 ELSE t + 3)
        /\ arm' = "literals" /\ ip' = ip + 1 /\ UNCHANGED <<out, state, dist, copied>>
    BY <1>9 DEF LiteralRun
  <2> HIDE DEF t
  <2> QED  BY <2>2, <2>3, Here, HereNext, Zenon DEF AfterLiteralRun
<1>10. CASE TinyMatch
  <2>1. ~(t >= 64) /\ ~(t >= 32) /\ ~(t >= 16) /\ ~(state = 0) /\ Has(2)
    BY <1>4, <1>10 DEF TinyMatch
  <2>2. After(i, here) = AfterTiny(here, t, u)
    BY <1>3, <2>1, Here, Zenon DEF AfterCommand
  <2>3. u = At(2)
    BY <1>1, <2>1, ByteRead
  <2> DEFINE near == 4 * u + ((t \div 4) % 4)
  <2>4. /\ len' = (IF state = LONG_LITERAL_RUN_STATE THEN 3 ELSE 2)
        /\ dist' = near + (IF state = LONG_LITERAL_RUN_STATE
                           THEN POST_LITERAL_MATCH_DISTANCE_BASE ELSE 1)
        /\ state' = t % 4 /\ ip' = ip + 2 /\ pc' = "match" /\ arm' = "tiny"
        /\ UNCHANGED <<out, copied>>
    BY <1>10, <2>3 DEF TinyMatch
  <2> HIDE DEF t, u
  <2> QED  BY <2>2, <2>4, Here, HereNext, Zenon DEF AfterTiny
<1> QED  BY <1>5, <1>7, <1>8, <1>9, <1>10

LEMMA OperandGoes ==
    ASSUME IInv, NEW i, ReadsSame(i, After(i, here).ip), ExtendZero \/ ExtendLast \/ Operand
    PROVE  here' = After(i, here)
<1>1. CASE ExtendZero
  <2>1. pc = "extend" /\ TypeOK /\ Has(1) /\ At(1) = 0
    BY <1>1 DEF ExtendZero, IInv
  <2>2. i[ip + 1] = 0
    BY <2>1, ByteRead
  <2>3. After(i, here) = AfterExtend(here, 0)
    BY <2>1, <2>2, Here DEF After
  <2>4. /\ ip' = ip + 1 /\ len' = len + ZERO_RUN_INCREMENT /\ pc' = "extend"
        /\ UNCHANGED <<out, state, arm, dist, copied>>
    BY <1>1, <2>1 DEF ExtendZero
  <2> QED  BY <2>3, <2>4, Here, HereNext, Zenon DEF AfterExtend
<1>2. CASE ExtendLast
  <2> DEFINE t == At(1)
  <2>1. pc = "extend" /\ TypeOK /\ Has(1) /\ ~(t = 0)
    BY <1>2 DEF ExtendLast, IInv
  <2>2. i[ip + 1] = t
    BY <2>1, ByteRead
  <2>3. After(i, here) = AfterExtend(here, t)
    BY <2>1, <2>2, Here DEF After
  <2>4. ip' = ip + 1 /\ UNCHANGED <<out, state, arm, dist, copied>>
    BY <1>2 DEF ExtendLast
  <2>5. CASE arm = "literals"
    <3>1. len' = len + t + 3 /\ pc' = "literals"
      BY <1>2, <2>5 DEF ExtendLast
    <3> HIDE DEF t
    <3> QED  BY <2>1, <2>3, <2>4, <2>5, <3>1, Here, HereNext, Zenon DEF AfterExtend
  <2>6. CASE ~(arm = "literals")
    <3>1. len' = len + t + 2 /\ pc' = "operand"
      BY <1>2, <2>6 DEF ExtendLast
    <3> HIDE DEF t
    <3> QED  BY <2>1, <2>3, <2>4, <2>6, <3>1, Here, HereNext, Zenon DEF AfterExtend
  <2> QED  BY <2>5, <2>6
<1>3. CASE Operand
  <2> DEFINE op == At(1) + 256 * At(2)
             ends == arm = "D" /\ op \div 4 = 0 /\ dist = LONG_MATCH_DISTANCE_BASE
  <2>1. pc = "operand" /\ TypeOK /\ Has(1) /\ Has(2)
    <3>1. pc = "operand" /\ TypeOK /\ Has(2)
      BY <1>3 DEF Operand, IInv
    <3> QED  BY <3>1, LenProperties DEF Has, TypeOK
  <2>2. i[ip + 1] = At(1) /\ i[ip + 2] = At(2)
    BY <2>1, ByteRead
  <2>3. After(i, here) = AfterOperand(here, op)
    BY <2>1, <2>2, Here DEF After
  <2>4. ip' = ip + 2 /\ UNCHANGED <<out, arm, len, copied>>
    BY <1>3 DEF Operand
  <2>5. /\ ends => pc' = "ok" /\ UNCHANGED <<dist, state>>
        /\ ~ends => pc' = "match" /\ dist' = dist + (op \div 4) /\ state' = op % 4
    BY <1>3, Zenon DEF Operand
  <2> HIDE DEF op
  <2> QED  BY <2>3, <2>4, <2>5, Here, HereNext, Zenon DEF AfterOperand
<1> QED  BY <1>1, <1>2, <1>3

LEMMA CopyGoes ==
    ASSUME NEW i, CopyMatch \/ CopyByte
    PROVE  here' = After(i, here)
<1>1. CASE CopyMatch
  <2>1. pc = "match" /\ pc' = "copy" /\ UNCHANGED <<ip, out, state, arm, len, dist, copied>>
    BY <1>1 DEF CopyMatch
  <2>2. After(i, here) = AfterCopyMatch(here)
    BY <2>1, Here DEF After
  <2> QED  BY <2>1, <2>2, Here, HereNext, Zenon DEF AfterCopyMatch
<1>2. CASE CopyByte
  <2>1. /\ pc = "copy" /\ out' = Append(out, out[Len(out) + 1 - dist])
        /\ UNCHANGED <<ip, state, arm, len, dist>>
    BY <1>2 DEF CopyByte
  <2>2. After(i, here) = AfterCopyByte(here)
    BY <2>1, Here DEF After
  <2>3. /\ copied + 1 < len => copied' = copied + 1 /\ pc' = "copy"
        /\ ~(copied + 1 < len) => copied' = 0 /\ pc' = "trailing"
    BY <1>2 DEF CopyByte
  <2> QED  BY <2>1, <2>2, <2>3, Here, HereNext, Zenon DEF AfterCopyByte
<1> QED  BY <1>1, <1>2

LEMMA StepGoes ==
    ASSUME IInv, Next, pc' # "err", NEW i, ReadsSame(i, After(i, here).ip)
    PROVE  here' = After(i, here)
<1>0. TypeOK /\ len \in Nat /\ state \in Nat /\ ip \in Nat
  BY DEF IInv, TypeOK, LONG_LITERAL_RUN_STATE
<1>1. ~Reject
  BY DEF Reject
<1>2. CASE Literals
  <2>1. /\ pc = "literals" /\ pc' = "command" /\ UNCHANGED <<arm, len, dist, copied>>
        /\ CanCopyLiterals(0, len) /\ CopyLiterals(0, len) /\ state' = LONG_LITERAL_RUN_STATE
    BY <1>2 DEF Literals
  <2>2. After(i, here) = Taken(i, here, 0, len, LONG_LITERAL_RUN_STATE)
    BY <2>1, Here DEF After
  <2>3. After(i, here).ip = ip + 0 + len
    BY <2>2, TakenIp
  <2>4. ReadsSame(i, ip + 0 + len)
    BY <2>3, Zenon
  <2> QED  BY <1>0, <2>1, <2>2, <2>4, LiteralsGo
<1>3. CASE Trailing
  <2>1. /\ pc = "trailing" /\ pc' = "command" /\ UNCHANGED <<state, arm, len, dist, copied>>
        /\ CanCopyLiterals(0, state) /\ CopyLiterals(0, state)
    BY <1>3 DEF Trailing
  <2>2. After(i, here) = Taken(i, here, 0, state, state)
    BY <2>1, Here DEF After
  <2>3. After(i, here).ip = ip + 0 + state
    BY <2>2, TakenIp
  <2>4. ReadsSame(i, ip + 0 + state)
    BY <2>3, Zenon
  <2> QED  BY <1>0, <2>1, <2>2, <2>4, LiteralsGo
<1> QED  BY <1>1, <1>2, <1>3, BootstrapGoes, CommandGoes, OperandGoes, CopyGoes, Zenon DEF Next
-----------------------------------------------------------------------------
(* A call that stands where an earlier one passed, with at least its bytes   *)
(* and its room, passes too.                                                 *)

LEMMA TakenOut ==
    ASSUME TypeOK, NEW i, NEW skip \in Nat, NEW n \in Nat, NEW s,
           Has(skip + n), ReadsSame(i, ip + skip + n)
    PROVE  Len(Taken(i, here, skip, n, s).out) = Len(out) + n
<1>1. ip \in Nat /\ Len(input) \in Nat /\ ip + skip + n <= Len(input)
      /\ input \in Seq(Byte) /\ out \in Seq(Byte)
  BY LenProperties DEF TypeOK, Has
<1> DEFINE taken == SubSeq(input, ip + skip + 1, ip + skip + n)
<1>2. \A k \in ip + skip + 1 .. ip + skip + n : input[k] \in Byte
  BY <1>1, ElementOfSeq
<1>3. taken \in Seq(Byte) /\ Len(taken) = n
  BY <1>1, <1>2, SubSeqProperties
<1>4. Len(out \o taken) = Len(out) + n
  <2> HIDE DEF taken
  <2> QED  BY <1>1, <1>3, ConcatProperties
<1>5. taken = SubSeq(i, ip + skip + 1, ip + skip + n)
  BY SameLiterals
<1> HIDE DEF taken
<1>6. Taken(i, here, skip, n, s).out = out \o SubSeq(i, ip + skip + 1, ip + skip + n)
  BY Here DEF Taken, Config
<1> QED  BY <1>4, <1>5, <1>6, Zenon

\* The call has what an earlier call on i, which read `to` bytes and wrote
\* `reach`, had.
Equipped(i, to, reach) ==
    /\ to \in Nat /\ reach \in Nat /\ to <= Len(input) /\ reach <= max_out
    /\ \A k \in 1 .. to : input[k] = i[k]
    /\ ip + 2 <= to

LEMMA EquippedReads ==
    ASSUME TypeOK, NEW i, NEW to, NEW reach, Equipped(i, to, reach), NEW m \in Nat, m <= to
    PROVE  ReadsSame(i, m) /\ Has(1) /\ Has(2)
<1>1. ip \in Nat /\ Len(input) \in Nat
  BY LenProperties DEF TypeOK
<1>2. \A k \in Nat : ip < k /\ k <= to => i[k] = input[k]
  BY <1>1 DEF Equipped
<1> QED  BY <1>1, <1>2 DEF Equipped, ReadsSame, Has

LEMMA RoomForLiterals ==
    ASSUME TypeOK, NEW i, NEW to, NEW reach, Equipped(i, to, reach),
           NEW skip \in Nat, NEW n \in Nat, NEW s,
           Taken(i, here, skip, n, s).ip <= to, Len(Taken(i, here, skip, n, s).out) <= reach
    PROVE  CanCopyLiterals(skip, n)
<1>1. ip \in Nat /\ Len(input) \in Nat /\ Len(out) \in Nat /\ max_out \in Nat
      /\ to \in Nat /\ reach \in Nat /\ to <= Len(input) /\ reach <= max_out
  BY LenProperties DEF TypeOK, Equipped
<1>2. ip + skip + n <= to
  BY TakenIp
<1>3. Has(skip + n) /\ ip + skip + n \in Nat
  BY <1>1, <1>2 DEF Has
<1>4. ReadsSame(i, ip + skip + n)
  BY <1>2, <1>3, EquippedReads
<1>5. Len(out) + n <= reach
  BY <1>3, <1>4, TakenOut
<1> QED  BY <1>1, <1>3, <1>5 DEF CanCopyLiterals, Fits

LEMMA NotRefused ==
    ASSUME IInv, NEW i, NEW to, NEW reach, Equipped(i, to, reach),
           Passed(i, here, reach), After(i, here).ip <= to, Len(After(i, here).out) <= reach
    PROVE  ~Malformed
<1> DEFINE t == At(1)
<1>0. /\ TypeOK /\ ip \in Nat /\ Len(input) \in Nat /\ Len(out) \in Nat /\ len \in Nat
      /\ state \in Nat /\ max_out \in Nat /\ dist \in Nat /\ reach \in Nat /\ reach <= max_out
      /\ ip + 2 <= to /\ to \in Nat
  BY LenProperties DEF IInv, TypeOK, LONG_LITERAL_RUN_STATE, Equipped
<1>1. ReadsSame(i, 0) /\ Has(1) /\ Has(2)
  BY <1>0, EquippedReads
<1>2. i[ip + 1] = t /\ t \in Byte
  BY <1>0, <1>1, ByteRead
<1>3. ~(pc = "bootstrap" /\ t >= 18 /\ ~CanCopyLiterals(1, t - 17))
  <2> SUFFICES ASSUME pc = "bootstrap", t >= 18 PROVE CanCopyLiterals(1, t - 17)
    OBVIOUS
  <2>0. t - 17 \in Nat
    <3>1. t \in Nat
      BY <1>2, ByteIsNat, Zenon
    <3> HIDE DEF t
    <3> QED  BY <3>1
  <2>1. PICK n \in Nat : n = t - 17
    BY <2>0
  <2>2. After(i, here) = AfterBootstrap(i, here)
    BY Here DEF After
  <2>3. After(i, here) = Taken(i, here, 1, n, LeadingState(n))
    BY <1>2, <2>1, <2>2, Here, Zenon DEF AfterBootstrap
  <2>4. /\ Taken(i, here, 1, n, LeadingState(n)).ip <= to
        /\ Len(Taken(i, here, 1, n, LeadingState(n)).out) <= reach
    BY <2>3, Zenon
  <2>5. CanCopyLiterals(1, n)
    <3> DEFINE s == LeadingState(n)
    <3> HIDE DEF s
    <3>1. Taken(i, here, 1, n, s).ip <= to /\ Len(Taken(i, here, 1, n, s).out) <= reach
      BY <2>4, Zenon DEF s
    <3> QED  BY <1>0, <3>1, RoomForLiterals
  <2> QED  BY <2>1, <2>5
<1>4. ~(pc = "extend" /\ t = 0 /\ len + ZERO_RUN_INCREMENT > MAX_EXTENDED_LENGTH)
  <2> SUFFICES ASSUME pc = "extend", t = 0, len + ZERO_RUN_INCREMENT > MAX_EXTENDED_LENGTH
               PROVE  FALSE
    OBVIOUS
  <2>1. len + ZERO_RUN_INCREMENT <= MAX_EXTENDED_LENGTH
    BY <1>2, Here DEF Passed
  <2> QED  BY <1>0, <2>1, DecoderAssumption
<1>5. ~(pc = "literals" /\ ~CanCopyLiterals(0, len))
  <2> SUFFICES ASSUME pc = "literals" PROVE CanCopyLiterals(0, len)
    OBVIOUS
  <2>1. After(i, here) = Taken(i, here, 0, len, LONG_LITERAL_RUN_STATE)
    BY Here DEF After
  <2> QED  BY <1>0, <2>1, RoomForLiterals
<1>6. ~(pc = "trailing" /\ ~CanCopyLiterals(0, state))
  <2> SUFFICES ASSUME pc = "trailing" PROVE CanCopyLiterals(0, state)
    OBVIOUS
  <2>1. After(i, here) = Taken(i, here, 0, state, state)
    BY Here DEF After
  <2> QED  BY <1>0, <2>1, RoomForLiterals
<1>7. ~(pc = "match" /\ ~CanCopyMatch)
  <2> SUFFICES ASSUME pc = "match" PROVE CanCopyMatch
    OBVIOUS
  <2>1. dist # 0 /\ dist <= Len(out) /\ Len(out) + len <= reach
    BY Here DEF Passed
  <2> QED  BY <1>0, <2>1 DEF CanCopyMatch, Fits
<1> QED  BY <1>1, <1>3, <1>4, <1>5, <1>6, <1>7, Zenon DEF Malformed
-----------------------------------------------------------------------------
(* The first call leaves a trail.                                            *)

LEMMA NextRuns == Next => pc \notin Verdicts /\ UNCHANGED args
BY DEF Next, Bootstrap, ShortMatch, MatchC, MatchD, LongMatch, LiteralRun, TinyMatch, ExtendZero,
       ExtendLast, Literals, Operand, CopyMatch, CopyByte, Trailing, Reject, Malformed, Verdicts

LEMMA PromisedIsNat == IInv => Promised \in Nat
<1> SUFFICES ASSUME IInv PROVE Promised \in Nat
  OBVIOUS
<1>1. Len(out) \in Nat /\ len \in Nat /\ copied \in Nat /\ (pc = "copy" => copied < len)
  BY LenProperties DEF IInv, TypeOK, CopyIsPeriodic
<1> QED  BY <1>1 DEF Promised

LEMMA StepGrows ==
    ASSUME IInv, Next, pc' # "err"
    PROVE  /\ ip' >= ip /\ Len(out') >= Len(out) /\ Promised' >= Promised
           /\ pc' = "ok" => ip' = ip + 2
<1>0. /\ TypeOK /\ ip \in Nat /\ Len(out) \in Nat /\ len \in Nat /\ copied \in Nat
      /\ state \in Nat
  BY LenProperties DEF IInv, TypeOK, LONG_LITERAL_RUN_STATE
<1>1. CASE ShortMatch \/ MatchC \/ MatchD \/ LiteralRun \/ TinyMatch \/ ExtendZero \/ ExtendLast
           \/ Operand
  <2>1. /\ ip' \in Nat /\ ip' >= ip /\ out' = out /\ pc # "copy" /\ pc' # "copy"
        /\ pc' = "ok" => ip' = ip + 2
    BY <1>0, <1>1 DEF ShortMatch, MatchC, MatchD, LongMatch, LiteralRun, TinyMatch,
                      ExtendZero, ExtendLast, Operand
  <2> QED  BY <1>0, <2>1 DEF Promised
<1>2. ASSUME NEW skip \in Nat, NEW n \in Nat, CanCopyLiterals(skip, n), CopyLiterals(skip, n),
             pc # "copy", pc' = "command"
      PROVE  ip' >= ip /\ Len(out') >= Len(out) /\ Promised' >= Promised
  <2>1. Len(out') = Len(out) + n /\ ip' = ip + skip + n
    BY <1>0, <1>2, LiteralsCopied
  <2> QED  BY <1>0, <1>2, <2>1 DEF Promised
<1>3. CASE Bootstrap
  <2>0. At(1) \in Nat /\ pc = "bootstrap" /\ pc' = "command"
    <3>1. At(1) \in Byte
      BY <1>0, <1>3, NextByte DEF Bootstrap
    <3> QED  BY <1>3, <3>1, ByteIsNat DEF Bootstrap
  <2>1. CASE UNCHANGED <<ip, out>>
    BY <1>0, <2>0, <2>1 DEF Promised
  <2>2. CASE At(1) >= 18 /\ CanCopyLiterals(1, At(1) - 17) /\ CopyLiterals(1, At(1) - 17)
    <3>1. At(1) - 17 \in Nat
      BY <2>0, <2>2
    <3> QED  BY <1>2, <2>0, <2>2, <3>1
  <2> QED  BY <1>3, <2>1, <2>2 DEF Bootstrap
<1>4. CASE Literals
  BY <1>0, <1>2, <1>4 DEF Literals
<1>5. CASE Trailing
  BY <1>0, <1>2, <1>5 DEF Trailing
<1>6. CASE CopyMatch
  <2>1. /\ pc = "match" /\ pc' = "copy" /\ UNCHANGED <<ip, out, len, copied>> /\ copied = 0
    BY <1>6 DEF CopyMatch, IInv, NothingCopied
  <2> QED  BY <1>0, <2>1 DEF Promised
<1>7. CASE CopyByte
  <2>1. Len(out') = Len(out) + 1 /\ ip' = ip /\ len' = len /\ pc = "copy" /\ copied < len
    BY <1>7, ByteCopied DEF CopyByte, IInv, CopyIsPeriodic
  <2>2. \/ copied + 1 < len /\ copied' = copied + 1 /\ pc' = "copy"
        \/ copied + 1 = len /\ pc' = "trailing"
    BY <1>0, <1>7, <2>1 DEF CopyByte
  <2> QED  BY <1>0, <2>1, <2>2 DEF Promised
<1> QED  BY <1>1, <1>3, <1>4, <1>5, <1>6, <1>7 DEF Next, Reject

LEMMA StepPasses ==
    ASSUME IInv, Next, pc' # "err"
    PROVE  Passed(input, here, Promised')
<1>1. pc \notin Verdicts
  BY NextRuns
<1>2. ASSUME pc = "match"
      PROVE  dist # 0 /\ dist <= Len(out) /\ Len(out) + len <= Promised'
  <2>1. CopyMatch
    BY <1>2 DEF Next, Bootstrap, ShortMatch, MatchC, MatchD, LiteralRun, TinyMatch, ExtendZero,
                ExtendLast, Literals, Operand, CopyByte, Trailing, Reject
  <2>2. /\ dist # 0 /\ dist <= Len(out) /\ pc' = "copy" /\ UNCHANGED <<out, len, copied>>
        /\ copied = 0 /\ len \in Nat /\ Len(out) \in Nat
    BY <1>2, <2>1, LenProperties DEF CopyMatch, CanCopyMatch, IInv, NothingCopied, TypeOK
  <2> QED  BY <2>2 DEF Promised
<1>3. ASSUME pc = "extend", At(1) = 0
      PROVE  len + ZERO_RUN_INCREMENT <= MAX_EXTENDED_LENGTH
  BY <1>3 DEF Next, Bootstrap, ShortMatch, MatchC, MatchD, LiteralRun, TinyMatch, ExtendZero,
              ExtendLast, Literals, Operand, CopyMatch, CopyByte, Trailing, Reject
<1> QED  BY <1>1, <1>2, <1>3, Here, Zenon DEF Passed, At

LEMMA TrailBegins == Init => FirstTrail({Start})
<1> SUFFICES ASSUME Init PROVE FirstTrail({Start})
  OBVIOUS
<1>1. here = Start
  BY DEF Init, InitCall, here, Start
<1>2. Start.ip = 0 /\ Start.out = <<>> /\ Start.len = 0
  BY DEF Start, Config
<1>3. Len(<<>>) = 0
  OBVIOUS
<1> QED  BY <1>1, <1>2, <1>3 DEF FirstTrail, Trail

LEMMA TrailGrows ==
    ASSUME IInv, IInv', Next, pc' # "err", NEW T, FirstTrail(T)
    PROVE  \E U : FirstTrail(U)'
<1> DEFINE U == T \cup {here'}
<1>1. PICK d : d = here'
  OBVIOUS
<1>2. /\ d.ip = ip' /\ d.out = out' /\ d.pc = pc' /\ d.len = len'
  BY <1>1, HereNext DEF Config
<1>3. /\ ip \in Nat /\ ip' \in Nat /\ Len(out) \in Nat /\ Len(out') \in Nat /\ len' \in Nat
      /\ Promised \in Nat /\ Promised' \in Nat
  <2>1. Promised \in Nat
    BY PromisedIsNat
  <2>2. /\ Len(out') \in Nat /\ len' \in Nat /\ copied' \in Nat
        /\ pc' = "copy" => copied' < len'
    BY LenProperties DEF IInv, TypeOK, CopyIsPeriodic
  <2>3. Promised' \in Nat
    BY <2>2 DEF Promised
  <2> QED  BY <2>1, <2>3, LenProperties DEF IInv, TypeOK
<1>4. /\ ip' >= ip /\ Len(out') >= Len(out) /\ Promised' >= Promised
      /\ pc' = "ok" => ip' = ip + 2
  BY StepGrows
<1>5. d = After(input, here)
  <2>1. ReadsSame(input, After(input, here).ip)
    BY DEF ReadsSame
  <2> QED  BY <1>1, <2>1, StepGoes
<1>6. Passed(input, here, Promised')
  BY StepPasses
<1>7. input' = input
  BY NextRuns DEF args
<1>8. PICK r \in Nat : r = Promised'
  BY <1>3
<1>9. ASSUME NEW c \in T \cup {d}
      PROVE  /\ c.ip \in Nat /\ Len(c.out) \in Nat /\ c.len \in Nat
             /\ c.ip <= d.ip /\ Len(c.out) <= Len(d.out)
             /\ \/ c = d
                \/ /\ Passed(input, c, r) /\ After(input, c) \in T \cup {d}
                   /\ d.pc = "ok" => c.ip + 2 <= d.ip
  <2>1. CASE c = d
    BY <1>2, <1>3, <2>1
  <2>2. CASE c # d
    <3>1. /\ c \in T /\ c.ip \in Nat /\ Len(c.out) \in Nat /\ c.len \in Nat
          /\ c.ip <= ip /\ Len(c.out) <= Len(out)
          /\ c = here \/ (Passed(input, c, Promised) /\ After(input, c) \in T)
      BY <2>2, Here DEF FirstTrail, Trail
    <3>2. c.ip <= d.ip /\ Len(c.out) <= Len(d.out) /\ (d.pc = "ok" => c.ip + 2 <= d.ip)
      BY <1>2, <1>3, <1>4, <3>1
    <3>3. CASE c = here
      BY <1>5, <1>6, <1>8, <3>1, <3>2, <3>3
    <3>4. CASE Passed(input, c, Promised) /\ After(input, c) \in T
      <4>1. Passed(input, c, r)
        BY <1>3, <1>4, <1>8, <3>1, <3>4 DEF Passed
      <4> QED  BY <3>1, <3>2, <3>4, <4>1
    <3> QED  BY <3>1, <3>3, <3>4
  <2> QED  BY <2>1, <2>2
<1>10. Start \in T \cup {d}
  BY DEF FirstTrail, Trail
<1>11. Trail(T \cup {d}, input, d, r)
  BY <1>9, <1>10 DEF Trail
<1>12. FirstTrail(T \cup {d})'
  BY <1>1, <1>7, <1>8, <1>11 DEF FirstTrail
<1> QED  BY <1>12

\* The second call begins where the first one began.
LEMMA TrailIsKept ==
    ASSUME IInv, SecondCall
    PROVE  /\ IInv'
           /\ \A T : pc = "ok" /\ FirstTrail(T) => \E last : SecondTrail(T, last)'
<1>1. PICK k \in 0 .. Len(input), tail \in Tails, m \in Bounds :
         /\ input' = SubSeq(input, 1, k) \o tail /\ max_out' = m
         /\ ip' = 0 /\ out' = <<>> /\ state' = 0
         /\ pc' = "bootstrap" /\ arm' = "none"
         /\ len' = 0 /\ dist' = 0 /\ copied' = 0
  BY DEF SecondCall
<1>2. first' = [verdict |-> pc, input |-> input, max_out |-> max_out,
                consumed |-> ip, out |-> out]
  BY DEF SecondCall
<1>3. IInv'
  <2>1. input \in Seq(Byte) /\ Len(input) \in Nat
    BY LenProperties DEF IInv, TypeOK
  <2>2. \A i \in 1 .. k : input[i] \in Byte
    BY <2>1, ElementOfSeq
  <2>3. k \in Int /\ 1 \in Int
    BY <2>1
  <2>4. SubSeq(input, 1, k) \in Seq(Byte)
    BY <2>2, <2>3, SubSeqProperties
  <2>5. tail \in Seq(Byte) /\ m \in Nat
    BY TailsAssumption, DecoderAssumption
  <2>6. input' \in Seq(Byte) /\ Len(input') \in Nat
    BY <1>1, <2>4, <2>5, ConcatProperties, LenProperties
  <2>7. out' \in Seq(Byte) /\ Len(out') = 0
    BY <1>1, EmptySeq
  <2> QED  BY <1>1, <2>5, <2>6, <2>7
           DEF IInv, TypeOK, OutputWithinBound, SentinelNotLive, CopyIsPeriodic, LengthKnown,
               RestFits, NothingCopied, Phases, Verdicts, LONG_LITERAL_RUN_STATE
<1>4. ASSUME NEW T, pc = "ok", FirstTrail(T)
      PROVE  \E last : SecondTrail(T, last)'
  <2>1. PICK last : last = here
    OBVIOUS
  <2>2. Promised = Len(out)
    <3>1. Len(out) \in Nat
      BY LenProperties DEF IInv, TypeOK
    <3> QED  BY <1>4, <3>1 DEF Promised
  <2>3. /\ first'.input = input /\ first'.out = out /\ first'.consumed = ip
    BY <1>2
  <2>4. Trail(T, first'.input, last, Len(first'.out))
    BY <1>4, <2>1, <2>2, <2>3, Zenon DEF FirstTrail
  <2>5. last.pc = "ok" /\ last.ip = first'.consumed /\ last.out = first'.out
    BY <1>4, <2>1, <2>3, Here
  <2>6. here' = Start
    BY <1>1, HereNext DEF Start
  <2>7. here' \in T
    BY <2>4, <2>6 DEF Trail
  <2>8. SecondTrail(T, last)'
    BY <1>1, <2>4, <2>5, <2>7 DEF SecondTrail
  <2> QED  BY <2>8
<1> QED  BY <1>3, <1>4
-----------------------------------------------------------------------------
(* The second call follows it.                                               *)

LEMMA SamePrefix ==
    ASSUME NEW s, NEW t, NEW n \in Nat, SubSeq(s, 1, n) = SubSeq(t, 1, n)
    PROVE  \A k \in 1 .. n : s[k] = t[k]
<1> DEFINE S == {s[k] : k \in 1 .. n} \cup {t[k] : k \in 1 .. n}
<1>1. \A k \in 1 .. n : s[k] \in S /\ t[k] \in S
  OBVIOUS
<1> HIDE DEF S
<1>2. 1 \in Int /\ n \in Int
  OBVIOUS
<1>3. \A k \in 1 .. n - 1 + 1 : SubSeq(s, 1, n)[k] = s[1 + k - 1]
  BY <1>1, <1>2, SubSeqProperties
<1>4. \A k \in 1 .. n - 1 + 1 : SubSeq(t, 1, n)[k] = t[1 + k - 1]
  BY <1>1, <1>2, SubSeqProperties
<1> SUFFICES ASSUME NEW k \in 1 .. n PROVE s[k] = t[k]
  OBVIOUS
<1>5. k \in 1 .. n - 1 + 1 /\ 1 + k - 1 = k
  OBVIOUS
<1> QED  BY <1>3, <1>4, <1>5

LEMMA SameStreamAgrees ==
    ASSUME first.consumed \in Nat, SameStream
    PROVE  Agree /\ \A k \in 1 .. first.consumed : input[k] = first.input[k]
BY SamePrefix DEF SameStream, Agree

LEMMA TruncationAgrees ==
    ASSUME IInv, input = SubSeq(first.input, 1, Len(input))
    PROVE  Agree
<1>1. Len(input) \in Nat /\ input = SubSeq(input, 1, Len(input))
  BY SubSeqFull, LenProperties DEF IInv, TypeOK
<1>2. \A k \in 1 .. Len(input) : input[k] = first.input[k]
  BY <1>1, SamePrefix
<1> QED  BY <1>1, <1>2 DEF Agree

LEMMA TrailIsFollowed ==
    ASSUME IInv, Next, UNCHANGED first, NEW T, NEW last, SecondTrail(T, last)
    PROVE  SecondTrail(T, last)'
<1>0. pc \notin Verdicts /\ UNCHANGED <<input, max_out>>
  BY NextRuns DEF args
<1>1. /\ last.pc = "ok" /\ last.ip = first.consumed /\ last.out = first.out
      /\ Trail(T, first.input, last, Len(first.out))
  BY DEF SecondTrail
<1>2. first.consumed \in Nat /\ Len(first.out) \in Nat
  BY <1>1 DEF Trail
<1>3. ASSUME Agree
      PROVE  /\ Passed(first.input, here, Len(first.out)) /\ ip + 2 <= first.consumed
             /\ After(first.input, here) \in T
             /\ After(first.input, here).ip <= first.consumed
             /\ Len(After(first.input, here).out) <= Len(first.out)
  <2>1. here \in T /\ here # last
    BY <1>0, <1>1, <1>3, Here DEF SecondTrail, Verdicts
  <2> QED  BY <1>1, <2>1, Here DEF Trail
<1>4. ASSUME Agree, pc' # "err" PROVE here' \in T
  <2>1. ReadsSame(first.input, After(first.input, here).ip)
    <3> DEFINE to == After(first.input, here).ip
    <3> SUFFICES ASSUME NEW k \in Nat, ip < k, k <= Len(input), k <= ip + 2 \/ k <= to
                 PROVE  first.input[k] = input[k]
      BY DEF ReadsSame
    <3>1. ip \in Nat
      BY DEF IInv, TypeOK
    <3>2. to \in Nat /\ to <= first.consumed /\ ip + 2 <= first.consumed
      BY <1>1, <1>3, <1>4 DEF Trail
    <3> HIDE DEF to
    <3>3. k \in 1 .. first.consumed
      BY <1>2, <3>1, <3>2
    <3> QED  BY <1>4, <3>3 DEF Agree
  <2>2. here' = After(first.input, here)
    BY <1>4, <2>1, StepGoes
  <2> QED  BY <1>3, <1>4, <2>2
<1>5. ASSUME SameStream, max_out >= Len(first.out) PROVE pc' # "err"
  <2>1. Agree /\ \A k \in 1 .. first.consumed : input[k] = first.input[k]
    BY <1>2, <1>5, SameStreamAgrees
  <2>2. Equipped(first.input, first.consumed, Len(first.out))
    <3>1. max_out \in Nat /\ Len(input) >= first.consumed /\ Len(input) \in Nat
      BY <1>5, LenProperties DEF SameStream, IInv, TypeOK
    <3> QED  BY <1>2, <1>3, <1>5, <2>1, <3>1 DEF Equipped
  <2>3. ~Malformed
    BY <1>3, <2>1, <2>2, NotRefused
  <2> QED  BY <2>3 DEF Next, Bootstrap, ShortMatch, MatchC, MatchD, LongMatch, LiteralRun, TinyMatch,
           ExtendZero, ExtendLast, Literals, Operand, CopyMatch, CopyByte, Trailing, Reject
<1>6. Agree' = Agree /\ SameStream' = SameStream
  BY <1>0 DEF Agree, SameStream
<1> QED  BY <1>0, <1>1, <1>4, <1>5, <1>6 DEF SecondTrail
-----------------------------------------------------------------------------
LEMMA RunsInitially == RunsInit => RunsInv
<1> SUFFICES ASSUME RunsInit PROVE RunsInv
  OBVIOUS
<1>1. FirstTrail({Start}) /\ IInv /\ first = NoCall
  BY TrailBegins, InitInvariant DEF RunsInit
<1> QED  BY <1>1, Zenon DEF RunsInv

LEMMA RunsKeep == RunsInv /\ [RunsNext]_runVars => RunsInv'
<1> SUFFICES ASSUME RunsInv, [RunsNext]_runVars PROVE RunsInv'
  OBVIOUS
<1>1. IInv
  BY DEF RunsInv
<1>2. CASE UNCHANGED runVars
  <2>1. RunsInv' = RunsInv
    BY <1>2 DEF runVars, vars, RunsInv, IInv, TypeOK, OutputWithinBound, SentinelNotLive,
                CopyIsPeriodic, LengthKnown, RestFits, NothingCopied, FirstTrail, SecondTrail,
                Agree, SameStream, Promised, here
  <2> QED  BY <2>1
<1>3. CASE RunsStep
  <2>1. Next /\ first' = first /\ IInv'
    BY <1>1, <1>3, StepInvariant DEF RunsStep
  <2>2. pc \notin Verdicts
    BY <2>1, NextRuns
  <2>3. CASE first = NoCall /\ (pc = "err" \/ \E T : FirstTrail(T))
    <3>1. PICK T : FirstTrail(T)
      BY <2>2, <2>3 DEF Verdicts
    <3>2. CASE pc' = "err"
      BY <2>1, <2>3, <3>2, Zenon DEF RunsInv
    <3>3. CASE pc' # "err"
      <4>1. \E U : FirstTrail(U)'
        BY <1>1, <2>1, <3>1, <3>3, TrailGrows
      <4> QED  BY <2>1, <2>3, <4>1, Zenon DEF RunsInv
    <3> QED  BY <3>2, <3>3
  <2>4. CASE first.verdict = "err"
    BY <2>1, <2>4, Zenon DEF RunsInv
  <2>5. CASE first.verdict = "ok" /\ \E T, last : SecondTrail(T, last)
    <3>1. PICK T, last : SecondTrail(T, last)
      BY <2>5
    <3>2. SecondTrail(T, last)'
      BY <1>1, <2>1, <3>1, TrailIsFollowed
    <3> QED  BY <2>1, <2>5, <3>2, Zenon DEF RunsInv
  <2> QED  BY <2>3, <2>4, <2>5 DEF RunsInv
<1>4. CASE SecondCall
  <2>1. IInv' /\ \A T : pc = "ok" /\ FirstTrail(T) => \E last : SecondTrail(T, last)'
    BY <1>1, <1>4, TrailIsKept
  <2>2. first = NoCall /\ pc \in Verdicts /\ first'.verdict = pc
    BY <1>4 DEF SecondCall
  <2>3. first.verdict = "none"
    BY <2>2 DEF NoCall
  <2>4. CASE pc = "err"
    BY <2>1, <2>2, <2>4, Zenon DEF RunsInv
  <2>5. CASE pc = "ok"
    <3>1. PICK T : FirstTrail(T)
      BY <2>3, <2>5 DEF RunsInv
    <3>2. \E last : SecondTrail(T, last)'
      BY <2>1, <2>5, <3>1
    <3> QED  BY <2>1, <2>2, <2>5, <3>2, Zenon DEF RunsInv
  <2> QED  BY <2>2, <2>4, <2>5 DEF Verdicts
<1> QED  BY <1>2, <1>3, <1>4 DEF RunsNext

THEOREM RunsInvariant == RunsSpec => []RunsInv
BY RunsInitially, RunsKeep, PTL DEF RunsSpec

\* What the end of both calls says, from the trail.
LEMMA EndsTheSame ==
    ASSUME RunsInv, FirstDecoded
    PROVE  /\ first.consumed \in Nat
           /\ Agree => pc = "err" \/ (pc = "ok" /\ out = first.out /\ ip = first.consumed)
           /\ SameStream /\ max_out >= Len(first.out) => pc # "err"
<1>1. first.verdict = "ok" /\ first # NoCall
  BY DEF FirstDecoded, NoCall
<1>2. PICK T, last : SecondTrail(T, last)
  BY <1>1, Zenon DEF RunsInv, NoCall
<1>3. first.consumed \in Nat
  BY <1>2 DEF SecondTrail, Trail
<1>4. ASSUME Agree, pc # "err" PROVE pc = "ok" /\ out = first.out /\ ip = first.consumed
  <2>1. here \in T /\ pc = "ok"
    BY <1>2, <1>4 DEF SecondTrail, FirstDecoded, Verdicts
  <2>2. here = last
    BY <1>2, <2>1, Here DEF SecondTrail, Trail, Passed, Verdicts
  <2> QED  BY <1>2, <2>1, <2>2, Here DEF SecondTrail
<1> QED  BY <1>2, <1>3, <1>4 DEF SecondTrail

\* The stream is self-delimiting and the bound is only a bound: a stream that
\* decodes, decodes to the same bytes whatever follows its end marker and under
\* every bound not below their number, and is refused under every other
\* (lib.rs:190-203, 306-310).
THEOREM TheBoundIsExact == RunsSpec => []BoundIsExact
<1>1. RunsInv => BoundIsExact
  <2> SUFFICES ASSUME RunsInv, FirstDecoded, SameStream
               PROVE  IF max_out >= Len(first.out)
                      THEN pc = "ok" /\ out = first.out /\ ip = first.consumed
                      ELSE pc = "err"
    BY DEF BoundIsExact
  <2>1. Agree
    BY EndsTheSame, SameStreamAgrees
  <2>2. Len(out) <= max_out
    BY DEF RunsInv, IInv, OutputWithinBound
  <2>3. max_out \in Nat /\ Len(out) \in Nat
    BY LenProperties DEF RunsInv, IInv, TypeOK
  <2>4. CASE max_out >= Len(first.out)
    BY <2>1, <2>4, EndsTheSame
  <2>5. CASE ~(max_out >= Len(first.out))
    BY <2>1, <2>2, <2>3, <2>5, EndsTheSame
  <2> QED  BY <2>4, <2>5
<1> QED  BY <1>1, RunsInvariant, PTL

\* A stream cut before the end of its marker is refused, wherever it is cut and
\* whatever the bound (lib.rs:306-310).
THEOREM CutStreamsAreRefused == RunsSpec => []TruncationIsRefused
<1>1. RunsInv => TruncationIsRefused
  <2> SUFFICES ASSUME RunsInv, FirstDecoded, Len(input) < first.consumed,
                      input = SubSeq(first.input, 1, Len(input))
               PROVE  pc = "err"
    BY DEF TruncationIsRefused
  <2>1. Agree
    BY TruncationAgrees DEF RunsInv
  <2>2. ip <= Len(input) /\ ip \in Nat /\ Len(input) \in Nat /\ first.consumed \in Nat
    BY EndsTheSame, LenProperties DEF RunsInv, IInv, TypeOK
  <2>3. ip # first.consumed
    BY <2>2
  <2> QED  BY <2>1, <2>3, EndsTheSame
<1> QED  BY <1>1, RunsInvariant, PTL
=============================================================================
