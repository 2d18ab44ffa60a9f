---------------------------- MODULE ParseProofs ----------------------------
(* Theorems about Parse, for every input, every hash function and every      *)
(* value of the limits.                                                      *)
EXTENDS Parse, SequenceTheorems, WellFoundedInduction, TLAPS

-----------------------------------------------------------------------------
(* Two facts about the natural numbers that a CHOOSE rests on.               *)

LEMMA LeastNatural ==
    ASSUME NEW S, S \subseteq Nat, S # {}
    PROVE  \E m \in S : \A k \in S : m <= k
<1> DEFINE R == OpToRel(<, Nat)
<1>1. IsWellFoundedOn(R, Nat)
  BY NatLessThanWellFounded
<1>2. \A x, y \in Nat : x < y => <<x, y>> \in R
  BY DEF OpToRel
<1> HIDE DEF R
<1>3. PICK m \in S : \A k \in S : ~ (<<k, m>> \in R)
  BY <1>1, WFMin
<1>4. ASSUME NEW k \in S  PROVE m <= k
  <2>1. m \in Nat /\ k \in Nat
    OBVIOUS
  <2>2. ~ (k < m)
    BY <1>2, <1>3, <2>1
  <2> QED  BY <2>1, <2>2
<1> QED  BY <1>4

LEMMA GreatestNatural ==
    ASSUME NEW b \in Nat, NEW S, S \subseteq 0 .. b, S # {}
    PROVE  \E m \in S : \A k \in S : k <= m
<1> DEFINE T == { b - k : k \in S }
<1>1. T \subseteq Nat /\ T # {}
  <2>1. \A k \in S : k \in 0 .. b
    OBVIOUS
  <2>2. \A k \in 0 .. b : b - k \in Nat
    OBVIOUS
  <2> QED  BY <2>1, <2>2
<1>2. PICK n \in T : \A k \in T : n <= k
  <2> HIDE DEF T
  <2> QED  BY <1>1, LeastNatural
<1>3. PICK m \in S : n = b - m
  OBVIOUS
<1>4. ASSUME NEW k \in S  PROVE k <= m
  <2>1. k \in Nat /\ m \in Nat
    OBVIOUS
  <2>2. b - m <= b - k
    BY <1>2, <1>3
  <2> QED  BY <2>1, <2>2
<1> QED  BY <1>4

LEMMA Remainder ==
    ASSUME NEW x \in Nat, NEW m \in Nat \ {0}
    PROVE  x % m \in Nat /\ x % m <= x
<1>1. CASE x < m
  BY <1>1
<1>2. CASE x >= m
  BY <1>2
<1> QED  BY <1>1, <1>2
-----------------------------------------------------------------------------
(* What the operators of Parse return.                                       *)

\* The reserved tail is inside the input.
LEMMA SearchEndInside ==
    ASSUME input \in Seq(Byte)
    PROVE  /\ SearchEnd \in 0 .. Len(input)
           /\ Len(input) > 0 => SearchEnd < Len(input)
BY ParseAssumption DEF SearchEnd

\* match_length() agrees on every byte it counts, up to the limit.
LEMMA MatchLengthAgrees ==
    ASSUME NEW c, Limit \in Nat
    PROVE  MatchLength(c) \in 0 .. Limit /\ Agree(c, MatchLength(c))
<1> DEFINE D == { n \in Nat : n > Limit \/ ~Agree(c, n) }
<1>1. Limit + 1 \in D
  OBVIOUS
<1>2. PICK m \in D : \A k \in D : m <= k
  <2>1. D \subseteq Nat /\ D # {}
    BY <1>1
  <2> HIDE DEF D
  <2> QED  BY <2>1, LeastNatural
<1>3. m # 0
  BY DEF Agree
<1> DEFINE n == m - 1
<1>4. n \in 0 .. Limit
  BY <1>1, <1>2, <1>3
<1>5. Agree(c, n)
  <2>1. n \in Nat /\ n < m
    BY <1>4
  <2> QED  BY <1>2, <2>1
<1>6. n = Limit \/ ~Agree(c, n + 1)
  <2>1. n + 1 = m
    OBVIOUS
  <2>2. CASE m > Limit
    BY <1>4, <2>1, <2>2
  <2>3. CASE ~Agree(c, m)
    BY <2>1, <2>3
  <2> QED  BY <2>2, <2>3
<1> HIDE DEF n
<1>7. \E x \in 0 .. Limit : Agree(c, x) /\ (x = Limit \/ ~Agree(c, x + 1))
  BY <1>4, <1>5, <1>6
<1> QED  BY <1>7, Zenon DEF MatchLength

\* What a table holds after the positions before `to` were recorded.
LEMMA RecordBounds ==
    ASSUME table \in [Slots -> Nat], NEW from \in Nat, NEW to \in Nat,
           NEW bound \in Nat, \A s \in Slots : table[s] <= bound, to <= bound
    PROVE  /\ Record(from, to) \in [Slots -> Nat]
           /\ \A s \in Slots : Record(from, to)[s] <= bound
<1> DEFINE Hits(s) == { p \in from .. to - 1 : p + MIN_MATCH <= Len(input)
                                               /\ hash[Trigram(p)] = s }
           Last(s) == CHOOSE p \in Hits(s) : \A q \in Hits(s) : q <= p
           New(s) == IF Hits(s) = {} THEN table[s] ELSE Entry(Last(s))
<1>1. Record(from, to) = [s \in Slots |-> New(s)]
  <2>1. DOMAIN table = Slots
    OBVIOUS
  <2> QED  BY <2>1 DEF Record
<1>2. ASSUME NEW s \in Slots  PROVE New(s) \in Nat /\ New(s) <= bound
  <2>1. CASE Hits(s) = {}
    BY <2>1
  <2>2. CASE Hits(s) # {}
    <3>1. Last(s) \in Hits(s)
      <4>1. Hits(s) \subseteq 0 .. to
        OBVIOUS
      <4> HIDE DEF Hits
      <4>2. \E p \in Hits(s) : \A q \in Hits(s) : q <= p
        BY <2>2, <4>1, GreatestNatural
      <4> QED  BY <4>2, Zenon
    <3>2. Last(s) \in Nat /\ Last(s) + 1 <= to
      BY <3>1
    <3> HIDE DEF Last, Hits
    <3>3. Entry(Last(s)) \in Nat /\ Entry(Last(s)) <= Last(s) + 1
      BY <3>2, Remainder, ParseAssumption DEF Entry
    <3> QED  BY <2>2, <3>2, <3>3
  <2> QED  BY <2>1, <2>2
<1> HIDE DEF New
<1> QED  BY <1>1, <1>2
-----------------------------------------------------------------------------
(* What a token added to a list of tokens does to it.                        *)

\* s is a list of tokens that covers the first e bytes.
Tiles(s, e) ==
    IF s = <<>> THEN e = 0
    ELSE /\ s[1].at = 0
         /\ \A i \in 1 .. Len(s) :
               /\ s[i].len > 0
               /\ s[i].at + s[i].len = IF i < Len(s) THEN s[i + 1].at ELSE e

Alternates(s) ==
    \A i \in 1 .. Len(s) - 1 : s[i].kind = "literals" => s[i + 1].kind = "match"

Good(s, e) ==
    /\ s \in Seq(Token)
    /\ Tiles(s, e)
    /\ Alternates(s)
    /\ s # <<>> => s[1].kind = "literals"
    /\ \A i \in 1 .. Len(s) : s[i].kind = "match" => MatchIsTrue(s[i])

EndsInMatch(s) == s # <<>> => s[Len(s)].kind = "match"

LEMMA TilesAppend ==
    ASSUME NEW s \in Seq(Token), NEW e, Tiles(s, e),
           NEW t \in Token, t.at = e, t.len > 0
    PROVE  Tiles(Append(s, t), e + t.len)
<1> DEFINE a == Append(s, t)
<1>1. a # <<>> /\ Len(a) = Len(s) + 1 /\ a[Len(s) + 1] = t
      /\ \A i \in 1 .. Len(s) : a[i] = s[i]
  OBVIOUS
<1>2. a[1].at = 0
  BY <1>1 DEF Tiles
<1>3. ASSUME NEW i \in 1 .. Len(a)
      PROVE  /\ a[i].len > 0
             /\ a[i].at + a[i].len = IF i < Len(a) THEN a[i + 1].at ELSE e + t.len
  <2>1. CASE i = Len(a)
    BY <1>1, <2>1
  <2>2. CASE i = Len(s) /\ i < Len(a)
    BY <1>1, <2>2 DEF Tiles
  <2>3. CASE i < Len(s)
    BY <1>1, <2>3 DEF Tiles
  <2> QED  BY <1>1, <2>1, <2>2, <2>3
<1> HIDE DEF a
<1> QED  BY <1>1, <1>2, <1>3 DEF Tiles, a

LEMMA GoodAppend ==
    ASSUME NEW s, NEW e, Good(s, e),
           NEW t \in Token, t.at = e, t.len > 0,
           \/ t.kind = "match" /\ s # <<>> /\ MatchIsTrue(t)
           \/ t.kind = "literals" /\ EndsInMatch(s)
    PROVE  Good(Append(s, t), e + t.len)
<1> DEFINE a == Append(s, t)
<1>0. s \in Seq(Token) /\ Len(s) \in Nat
  BY DEF Good
<1>1. /\ a \in Seq(Token) /\ a # <<>>
      /\ Len(a) = Len(s) + 1 /\ a[Len(s) + 1] = t
      /\ \A i \in 1 .. Len(s) : a[i] = s[i]
  BY <1>0
<1>2. Tiles(a, e + t.len)
  BY <1>0, TilesAppend DEF Good
<1> HIDE DEF a
<1>3. Alternates(a)
  <2> SUFFICES ASSUME NEW i \in 1 .. Len(a) - 1, a[i].kind = "literals"
               PROVE  a[i + 1].kind = "match"
    BY DEF Alternates
  <2>1. CASE i = Len(s)
    <3>1. s # <<>> /\ s[Len(s)].kind = "literals"
      BY <1>0, <1>1, <2>1
    <3>2. ~ EndsInMatch(s)
      BY <3>1 DEF EndsInMatch
    <3> QED  BY <1>1, <2>1, <3>2
  <2>2. CASE i < Len(s)
    BY <1>0, <1>1, <2>2 DEF Good, Alternates
  <2> QED  BY <1>0, <1>1, <2>1, <2>2
<1>4. a[1].kind = "literals"
  <2>1. CASE s = <<>>
    BY <1>1, <2>1
  <2>2. CASE s # <<>>
    BY <1>0, <1>1, <2>2 DEF Good
  <2> QED  BY <2>1, <2>2
<1>5. ASSUME NEW i \in 1 .. Len(a), a[i].kind = "match"
      PROVE  MatchIsTrue(a[i])
  <2>1. CASE i = Len(a)
    BY <1>0, <1>1, <1>5, <2>1
  <2>2. CASE i \in 1 .. Len(s)
    BY <1>0, <1>1, <1>5, <2>2 DEF Good
  <2> QED  BY <1>0, <1>1, <2>1, <2>2
<1> QED  BY <1>1, <1>2, <1>3, <1>4, <1>5 DEF Good, a
-----------------------------------------------------------------------------
(* The inductive invariant.  TokensTile, MatchesAreTrue and RunsAlternate    *)
(* are parts of Good; while the search goes on the last token is a match,    *)
(* and no token has reached the reserved tail.                               *)

IInv ==
    /\ input \in Inputs /\ hash \in Hashes
    /\ table \in [Slots -> Nat] /\ TableIsBehind
    /\ pos \in 0 .. SearchEnd /\ literal_start \in 0 .. pos
    /\ parsing \in {"searching", "parsed"}
    /\ Good(tokens, Covered)
    /\ parsing = "searching" => EndsInMatch(tokens)
    /\ EndsAreLiterals

\* Good speaks of the input, which no step changes.
LEMMA GoodNext ==
    ASSUME Good(tokens', Covered'), UNCHANGED input
    PROVE  Good(tokens, Covered)'
BY DEF Good, MatchIsTrue

LEMMA InputIsBytes ==
    ASSUME IInv
    PROVE  /\ input \in Seq(Byte) /\ Len(input) \in Nat
           /\ pos \in Nat /\ literal_start \in Nat /\ SearchEnd \in Nat
           /\ literal_start <= pos /\ pos <= SearchEnd /\ SearchEnd <= Len(input)
           /\ Len(input) > 0 => SearchEnd < Len(input)
<1>1. input \in Seq(Byte)
  BY ParseAssumption DEF IInv
<1>2. Len(input) \in Nat
  BY <1>1
<1> QED  BY <1>1, <1>2, SearchEndInside DEF IInv

LEMMA Initially == Init => IInv
<1> SUFFICES ASSUME Init PROVE IInv
  OBVIOUS
<1>1. input \in Seq(Byte)
  BY ParseAssumption DEF Init
<1>2. 0 \in 0 .. SearchEnd
  BY <1>1, SearchEndInside
<1>3. Good(tokens, Covered)
  BY DEF Init, Good, Tiles, Alternates, Covered
<1>4. table \in [Slots -> Nat] /\ TableIsBehind
  BY DEF Init, TableIsBehind
<1> QED  BY <1>2, <1>3, <1>4 DEF Init, IInv, EndsInMatch, EndsAreLiterals

\* What makes the candidate of a match true.
LEMMA CandidateIsTrue ==
    ASSUME IInv, Searching, Usable
    PROVE  LET c == table[Slot] - 1
               n == MatchLength(c)
           IN  /\ c \in Nat /\ c < pos /\ n \in Nat \ {0}
               /\ pos + n <= SearchEnd
               /\ Match(pos, n, pos - c) \in Token
               /\ MatchIsTrue(Match(pos, n, pos - c))
<1> DEFINE c == table[Slot] - 1
           n == MatchLength(c)
           t == Match(pos, n, pos - c)
<1>0. /\ input \in Seq(Byte) /\ Len(input) \in Nat
      /\ pos \in Nat /\ SearchEnd \in Nat /\ SearchEnd <= Len(input)
  BY InputIsBytes
<1>1. Slot \in Slots
  <2>1. pos \in 0 .. Len(input) - MIN_MATCH
    BY <1>0, ParseAssumption DEF Searching
  <2>2. Trigram(pos) \in DOMAIN hash /\ hash \in Hashes
    BY <2>1, HashAssumption DEF IInv, Trigram
  <2> QED  BY <2>2 DEF Slot, Slots
<1>2. table[Slot] \in Nat \ {0} /\ pos > c /\ pos - c <= MAX_DISTANCE
  BY <1>1 DEF IInv, Usable, Found
<1>3. c \in Nat /\ c < pos
  BY <1>0, <1>2
<1>4. n >= MIN_MATCH
  BY DEF Usable
<1> HIDE DEF c
<1>5. Limit \in Nat /\ Limit <= MAX_MATCH /\ pos + Limit <= SearchEnd
  BY <1>0, ParseAssumption DEF Limit, Searching
<1>6. n \in 0 .. Limit /\ Agree(c, n)
  BY <1>5, MatchLengthAgrees
<1> HIDE DEF n
<1>7. /\ t.at = pos /\ t.len = n /\ t.dist = pos - c /\ t.kind = "match"
      /\ t \in Token
  BY <1>0, <1>2, <1>3, <1>6 DEF Match, Token
<1>8. MatchIsTrue(t)
  <2>1. t.dist \in 1 .. t.at /\ t.dist <= MAX_DISTANCE
    BY <1>0, <1>2, <1>3, <1>7
  <2>2. t.len \in MIN_MATCH .. MAX_MATCH /\ t.at + t.len <= Len(input)
    BY <1>0, <1>4, <1>5, <1>6, <1>7, ParseAssumption
  <2>3. ASSUME NEW k \in 1 .. n
        PROVE  input[pos + k] = input[pos + k - (pos - c)]
    <3>1. pos + k - (pos - c) = c + k
      BY <1>0, <1>3, <1>6
    <3> QED  BY <1>6, <3>1 DEF Agree
  <2> HIDE DEF t
  <2> QED  BY <1>7, <2>1, <2>2, <2>3 DEF MatchIsTrue
<1>9. n \in Nat \ {0} /\ pos + n <= SearchEnd
  BY <1>0, <1>4, <1>5, <1>6, ParseAssumption
<1> QED  BY <1>3, <1>7, <1>8, <1>9 DEF c, n

\* Pushing the pending literals, when there are any.
LEMMA PendingAreGood ==
    ASSUME IInv, parsing = "searching", NEW p \in Nat, p >= literal_start
    PROVE  Good(tokens \o PendingLiterals(p), p)
<1>0. literal_start \in Nat
  BY InputIsBytes
<1>1. Good(tokens, literal_start) /\ EndsInMatch(tokens) /\ tokens \in Seq(Token)
  BY DEF IInv, Covered, Good
<1>2. CASE p > literal_start
  <2> DEFINE t == LiteralRun(literal_start, p - literal_start)
  <2>1. /\ t \in Token /\ t.at = literal_start /\ t.len = p - literal_start
        /\ t.kind = "literals" /\ t.len > 0
    BY <1>0, <1>2 DEF LiteralRun, Token
  <2>2. tokens \o PendingLiterals(p) = Append(tokens, t)
    BY <1>1, <1>2, <2>1 DEF PendingLiterals
  <2> HIDE DEF t
  <2>3. Good(Append(tokens, t), literal_start + t.len)
    BY <1>1, <2>1, GoodAppend
  <2>4. literal_start + t.len = p
    BY <1>0, <2>1
  <2> QED  BY <2>2, <2>3, <2>4
<1>3. CASE p = literal_start
  <2>1. tokens \o PendingLiterals(p) = tokens
    BY <1>0, <1>1, <1>3 DEF PendingLiterals
  <2> QED  BY <1>1, <1>3, <2>1
<1> QED  BY <1>0, <1>2, <1>3
-----------------------------------------------------------------------------
(* The three actions preserve the invariant.                                 *)

LEMMA NoMatchKeeps == IInv /\ NoMatch => IInv'
<1> SUFFICES ASSUME IInv, NoMatch PROVE IInv'
  OBVIOUS
<1>0. /\ pos \in Nat /\ SearchEnd \in Nat /\ literal_start \in Nat
      /\ literal_start <= pos
  BY InputIsBytes
<1>1. SearchEnd' = SearchEnd
  BY DEF NoMatch, SearchEnd
<1>2. pos' \in 0 .. SearchEnd /\ pos' = pos + 1
  BY <1>0, ParseAssumption DEF NoMatch, Searching
<1>3. table' \in [Slots -> Nat] /\ TableIsBehind'
  <2>1. table \in [Slots -> Nat] /\ \A s \in Slots : table[s] \in Nat /\ table[s] <= pos
    BY DEF IInv, TableIsBehind
  <2>2. /\ Record(pos, pos + 1) \in [Slots -> Nat]
        /\ \A s \in Slots : Record(pos, pos + 1)[s] <= pos + 1
    BY <1>0, <2>1, RecordBounds
  <2> QED  BY <1>2, <2>2 DEF NoMatch, TableIsBehind
<1>4. Good(tokens, Covered)'
  <2>1. Covered' = Covered /\ UNCHANGED <<input, tokens>>
    BY DEF NoMatch, Covered
  <2> QED  BY <2>1, GoodNext DEF IInv
<1>5. parsing' = "searching" /\ EndsInMatch(tokens')
  BY DEF NoMatch, Searching, IInv
<1> QED  BY <1>0, <1>1, <1>2, <1>3, <1>4, <1>5 DEF NoMatch, IInv, EndsAreLiterals, EndsInMatch

LEMMA TakeMatchKeeps == IInv /\ TakeMatch => IInv'
<1> SUFFICES ASSUME IInv, TakeMatch PROVE IInv'
  OBVIOUS
<1> DEFINE c == table[Slot] - 1
           n == MatchLength(c)
           t == Match(pos, n, pos - c)
           s == tokens \o PendingLiterals(pos)
<1>0. /\ pos \in Nat /\ SearchEnd \in Nat /\ literal_start \in Nat
      /\ literal_start <= pos /\ parsing = "searching" /\ Searching /\ Usable
  BY InputIsBytes DEF TakeMatch, Searching
<1>1. /\ c \in Nat /\ c < pos /\ n \in Nat \ {0} /\ pos + n <= SearchEnd
      /\ t \in Token /\ MatchIsTrue(t)
  BY <1>0, CandidateIsTrue
<1>2. t.at = pos /\ t.len = n /\ t.kind = "match"
  BY DEF Match
<1>3. /\ tokens' = tokens \o Append(PendingLiterals(pos), t)
      /\ table' = Record(pos, pos + n)
      /\ pos' = pos + n /\ literal_start' = pos + n
      /\ UNCHANGED <<input, hash, parsing>>
  BY DEF TakeMatch
<1> HIDE DEF t, n, c
<1>4. SearchEnd' = SearchEnd
  BY <1>3 DEF SearchEnd
<1>5. table' \in [Slots -> Nat] /\ TableIsBehind'
  <2>1. table \in [Slots -> Nat]
        /\ \A x \in Slots : table[x] \in Nat /\ table[x] <= pos
    BY DEF IInv, TableIsBehind
  <2>2. pos + n \in Nat /\ \A x \in Slots : table[x] <= pos + n
    BY <1>0, <1>1, <2>1
  <2>3. /\ Record(pos, pos + n) \in [Slots -> Nat]
        /\ \A x \in Slots : Record(pos, pos + n)[x] <= pos + n
    BY <1>0, <2>1, <2>2, RecordBounds
  <2> QED  BY <1>3, <2>3 DEF TableIsBehind
<1>6. Good(s, pos) /\ s \in Seq(Token)
  BY <1>0, PendingAreGood DEF Good
<1>7. s # <<>>
  <2>1. ~ Tiles(<<>>, pos)
    BY <1>0, <1>1 DEF Tiles
  <2> HIDE DEF s
  <2> QED  BY <1>6, <2>1 DEF Good
<1>8. tokens' = Append(s, t)
  <2>1. tokens \in Seq(Token) /\ PendingLiterals(pos) \in Seq(Token)
    <3>1. tokens \in Seq(Token)
      BY DEF IInv, Good
    <3>2. pos > literal_start => LiteralRun(literal_start, pos - literal_start) \in Token
      BY <1>0 DEF LiteralRun, Token
    <3> QED  BY <3>1, <3>2 DEF PendingLiterals
  <2> QED  BY <1>1, <1>3, <2>1
<1>9. Good(tokens', Covered')
  <2> HIDE DEF s
  <2>1. Good(Append(s, t), pos + t.len)
    BY <1>1, <1>2, <1>6, <1>7, GoodAppend
  <2>2. Covered' = pos + t.len
    BY <1>0, <1>2, <1>3 DEF Covered
  <2> QED  BY <1>8, <2>1, <2>2
<1>10. Good(tokens, Covered)'
  BY <1>3, <1>9, GoodNext
<1>11. EndsInMatch(tokens')
  <2> HIDE DEF s
  <2> QED  BY <1>1, <1>2, <1>6, <1>8 DEF EndsInMatch
<1>12. pos' \in 0 .. SearchEnd' /\ literal_start' \in 0 .. pos'
  BY <1>0, <1>1, <1>3, <1>4
<1> QED
  BY <1>0, <1>3, <1>5, <1>10, <1>11, <1>12 DEF IInv, EndsAreLiterals, EndsInMatch

LEMMA FinalLiteralsKeeps == IInv /\ FinalLiterals => IInv'
<1> SUFFICES ASSUME IInv, FinalLiterals PROVE IInv'
  OBVIOUS
<1> DEFINE s == tokens \o PendingLiterals(Len(input))
<1>0. /\ Len(input) \in Nat /\ literal_start \in Nat /\ pos \in Nat /\ SearchEnd \in Nat
      /\ literal_start <= pos /\ pos <= SearchEnd /\ SearchEnd <= Len(input)
      /\ Len(input) > 0 => SearchEnd < Len(input)
      /\ parsing = "searching"
  BY InputIsBytes DEF FinalLiterals
<1>1. tokens' = s /\ parsing' = "parsed" /\ UNCHANGED <<input, hash, table, pos, literal_start>>
  BY DEF FinalLiterals
<1>2. SearchEnd' = SearchEnd /\ Covered' = Len(input)
  BY <1>1 DEF SearchEnd, Covered
<1>3. Good(s, Len(input))
  BY <1>0, PendingAreGood
<1>4. Good(tokens, Covered)'
  BY <1>1, <1>2, <1>3, GoodNext
<1>5. EndsAreLiterals'
  <2> SUFFICES ASSUME input # <<>>
               PROVE  LET l == s[Len(s)]
                      IN  s[1].kind = "literals" /\ l.kind = "literals" /\ l.at <= SearchEnd
    BY <1>1, <1>2 DEF EndsAreLiterals
  <2>1. Len(input) > 0 /\ Len(input) > literal_start
    <3>1. input \in Seq(Byte)
      BY InputIsBytes
    <3>2. Len(input) > 0
      BY <3>1
    <3> QED  BY <1>0, <3>2
  <2>2. /\ tokens \in Seq(Token)
        /\ s = Append(tokens, LiteralRun(literal_start, Len(input) - literal_start))
    BY <2>1 DEF IInv, Good, PendingLiterals
  <2>3. s # <<>> /\ s[Len(s)] = LiteralRun(literal_start, Len(input) - literal_start)
    BY <2>2
  <2>4. s[1].kind = "literals"
    BY <1>3, <2>3 DEF Good
  <2> QED  BY <1>0, <2>3, <2>4 DEF LiteralRun
<1> QED
  BY <1>0, <1>1, <1>2, <1>4, <1>5 DEF IInv, TableIsBehind

LEMMA StuttersKeep == IInv /\ UNCHANGED vars => IInv'
<1> SUFFICES ASSUME IInv, UNCHANGED vars PROVE IInv'
  OBVIOUS
<1>1. UNCHANGED <<input, hash, table, pos, literal_start, tokens, parsing>>
  BY DEF vars
<1>2. SearchEnd' = SearchEnd /\ Covered' = Covered
  BY <1>1 DEF SearchEnd, Covered
<1>3. Good(tokens, Covered)'
  BY <1>1, <1>2, GoodNext DEF IInv
<1> QED  BY <1>1, <1>2, <1>3 DEF IInv, TableIsBehind, EndsAreLiterals, EndsInMatch

\* IInv holds in every state of every call.
THEOREM Invariant == Spec => []IInv
<1>1. Init => IInv
  BY Initially
<1>2. IInv /\ [Next]_vars => IInv'
  BY NoMatchKeeps, TakeMatchKeeps, FinalLiteralsKeeps, StuttersKeep DEF Next
<1> QED  BY <1>1, <1>2, PTL DEF Spec
-----------------------------------------------------------------------------
\* The variables of parse() keep their types (compress.rs:132-144).
THEOREM TypeCorrect == Spec => []TypeOK
<1>1. IInv => TypeOK
  <2> SUFFICES ASSUME IInv PROVE TypeOK
    OBVIOUS
  <2> QED  BY InputIsBytes DEF IInv, TypeOK, Good
<1> QED  BY <1>1, Invariant, PTL

\* Every byte of every input is in exactly one token (compress.rs:130-131).
THEOREM TokensTileTheInput == Spec => []TokensTile
<1>1. IInv => TokensTile
  BY DEF IInv, Good, Tiles, TokensTile
<1> QED  BY <1>1, Invariant, PTL

\* Every match is true, whatever the hash function and however the entries of
\* the table are truncated (compress.rs:88-92, 150-155).
THEOREM EveryMatchIsTrue == Spec => []MatchesAreTrue
<1>1. IInv => MatchesAreTrue
  BY DEF IInv, Good, MatchesAreTrue
<1> QED  BY <1>1, Invariant, PTL

\* The unreachable! of emit() is: literal runs never follow one another
\* (compress.rs:222-226).
THEOREM RunsAlwaysAlternate == Spec => []RunsAlternate
<1>1. IInv => RunsAlternate
  BY DEF IInv, Good, Alternates, RunsAlternate
<1> QED  BY <1>1, Invariant, PTL

\* The stream opens with literals and ends with reserved ones
\* (compress.rs:61-76).
THEOREM BothEndsAreLiterals == Spec => []EndsAreLiterals
<1>1. IInv => EndsAreLiterals
  BY DEF IInv
<1> QED  BY <1>1, Invariant, PTL

\* No entry of the table is ahead of the search (compress.rs:145-148, 175-181).
THEOREM TheTableIsBehind == Spec => []TableIsBehind
<1>1. IInv => TableIsBehind
  BY DEF IInv
<1> QED  BY <1>1, Invariant, PTL
=============================================================================
