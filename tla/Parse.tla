------------------------------- MODULE Parse -------------------------------
(* The first half of compress(): parse() of src/compress.rs turns the input  *)
(* into literal runs and back-references.  One action per way through the    *)
(* search loop.  The hash function is a parameter: it decides which matches  *)
(* are found and must not matter for anything else.                          *)
EXTENDS Naturals, Sequences

CONSTANTS
    Inputs,                \* what may be compressed
    Hashes,                \* functions from trigrams to slots
    MIN_MATCH,             \* 3
    MAX_MATCH,             \* 1 << 16
    MAX_DISTANCE,          \* 49151
    MIN_TRAILING_LITERALS, \* 3
    ENTRY_MODULUS          \* 2^32: a table entry is a u32

Byte == 0 .. 255

ASSUME ParseAssumption ==
    /\ Inputs \subseteq Seq(Byte)
    /\ MIN_MATCH = 3
    /\ MAX_MATCH \in Nat
    /\ MAX_DISTANCE \in Nat \ {0}
    /\ MIN_TRAILING_LITERALS \in Nat \ {0}
    /\ ENTRY_MODULUS \in Nat \ {0}

\* hash3 has a value for every three bytes it is asked about.
ASSUME HashAssumption ==
    \A h \in Hashes, i \in Inputs : \A p \in 0 .. Len(i) - MIN_MATCH :
        <<i[p + 1], i[p + 2], i[p + 3]>> \in DOMAIN h

VARIABLES
    input, hash,   \* the argument, and hash3
    table,         \* slot -> position + 1, or 0
    pos,           \* where the search stands
    literal_start, \* first byte no token covers yet
    tokens,        \* the tokens pushed so far
    parsing        \* "searching" or "parsed"

vars == <<input, hash, table, pos, literal_start, tokens, parsing>>

\* The three bytes at p; positions count from 0 as in the code.
Trigram(p) == <<input[p + 1], input[p + 2], input[p + 3]>>

Slots == UNION { { h[w] : w \in DOMAIN h } : h \in Hashes }

Entry(p) == (p + 1) % ENTRY_MODULUS

\* Mutant: the last bytes are not reserved.
SearchEndAtLength == Len(input)

\* len().saturating_sub(MIN_TRAILING_LITERALS)
SearchEnd == IF Len(input) > MIN_TRAILING_LITERALS
             THEN Len(input) - MIN_TRAILING_LITERALS ELSE 0

Searching == parsing = "searching" /\ pos + MIN_MATCH <= SearchEnd

Slot == hash[Trigram(pos)]

\* Mutant: a candidate too far away is kept.
FoundAnywhere == /\ table[Slot] # 0
                 /\ LET c == table[Slot] - 1
                    IN  pos > c /\ Trigram(c) = Trigram(pos)

\* The recorded position, if it survives both filters.
Found == /\ table[Slot] # 0
         /\ LET c == table[Slot] - 1
            IN  /\ pos > c /\ pos - c <= MAX_DISTANCE
                /\ Trigram(c) = Trigram(pos)

\* Mutant: nothing but the end limits a match.
LimitToSearchEnd == SearchEnd - pos

\* How far the bytes at c and pos agree, up to the limit.
Limit == IF SearchEnd - pos < MAX_MATCH THEN SearchEnd - pos ELSE MAX_MATCH

Agree(c, n) == \A k \in 1 .. n : input[c + k] = input[pos + k]

MatchLength(c) ==
    CHOOSE n \in 0 .. Limit : Agree(c, n) /\ (n = Limit \/ ~Agree(c, n + 1))

\* A candidate may still turn out too short.
Usable == Found /\ MatchLength(table[Slot] - 1) >= MIN_MATCH

\* A token and `at`, the position it begins at; the code keeps it for literal
\* runs only, and a match follows from the tokens before it.
Match(p, n, d) == [kind |-> "match", at |-> p, len |-> n, dist |-> d]
LiteralRun(p, n) == [kind |-> "literals", at |-> p, len |-> n, dist |-> 0]

\* Mutant: the run before a match is pushed even when it is empty.
PendingLiteralsOrEmpty(p) == <<LiteralRun(literal_start, p - literal_start)>>

\* The tokens that end a literal run before position p, if there is one.
PendingLiterals(p) ==
    IF p > literal_start THEN <<LiteralRun(literal_start, p - literal_start)>> ELSE <<>>

\* Mutant: the position after the match is recorded too.
RecordInclusive(from, to) ==
    [s \in DOMAIN table |->
        LET hits == { p \in from .. to : p + MIN_MATCH <= Len(input)
                                         /\ hash[Trigram(p)] = s }
        IN  IF hits = {} THEN table[s]
            ELSE Entry(CHOOSE p \in hits : \A q \in hits : q <= p)]

\* The table once `from` .. `to` - 1 are recorded in that order.
Record(from, to) ==
    [s \in DOMAIN table |->
        LET hits == { p \in from .. to - 1 : p + MIN_MATCH <= Len(input)
                                             /\ hash[Trigram(p)] = s }
        IN  IF hits = {} THEN table[s]
            ELSE Entry(CHOOSE p \in hits : \A q \in hits : q <= p)]
-----------------------------------------------------------------------------
Init ==
    /\ input \in Inputs /\ hash \in Hashes
    /\ table = [s \in Slots |-> 0]
    /\ pos = 0 /\ literal_start = 0
    /\ tokens = <<>> /\ parsing = "searching"

\* Mutants: the search does not advance; every byte is a run of its own.
NoMatchInPlace ==
    /\ Searching /\ ~Usable
    /\ table' = Record(pos, pos + 1)
    /\ UNCHANGED <<input, hash, pos, literal_start, tokens, parsing>>
NoMatchFlushes ==
    /\ Searching /\ ~Usable
    /\ table' = Record(pos, pos + 1)
    /\ tokens' = Append(tokens, LiteralRun(pos, 1))
    /\ pos' = pos + 1 /\ literal_start' = pos + 1
    /\ UNCHANGED <<input, hash, parsing>>

NoMatch ==
    /\ Searching /\ ~Usable
    /\ table' = Record(pos, pos + 1)
    /\ pos' = pos + 1
    /\ UNCHANGED <<input, hash, literal_start, tokens, parsing>>

\* Mutant: the search goes on inside the match.
TakeMatchInside ==
    /\ Searching /\ Usable
    /\ LET c == table[Slot] - 1
           n == MatchLength(c)
       IN  /\ tokens' = tokens \o Append(PendingLiterals(pos), Match(pos, n, pos - c))
           /\ table' = Record(pos, pos + n)
           /\ pos' = pos + 1 /\ literal_start' = pos + n
    /\ UNCHANGED <<input, hash, parsing>>

TakeMatch ==
    /\ Searching /\ Usable
    /\ LET c == table[Slot] - 1
           n == MatchLength(c)
       IN  /\ tokens' = tokens \o Append(PendingLiterals(pos), Match(pos, n, pos - c))
           /\ table' = Record(pos, pos + n)
           /\ pos' = pos + n /\ literal_start' = pos + n
    /\ UNCHANGED <<input, hash, parsing>>

\* The search is over: what is left is a literal run.
FinalLiterals ==
    /\ parsing = "searching" /\ pos + MIN_MATCH > SearchEnd
    /\ tokens' = tokens \o PendingLiterals(Len(input))
    /\ parsing' = "parsed"
    /\ UNCHANGED <<input, hash, table, pos, literal_start>>

Next == NoMatch \/ TakeMatch \/ FinalLiterals

Spec == Init /\ [][Next]_vars
FairSpec == Spec /\ WF_vars(Next)
-----------------------------------------------------------------------------
Token == [kind : {"match", "literals"}, at : Nat, len : Nat, dist : Nat]

TypeOK ==
    /\ input \in Seq(Byte) /\ hash \in Hashes
    /\ table \in [Slots -> Nat]
    /\ pos \in Nat /\ literal_start \in 0 .. pos
    /\ tokens \in Seq(Token)
    /\ parsing \in {"searching", "parsed"}

\* Where the tokens end.
Covered == IF parsing = "parsed" THEN Len(input) ELSE literal_start

\* Every byte of the input is in exactly one token, and the tokens are in
\* order (compress.rs:130-131): nothing is lost between a match and the
\* literals around it.
TokensTile ==
    IF tokens = <<>> THEN Covered = 0
    ELSE /\ tokens[1].at = 0
         /\ \A i \in 1 .. Len(tokens) :
               /\ tokens[i].len > 0
               /\ tokens[i].at + tokens[i].len
                      = IF i < Len(tokens) THEN tokens[i + 1].at ELSE Covered

\* A match says what a decoder that has decoded everything before it needs:
\* its source is inside that output, and every byte equals the byte `dist`
\* before it, whatever the hash table held (compress.rs:88-92, 150-155).
MatchIsTrue(t) ==
    /\ t.dist \in 1 .. t.at /\ t.dist <= MAX_DISTANCE
    /\ t.len \in MIN_MATCH .. MAX_MATCH
    /\ t.at + t.len <= Len(input)
    /\ \A k \in 1 .. t.len : input[t.at + k] = input[t.at + k - t.dist]

MatchesAreTrue ==
    \A i \in 1 .. Len(tokens) : tokens[i].kind = "match" => MatchIsTrue(tokens[i])

\* emit() panics on two literal runs in a row (compress.rs:222-226).
RunsAlternate ==
    \A i \in 1 .. Len(tokens) - 1 :
        tokens[i].kind = "literals" => tokens[i + 1].kind = "match"

\* The stream opens with literals and its last MIN_TRAILING_LITERALS bytes are
\* literals, for the decoders that read past the end (compress.rs:61-76).
EndsAreLiterals ==
    parsing = "parsed" /\ input # <<>> =>
        LET l == tokens[Len(tokens)]
        IN  /\ tokens[1].kind = "literals" /\ l.kind = "literals"
            /\ l.at <= SearchEnd

\* Every recorded position is behind the search, so a candidate is never the
\* position itself or ahead of it, and its trigram is inside the input.
TableIsBehind == \A s \in Slots : table[s] <= pos

\* Every call returns.
Returns == <>(parsing = "parsed")
=============================================================================
