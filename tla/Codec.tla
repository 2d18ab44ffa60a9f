------------------------------- MODULE Codec -------------------------------
(* compress() followed by decompress(): the tokens parse() leaves are what   *)
(* emit() reads, the stream it writes is what the decoder is given, with a   *)
(* bound around the length of the input.                                     *)
EXTENDS Naturals, Sequences

CONSTANTS
    Inputs, Hashes,
    MIN_MATCH, MAX_MATCH, MAX_DISTANCE, MIN_TRAILING_LITERALS, ENTRY_MODULUS,
    MAX_BUCKET_C_DISTANCE, LONG_MATCH_DISTANCE_BASE, DISTANCE_FIELD,
    ZERO_RUN_INCREMENT, MAX_BOOTSTRAP_LITERALS,
    MAX_EXTENDED_LENGTH, POST_LITERAL_MATCH_DISTANCE_BASE,
    Slack,     \* how much the bound exceeds one less than the length
    TokenCases \* [input, tokens]: calls of emit() in their own right

VARIABLES
    input, hash, table, pos, literal_start, tokens, parsing, \* parse()
    index, stream, emitting,                                 \* emit()
    max_out, ip, out, state, pc, arm, len, dist, copied      \* the decoder

parseVars == <<input, hash, table, pos, literal_start, tokens, parsing>>
emitVars == <<index, stream, emitting>>
decodeVars == <<max_out, ip, out, state, pc, arm, len, dist, copied>>
vars == <<parseVars, emitVars, decodeVars>>

P == INSTANCE Parse
E == INSTANCE Emit
D == INSTANCE Decoder WITH Inputs <- Seq(0 .. 255), Bounds <- Nat, input <- stream

\* What parse() assumes of its own; a leading run that is too long for one byte
\* is not too short for a run.
ASSUME CodecAssumption ==
    /\ P!ParseAssumption /\ P!HashAssumption
    /\ MAX_BOOTSTRAP_LITERALS \in Nat /\ MAX_BOOTSTRAP_LITERALS >= E!MAX_INLINE_LITERALS

\* What the two halves assume of each other: a byte holds every field, both
\* buckets together reach as far as a match may, and no match passes the cap of
\* the decoder.
ASSUME RoundTripAssumption ==
    /\ Slack \subseteq Nat
    /\ ZERO_RUN_INCREMENT \in Nat \ {0} /\ ZERO_RUN_INCREMENT <= 255
    /\ MAX_BOOTSTRAP_LITERALS <= 238
    /\ LONG_MATCH_DISTANCE_BASE \in Nat /\ MAX_BUCKET_C_DISTANCE \in Nat
    /\ LONG_MATCH_DISTANCE_BASE <= MAX_BUCKET_C_DISTANCE /\ MAX_BUCKET_C_DISTANCE <= 16384
    /\ DISTANCE_FIELD \in Nat \ {0} /\ DISTANCE_FIELD <= 16384
    /\ MAX_DISTANCE < LONG_MATCH_DISTANCE_BASE + 2 * DISTANCE_FIELD
    /\ MAX_EXTENDED_LENGTH \in Nat /\ MAX_MATCH <= MAX_EXTENDED_LENGTH

InitRest == /\ E!InitCall
            /\ max_out \in { b \in { Len(input) + s - 1 : s \in Slack } : b >= 0 }
            /\ D!InitCall(stream, max_out)

Init == P!Init /\ InitRest

\* emit() on tokens of our choosing, as if parse() had left them.
TokensInit ==
    /\ \E c \in TokenCases : /\ input = c.input /\ tokens = c.tokens
                             /\ pos = Len(c.input) /\ literal_start = Len(c.input)
    /\ hash = <<>> /\ table = <<>> /\ parsing = "parsed"
    /\ InitRest

Parsing == P!Next /\ UNCHANGED <<emitVars, decodeVars>>

Emitting == /\ parsing = "parsed"
            /\ E!Next
            /\ UNCHANGED <<hash, table, pos, literal_start, parsing, decodeVars>>

Decoding == /\ emitting = "emitted"
            /\ D!Next
            /\ UNCHANGED <<parseVars, index, emitting>>

Next == Parsing \/ Emitting \/ Decoding

Spec == Init /\ [][Next]_vars /\ WF_vars(Next)
TokensSpec == TokensInit /\ [][Next]_vars
-----------------------------------------------------------------------------
Decoded == pc \in {"ok", "err"}

\* No token is longer than the decoder will add up.  Nothing in the code sees to
\* that: no match is (compress.rs:199), but a literal run may be (compress.rs:286,
\* lib.rs:254).
RunsFit == \A k \in 1 .. Len(tokens) : tokens[k].len <= MAX_EXTENDED_LENGTH

\* "decompress will read it back" (compress.rs:123-124): the decoder returns
\* the input, having read all of the stream, under every bound that leaves
\* room for it and under no other (lib.rs:190-203).
RoundTrip ==
    Decoded => IF max_out >= Len(input)
               THEN pc = "ok" /\ out = input /\ ip = Len(stream)
               ELSE pc = "err"

\* No debug assertion and no unreachable! of emit() is reached: the contract
\* between its loop and parse()'s holds (compress.rs:222-226, 278-281, 309-311).
EmitNeverPanics == parsing = "parsed" => ~E!Panics

\* While the decoder runs, what it has written is a prefix of the input: a
\* wrong length or distance shows at the first byte it spoils.
DecodesAPrefix ==
    emitting = "emitted" => Len(out) <= Len(input) /\ out = SubSeq(input, 1, Len(out))

\* A round trip ends.
Completes == <>Decoded
=============================================================================
