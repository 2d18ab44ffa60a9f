------------------------------ MODULE Transfer ------------------------------
(* What storing a content in a file and reading it back promises: whatever   *)
(* is delivered is a beginning of the content, and success means all of it.  *)
(* Nothing is promised about when, or whether, it succeeds.                  *)
EXTENDS Sequences, SequencesExt

VARIABLES content,   \* what was stored
          delivered, \* what the reader has handed on
          verdict    \* "pending", "ok" or "err"

transferVars == <<content, delivered, verdict>>

TransferInit == delivered = <<>> /\ verdict = "pending"

Deliver == /\ verdict = "pending"
           /\ IsStrictPrefix(delivered, delivered') /\ IsPrefix(delivered', content)
           /\ UNCHANGED <<content, verdict>>

Succeed == /\ verdict = "pending" /\ delivered = content
           /\ verdict' = "ok"
           /\ UNCHANGED <<content, delivered>>

\* A failure may come after part of what was being handed on.
Fail == /\ verdict = "pending"
        /\ IsPrefix(delivered, delivered') /\ IsPrefix(delivered', content)
        /\ verdict' = "err"
        /\ UNCHANGED content

TransferNext == Deliver \/ Succeed \/ Fail

TransferSpec == TransferInit /\ [][TransferNext]_transferVars
=============================================================================
