------------------------- MODULE MCRecoveryEvidence -------------------------
(* Receipts with up to two departures from full evidence. *)
EXTENDS RecoveryEvidence

MCNotANumber == -1

=============================================================================
