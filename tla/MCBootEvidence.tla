--------------------------- MODULE MCBootEvidence ---------------------------
(* Reports with up to two departures from full evidence. *)
EXTENDS BootEvidence

MCNotANumber == -1

=============================================================================
