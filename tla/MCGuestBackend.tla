--------------------------- MODULE MCGuestBackend ---------------------------
(* Three threads on every target. *)
EXTENDS GuestBackend, TLC

Symmetry == Permutations(Callers)

=============================================================================
