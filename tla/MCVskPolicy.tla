----------------------------- MODULE MCVskPolicy -----------------------------
(* The golden-gate template with up to two edits. *)
EXTENDS VskPolicy

=============================================================================
