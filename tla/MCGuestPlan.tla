----------------------------- MODULE MCGuestPlan -----------------------------
(* Every buffer of up to eleven cells: a plan with a pair of empty strings and a
   device has as many. Plans are built from strings of none to three bytes; the
   longest is one too long for its length field. *)
EXTENDS GuestPlan

MCStrings == {<<>>, <<1>>, <<0, 1>>, <<1, 1, 0>>}

=============================================================================
