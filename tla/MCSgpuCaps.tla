----------------------------- MODULE MCSgpuCaps -----------------------------
(* Bytes of five values: one more than there are vendors and versions. *)
EXTENDS SgpuCaps

MCVramSizes == {0, 625, 390624}
MCThreadCounts == {1, 624}
=============================================================================
