--------------------------- MODULE MCGrantVulkan ---------------------------
(* The message of the example, in words of 16 bits instead of 32. *)
EXTENDS GrantVulkan
=============================================================================
