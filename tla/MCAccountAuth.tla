--------------------------- MODULE MCAccountAuth ---------------------------
(* The instance of AccountAuth for TLC: one account. *)
EXTENDS AccountAuth

OneAccount == 1..1
=============================================================================
