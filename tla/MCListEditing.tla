--------------------------- MODULE MCListEditing ---------------------------
(* Instances of ListEditing for TLC. *)
EXTENDS ListEditing, TLC

AccountSymmetry == Permutations(Accounts)
=============================================================================
