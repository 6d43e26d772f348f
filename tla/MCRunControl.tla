---------------------------- MODULE MCRunControl ---------------------------
(* Instance of RunControl for TLC. *)
EXTENDS RunControl, TLC

RequestSymmetry == Permutations(Requests)
=============================================================================
