---------------------------- MODULE MCOutreach -----------------------------
(* Instances of Outreach for TLC. *)
EXTENDS Outreach, TLC

AccountSymmetry == Permutations(Accounts)
=============================================================================
