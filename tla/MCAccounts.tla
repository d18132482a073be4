----------------------------- MODULE MCAccounts -----------------------------
(* Accounts for TLC. *)
EXTENDS Accounts, TLC

Symmetry == Permutations(Tx) \cup Permutations(Users)
=============================================================================
