---------------------------- MODULE MCLoginGuard ----------------------------
(* LoginGuard for TLC. *)
EXTENDS LoginGuard, TLC

Symmetry == Permutations(Tx)
=============================================================================
