--------------------------- MODULE MCMessageSync ----------------------------
(* Instances of MessageSync: one other user and two overlapping runs.       *)
EXTENDS MessageSync, TLC

CONSTANTS me, peer, run1, run2

Interchangeable == Permutations({run1, run2})
=============================================================================
