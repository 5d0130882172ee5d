-------------------------- MODULE MCContentLifecycle --------------------------
(***************************************************************************)
(* Small instances of ContentLifecycle for TLC.                            *)
(***************************************************************************)
EXTENDS ContentLifecycle, TLC

CONSTANTS w1, w2, p1, p2, j1, u1, u2

WorkersAndPasses == Permutations({w1, w2}) \cup Permutations({p1, p2})
===============================================================================
