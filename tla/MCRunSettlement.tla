--------------------------- MODULE MCRunSettlement ----------------------------
(***************************************************************************)
(* Small instances of RunSettlement for TLC.                               *)
(***************************************************************************)
EXTENDS RunSettlement

CONSTANTS w1, w2, r1, r2, j1
===============================================================================
