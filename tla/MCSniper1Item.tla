--------------------------- MODULE MCSniper1Item ---------------------------
(***************************************************************************)
(* Instances of Sniper1Item for TLC.                                       *)
(***************************************************************************)
EXTENDS Sniper1Item

CONSTANTS i1, i2, c1, c2
=============================================================================
