--------------------------- MODULE MCSniper3Watch ---------------------------
(***************************************************************************)
(* Names for the instances of Sniper3Watch that TLC checks.                *)
(***************************************************************************)
EXTENDS Sniper3Watch

CONSTANTS s1, s2, s3, t1, t2
=============================================================================
