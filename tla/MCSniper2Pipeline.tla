-------------------------- MODULE MCSniper2Pipeline --------------------------
(***************************************************************************)
(* Instances of Sniper2Pipeline for TLC: tasks that pay with one card, on  *)
(* one site or two.                                                        *)
(***************************************************************************)
EXTENDS Sniper2Pipeline, TLC

CONSTANTS A, B, C, r1, r2, r3, eBay, tgtg

\* One run per task.
OneRunPerTask == (r1 :> A) @@ (r2 :> B) @@ (r3 :> C)

\* Two runs of the task A, and one of B.
TwoRunsOfA == (r1 :> A) @@ (r2 :> A) @@ (r3 :> B)

MCSiteOf == [r \in Requests |-> IF r = r3 THEN tgtg ELSE eBay]
MCSiteLimit == [s \in Sites |-> 1]
=============================================================================
