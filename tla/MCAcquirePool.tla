--------------------------- MODULE MCAcquirePool ---------------------------
(***************************************************************************)
(* An instance of AcquirePool for TLC: three requests of one site and one  *)
(* of another, with limits that both start below the number of requests.   *)
(***************************************************************************)
EXTENDS AcquirePool, TLC

CONSTANTS r1, r2, r3, r4, eBay, tgtg

MCSiteOf == [r \in Requests |-> IF r = r3 THEN tgtg ELSE eBay]
MCSiteLimit == (eBay :> 1) @@ (tgtg :> 2)
=============================================================================
