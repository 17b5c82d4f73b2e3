------------------------- MODULE MCPrecisionScheduler -------------------------
(* Instances of PrecisionScheduler for TLC: one handle of a client that      *)
(* schedules, reschedules and cancels it at any time.                        *)
EXTENDS PrecisionScheduler, TLC

CONSTANTS strike

MCLead == [h \in Handles |-> 1]
MCWarmup == [h \in Handles |-> 1]
=============================================================================
