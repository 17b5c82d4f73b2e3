--------------------------- MODULE DeadlinePromise ---------------------------
(***************************************************************************)
(* What a client of the scheduler is promised, without timers, clock or    *)
(* warmup: a handle is planned for a moment, perhaps again for another     *)
(* one.  A plan begins once at most, and ends in one outcome; a plan that  *)
(* was called off before it began never begins.                            *)
(***************************************************************************)
EXTENDS Integers, Sequences

CONSTANTS Handles, MaxPlans

VARIABLE stages  \* the stage of each plan made for a handle, oldest first

Stages == {"due", "begun", "triggered", "missed", "dropped"}

PromiseInit == stages = [h \in Handles |-> <<>>]

\* The plans of a handle once those that have not begun are called off.
CallOff(s) == [p \in DOMAIN s |-> IF s[p] = "due" THEN "dropped" ELSE s[p]]

\* schedule() and reschedule(): the new plan replaces the one that waits.
Promise(h) == stages' = [stages EXCEPT ![h] = Append(CallOff(@), "due")]

Withdraw(h) == stages' = [stages EXCEPT ![h] = CallOff(@)]

Advance(h, p, from, to) ==
  /\ p \in DOMAIN stages[h] /\ stages[h][p] = from
  /\ stages' = [stages EXCEPT ![h][p] = to]

PromiseNext ==
  \E h \in Handles :
    \/ Promise(h)
    \/ Withdraw(h)
    \/ \E p \in DOMAIN stages[h] :
         \/ Advance(h, p, "due", "begun")
         \/ Advance(h, p, "begun", "triggered")
         \/ Advance(h, p, "begun", "missed")

\* No plan is forgotten: each is begun and ended, or called off.
EveryPlanEnds ==
  \A h \in Handles : \A p \in 1..MaxPlans :
    p \in DOMAIN stages[h] ~> /\ p \in DOMAIN stages[h]
                              /\ stages[h][p] \in {"triggered", "missed", "dropped"}

PromiseSafety == PromiseInit /\ [][PromiseNext]_stages
PromiseSpec == PromiseSafety /\ EveryPlanEnds
=============================================================================
