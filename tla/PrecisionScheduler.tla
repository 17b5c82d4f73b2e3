-------------------------- MODULE PrecisionScheduler --------------------------
(***************************************************************************)
(* packages/core/scheduler/index.js: a handle is planned for a moment with *)
(* two timers, one for the warmup and one for the trigger.  Cancel and     *)
(* reschedule may come while either of them is suspended in an await, and  *)
(* a rescheduled handle may run two triggers at once.  (handle.state is    *)
(* written by all of them and read by nothing: it is left out.)            *)
(***************************************************************************)
EXTENDS Integers, Sequences

CONSTANTS Handles,
          LeadOf, WarmupOf, \* task.leadTimeMs and task.warmupMs of each handle
          TriggerTimes,     \* the values of task.triggerAt
          MaxDelay,         \* the longest delay setTimeout honours, 2^31 - 1
          MaxPlans,         \* bound: plans of one handle
          MaxTime           \* bound: the clock

ASSUME SchedulerAssumption ==
  /\ LeadOf \in [Handles -> Nat] /\ WarmupOf \in [Handles -> Nat]
  /\ TriggerTimes \subseteq Nat
  /\ MaxDelay \in Nat /\ MaxPlans \in Nat /\ MaxTime \in Nat

VARIABLES clock,
          plans,      \* what #plan was called for, per handle, oldest first
          cancelled, warmed,  \* the handle's fields
          registered, \* the keys of this.handles
          called      \* history: the handles whose last call was cancel()

schedulerVars == <<clock, plans, cancelled, warmed, registered, called>>

Armed == {"armed", "cleared"}
WarmupStages == Armed \cup {"warming", "over"}
TriggerStages == Armed \cup {"asking", "acting", "triggered", "missed"}

\* A plan: the moment aimed at, when its two timers fire, and how far it is.
PlanRecord == [target : Int, warmAt : Nat, fireAt : Nat, made : Nat,
               warmup : WarmupStages, trigger : TriggerStages]

SchedulerTypeOK ==
  /\ clock \in Nat
  /\ plans \in [Handles -> Seq(PlanRecord)]
  /\ cancelled \in [Handles -> BOOLEAN]
  /\ warmed \in [Handles -> BOOLEAN]
  /\ registered \subseteq Handles
  /\ called \subseteq Handles

SchedulerInit ==
  /\ clock = 0
  /\ plans = [h \in Handles |-> <<>>]
  /\ cancelled = [h \in Handles |-> FALSE]
  /\ warmed = [h \in Handles |-> FALSE]
  /\ registered = {}
  /\ called = {}

-----------------------------------------------------------------------------
(* The calls *)

\* setTimeout takes a delay it cannot represent for the shortest one.
TimerDelay(delay) == IF delay < 0 \/ delay > MaxDelay THEN 0 ELSE delay

\* Mutant of NewPlan: the trigger's timer is set for the warmup's moment.
NewPlanEarly(h, at) ==
  LET target == at - LeadOf[h]
      warmAt == clock + TimerDelay(target - WarmupOf[h] - clock)
  IN [target |-> target, made |-> clock, warmAt |-> warmAt, fireAt |-> warmAt,
      warmup |-> "armed", trigger |-> "armed"]

\* #plan: both timers are set from now.
NewPlan(h, at) ==
  LET target == at - LeadOf[h] IN
  [target |-> target, made |-> clock,
   warmAt |-> clock + TimerDelay(target - WarmupOf[h] - clock),
   fireAt |-> clock + TimerDelay(target - clock),
   warmup |-> "armed", trigger |-> "armed"]

\* clearTimer on the timers of a plan: one that has fired is not affected.
Cleared(plan) ==
  [plan EXCEPT !.warmup = IF @ = "armed" THEN "cleared" ELSE @,
               !.trigger = IF @ = "armed" THEN "cleared" ELSE @]

\* handle.timers holds the timers of the last plan.
ClearTimers(s) ==
  [p \in DOMAIN s |-> IF p = Len(s) THEN Cleared(s[p]) ELSE s[p]]

Plan(h, at) ==
  /\ plans' = [plans EXCEPT ![h] = Append(ClearTimers(@), NewPlan(h, at))]
  /\ cancelled' = [cancelled EXCEPT ![h] = FALSE]
  /\ registered' = registered \cup {h}
  /\ called' = called \ {h}
  /\ UNCHANGED <<clock, warmed>>

Schedule(h, at) == plans[h] = <<>> /\ Plan(h, at)

\* reschedule() leaves `warmed` as it is: a warm handle is not warmed again.
Reschedule(h, at) == Len(plans[h]) \in 1..(MaxPlans - 1) /\ Plan(h, at)

\* Mutant of Cancel: only a handle still in the map is found.
CancelRegistered(h) ==
  /\ plans[h] # <<>>
  /\ called' = called \cup {h}
  /\ registered' = registered \ {h}
  /\ IF h \in registered
     THEN /\ cancelled' = [cancelled EXCEPT ![h] = TRUE]
          /\ plans' = [plans EXCEPT ![h] = ClearTimers(@)]
     ELSE UNCHANGED <<cancelled, plans>>
  /\ UNCHANGED <<clock, warmed>>

\* cancel() acts on the handle it is given when the map has it no more.
Cancel(h) ==
  /\ plans[h] # <<>>
  /\ cancelled' = [cancelled EXCEPT ![h] = TRUE]
  /\ plans' = [plans EXCEPT ![h] = ClearTimers(@)]
  /\ registered' = registered \ {h}
  /\ called' = called \cup {h}
  /\ UNCHANGED <<clock, warmed>>

-----------------------------------------------------------------------------
(* The timers' callbacks, one action per piece between two awaits *)

SetWarmup(h, p, stage) == plans' = [plans EXCEPT ![h][p].warmup = stage]
SetTrigger(h, p, stage) == plans' = [plans EXCEPT ![h][p].trigger = stage]

WarmupFires(h, p) ==
  /\ plans[h][p].warmup = "armed" /\ plans[h][p].warmAt <= clock
  /\ IF cancelled[h] \/ warmed[h]
     THEN SetWarmup(h, p, "over")
     ELSE SetWarmup(h, p, "warming")
  /\ UNCHANGED <<clock, cancelled, warmed, registered, called>>

\* A warmup that fails is reported as a miss, and the trigger stays armed.
WarmupEnds(h, p, ok) ==
  /\ plans[h][p].warmup = "warming"
  /\ SetWarmup(h, p, "over")
  /\ warmed' = [warmed EXCEPT ![h] = @ \/ ok]
  /\ UNCHANGED <<clock, cancelled, registered, called>>

\* Mutant of TriggerFires: only the flag, not the timer, calls a plan off.
TriggerFiresUncleared(h, p) ==
  /\ plans[h][p].trigger \in Armed /\ plans[h][p].fireAt <= clock
  /\ ~cancelled[h]
  /\ SetTrigger(h, p, "asking")
  /\ UNCHANGED <<clock, cancelled, warmed, registered, called>>

\* Mutant of TriggerFires: a handle whose warmup failed is not triggered.
TriggerFiresWarm(h, p) ==
  /\ plans[h][p].trigger = "armed" /\ plans[h][p].fireAt <= clock
  /\ ~cancelled[h] /\ warmed[h]
  /\ SetTrigger(h, p, "asking")
  /\ UNCHANGED <<clock, cancelled, warmed, registered, called>>

\* #trigger asks for the server's time; nothing looks at `cancelled` again.
TriggerFires(h, p) ==
  /\ plans[h][p].trigger = "armed" /\ plans[h][p].fireAt <= clock
  /\ ~cancelled[h]
  /\ SetTrigger(h, p, "asking")
  /\ UNCHANGED <<clock, cancelled, warmed, registered, called>>

\* onTrigger is called: no time was asked for, or it is within 5 s of ours.
TriggerActs(h, p) ==
  /\ plans[h][p].trigger = "asking"
  /\ SetTrigger(h, p, "acting")
  /\ UNCHANGED <<clock, cancelled, warmed, registered, called>>

\* The finally block deletes the handle, which may have been planned anew.
TriggerEnds(h, p, from, outcome) ==
  /\ plans[h][p].trigger = from
  /\ SetTrigger(h, p, outcome)
  /\ registered' = registered \ {h}
  /\ UNCHANGED <<clock, cancelled, warmed, called>>

SchedulerTick ==
  /\ clock < MaxTime
  /\ clock' = clock + 1
  /\ UNCHANGED <<plans, cancelled, warmed, registered, called>>

\* The callbacks of plan p of a handle h that has a warmup to await and a
\* server to ask; the time drifted, the server did not answer, or onTrigger
\* threw: in each case a miss.
Callback(h, p) ==
  \/ WarmupFires(h, p)
  \/ \E ok \in BOOLEAN : WarmupEnds(h, p, ok)
  \/ TriggerFires(h, p)
  \/ TriggerActs(h, p)
  \/ TriggerEnds(h, p, "asking", "missed")
  \/ \E outcome \in {"triggered", "missed"} : TriggerEnds(h, p, "acting", outcome)

SchedulerNext ==
  \/ \E h \in Handles :
       \/ \E at \in TriggerTimes : Schedule(h, at) \/ Reschedule(h, at)
       \/ Cancel(h)
       \/ \E p \in DOMAIN plans[h] : Callback(h, p)
  \/ SchedulerTick

SchedulerSpec == SchedulerInit /\ [][SchedulerNext]_schedulerVars

\* Time passes, timers fire and every await settles; nobody has to call.
SchedulerFairSpec ==
  /\ SchedulerSpec
  /\ WF_schedulerVars(SchedulerTick)
  /\ \A h \in Handles, p \in 1..MaxPlans :
       WF_schedulerVars(p \in DOMAIN plans[h] /\ Callback(h, p))

-----------------------------------------------------------------------------
(* Properties *)

\* The stage of a plan as its client sees it.
StageOf(plan) ==
  IF plan.trigger = "armed" THEN "due"
  ELSE IF plan.trigger = "cleared" THEN "dropped"
  ELSE IF plan.trigger \in {"asking", "acting"} THEN "begun"
  ELSE plan.trigger

PromisedStages ==
  [h \in Handles |-> [p \in DOMAIN plans[h] |-> StageOf(plans[h][p])]]

Deadline == INSTANCE DeadlinePromise WITH stages <- PromisedStages

\* Whatever is called while a warmup or a trigger is suspended, each plan of
\* schedule() and reschedule() begins at most once, has one outcome, and
\* never begins after it was called off: the scheduler implements what
\* DeadlinePromise promises.
KeepsPromise == Deadline!PromiseSafety

\* Once cancel() has returned no timer of the handle is left to fire, also
\* where the end of an earlier trigger has deleted a handle planned anew.
CancelDisarms ==
  \A h \in called : \A p \in DOMAIN plans[h] :
    plans[h][p].trigger # "armed" /\ plans[h][p].warmup # "armed"

\* However often a handle is planned, only its last plan has timers armed.
OnlyLastPlanIsArmed ==
  \A h \in Handles : \A p \in DOMAIN plans[h] :
    plans[h][p].trigger = "armed" \/ plans[h][p].warmup = "armed" => p = Len(plans[h])

\* A trigger never fires ahead of the moment aimed at, unless that moment
\* was further away than a timer can wait when the plan was made.
NeverEarly ==
  [][\A h \in Handles : \A p \in DOMAIN plans[h] :
       /\ plans[h][p].trigger = "armed"
       /\ plans'[h][p].trigger = "asking"
       => \/ clock >= plans[h][p].target
          \/ plans[h][p].target - plans[h][p].made > MaxDelay]_schedulerVars

\* Every plan of every handle is begun and ended, or called off: no callback
\* is lost between the timers, the reschedules and the awaits.
EveryPlanEnds == Deadline!EveryPlanEnds

\* The timers in order: types, only those of the last plan, none of a handle
\* that was cancelled last.
TimersConsistent == SchedulerTypeOK /\ OnlyLastPlanIsArmed /\ CancelDisarms
=============================================================================
