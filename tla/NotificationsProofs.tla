-------------------------- MODULE NotificationsProofs --------------------------
(***************************************************************************)
(* The scheduler for any handles, lead times and number of plans: only the *)
(* last plan of a handle is armed and nothing of a cancelled one, no       *)
(* trigger fires early, and every step is one DeadlinePromise allows.      *)
(* Then the notifications on top of it, for any channels, notices and      *)
(* clients: they use the scheduler only as SchedulerSpec lets its clients, *)
(* so that its invariant carries over, the feed stays consistent, and      *)
(* NoticeAt ties each reminder to what its channels did.  That plans end   *)
(* and that reminders fire is left to TLC.                                 *)
(***************************************************************************)
EXTENDS Notifications, LiveFeedProofs

-----------------------------------------------------------------------------
(* The scheduler *)

\* When a plan's trigger is due follows from when it was made.
FireAtIsDue ==
  \A h \in Handles : \A p \in DOMAIN plans[h] :
    plans[h][p].fireAt = plans[h][p].made + TimerDelay(plans[h][p].target - plans[h][p].made)

SchedulerInv ==
  SchedulerTypeOK /\ OnlyLastPlanIsArmed /\ CancelDisarms /\ FireAtIsDue

Dormant(plan) == plan.trigger # "armed" /\ plan.warmup # "armed"

LEMMA PlansAreSequences ==
  ASSUME SchedulerTypeOK, NEW h \in Handles
  PROVE  /\ plans[h] \in Seq(PlanRecord) /\ Len(plans[h]) \in Nat
         /\ DOMAIN plans[h] = 1..Len(plans[h])
         /\ \A p \in DOMAIN plans[h] : p \in Nat /\ plans[h][p] \in PlanRecord
<1>1. plans[h] \in Seq(PlanRecord)
  BY DEF SchedulerTypeOK
<1>2. QED
  BY <1>1

LEMMA NewPlanFacts ==
  ASSUME SchedulerTypeOK, NEW h \in Handles, NEW time \in TriggerTimes
  PROVE  /\ NewPlan(h, time) \in PlanRecord
         /\ NewPlan(h, time).trigger = "armed"
         /\ NewPlan(h, time).fireAt =
              NewPlan(h, time).made + TimerDelay(NewPlan(h, time).target - NewPlan(h, time).made)
<1> DEFINE target == time - LeadOf[h]
<1>1. clock \in Nat /\ target \in Int /\ WarmupOf[h] \in Nat
  <2>1. LeadOf[h] \in Nat /\ WarmupOf[h] \in Nat /\ time \in Nat
    BY SchedulerAssumption DEF SchedulerAssumption
  <2>2. clock \in Nat
    BY DEF SchedulerTypeOK
  <2>3. QED
    BY <2>1, <2>2
<1>2. \A d \in Int : TimerDelay(d) \in Nat
  BY SchedulerAssumption DEF TimerDelay, SchedulerAssumption
<1>3. TimerDelay(target - WarmupOf[h] - clock) \in Nat /\ TimerDelay(target - clock) \in Nat
  BY <1>1, <1>2
<1> HIDE DEF target
<1>4. NewPlan(h, time) =
        [target |-> target, made |-> clock,
         warmAt |-> clock + TimerDelay(target - WarmupOf[h] - clock),
         fireAt |-> clock + TimerDelay(target - clock),
         warmup |-> "armed", trigger |-> "armed"]
  BY DEF NewPlan, target
<1>5. QED
  BY <1>1, <1>3, <1>4 DEF PlanRecord, WarmupStages, TriggerStages, Armed

\* Of a handle's plans, clearing disarms the last and leaves the others.
LEMMA ClearTimersFacts ==
  ASSUME SchedulerInv, NEW h \in Handles
  PROVE  /\ ClearTimers(plans[h]) \in Seq(PlanRecord)
         /\ Len(ClearTimers(plans[h])) = Len(plans[h])
         /\ \A p \in DOMAIN plans[h] :
              LET old == plans[h][p]
                  new == ClearTimers(plans[h])[p]
              IN /\ Dormant(new)
                 /\ new.target = old.target /\ new.made = old.made /\ new.fireAt = old.fireAt
                 /\ new.trigger = IF old.trigger = "armed" THEN "cleared" ELSE old.trigger
<1> DEFINE s == plans[h]
           c == ClearTimers(plans[h])
<1>1. /\ s \in Seq(PlanRecord) /\ Len(s) \in Nat /\ DOMAIN s = 1..Len(s)
      /\ \A p \in DOMAIN s : p \in Nat /\ s[p] \in PlanRecord
  BY PlansAreSequences DEF SchedulerInv
<1>2. \A plan \in PlanRecord :
        /\ Cleared(plan) \in PlanRecord /\ Dormant(Cleared(plan))
        /\ Cleared(plan).target = plan.target /\ Cleared(plan).made = plan.made
        /\ Cleared(plan).fireAt = plan.fireAt
        /\ Cleared(plan).trigger = IF plan.trigger = "armed" THEN "cleared" ELSE plan.trigger
  BY DEF Cleared, PlanRecord, Dormant, WarmupStages, TriggerStages, Armed
<1>3. c = [p \in 1..Len(s) |-> IF p = Len(s) THEN Cleared(s[p]) ELSE s[p]]
  BY <1>1 DEF ClearTimers
<1>4. \A p \in DOMAIN s : p # Len(s) => Dormant(s[p])
  BY DEF SchedulerInv, OnlyLastPlanIsArmed, Dormant
<1> HIDE DEF s, c
<1>5. \A p \in 1..Len(s) : c[p] \in PlanRecord
  BY <1>1, <1>2, <1>3
<1>6. c \in Seq(PlanRecord) /\ Len(c) = Len(s)
  <2>1. c \in [1..Len(s) -> PlanRecord]
    BY <1>3, <1>5
  <2>2. Len(s) \in Nat
    BY <1>1
  <2> HIDE <1>3
  <2>3. QED
    BY <2>1, <2>2
<1>7. \A p \in DOMAIN s :
        /\ Dormant(c[p])
        /\ c[p].target = s[p].target /\ c[p].made = s[p].made /\ c[p].fireAt = s[p].fireAt
        /\ c[p].trigger = IF s[p].trigger = "armed" THEN "cleared" ELSE s[p].trigger
  BY <1>1, <1>2, <1>3, <1>4 DEF Dormant
<1>8. QED
  BY <1>6, <1>7 DEF s, c

\* A callback changes its own plan only: it never arms a timer and never
\* moves the plan, and the trigger goes from one stage to the next.
TriggerSteps ==
  {<<"armed", "asking">>, <<"asking", "acting">>, <<"asking", "missed">>,
   <<"acting", "triggered">>, <<"acting", "missed">>}

Moved(h, p) ==
  /\ plans' \in [Handles -> Seq(PlanRecord)]
  /\ \A g \in Handles : Len(plans'[g]) = Len(plans[g])
  /\ \A g \in Handles : \A r \in DOMAIN plans[g] :
       g # h \/ r # p => plans'[g][r] = plans[g][r]
  /\ plans'[h][p].target = plans[h][p].target
  /\ plans'[h][p].made = plans[h][p].made
  /\ plans'[h][p].fireAt = plans[h][p].fireAt
  /\ plans'[h][p].warmup = "armed" => plans[h][p].warmup = "armed"
  /\ \/ plans'[h][p].trigger = plans[h][p].trigger
     \/ <<plans[h][p].trigger, plans'[h][p].trigger>> \in TriggerSteps
  /\ plans'[h][p].trigger = "asking" /\ plans[h][p].trigger = "armed"
       => plans[h][p].fireAt <= clock

LEMMA SetWarmupFacts ==
  ASSUME SchedulerTypeOK, NEW h \in Handles, NEW p \in DOMAIN plans[h],
         NEW stage \in WarmupStages \ {"armed"}, SetWarmup(h, p, stage)
  PROVE  Moved(h, p)
<1>1. \A g \in Handles : /\ plans[g] \in Seq(PlanRecord) /\ Len(plans[g]) \in Nat
                         /\ DOMAIN plans[g] = 1..Len(plans[g])
  BY PlansAreSequences
<1> DEFINE new == [plans[h][p] EXCEPT !.warmup = stage]
           s == [plans[h] EXCEPT ![p] = new]
<1>2. plans[h][p] \in PlanRecord
  BY PlansAreSequences
<1>3. /\ new \in PlanRecord /\ new.warmup = stage /\ new.trigger = plans[h][p].trigger
      /\ new.target = plans[h][p].target /\ new.made = plans[h][p].made
      /\ new.fireAt = plans[h][p].fireAt
  BY <1>2 DEF PlanRecord
<1>4. plans \in [Handles -> Seq(PlanRecord)]
  BY DEF SchedulerTypeOK
<1>5. plans' = [plans EXCEPT ![h] = s]
  BY <1>4 DEF SetWarmup
<1> HIDE DEF new
<1>6. s \in Seq(PlanRecord) /\ Len(s) = Len(plans[h])
  BY <1>1, <1>3
<1>7. s[p] = new /\ \A r \in DOMAIN plans[h] : r # p => s[r] = plans[h][r]
  BY <1>1
<1> HIDE DEF s
<1>8. plans'[h] = s /\ \A g \in Handles : g # h => plans'[g] = plans[g]
  BY <1>4, <1>5
<1>9. plans' \in [Handles -> Seq(PlanRecord)]
  BY <1>4, <1>5, <1>6
<1>10. stage # "armed"
  OBVIOUS
<1>11. QED
  BY <1>3, <1>6, <1>7, <1>8, <1>9, <1>10 DEF Moved, TriggerSteps

LEMMA SetTriggerFacts ==
  ASSUME SchedulerTypeOK, NEW h \in Handles, NEW p \in DOMAIN plans[h],
         NEW stage, SetTrigger(h, p, stage),
         <<plans[h][p].trigger, stage>> \in TriggerSteps,
         plans[h][p].trigger = "armed" => plans[h][p].fireAt <= clock
  PROVE  Moved(h, p)
<1>1. \A g \in Handles : /\ plans[g] \in Seq(PlanRecord) /\ Len(plans[g]) \in Nat
                         /\ DOMAIN plans[g] = 1..Len(plans[g])
  BY PlansAreSequences
<1> DEFINE new == [plans[h][p] EXCEPT !.trigger = stage]
           s == [plans[h] EXCEPT ![p] = new]
<1>2. plans[h][p] \in PlanRecord /\ stage \in TriggerStages
  BY PlansAreSequences DEF TriggerSteps, TriggerStages
<1>3. /\ new \in PlanRecord /\ new.warmup = plans[h][p].warmup /\ new.trigger = stage
      /\ new.target = plans[h][p].target /\ new.made = plans[h][p].made
      /\ new.fireAt = plans[h][p].fireAt
  BY <1>2 DEF PlanRecord
<1>4. plans \in [Handles -> Seq(PlanRecord)]
  BY DEF SchedulerTypeOK
<1>5. plans' = [plans EXCEPT ![h] = s]
  BY <1>4 DEF SetTrigger
<1> HIDE DEF new
<1>6. s \in Seq(PlanRecord) /\ Len(s) = Len(plans[h])
  BY <1>1, <1>3
<1>7. s[p] = new /\ \A r \in DOMAIN plans[h] : r # p => s[r] = plans[h][r]
  BY <1>1
<1> HIDE DEF s
<1>8. plans'[h] = s /\ \A g \in Handles : g # h => plans'[g] = plans[g]
  BY <1>4, <1>5
<1>9. plans' \in [Handles -> Seq(PlanRecord)]
  BY <1>4, <1>5, <1>6
<1>10. QED
  BY <1>3, <1>6, <1>7, <1>8, <1>9 DEF Moved

LEMMA CallbackFacts ==
  ASSUME SchedulerTypeOK, NEW h \in Handles, NEW p \in DOMAIN plans[h], Callback(h, p)
  PROVE  /\ Moved(h, p)
         /\ UNCHANGED <<clock, cancelled, called>>
         /\ warmed' \in [Handles -> BOOLEAN] /\ registered' \subseteq Handles
<1>1. CASE WarmupFires(h, p)
  <2>1. {"over", "warming"} \subseteq WarmupStages \ {"armed"}
    BY DEF WarmupStages, Armed
  <2>2. QED
    BY <1>1, <2>1, SetWarmupFacts DEF WarmupFires, SchedulerTypeOK
<1>2. CASE \E ok \in BOOLEAN : WarmupEnds(h, p, ok)
  <2>1. "over" \in WarmupStages \ {"armed"}
    BY DEF WarmupStages, Armed
  <2>2. warmed' \in [Handles -> BOOLEAN]
    BY <1>2 DEF WarmupEnds, SchedulerTypeOK
  <2>3. QED
    BY <1>2, <2>1, <2>2, SetWarmupFacts DEF WarmupEnds, SchedulerTypeOK
<1>3. CASE TriggerFires(h, p)
  BY <1>3, SetTriggerFacts DEF TriggerFires, TriggerSteps, SchedulerTypeOK
<1>4. CASE TriggerActs(h, p)
  BY <1>4, SetTriggerFacts DEF TriggerActs, TriggerSteps, SchedulerTypeOK
<1>5. ASSUME NEW from, NEW outcome, TriggerEnds(h, p, from, outcome),
             <<from, outcome>> \in TriggerSteps, from # "armed"
      PROVE  /\ Moved(h, p) /\ UNCHANGED <<clock, cancelled, called, warmed>>
             /\ registered' \subseteq Handles
  BY <1>5, SetTriggerFacts DEF TriggerEnds, SchedulerTypeOK
<1>6. CASE TriggerEnds(h, p, "asking", "missed")
  BY <1>5, <1>6 DEF TriggerSteps, SchedulerTypeOK
<1>7. CASE \E outcome \in {"triggered", "missed"} : TriggerEnds(h, p, "acting", outcome)
  BY <1>5, <1>7 DEF TriggerSteps, SchedulerTypeOK
<1>8. QED
  BY <1>1, <1>2, <1>3, <1>4, <1>6, <1>7 DEF Callback

-----------------------------------------------------------------------------
(* The invariant *)

LEMMA CallbackKeepsInv ==
  ASSUME SchedulerInv, NEW h \in Handles, NEW p \in DOMAIN plans[h], Callback(h, p)
  PROVE  SchedulerInv'
<1>1. /\ Moved(h, p) /\ UNCHANGED <<clock, cancelled, called>>
      /\ warmed' \in [Handles -> BOOLEAN] /\ registered' \subseteq Handles
  BY CallbackFacts DEF SchedulerInv
<1>2. SchedulerTypeOK'
  BY <1>1 DEF SchedulerInv, SchedulerTypeOK, Moved
<1>3. \A g \in Handles : Len(plans'[g]) = Len(plans[g]) /\ DOMAIN plans'[g] = DOMAIN plans[g]
  <2> TAKE g \in Handles
  <2>1. plans'[g] \in Seq(PlanRecord) /\ plans[g] \in Seq(PlanRecord)
    BY <1>2 DEF SchedulerInv, SchedulerTypeOK
  <2>2. Len(plans'[g]) = Len(plans[g])
    BY <1>1 DEF Moved
  <2>3. QED
    BY <2>1, <2>2
<1>4. \A g \in Handles : \A r \in DOMAIN plans[g] :
        /\ plans'[g][r].trigger = "armed" => plans[g][r].trigger = "armed"
        /\ plans'[g][r].warmup = "armed" => plans[g][r].warmup = "armed"
        /\ plans'[g][r].target = plans[g][r].target
        /\ plans'[g][r].made = plans[g][r].made
        /\ plans'[g][r].fireAt = plans[g][r].fireAt
  BY <1>1 DEF Moved, TriggerSteps
<1>5. OnlyLastPlanIsArmed' /\ CancelDisarms'
  BY <1>1, <1>3, <1>4 DEF SchedulerInv, OnlyLastPlanIsArmed, CancelDisarms, SchedulerTypeOK
<1>6. FireAtIsDue'
  BY <1>3, <1>4 DEF SchedulerInv, FireAtIsDue
<1>7. QED
  BY <1>2, <1>5, <1>6 DEF SchedulerInv

LEMMA CancelKeepsInv ==
  ASSUME SchedulerInv, NEW h \in Handles, Cancel(h)
  PROVE  SchedulerInv'
<1>1. /\ plans \in [Handles -> Seq(PlanRecord)]
      /\ plans' = [plans EXCEPT ![h] = ClearTimers(plans[h])]
      /\ called' = called \cup {h}
  BY DEF Cancel, SchedulerInv, SchedulerTypeOK
<1>2. /\ ClearTimers(plans[h]) \in Seq(PlanRecord)
      /\ Len(ClearTimers(plans[h])) = Len(plans[h])
  BY ClearTimersFacts
<1>3. SchedulerTypeOK'
  BY <1>1, <1>2 DEF Cancel, SchedulerInv, SchedulerTypeOK
<1>4. DOMAIN ClearTimers(plans[h]) = DOMAIN plans[h]
  BY DEF ClearTimers
<1>5. \A p \in DOMAIN plans[h] :
        /\ Dormant(plans'[h][p])
        /\ plans'[h][p].target = plans[h][p].target /\ plans'[h][p].made = plans[h][p].made
        /\ plans'[h][p].fireAt = plans[h][p].fireAt
  BY <1>1, ClearTimersFacts
<1>6. plans'[h] = ClearTimers(plans[h]) /\ \A g \in Handles : g # h => plans'[g] = plans[g]
  BY <1>1
<1>7. OnlyLastPlanIsArmed' /\ CancelDisarms'
  BY <1>1, <1>4, <1>5, <1>6
     DEF SchedulerInv, OnlyLastPlanIsArmed, CancelDisarms, Dormant
<1>8. FireAtIsDue'
  BY <1>4, <1>5, <1>6 DEF SchedulerInv, FireAtIsDue
<1>9. QED
  BY <1>3, <1>7, <1>8 DEF SchedulerInv

LEMMA PlanKeepsInv ==
  ASSUME SchedulerInv, NEW h \in Handles, NEW time \in TriggerTimes, Plan(h, time)
  PROVE  SchedulerInv'
<1> DEFINE c == ClearTimers(plans[h])
           new == NewPlan(h, time)
<1>1. /\ plans \in [Handles -> Seq(PlanRecord)]
      /\ plans' = [plans EXCEPT ![h] = Append(c, new)]
      /\ called' = called \ {h}
  BY DEF Plan, SchedulerInv, SchedulerTypeOK
<1>2. /\ c \in Seq(PlanRecord) /\ Len(c) \in Nat /\ DOMAIN c = 1..Len(c)
      /\ DOMAIN c = DOMAIN plans[h]
  <2>1. c \in Seq(PlanRecord) /\ Len(c) = Len(plans[h])
    BY ClearTimersFacts
  <2>2. DOMAIN plans[h] = 1..Len(plans[h])
    BY PlansAreSequences DEF SchedulerInv
  <2> HIDE DEF c
  <2>3. QED
    BY <2>1, <2>2
<1>3. /\ new \in PlanRecord
      /\ new.fireAt = new.made + TimerDelay(new.target - new.made)
  BY NewPlanFacts DEF SchedulerInv
<1>4. \A p \in DOMAIN c :
        /\ Dormant(c[p])
        /\ c[p].fireAt = c[p].made + TimerDelay(c[p].target - c[p].made)
  BY <1>2, ClearTimersFacts DEF SchedulerInv, FireAtIsDue
<1> HIDE DEF c, new
<1>5. /\ Append(c, new) \in Seq(PlanRecord) /\ Len(Append(c, new)) = Len(c) + 1
      /\ DOMAIN Append(c, new) = 1..(Len(c) + 1)
      /\ \A p \in 1..Len(c) : Append(c, new)[p] = c[p]
      /\ Append(c, new)[Len(c) + 1] = new
  BY <1>2, <1>3
<1>6. SchedulerTypeOK'
  BY <1>1, <1>5 DEF Plan, SchedulerInv, SchedulerTypeOK
<1>7. /\ plans'[h] = Append(c, new)
      /\ \A g \in Handles : g # h => plans'[g] = plans[g]
  BY <1>1
<1>8. \A p \in DOMAIN plans'[h] : p \in 1..Len(c) \/ p = Len(c) + 1
  BY <1>2, <1>5, <1>7
<1>9. \A p \in DOMAIN plans'[h] : p # Len(plans'[h]) => Dormant(plans'[h][p])
  BY <1>2, <1>4, <1>5, <1>7, <1>8
<1>10. OnlyLastPlanIsArmed'
  BY <1>7, <1>9 DEF SchedulerInv, OnlyLastPlanIsArmed, Dormant
<1>11. CancelDisarms'
  BY <1>1, <1>7 DEF SchedulerInv, CancelDisarms, SchedulerTypeOK
<1>12. \A p \in DOMAIN plans'[h] :
         plans'[h][p].fireAt =
           plans'[h][p].made + TimerDelay(plans'[h][p].target - plans'[h][p].made)
  BY <1>2, <1>3, <1>4, <1>5, <1>7, <1>8
<1>13. FireAtIsDue'
  BY <1>7, <1>12 DEF SchedulerInv, FireAtIsDue
<1>14. QED
  BY <1>6, <1>10, <1>11, <1>13 DEF SchedulerInv

LEMMA SchedulerNextInv == SchedulerInv /\ [SchedulerNext]_schedulerVars => SchedulerInv'
<1> SUFFICES ASSUME SchedulerInv, [SchedulerNext]_schedulerVars  PROVE  SchedulerInv'
  OBVIOUS
<1>1. ASSUME NEW h \in Handles, NEW time \in TriggerTimes, Schedule(h, time) \/ Reschedule(h, time)
      PROVE  SchedulerInv'
  BY <1>1, PlanKeepsInv DEF Schedule, Reschedule
<1>2. CASE SchedulerTick \/ UNCHANGED schedulerVars
  <2>1. clock' \in Nat /\ UNCHANGED <<plans, cancelled, warmed, registered, called>>
    BY <1>2 DEF SchedulerTick, schedulerVars, SchedulerInv, SchedulerTypeOK
  <2>2. QED
    BY <2>1 DEF SchedulerInv, SchedulerTypeOK, OnlyLastPlanIsArmed, CancelDisarms, FireAtIsDue
<1>3. QED
  BY <1>1, <1>2, CancelKeepsInv, CallbackKeepsInv DEF SchedulerNext

\* Nothing is planned at first.
LEMMA SchedulerInitInv == ASSUME SchedulerInit  PROVE  SchedulerInv
<1>1. \A h \in Handles : plans[h] = <<>> /\ DOMAIN plans[h] = {}
  <2>1. DOMAIN <<>> = {}
    OBVIOUS
  <2>2. \A h \in Handles : plans[h] = <<>>
    BY DEF SchedulerInit
  <2>3. QED
    BY <2>1, <2>2
<1>2. SchedulerTypeOK
  BY DEF SchedulerInit, SchedulerTypeOK
<1>3. QED
  BY <1>1, <1>2 DEF SchedulerInit, SchedulerInv, OnlyLastPlanIsArmed, CancelDisarms,
     FireAtIsDue

LEMMA SchedulerInvariant == SchedulerSpec => []SchedulerInv
BY SchedulerInitInv, SchedulerNextInv, PTL DEF SchedulerSpec

\* A handle has timers armed for its last plan only, and none once cancel()
\* was the last call, whatever is suspended meanwhile.
THEOREM TimersStayConsistent == SchedulerSpec => []TimersConsistent
<1>1. SchedulerInv => TimersConsistent
  BY DEF SchedulerInv, TimersConsistent
<1>2. QED
  BY <1>1, SchedulerInvariant, PTL

\* No trigger fires before its moment, except one too far away for a timer.
THEOREM TriggersAreNeverEarly == SchedulerSpec => NeverEarly
<1> DEFINE Late == \A h \in Handles : \A p \in DOMAIN plans[h] :
                     /\ plans[h][p].trigger = "armed"
                     /\ plans'[h][p].trigger = "asking"
                     => \/ clock >= plans[h][p].target
                        \/ plans[h][p].target - plans[h][p].made > MaxDelay
<1>1. SchedulerInv /\ [SchedulerNext]_schedulerVars => [Late]_schedulerVars
  <2> SUFFICES ASSUME SchedulerInv, SchedulerNext, NEW h \in Handles,
                      NEW p \in DOMAIN plans[h], plans[h][p].trigger = "armed",
                      plans'[h][p].trigger = "asking"
               PROVE  \/ clock >= plans[h][p].target
                      \/ plans[h][p].target - plans[h][p].made > MaxDelay
    OBVIOUS
  <2>1. ASSUME NEW g \in Handles, NEW time \in TriggerTimes, Plan(g, time)
        PROVE  FALSE
    <3>1. CASE g = h
      <4>1. /\ ClearTimers(plans[h]) \in Seq(PlanRecord)
            /\ ClearTimers(plans[h])[p].trigger = "cleared"
            /\ p \in 1..Len(ClearTimers(plans[h]))
        BY ClearTimersFacts, PlansAreSequences DEF SchedulerInv
      <4>2. plans'[h] = Append(ClearTimers(plans[h]), NewPlan(h, time))
        BY <2>1, <3>1 DEF Plan, SchedulerInv, SchedulerTypeOK
      <4>3. plans'[h][p] = ClearTimers(plans[h])[p]
        BY <4>1, <4>2
      <4>4. QED
        BY <4>1, <4>3
    <3>2. CASE g # h
      BY <2>1, <3>2 DEF Plan, SchedulerInv, SchedulerTypeOK
    <3>3. QED
      BY <3>1, <3>2
  <2>2. ASSUME NEW g \in Handles, Cancel(g)  PROVE  FALSE
    <3>1. plans' = [plans EXCEPT ![g] = ClearTimers(plans[g])]
      BY <2>2 DEF Cancel
    <3>2. CASE g = h
      <4>1. plans'[h][p].trigger = "cleared"
        BY <3>1, <3>2, ClearTimersFacts DEF SchedulerInv, SchedulerTypeOK
      <4>2. QED
        BY <4>1
    <3>3. CASE g # h
      BY <3>1, <3>3 DEF SchedulerInv, SchedulerTypeOK
    <3>4. QED
      BY <3>2, <3>3
  <2>3. ~SchedulerTick
    BY DEF SchedulerTick
  <2>4. PICK g \in Handles : \E r \in DOMAIN plans[g] : Callback(g, r)
    BY <2>1, <2>2, <2>3 DEF SchedulerNext, Schedule, Reschedule
  <2>a. PICK r \in DOMAIN plans[g] : Callback(g, r)
    BY <2>4
  <2>5. Moved(g, r)
    BY <2>a, CallbackFacts DEF SchedulerInv
  <2>6. plans[h][p].fireAt <= clock
    BY <2>5 DEF Moved
  <2>7. /\ plans[h][p] \in PlanRecord
        /\ plans[h][p].fireAt =
             plans[h][p].made + TimerDelay(plans[h][p].target - plans[h][p].made)
    BY PlansAreSequences DEF SchedulerInv, FireAtIsDue
  <2>8. /\ plans[h][p].made \in Nat /\ plans[h][p].target \in Int
        /\ clock \in Nat /\ MaxDelay \in Nat
    BY <2>7, SchedulerAssumption
       DEF PlanRecord, SchedulerInv, SchedulerTypeOK, SchedulerAssumption
  <2>9. QED
    BY <2>6, <2>7, <2>8 DEF TimerDelay
<1>2. QED
  BY <1>1, SchedulerInvariant, PTL DEF SchedulerSpec, NeverEarly

-----------------------------------------------------------------------------
(* The refinement *)

LEMMA StagesFacts ==
  ASSUME SchedulerTypeOK, NEW h \in Handles
  PROVE  /\ PromisedStages[h] \in Seq(Deadline!Stages)
         /\ Len(PromisedStages[h]) = Len(plans[h])
         /\ DOMAIN PromisedStages[h] = DOMAIN plans[h]
         /\ \A p \in DOMAIN plans[h] : PromisedStages[h][p] = StageOf(plans[h][p])
<1>1. /\ Len(plans[h]) \in Nat /\ DOMAIN plans[h] = 1..Len(plans[h])
      /\ \A p \in DOMAIN plans[h] : plans[h][p] \in PlanRecord
  BY PlansAreSequences
<1>2. PromisedStages[h] = [p \in 1..Len(plans[h]) |-> StageOf(plans[h][p])]
  BY <1>1 DEF PromisedStages
<1>3. \A plan \in PlanRecord : StageOf(plan) \in Deadline!Stages
  BY DEF StageOf, Deadline!Stages, PlanRecord, TriggerStages, Armed
<1>4. PromisedStages[h] \in [1..Len(plans[h]) -> Deadline!Stages]
  BY <1>1, <1>2, <1>3
<1>5. PromisedStages[h] \in Seq(Deadline!Stages) /\ Len(PromisedStages[h]) = Len(plans[h])
  BY <1>1, <1>4
<1>6. QED
  BY <1>1, <1>2, <1>5

\* What the client sees of another handle does not change.
LEMMA OthersKeepStages ==
  ASSUME NEW h \in Handles, SchedulerTypeOK, plans'[h] = plans[h]
  PROVE  PromisedStages'[h] = PromisedStages[h]
BY DEF PromisedStages

LEMMA PlanIsPromised ==
  ASSUME SchedulerInv, SchedulerInv', NEW h \in Handles, NEW time \in TriggerTimes, Plan(h, time)
  PROVE  Deadline!Promise(h)
<1> DEFINE c == ClearTimers(plans[h])
           old == PromisedStages[h]
           off == Deadline!CallOff(old)
           new == PromisedStages'[h]
<1>1. /\ plans'[h] = Append(c, NewPlan(h, time))
      /\ \A g \in Handles : g # h => plans'[g] = plans[g]
  BY DEF Plan, SchedulerInv, SchedulerTypeOK
<1>2. /\ c \in Seq(PlanRecord) /\ Len(c) = Len(plans[h]) /\ Len(plans[h]) \in Nat
      /\ DOMAIN plans[h] = 1..Len(plans[h])
      /\ \A p \in DOMAIN plans[h] :
           c[p].trigger = IF plans[h][p].trigger = "armed" THEN "cleared"
                          ELSE plans[h][p].trigger
  BY ClearTimersFacts, PlansAreSequences DEF SchedulerInv
<1>3. /\ old \in Seq(Deadline!Stages) /\ Len(old) = Len(plans[h])
      /\ DOMAIN old = DOMAIN plans[h]
      /\ \A p \in DOMAIN plans[h] : old[p] = StageOf(plans[h][p])
  BY StagesFacts DEF SchedulerInv
<1>4. /\ new \in Seq(Deadline!Stages) /\ Len(new) = Len(plans'[h])
      /\ DOMAIN new = DOMAIN plans'[h]
      /\ \A p \in DOMAIN plans'[h] : new[p] = StageOf(plans'[h][p])
  <2>1. PromisedStages'[h] = [p \in DOMAIN plans'[h] |-> StageOf(plans'[h][p])]
    BY DEF PromisedStages
  <2>2. /\ plans'[h] \in Seq(PlanRecord) /\ Len(plans'[h]) \in Nat
        /\ DOMAIN plans'[h] = 1..Len(plans'[h])
    <3>1. plans'[h] \in Seq(PlanRecord)
      BY DEF SchedulerInv, SchedulerTypeOK
    <3>2. QED
      BY <3>1
  <2>3. \A plan \in PlanRecord : StageOf(plan) \in Deadline!Stages
    BY DEF StageOf, Deadline!Stages, PlanRecord, TriggerStages, Armed
  <2>4. PromisedStages'[h] \in [1..Len(plans'[h]) -> Deadline!Stages]
    BY <2>1, <2>2, <2>3
  <2>5. QED
    BY <2>1, <2>2, <2>4
<1>5. /\ off = [p \in 1..Len(old) |-> IF old[p] = "due" THEN "dropped" ELSE old[p]]
      /\ Len(old) \in Nat
  BY <1>2, <1>3 DEF Deadline!CallOff
<1>6. off \in Seq(Deadline!Stages) /\ Len(off) = Len(old)
  <2>1. off \in [1..Len(old) -> Deadline!Stages]
    BY <1>3, <1>5 DEF Deadline!Stages
  <2>2. QED
    BY <1>5, <2>1
<1> HIDE DEF c, old, off, new
<1>7. /\ Len(new) = Len(off) + 1
      /\ \A p \in 1..Len(off) : new[p] = StageOf(c[p])
      /\ new[Len(off) + 1] = StageOf(NewPlan(h, time))
  <2>1. NewPlan(h, time) \in PlanRecord
    BY NewPlanFacts DEF SchedulerInv
  <2>2. /\ Len(plans'[h]) = Len(c) + 1 /\ DOMAIN plans'[h] = 1..(Len(c) + 1)
        /\ plans'[h][Len(c) + 1] = NewPlan(h, time)
        /\ \A p \in 1..Len(c) : plans'[h][p] = c[p]
    BY <1>1, <1>2, <2>1
  <2>3. Len(off) = Len(c) /\ Len(c) \in Nat
    BY <1>2, <1>3, <1>6
  <2>4. \A p \in 1..Len(c) : p \in DOMAIN plans'[h]
    BY <2>2, <2>3
  <2>5. Len(c) + 1 \in DOMAIN plans'[h]
    BY <2>2, <2>3
  <2>6. QED
    BY <1>4, <2>2, <2>3, <2>4, <2>5
<1>8. \A p \in 1..Len(off) : StageOf(c[p]) = off[p]
  <2> SUFFICES ASSUME NEW p \in 1..Len(off)  PROVE  StageOf(c[p]) = off[p]
    OBVIOUS
  <2>1. p \in DOMAIN plans[h] /\ p \in 1..Len(old)
    BY <1>2, <1>3, <1>6
  <2>2. plans[h][p].trigger \in TriggerStages
    BY <2>1, PlansAreSequences DEF SchedulerInv, PlanRecord
  <2>3. c[p].trigger = IF plans[h][p].trigger = "armed" THEN "cleared"
                       ELSE plans[h][p].trigger
    BY <1>2, <2>1
  <2>4. old[p] = StageOf(plans[h][p])
    BY <1>3, <2>1
  <2>5. off[p] = IF old[p] = "due" THEN "dropped" ELSE old[p]
    BY <1>5, <2>1
  <2>6. QED
    BY <2>2, <2>3, <2>4, <2>5 DEF StageOf, TriggerStages, Armed
<1>9. StageOf(NewPlan(h, time)) = "due"
  BY NewPlanFacts DEF StageOf, SchedulerInv
<1>10. new = Append(off, "due")
  <2>1. /\ Append(off, "due") \in Seq(Deadline!Stages)
        /\ Len(Append(off, "due")) = Len(off) + 1 /\ Len(off) \in Nat
        /\ \A p \in 1..Len(off) : Append(off, "due")[p] = off[p]
        /\ Append(off, "due")[Len(off) + 1] = "due"
    BY <1>6 DEF Deadline!Stages
  <2>2. \A p \in 1..Len(new) : new[p] = Append(off, "due")[p]
    BY <1>7, <1>8, <1>9, <2>1
  <2>3. Len(new) = Len(Append(off, "due"))
    BY <1>7, <2>1
  <2>4. QED
    BY <1>4, <2>1, <2>2, <2>3, SeqEqual
<1>11. \A g \in Handles : g # h => PromisedStages'[g] = PromisedStages[g]
  BY <1>1, OthersKeepStages DEF SchedulerInv
<1>12. PromisedStages' = [PromisedStages EXCEPT ![h] = Append(off, "due")]
  <2>1. /\ PromisedStages' = [g \in Handles |-> PromisedStages'[g]]
        /\ PromisedStages = [g \in Handles |-> PromisedStages[g]]
    BY DEF PromisedStages
  <2>2. PromisedStages'[h] = Append(off, "due")
    BY <1>10 DEF new
  <2>3. QED
    BY <1>11, <2>1, <2>2
<1>13. QED
  BY <1>12 DEF Deadline!Promise, off, old

LEMMA CancelWithdraws ==
  ASSUME SchedulerInv, NEW h \in Handles, Cancel(h)
  PROVE  Deadline!Withdraw(h)
<1> DEFINE c == ClearTimers(plans[h])
           old == PromisedStages[h]
<1>1. /\ plans'[h] = c
      /\ \A g \in Handles : g # h => plans'[g] = plans[g]
  BY DEF Cancel, SchedulerInv, SchedulerTypeOK
<1>2. /\ DOMAIN old = DOMAIN plans[h] /\ DOMAIN c = DOMAIN plans[h]
      /\ \A p \in DOMAIN plans[h] : old[p] = StageOf(plans[h][p])
  BY StagesFacts DEF SchedulerInv, ClearTimers
<1>3. \A p \in DOMAIN plans[h] :
        StageOf(c[p]) = IF old[p] = "due" THEN "dropped" ELSE old[p]
  <2> SUFFICES ASSUME NEW p \in DOMAIN plans[h]
               PROVE  StageOf(c[p]) = IF old[p] = "due" THEN "dropped" ELSE old[p]
    OBVIOUS
  <2>1. plans[h][p].trigger \in TriggerStages
    BY PlansAreSequences DEF SchedulerInv, PlanRecord
  <2>2. c[p].trigger = IF plans[h][p].trigger = "armed" THEN "cleared"
                       ELSE plans[h][p].trigger
    BY ClearTimersFacts
  <2> HIDE DEF c, old
  <2>3. QED
    BY <1>2, <2>1, <2>2 DEF StageOf, TriggerStages, Armed
<1>4. PromisedStages'[h] = [p \in DOMAIN c |-> StageOf(c[p])]
  BY <1>1 DEF PromisedStages
<1> HIDE DEF c, old
<1>5. PromisedStages'[h] = [p \in DOMAIN old |-> IF old[p] = "due" THEN "dropped" ELSE old[p]]
  BY <1>2, <1>3, <1>4
<1>6. \A g \in Handles : g # h => PromisedStages'[g] = PromisedStages[g]
  BY <1>1, OthersKeepStages DEF SchedulerInv
<1>7. /\ PromisedStages' = [g \in Handles |-> PromisedStages'[g]]
      /\ PromisedStages = [g \in Handles |-> PromisedStages[g]]
  BY DEF PromisedStages
<1>8. PromisedStages' = [PromisedStages EXCEPT ![h] = Deadline!CallOff(old)]
  BY <1>5, <1>6, <1>7 DEF Deadline!CallOff
<1>9. QED
  BY <1>8 DEF Deadline!Withdraw, old

\* A callback takes one plan a stage further, or the client sees nothing.
LEMMA CallbackAdvances ==
  ASSUME SchedulerInv, SchedulerInv', NEW h \in Handles, NEW p \in DOMAIN plans[h],
         Moved(h, p)
  PROVE  \/ PromisedStages' = PromisedStages
         \/ Deadline!Advance(h, p, "due", "begun")
         \/ Deadline!Advance(h, p, "begun", "triggered")
         \/ Deadline!Advance(h, p, "begun", "missed")
<1> DEFINE to == StageOf(plans'[h][p])
<1>1. \A g \in Handles :
        /\ DOMAIN plans'[g] = DOMAIN plans[g]
        /\ DOMAIN PromisedStages[g] = DOMAIN plans[g]
        /\ PromisedStages[g] = [r \in DOMAIN plans[g] |-> StageOf(plans[g][r])]
        /\ PromisedStages'[g] = [r \in DOMAIN plans[g] |-> StageOf(plans'[g][r])]
  <2> TAKE g \in Handles
  <2>1. /\ plans'[g] \in Seq(PlanRecord) /\ plans[g] \in Seq(PlanRecord)
        /\ Len(plans'[g]) = Len(plans[g])
    BY DEF SchedulerInv, SchedulerTypeOK, Moved
  <2>2. DOMAIN plans'[g] = DOMAIN plans[g]
    BY <2>1
  <2>3. QED
    BY <2>2 DEF PromisedStages
<1>2. \A g \in Handles : \A r \in DOMAIN plans[g] :
        g # h \/ r # p => plans'[g][r] = plans[g][r]
  BY DEF Moved
<1>3. /\ PromisedStages' = [g \in Handles |-> PromisedStages'[g]]
      /\ PromisedStages = [g \in Handles |-> PromisedStages[g]]
  BY DEF PromisedStages
<1>4. \A g \in Handles : g # h => PromisedStages'[g] = PromisedStages[g]
  <2> SUFFICES ASSUME NEW g \in Handles, g # h
               PROVE  PromisedStages'[g] = PromisedStages[g]
    OBVIOUS
  <2>1. \A r \in DOMAIN plans[g] : StageOf(plans'[g][r]) = StageOf(plans[g][r])
    BY <1>2
  <2>2. QED
    BY <1>1, <2>1
<1>5. PromisedStages'[h] = [PromisedStages[h] EXCEPT ![p] = to]
  <2>1. \A r \in DOMAIN plans[h] :
          StageOf(plans'[h][r]) = IF r = p THEN to ELSE StageOf(plans[h][r])
    BY <1>2
  <2> HIDE DEF to
  <2>2. PromisedStages'[h] =
          [r \in DOMAIN plans[h] |-> IF r = p THEN to ELSE StageOf(plans[h][r])]
    BY <1>1, <2>1
  <2>3. /\ DOMAIN PromisedStages[h] = DOMAIN plans[h]
        /\ \A r \in DOMAIN plans[h] : PromisedStages[h][r] = StageOf(plans[h][r])
    BY <1>1
  <2>4. [PromisedStages[h] EXCEPT ![p] = to] =
          [r \in DOMAIN PromisedStages[h] |-> IF r = p THEN to ELSE PromisedStages[h][r]]
    OBVIOUS
  <2>5. QED
    BY <2>2, <2>3, <2>4
<1>6. PromisedStages' = [PromisedStages EXCEPT ![h] = [PromisedStages[h] EXCEPT ![p] = to]]
  BY <1>3, <1>4, <1>5
<1>7. PromisedStages[h][p] = StageOf(plans[h][p]) /\ p \in DOMAIN PromisedStages[h]
  BY <1>1
<1>8. \/ to = StageOf(plans[h][p])
      \/ <<StageOf(plans[h][p]), to>> \in
           {<<"due", "begun">>, <<"begun", "triggered">>, <<"begun", "missed">>}
  <2>1. CASE plans'[h][p].trigger = plans[h][p].trigger
    BY <2>1 DEF StageOf
  <2>2. CASE <<plans[h][p].trigger, plans'[h][p].trigger>> \in TriggerSteps
    BY <2>2 DEF StageOf, TriggerSteps
  <2>3. QED
    BY <2>1, <2>2 DEF Moved
<1> HIDE DEF to
<1>9. CASE to = StageOf(plans[h][p])
  <2>1. PromisedStages'[h] = PromisedStages[h]
    BY <1>1, <1>5, <1>7, <1>9
  <2>2. QED
    BY <1>3, <1>4, <2>1
<1>10. CASE <<StageOf(plans[h][p]), to>> \in
              {<<"due", "begun">>, <<"begun", "triggered">>, <<"begun", "missed">>}
  <2>1. \E from \in {"due", "begun"} : \E next \in {"begun", "triggered", "missed"} :
          <<from, next>> = <<StageOf(plans[h][p]), to>>
    BY <1>10
  <2>2. PromisedStages' = [PromisedStages EXCEPT ![h][p] = to]
    BY <1>6
  <2>3. QED
    BY <1>7, <1>10, <2>2 DEF Deadline!Advance
<1>11. QED
  BY <1>8, <1>9, <1>10

\* Whatever is called while callbacks are suspended, each plan begins once at
\* most and has one outcome, and one that was called off never begins.
THEOREM SchedulerKeepsPromise == SchedulerSpec => KeepsPromise
<1>1. SchedulerInit => Deadline!PromiseInit
  <2> SUFFICES ASSUME SchedulerInit  PROVE  Deadline!PromiseInit
    OBVIOUS
  <2>1. \A h \in Handles : PromisedStages[h] = <<>>
    <3> TAKE h \in Handles
    <3>1. plans[h] = <<>> /\ SchedulerTypeOK
      BY DEF SchedulerInit, SchedulerTypeOK
    <3>2. Len(PromisedStages[h]) = 0 /\ PromisedStages[h] \in Seq(Deadline!Stages)
      BY <3>1, StagesFacts
    <3>3. QED
      BY <3>2
  <2>2. PromisedStages = [h \in Handles |-> PromisedStages[h]]
    BY DEF PromisedStages
  <2>3. QED
    BY <2>1, <2>2 DEF Deadline!PromiseInit
<1>2. SchedulerInv /\ SchedulerInv' /\ [SchedulerNext]_schedulerVars
        => [Deadline!PromiseNext]_PromisedStages
  <2> SUFFICES ASSUME SchedulerInv, SchedulerInv', [SchedulerNext]_schedulerVars
               PROVE  [Deadline!PromiseNext]_PromisedStages
    OBVIOUS
  <2>1. ASSUME NEW h \in Handles, NEW time \in TriggerTimes,
               Schedule(h, time) \/ Reschedule(h, time)
        PROVE  Deadline!PromiseNext
    BY <2>1, PlanIsPromised DEF Schedule, Reschedule, Deadline!PromiseNext
  <2>2. ASSUME NEW h \in Handles, Cancel(h)  PROVE  Deadline!PromiseNext
    BY <2>2, CancelWithdraws DEF Deadline!PromiseNext
  <2>3. ASSUME NEW h \in Handles, NEW p \in DOMAIN plans[h], Callback(h, p)
        PROVE  [Deadline!PromiseNext]_PromisedStages
    <3>1. Moved(h, p)
      BY <2>3, CallbackFacts DEF SchedulerInv
    <3>2. DOMAIN PromisedStages[h] = DOMAIN plans[h]
      BY StagesFacts DEF SchedulerInv
    <3>3. QED
      BY <3>1, <3>2, CallbackAdvances DEF Deadline!PromiseNext
  <2>4. CASE SchedulerTick \/ UNCHANGED schedulerVars
    BY <2>4 DEF SchedulerTick, schedulerVars, PromisedStages
  <2>5. QED
    BY <2>1, <2>2, <2>3, <2>4 DEF SchedulerNext
<1>3. QED
  BY <1>1, <1>2, SchedulerInvariant, PTL DEF SchedulerSpec, KeepsPromise, Deadline!PromiseSafety

-----------------------------------------------------------------------------
(* The notices *)

NoticesTyped ==
  /\ notify \in [Notices -> {"idle", "dispatching", "returned", "threw"}]
  /\ reminderAt \in [Notices -> TriggerTimes \cup {None}]
  /\ at \in [Notices -> Nat]
  /\ delivered \in [Notices -> SUBSET DOMAIN Channels]
  /\ errors \in [Notices -> SUBSET DOMAIN Channels]
  /\ unregistered \subseteq ChannelNames
  /\ dismissedAt \subseteq Notices
  /\ reminderHandles \subseteq Notices
  /\ fired \in [Notices -> Nat]
  /\ calledOff \subseteq Notices

\* The channels tried so far are those before the i-th, each with one outcome.
Tried(n, i) ==
  /\ delivered[n] \cup errors[n] = 1..(i - 1)
  /\ delivered[n] \cap errors[n] = {}

\* Nothing was planned for a notification, or its timer has not called back.
Silent(n) == plans[n] = <<>> /\ fired[n] = 0 /\ n \notin reminderHandles /\ n \notin calledOff

NoticeAt(n) ==
  /\ notify[n] = "idle" => delivered[n] = {} /\ errors[n] = {} /\ Silent(n)
  /\ notify[n] = "dispatching" => at[n] \in DOMAIN Channels /\ Tried(n, at[n]) /\ Silent(n)
  /\ notify[n] = "returned" => delivered[n] = DOMAIN Channels /\ errors[n] = {}
  /\ notify[n] = "threw" => errors[n] # {} /\ Tried(n, Len(Channels) + 1) /\ Silent(n)
  /\ Len(plans[n]) <= 1
  /\ n \in reminderHandles => plans[n] # <<>>
  /\ fired[n] <= 1
  /\ plans[n] = <<>> => fired[n] = 0 /\ n \notin calledOff
  /\ plans[n] # <<>> =>
       /\ plans[n][1].trigger \in {"armed", "cleared", "asking"} => fired[n] = 0
       /\ n \in calledOff => plans[n][1].trigger = "cleared"

NoticeInv == NoticesTyped /\ \A n \in Notices : NoticeAt(n)

ServiceInv == SchedulerInv /\ FeedInv /\ NoticeInv

\* There is a channel to deliver to.
LEMMA ChannelsFacts ==
  /\ Len(Channels) \in Nat \ {0} /\ DOMAIN Channels = 1..Len(Channels)
  /\ \A j \in 1..Len(Channels) : Channels[j] \in STRING
<1>1. Channels \in Seq(STRING) /\ Channels # <<>>
  BY NotificationAssumption DEF NotificationAssumption
<1>2. QED
  BY <1>1, EmptySeq

\* The dispatch skips the channels that are not registered.
LEMMA NextChannelFacts ==
  ASSUME NEW i \in 0..Len(Channels)
  PROVE  /\ NextChannel(i) \in (i + 1)..(Len(Channels) + 1)
         /\ NextChannel(i) <= Len(Channels) => Channels[NextChannel(i)] \notin unregistered
<1> DEFINE Right(j) == /\ j <= Len(Channels) => Channels[j] \notin unregistered
                       /\ \A k \in (i + 1)..(j - 1) : Channels[k] \in unregistered
           S == {j \in (i + 1)..(Len(Channels) + 1) :
                   j <= Len(Channels) => Channels[j] \notin unregistered}
<1>1. Len(Channels) \in Nat /\ i \in Nat /\ i <= Len(Channels)
  BY ChannelsFacts
<1>2. Len(Channels) + 1 \in S
  BY <1>1
<1>3. S \subseteq Nat /\ S # {}
  BY <1>1, <1>2
<1>4. PICK j \in S : \A k \in S : j <= k
  <2> HIDE DEF S
  <2>1. QED
    BY <1>3, LeastNumber
<1>5. j \in (i + 1)..(Len(Channels) + 1) /\ (j <= Len(Channels) => Channels[j] \notin unregistered)
  BY <1>4
<1>6. \A k \in (i + 1)..(j - 1) : Channels[k] \in unregistered
  <2> SUFFICES ASSUME NEW k \in (i + 1)..(j - 1)  PROVE  Channels[k] \in unregistered
    OBVIOUS
  <2>1. k \in (i + 1)..(Len(Channels) + 1) /\ k <= Len(Channels) /\ ~(j <= k)
    BY <1>1, <1>5
  <2>2. k \notin S
    <3> HIDE DEF S
    <3>1. QED
      BY <1>4, <2>1
  <2>3. QED
    BY <2>1, <2>2
<1>7. \E r \in (i + 1)..(Len(Channels) + 1) : Right(r)
  BY <1>5, <1>6
<1>8. NextChannel(i) = CHOOSE r \in (i + 1)..(Len(Channels) + 1) : Right(r)
  BY DEF NextChannel
<1>9. QED
  BY <1>7, <1>8

-----------------------------------------------------------------------------
(* What a step does to the scheduler and to the feed *)

Announcements == {<<>>, <<"in-app">>, <<"created">>, <<"created", "audit">>,
                  <<"dismissed">>, <<"reminder">>}

\* Each announcement is a sequence of the feed's topics.
LEMMA AnnouncementsAreTopics == \A topics \in Announcements : topics \in Seq(Topics)
<1>1. {"in-app", "created", "audit", "dismissed", "reminder"} \subseteq Topics
  BY DEF Topics
<1>2. /\ "in-app" \in Topics /\ "created" \in Topics /\ "audit" \in Topics
      /\ "dismissed" \in Topics /\ "reminder" \in Topics
  BY <1>1
<1> HIDE DEF Topics
<1>3. /\ <<>> \in Seq(Topics) /\ <<"in-app">> \in Seq(Topics) /\ <<"created">> \in Seq(Topics)
      /\ <<"created", "audit">> \in Seq(Topics) /\ <<"dismissed">> \in Seq(Topics)
      /\ <<"reminder">> \in Seq(Topics)
  BY <1>2
<1>4. QED
  BY <1>3 DEF Announcements

\* An announcement keeps the feed consistent, within a handler or not.
LEMMA AnnounceKeepsFeed ==
  ASSUME FeedInv, NEW topics \in Announcements, NEW within, Announce(topics, within)
  PROVE  FeedInv'
<1>1. topics \in Seq(Topics) /\ "terminal" \in Topics
  BY AnnouncementsAreTopics DEF Topics
<1>2. CASE within
  <2>1. EmitNested("terminal", topics)
    BY <1>2 DEF Announce
  <2>2. QED
    BY <1>1, <2>1, EmitNestedKeepsInv
<1>3. CASE ~within
  <2>1. Emit(topics)
    BY <1>3 DEF Announce
  <2>2. QED
    BY <1>1, <2>1, EmitKeepsInv
<1>4. QED
  BY <1>2, <1>3

\* So does a step of #dispatch.
LEMMA GoOnKeepsFeed ==
  ASSUME FeedInv, NEW n, NEW i, NEW failed, NEW within, GoOn(n, i, failed, within)
  PROVE  FeedInv'
<1>1. \E topics \in Announcements : Announce(topics, within)
  <2>1. \/ Announce(IF Channels[NextChannel(i)] = "in-app" THEN <<"in-app">> ELSE <<>>, within)
        \/ Announce(IF n \in Urgent THEN <<"created", "audit">> ELSE <<"created">>, within)
    BY DEF GoOn
  <2>2. /\ (IF Channels[NextChannel(i)] = "in-app" THEN <<"in-app">> ELSE <<>>) \in Announcements
        /\ (IF n \in Urgent THEN <<"created", "audit">> ELSE <<"created">>) \in Announcements
    BY DEF Announcements
  <2>3. QED
    BY <2>1, <2>2
<1>2. QED
  BY <1>1, AnnounceKeepsFeed

\* So does a step that leaves the feed alone.
LEMMA SameFeedKeepsInv == ASSUME FeedInv, UNCHANGED feedVars  PROVE  FeedInv'
<1>1. UNCHANGED <<nextId, events, conn>>
  BY DEF feedVars
<1>2. BufferIsConsecutive /\ conn \in [Clients -> ConnRecord]
  BY FeedInvAtEach
<1>3. BufferIsConsecutive' /\ (conn \in [Clients -> ConnRecord])'
  BY <1>1, <1>2 DEF BufferIsConsecutive
<1>4. ASSUME NEW c \in Clients  PROVE  KeptUp(conn[c])'
  <2>1. KeptUp(conn[c])
    BY FeedInvAtEach
  <2>2. QED
    BY <1>1, <2>1 DEF KeptUp, OnlyTheEmitted, CaughtUpAt, OnceAt, OrderedAt
<1>5. QED
  BY <1>3, <1>4, FeedInvAtEachNext

\* Every step keeps the feed consistent.
LEMMA FeedNextInv ==
  ASSUME FeedInv, [NotificationNext]_notificationVars
  PROVE  FeedInv'
<1>1. ASSUME NEW n \in Notices, NEW time, Notify(n, time)  PROVE  FeedInv'
  BY <1>1, GoOnKeepsFeed DEF Notify
<1>2. ASSUME NEW n \in Notices, NotifyWithin(n)  PROVE  FeedInv'
  BY <1>2, GoOnKeepsFeed DEF NotifyWithin
<1>3. ASSUME NEW n \in Notices, NEW ok \in BOOLEAN, Delivered(n, ok)  PROVE  FeedInv'
  <2>1. \E failed : GoOn(n, at[n], failed, FALSE)
    BY <1>3 DEF Delivered
  <2>2. QED
    BY <2>1, GoOnKeepsFeed
<1>4. ASSUME NEW n \in Notices, Remind(n)  PROVE  FeedInv'
  <2>1. UNCHANGED feedVars \/ Emit(<<"reminder">>)
    BY <1>4 DEF Remind
  <2>2. <<"reminder">> \in Seq(Topics)
    BY AnnouncementsAreTopics DEF Announcements
  <2>3. QED
    BY <2>1, <2>2, EmitKeepsInv, SameFeedKeepsInv
<1>5. ASSUME NEW n \in Notices, Dismiss(n)  PROVE  FeedInv'
  <2>1. Emit(<<"dismissed">>)
    BY <1>5 DEF Dismiss
  <2>2. <<"dismissed">> \in Seq(Topics)
    BY AnnouncementsAreTopics DEF Announcements
  <2>3. QED
    BY <2>1, <2>2, EmitKeepsInv
<1>6. ASSUME NEW c \in Clients, ClientMove(c)  PROVE  FeedInv'
  BY <1>6, ClientMoveKeepsInv
<1>7. ASSUME \/ \E n \in Notices : ReminderCallback(n) \/ CancelReminder(n)
             \/ \E c \in ChannelNames : RegisterChannel(c)
             \/ Time \/ UNCHANGED notificationVars
      PROVE  FeedInv'
  <2>1. UNCHANGED feedVars
    BY <1>7 DEF ReminderCallback, CancelReminder, RegisterChannel, Time, notificationVars
  <2>2. QED
    BY <2>1, SameFeedKeepsInv
<1>8. QED
  BY <1>1, <1>2, <1>3, <1>4, <1>5, <1>6, <1>7 DEF NotificationNext, ServiceStep

\* The end of notify() plans one reminder or leaves the scheduler alone.
LEMMA GoOnSchedules ==
  ASSUME NEW n \in Notices, NEW i, NEW failed, NEW within, GoOn(n, i, failed, within),
         reminderAt' \in [Notices -> TriggerTimes \cup {None}]
  PROVE  \/ UNCHANGED <<schedulerVars, reminderHandles>>
         \/ /\ \E time \in TriggerTimes : Schedule(n, time)
            /\ reminderHandles' = reminderHandles \cup {n}
<1>1. reminderAt'[n] \in TriggerTimes \cup {None}
  OBVIOUS
<1>2. CASE NextChannel(i) <= Len(Channels)
  BY <1>2 DEF GoOn
<1>3. CASE ~(NextChannel(i) <= Len(Channels))
  <2>1. PICK all : Planned(n, all)
    BY <1>3 DEF GoOn
  <2>2. CASE all # {} \/ reminderAt'[n] = None
    BY <2>1, <2>2 DEF Planned
  <2>3. CASE ~(all # {} \/ reminderAt'[n] = None)
    <3>1. Schedule(n, reminderAt'[n]) /\ reminderHandles' = reminderHandles \cup {n}
      BY <2>1, <2>3 DEF Planned
    <3>2. reminderAt'[n] \in TriggerTimes
      BY <1>1, <2>3
    <3>3. QED
      BY <3>1, <3>2
  <2>4. QED
    BY <2>2, <2>3
<1>4. QED
  BY <1>2, <1>3

\* The reminders use the scheduler as its clients may.
LEMMA SchedulerStep ==
  ASSUME SchedulerInv, NoticeInv, [NotificationNext]_notificationVars
  PROVE  [SchedulerNext]_schedulerVars
<1>1. ASSUME NEW n \in Notices, NEW i, NEW failed, NEW within, GoOn(n, i, failed, within),
             reminderAt' \in [Notices -> TriggerTimes \cup {None}]
      PROVE  [SchedulerNext]_schedulerVars
  BY <1>1, GoOnSchedules DEF SchedulerNext, Notices
<1>2. reminderAt \in [Notices -> TriggerTimes \cup {None}]
  BY DEF NoticeInv, NoticesTyped
<1>3. ASSUME NEW n \in Notices, NEW time \in TriggerTimes \cup {None}, Notify(n, time)
      PROVE  [SchedulerNext]_schedulerVars
  <2>1. GoOn(n, 0, {}, FALSE) /\ reminderAt' = [reminderAt EXCEPT ![n] = time]
    BY <1>3 DEF Notify
  <2>2. reminderAt' \in [Notices -> TriggerTimes \cup {None}]
    BY <1>2, <2>1
  <2>3. QED
    BY <1>1, <2>1, <2>2
<1>4. ASSUME NEW n \in Notices, NotifyWithin(n)  PROVE  [SchedulerNext]_schedulerVars
  <2>1. GoOn(n, 0, {}, TRUE) /\ reminderAt' = [reminderAt EXCEPT ![n] = None]
    BY <1>4 DEF NotifyWithin
  <2>2. reminderAt' \in [Notices -> TriggerTimes \cup {None}]
    BY <1>2, <2>1
  <2>3. QED
    BY <1>1, <2>1, <2>2
<1>5. ASSUME NEW n \in Notices, NEW ok \in BOOLEAN, Delivered(n, ok)
      PROVE  [SchedulerNext]_schedulerVars
  <2>1. PICK failed : GoOn(n, at[n], failed, FALSE)
    BY <1>5 DEF Delivered
  <2>2. reminderAt' = reminderAt
    BY <1>5 DEF Delivered
  <2>3. QED
    BY <1>1, <1>2, <2>1, <2>2
<1>6. ASSUME NEW n \in Notices, plans[n] # <<>>, Remind(n) \/ ReminderCallback(n)
      PROVE  SchedulerNext
  <2>1. 1 \in DOMAIN plans[n]
    BY <1>6, PlansAreSequences, EmptySeq DEF SchedulerInv, Notices
  <2>2. Callback(n, 1)
    BY <1>6 DEF Remind, ReminderCallback, Callback
  <2>3. QED
    BY <2>1, <2>2 DEF SchedulerNext, Notices
<1>7. ASSUME NEW n \in Notices, CancelReminder(n)  PROVE  [SchedulerNext]_schedulerVars
  <2>1. Cancel(n) \/ UNCHANGED schedulerVars
    BY <1>7 DEF CancelReminder
  <2>2. QED
    BY <2>1 DEF SchedulerNext, Notices
<1>8. ASSUME \/ \E n \in Notices : Dismiss(n)
             \/ \E c \in ChannelNames : RegisterChannel(c)
             \/ \E c \in Clients : ClientMove(c) /\ UNCHANGED <<schedulerVars, noticeVars>>
             \/ UNCHANGED notificationVars
      PROVE  UNCHANGED schedulerVars
  BY <1>8 DEF Dismiss, RegisterChannel, notificationVars
<1>9. CASE Time
  BY <1>9 DEF Time, SchedulerNext
<1>10. QED
  BY <1>3, <1>4, <1>5, <1>6, <1>7, <1>8, <1>9 DEF NotificationNext, ServiceStep

-----------------------------------------------------------------------------
(* What a step does to the notices *)

\* What is done for one notification leaves the others alone.
LEMMA OtherNotices ==
  ASSUME NEW m, NoticeAt(m), plans'[m] = plans[m], notify'[m] = notify[m], at'[m] = at[m],
         delivered'[m] = delivered[m], errors'[m] = errors[m], fired'[m] = fired[m],
         m \in reminderHandles' <=> m \in reminderHandles,
         m \in calledOff' <=> m \in calledOff
  PROVE  NoticeAt(m)'
BY DEF NoticeAt, Tried, Silent

\* schedule() arms the one plan of its handle.
LEMMA ScheduleFacts ==
  ASSUME SchedulerInv, NEW n \in Notices, NEW time \in TriggerTimes, Schedule(n, time)
  PROVE  /\ Len(plans'[n]) = 1 /\ plans'[n] # <<>> /\ plans'[n][1].trigger = "armed"
         /\ \A m \in Notices : m # n => plans'[m] = plans[m]
<1> DEFINE c == ClearTimers(plans[n])
           new == NewPlan(n, time)
<1>1. /\ plans \in [Handles -> Seq(PlanRecord)] /\ plans[n] = <<>>
      /\ plans' = [plans EXCEPT ![n] = Append(c, new)]
  BY DEF Schedule, Plan, SchedulerInv, SchedulerTypeOK
<1>2. c \in Seq(PlanRecord) /\ Len(c) = Len(plans[n])
  BY ClearTimersFacts DEF Notices
<1>3. new \in PlanRecord /\ new.trigger = "armed"
  BY NewPlanFacts DEF SchedulerInv, Notices
<1> HIDE DEF c, new
<1>4. Len(c) = 0
  BY <1>1, <1>2
<1>5. plans'[n] = Append(c, new) /\ \A m \in Notices : m # n => plans'[m] = plans[m]
  BY <1>1 DEF Notices
<1>6. Len(Append(c, new)) = 1 /\ Append(c, new)[1] = new
  BY <1>2, <1>3, <1>4
<1>7. Append(c, new) # <<>>
  BY <1>6
<1>8. QED
  BY <1>3, <1>5, <1>6, <1>7

\* #dispatch goes on from any of its channels.
LEMMA GoOnKeepsNotices ==
  ASSUME SchedulerInv, NoticeInv, NEW n \in Notices, NEW i \in 0..Len(Channels), NEW failed,
         NEW within, GoOn(n, i, failed, within), Silent(n),
         delivered' \in [Notices -> SUBSET DOMAIN Channels],
         delivered'[n] \cup failed = 1..i, delivered'[n] \cap failed = {},
         \A m \in Notices : m # n => delivered'[m] = delivered[m],
         reminderAt' \in [Notices -> TriggerTimes \cup {None}],
         UNCHANGED <<unregistered, dismissedAt, fired, calledOff>>
  PROVE  NoticeInv'
<1> DEFINE j == NextChannel(i)
           all == failed \cup ((i + 1)..(j - 1))
<1>1. /\ Len(Channels) \in Nat \ {0} /\ DOMAIN Channels = 1..Len(Channels)
      /\ i \in Nat /\ i <= Len(Channels) /\ j \in (i + 1)..(Len(Channels) + 1)
  BY ChannelsFacts, NextChannelFacts
<1>2. /\ at' = [at EXCEPT ![n] = j] /\ errors' = [errors EXCEPT ![n] = all]
      /\ j <= Len(Channels) =>
           /\ notify' = [notify EXCEPT ![n] = "dispatching"]
           /\ UNCHANGED <<schedulerVars, reminderHandles>>
      /\ ~(j <= Len(Channels)) =>
           /\ notify' = [notify EXCEPT ![n] = IF all = {} THEN "returned" ELSE "threw"]
           /\ Planned(n, all)
  BY DEF GoOn
<1> HIDE DEF j
<1>3. all \subseteq 1..(j - 1) /\ all \subseteq DOMAIN Channels
  <2>1. failed \subseteq 1..i /\ i <= j - 1
    BY <1>1
  <2>2. (i + 1)..(j - 1) \subseteq 1..(j - 1)
    BY <1>1
  <2>3. 1..i \subseteq 1..(j - 1) /\ 1..(j - 1) \subseteq 1..Len(Channels)
    BY <1>1, <2>1
  <2>4. QED
    BY <1>1, <2>1, <2>2, <2>3
<1>4. delivered'[n] \cup all = 1..(j - 1) /\ delivered'[n] \cap all = {}
  <2>1. \A x : x \in 1..(j - 1) <=> x \in 1..i \/ x \in (i + 1)..(j - 1)
    BY <1>1
  <2>2. \A x : ~(x \in 1..i /\ x \in (i + 1)..(j - 1))
    BY <1>1
  <2>3. QED
    BY <2>1, <2>2
<1>5. /\ notify \in [Notices -> {"idle", "dispatching", "returned", "threw"}]
      /\ at \in [Notices -> Nat] /\ errors \in [Notices -> SUBSET DOMAIN Channels]
      /\ reminderHandles \subseteq Notices /\ unregistered \subseteq ChannelNames
      /\ dismissedAt \subseteq Notices /\ fired \in [Notices -> Nat] /\ calledOff \subseteq Notices
  BY DEF NoticeInv, NoticesTyped
<1>6. \/ UNCHANGED <<schedulerVars, reminderHandles>>
      \/ /\ \E time \in TriggerTimes : Schedule(n, time)
         /\ reminderHandles' = reminderHandles \cup {n}
  BY GoOnSchedules
<1>7. j \in Nat /\ (~(j <= Len(Channels)) => j = Len(Channels) + 1)
  BY <1>1
<1> HIDE DEF all
<1>8. \A m \in Notices : m # n => at'[m] = at[m] /\ errors'[m] = errors[m]
  BY <1>2, <1>5
<1>9. at'[n] = j /\ errors'[n] = all
  BY <1>2, <1>5
<1>10. \/ /\ j <= Len(Channels) /\ notify' = [notify EXCEPT ![n] = "dispatching"]
       \/ /\ j = Len(Channels) + 1 /\ all = {} /\ notify' = [notify EXCEPT ![n] = "returned"]
       \/ /\ j = Len(Channels) + 1 /\ all # {} /\ notify' = [notify EXCEPT ![n] = "threw"]
  BY <1>2, <1>7
<1>11. /\ notify' \in [Notices -> {"idle", "dispatching", "returned", "threw"}]
       /\ \A m \in Notices : m # n => notify'[m] = notify[m]
       /\ \/ j <= Len(Channels) /\ notify'[n] = "dispatching"
          \/ j = Len(Channels) + 1 /\ all = {} /\ notify'[n] = "returned"
          \/ j = Len(Channels) + 1 /\ all # {} /\ notify'[n] = "threw"
  BY <1>5, <1>10
<1>12. /\ at' \in [Notices -> Nat] /\ errors' \in [Notices -> SUBSET DOMAIN Channels]
  BY <1>2, <1>3, <1>5, <1>7
<1>13. NoticesTyped'
  <2>1. reminderHandles' \subseteq Notices
    BY <1>5, <1>6
  <2>2. QED
    BY <1>5, <1>11, <1>12, <2>1 DEF NoticesTyped, ChannelNames
<1>14. \A m \in Notices : m # n =>
         plans'[m] = plans[m] /\ (m \in reminderHandles' <=> m \in reminderHandles)
  <2>1. CASE UNCHANGED <<schedulerVars, reminderHandles>>
    BY <2>1 DEF schedulerVars
  <2>2. CASE /\ \E time \in TriggerTimes : Schedule(n, time)
             /\ reminderHandles' = reminderHandles \cup {n}
    BY <2>2, ScheduleFacts
  <2>3. QED
    BY <1>6, <2>1, <2>2
<1>15. ASSUME NEW m \in Notices, m # n  PROVE  NoticeAt(m)'
  <2>1. NoticeAt(m)
    BY DEF NoticeInv
  <2>2. QED
    BY <1>8, <1>11, <1>14, <1>15, <2>1, OtherNotices
<1>16. NoticeAt(n)'
  <2>1. plans[n] = <<>> /\ fired[n] = 0 /\ n \notin reminderHandles /\ n \notin calledOff
    BY DEF Silent
  <2>2. fired'[n] = 0 /\ n \notin calledOff'
    BY <2>1
  <2>3. \/ plans'[n] = <<>> /\ n \notin reminderHandles'
        \/ /\ Len(plans'[n]) = 1 /\ plans'[n] # <<>> /\ plans'[n][1].trigger = "armed"
           /\ all = {} /\ j = Len(Channels) + 1
    <3>1. CASE UNCHANGED <<schedulerVars, reminderHandles>>
      BY <2>1, <3>1 DEF schedulerVars
    <3>2. CASE ~(j <= Len(Channels)) /\ all = {} /\ reminderAt'[n] # None
      <4>1. Schedule(n, reminderAt'[n]) /\ reminderAt'[n] \in TriggerTimes
        BY <1>2, <3>2 DEF Planned
      <4>2. QED
        BY <1>7, <3>2, <4>1, ScheduleFacts
    <3>3. QED
      BY <1>2, <3>1, <3>2 DEF Planned
  <2>4. CASE j <= Len(Channels) /\ notify'[n] = "dispatching"
    <3>1. j \in DOMAIN Channels
      BY <1>1, <2>4
    <3>2. plans'[n] = <<>> /\ n \notin reminderHandles'
      BY <1>1, <2>3, <2>4
    <3>3. Tried(n, at[n])'
      BY <1>4, <1>9 DEF Tried
    <3>4. Silent(n)'
      BY <2>2, <3>2 DEF Silent
    <3>5. Len(plans'[n]) <= 1
      BY <3>2
    <3>6. QED
      BY <1>9, <2>2, <2>4, <3>1, <3>2, <3>3, <3>4, <3>5 DEF NoticeAt
  <2>5. CASE j = Len(Channels) + 1 /\ all = {} /\ notify'[n] = "returned"
    <3>1. delivered'[n] = DOMAIN Channels /\ errors'[n] = {}
      BY <1>1, <1>4, <1>9, <2>5
    <3>2. Len(plans'[n]) <= 1
      <4>1. CASE plans'[n] = <<>>
        BY <4>1
      <4>2. CASE plans'[n] # <<>>
        <5>1. Len(plans'[n]) = 1
          BY <2>3, <4>2
        <5>2. QED
          BY <5>1
      <4>3. QED
        BY <4>1, <4>2
    <3>3. QED
      BY <2>2, <2>3, <2>5, <3>1, <3>2 DEF NoticeAt
  <2>6. CASE j = Len(Channels) + 1 /\ all # {} /\ notify'[n] = "threw"
    <3>1. plans'[n] = <<>> /\ n \notin reminderHandles'
      BY <2>3, <2>6
    <3>2. Tried(n, Len(Channels) + 1)'
      BY <1>4, <1>9, <2>6 DEF Tried
    <3>3. Silent(n)'
      BY <2>2, <3>1 DEF Silent
    <3>4. Len(plans'[n]) <= 1
      BY <3>1
    <3>5. QED
      BY <1>9, <2>2, <2>6, <3>1, <3>2, <3>3, <3>4 DEF NoticeAt
  <2>7. QED
    BY <1>11, <2>4, <2>5, <2>6
<1>17. QED
  BY <1>13, <1>15, <1>16 DEF NoticeInv

\* A sequence with an element is not empty.
LEMMA OneIsSome == ASSUME NEW s, Len(s) = 1  PROVE  s # <<>>
<1>1. Len(<<>>) = 0
  OBVIOUS
<1>2. SUFFICES ASSUME s = <<>>  PROVE  FALSE
  OBVIOUS
<1>3. Len(s) = 0
  BY <1>1, <1>2, Zenon
<1>4. QED
  BY <1>3

\* notify() is called, or one of its deliveries settles.
LEMMA DispatchKeepsNotices ==
  ASSUME SchedulerInv, NoticeInv, NEW n \in Notices,
         \/ \E time \in TriggerTimes \cup {None} : Notify(n, time)
         \/ NotifyWithin(n)
         \/ \E ok \in BOOLEAN : Delivered(n, ok)
  PROVE  NoticeInv'
<1>1. /\ NoticeAt(n) /\ delivered \in [Notices -> SUBSET DOMAIN Channels]
      /\ errors \in [Notices -> SUBSET DOMAIN Channels]
      /\ reminderAt \in [Notices -> TriggerTimes \cup {None}]
  BY DEF NoticeInv, NoticesTyped
<1>2. Len(Channels) \in Nat \ {0} /\ DOMAIN Channels = 1..Len(Channels)
  BY ChannelsFacts
<1>3. ASSUME NEW time \in TriggerTimes \cup {None}, NEW within,
             notify[n] = "idle", reminderAt' = [reminderAt EXCEPT ![n] = time],
             GoOn(n, 0, {}, within),
             UNCHANGED <<delivered, unregistered, dismissedAt, fired, calledOff>>
      PROVE  NoticeInv'
  <2>1. delivered[n] = {} /\ Silent(n)
    BY <1>1, <1>3 DEF NoticeAt
  <2>2. 0 \in 0..Len(Channels) /\ 1..0 = {}
    BY <1>2
  <2>3. /\ delivered' \in [Notices -> SUBSET DOMAIN Channels]
        /\ delivered'[n] \cup {} = 1..0 /\ delivered'[n] \cap {} = {}
        /\ \A m \in Notices : m # n => delivered'[m] = delivered[m]
    BY <1>1, <1>3, <2>1, <2>2
  <2>4. reminderAt' \in [Notices -> TriggerTimes \cup {None}]
    BY <1>1, <1>3
  <2>5. UNCHANGED <<unregistered, dismissedAt, fired, calledOff>>
    BY <1>3
  <2>6. QED
    BY <1>3, <2>1, <2>2, <2>3, <2>4, <2>5, GoOnKeepsNotices
<1>4. ASSUME NEW ok \in BOOLEAN, Delivered(n, ok)  PROVE  NoticeInv'
  <2> DEFINE failed == IF ok THEN errors[n] ELSE errors[n] \cup {at[n]}
  <2>1. /\ notify[n] = "dispatching" /\ reminderAt' = reminderAt
        /\ delivered' = [delivered EXCEPT ![n] = IF ok THEN @ \cup {at[n]} ELSE @]
        /\ GoOn(n, at[n], failed, FALSE)
        /\ UNCHANGED <<unregistered, dismissedAt, fired, calledOff>>
    BY <1>4 DEF Delivered
  <2>2. at[n] \in 1..Len(Channels) /\ Tried(n, at[n]) /\ Silent(n)
    BY <1>1, <1>2, <2>1 DEF NoticeAt
  <2>3. at[n] \in 0..Len(Channels)
    BY <1>2, <2>2
  <2>4. 1..at[n] = (1..(at[n] - 1)) \cup {at[n]} /\ at[n] \notin 1..(at[n] - 1)
    BY <1>2, <2>2
  <2>5. delivered[n] \cup errors[n] = 1..(at[n] - 1) /\ delivered[n] \cap errors[n] = {}
    BY <2>2 DEF Tried
  <2>6. /\ delivered'[n] = IF ok THEN delivered[n] \cup {at[n]} ELSE delivered[n]
        /\ \A m \in Notices : m # n => delivered'[m] = delivered[m]
        /\ delivered' \in [Notices -> SUBSET DOMAIN Channels]
    <3>1. at[n] \in DOMAIN Channels
      BY <1>2, <2>2
    <3>2. QED
      BY <1>1, <2>1, <3>1
  <2>7. delivered'[n] \cup failed = 1..at[n] /\ delivered'[n] \cap failed = {}
    <3>1. CASE ok
      BY <2>4, <2>5, <2>6, <3>1
    <3>2. CASE ~ok
      BY <2>4, <2>5, <2>6, <3>2
    <3>3. QED
      BY <3>1, <3>2
  <2> HIDE DEF failed
  <2>8. reminderAt' \in [Notices -> TriggerTimes \cup {None}]
    BY <1>1, <2>1
  <2>9. QED
    BY <2>1, <2>2, <2>3, <2>6, <2>7, <2>8, GoOnKeepsNotices
<1>5. ASSUME NEW time \in TriggerTimes \cup {None}, Notify(n, time)  PROVE  NoticeInv'
  BY <1>3, <1>5 DEF Notify
<1>6. ASSUME NotifyWithin(n)  PROVE  NoticeInv'
  BY <1>3, <1>6 DEF NotifyWithin
<1>7. QED
  BY <1>4, <1>5, <1>6

\* A callback of the reminder, which may fire it.
LEMMA ReminderKeepsNotices ==
  ASSUME SchedulerInv, NoticeInv, NEW n \in Notices, plans[n] # <<>>,
         Remind(n) \/ ReminderCallback(n)
  PROVE  NoticeInv'
<1>1. /\ NoticeAt(n) /\ fired \in [Notices -> Nat] /\ plans \in [Notices -> Seq(PlanRecord)]
  BY DEF NoticeInv, NoticesTyped, SchedulerInv, SchedulerTypeOK, Notices
<1>2. Len(plans[n]) = 1 /\ 1 \in DOMAIN plans[n] /\ DOMAIN plans[n] = 1..Len(plans[n])
  <2>1. Len(plans[n]) \in Nat /\ DOMAIN plans[n] = 1..Len(plans[n]) /\ Len(plans[n]) # 0
    BY <1>1, EmptySeq
  <2>2. QED
    BY <1>1, <2>1 DEF NoticeAt
<1>3. notify[n] = "returned"
  BY <1>1 DEF NoticeAt, Silent, NoticeInv, NoticesTyped
<1>4. /\ UNCHANGED <<dispatchVars, unregistered, dismissedAt, reminderHandles, calledOff>>
      /\ Callback(n, 1)
  BY DEF Remind, ReminderCallback, Callback, noticeVars
<1>5. Moved(n, 1)
  BY <1>2, <1>4, CallbackFacts DEF SchedulerInv, Notices
<1>6. /\ plans' \in [Notices -> Seq(PlanRecord)] /\ Len(plans'[n]) = 1
      /\ \A m \in Notices : m # n => plans'[m] = plans[m]
      /\ \/ plans'[n][1].trigger = plans[n][1].trigger
         \/ <<plans[n][1].trigger, plans'[n][1].trigger>> \in TriggerSteps
  BY <1>1, <1>2, <1>5 DEF Moved, Notices
<1>7. \/ fired' = fired
      \/ /\ fired' = [fired EXCEPT ![n] = @ + 1]
         /\ plans[n][1].trigger = "asking" /\ plans'[n][1].trigger = "acting"
  <2>1. CASE Remind(n)
    <3>1. plans[n][1].trigger = "asking" /\ plans' = [plans EXCEPT ![n][1].trigger = "acting"]
      BY <2>1 DEF Remind, TriggerActs, SetTrigger
    <3>2. plans'[n][1].trigger = "acting"
      <4>1. plans[n][1] \in PlanRecord
        BY <1>1, <1>2
      <4>2. plans'[n][1] = [plans[n][1] EXCEPT !.trigger = "acting"]
        BY <1>1, <1>2, <3>1
      <4>3. QED
        BY <4>1, <4>2 DEF PlanRecord
    <3>3. QED
      BY <2>1, <3>1, <3>2 DEF Remind
  <2>2. CASE ReminderCallback(n)
    BY <2>2 DEF ReminderCallback, noticeVars
  <2>3. QED
    BY <2>1, <2>2
<1>8. NoticesTyped'
  <2>1. fired' \in [Notices -> Nat]
    <3>1. fired[n] + 1 \in Nat
      BY <1>1
    <3>2. CASE fired' = fired
      BY <1>1, <3>2
    <3>3. CASE fired' = [fired EXCEPT ![n] = fired[n] + 1]
      BY <1>1, <3>1, <3>3
    <3>4. QED
      BY <1>7, <3>2, <3>3
  <2>2. QED
    BY <1>4, <2>1 DEF NoticeInv, NoticesTyped, dispatchVars, ChannelNames
<1>9. ASSUME NEW m \in Notices, m # n  PROVE  NoticeAt(m)'
  <2>1. NoticeAt(m) /\ fired'[m] = fired[m]
    BY <1>1, <1>7, <1>9 DEF NoticeInv
  <2>2. QED
    BY <1>4, <1>6, <1>9, <2>1, OtherNotices DEF dispatchVars
<1>10. NoticeAt(n)'
  <2>1. /\ notify'[n] = "returned" /\ delivered'[n] = DOMAIN Channels /\ errors'[n] = {}
        /\ plans'[n] # <<>>
    <3>1. plans'[n] # <<>>
      BY <1>6, OneIsSome
    <3>2. QED
      BY <1>1, <1>3, <1>4, <3>1 DEF NoticeAt, dispatchVars
  <2>2. /\ n \in calledOff => plans[n][1].trigger = "cleared"
        /\ plans[n][1].trigger \in {"armed", "cleared", "asking"} => fired[n] = 0
        /\ fired[n] <= 1 /\ fired[n] \in Nat
    BY <1>1 DEF NoticeAt
  <2>3. n \in calledOff' => plans'[n][1].trigger = "cleared"
    BY <1>4, <1>6, <2>2 DEF TriggerSteps
  <2>4. plans'[n][1].trigger \in {"armed", "cleared", "asking"} => fired'[n] = 0
    BY <1>1, <1>6, <1>7, <2>2 DEF TriggerSteps
  <2>5. fired'[n] <= 1
    BY <1>1, <1>7, <2>2
  <2>6. QED
    BY <1>6, <2>1, <2>3, <2>4, <2>5 DEF NoticeAt
<1>11. QED
  BY <1>8, <1>9, <1>10 DEF NoticeInv

\* A reminder is cancelled, its notification still being delivered or not.
LEMMA CancelKeepsNotices ==
  ASSUME SchedulerInv, NoticeInv, NEW n \in Notices, CancelReminder(n)
  PROVE  NoticeInv'
<1>1. /\ NoticeAt(n) /\ plans \in [Notices -> Seq(PlanRecord)]
      /\ reminderHandles \subseteq Notices /\ calledOff \subseteq Notices
  BY DEF NoticeInv, NoticesTyped, SchedulerInv, SchedulerTypeOK, Notices
<1>2. /\ UNCHANGED <<feedVars, dispatchVars, unregistered, dismissedAt, fired>>
      /\ reminderHandles' = reminderHandles \ {n}
      /\ calledOff' = IF CallsOff(n) THEN calledOff \cup {n} ELSE calledOff
      /\ IF n \in reminderHandles THEN Cancel(n) ELSE UNCHANGED schedulerVars
  BY DEF CancelReminder
<1>3. NoticesTyped'
  BY <1>1, <1>2 DEF NoticeInv, NoticesTyped, dispatchVars, ChannelNames
<1>4. CASE n \notin reminderHandles
  <2>1. /\ plans' = plans /\ calledOff' = calledOff /\ reminderHandles' = reminderHandles
    BY <1>2, <1>4 DEF CallsOff, schedulerVars
  <2>2. ASSUME NEW m \in Notices  PROVE  NoticeAt(m)'
    BY <1>2, <2>1, OtherNotices DEF NoticeInv, dispatchVars
  <2>3. QED
    BY <1>3, <2>2 DEF NoticeInv
<1>5. CASE n \in reminderHandles
  <2>1. Cancel(n) /\ plans' = [plans EXCEPT ![n] = ClearTimers(plans[n])]
    BY <1>2, <1>5 DEF Cancel
  <2>2. plans[n] # <<>> /\ Len(plans[n]) = 1 /\ DOMAIN plans[n] = {1}
    <3>1. plans[n] # <<>>
      BY <1>1, <1>5 DEF NoticeAt
    <3>2. Len(plans[n]) \in Nat /\ DOMAIN plans[n] = 1..Len(plans[n]) /\ Len(plans[n]) # 0
      BY <1>1, <3>1, EmptySeq
    <3>3. Len(plans[n]) = 1
      BY <1>1, <3>2 DEF NoticeAt
    <3>4. QED
      BY <3>1, <3>2, <3>3
  <2>3. plans[n][1] \in PlanRecord
    BY <1>1, <2>2
  <2>4. /\ plans'[n] = [p \in DOMAIN plans[n] |-> Cleared(plans[n][p])]
        /\ \A m \in Notices : m # n => plans'[m] = plans[m]
    BY <1>1, <2>1, <2>2 DEF ClearTimers
  <2>5. plans'[n][1] = Cleared(plans[n][1])
    BY <2>2, <2>4
  <2>6. plans'[n][1].trigger = IF plans[n][1].trigger = "armed" THEN "cleared" ELSE plans[n][1].trigger
    BY <2>3, <2>5 DEF Cleared, PlanRecord
  <2>7. Len(plans'[n]) = 1 /\ plans'[n] # <<>>
    <3>1. Len(ClearTimers(plans[n])) = 1 /\ ClearTimers(plans[n]) \in Seq(PlanRecord)
      BY <2>2, ClearTimersFacts DEF Notices
    <3>2. plans'[n] = ClearTimers(plans[n])
      BY <1>1, <2>1
    <3>3. Len(plans'[n]) = 1
      BY <3>1, <3>2
    <3>4. QED
      BY <3>3, OneIsSome
  <2>8. notify[n] = "returned"
    BY <1>1, <2>2 DEF NoticeAt, Silent, NoticeInv, NoticesTyped
  <2>9. NoticeAt(n)'
    <3>1. n \in calledOff' => plans'[n][1].trigger = "cleared"
      BY <1>1, <1>2, <2>2, <2>6 DEF NoticeAt, CallsOff
    <3>2. plans'[n][1].trigger \in {"armed", "cleared", "asking"} => fired'[n] = 0
      BY <1>1, <1>2, <2>2, <2>6 DEF NoticeAt
    <3>3. QED
      BY <1>1, <1>2, <2>7, <2>8, <3>1, <3>2 DEF NoticeAt, dispatchVars
  <2>10. ASSUME NEW m \in Notices, m # n  PROVE  NoticeAt(m)'
    BY <1>2, <2>4, <2>10, OtherNotices DEF NoticeInv, dispatchVars
  <2>11. QED
    BY <1>3, <2>9, <2>10 DEF NoticeInv
<1>6. QED
  BY <1>4, <1>5

\* Every step keeps what is known of each notification.
LEMMA NoticeNextInv ==
  ASSUME SchedulerInv, NoticeInv, [NotificationNext]_notificationVars
  PROVE  NoticeInv'
<1>1. ASSUME UNCHANGED <<plans, notify, at, delivered, errors, fired, reminderHandles, calledOff,
                         reminderAt>>,
             unregistered' \subseteq ChannelNames, dismissedAt' \subseteq Notices
      PROVE  NoticeInv'
  <2>1. ASSUME NEW m \in Notices  PROVE  NoticeAt(m)'
    BY <1>1, OtherNotices DEF NoticeInv
  <2>2. NoticesTyped'
    BY <1>1 DEF NoticeInv, NoticesTyped, ChannelNames
  <2>3. QED
    BY <2>1, <2>2 DEF NoticeInv
<1>2. unregistered \subseteq ChannelNames /\ dismissedAt \subseteq Notices
  BY DEF NoticeInv, NoticesTyped
<1>3. ASSUME NEW n \in Notices, Dismiss(n)  PROVE  NoticeInv'
  BY <1>1, <1>2, <1>3 DEF Dismiss, schedulerVars, dispatchVars
<1>4. ASSUME NEW c \in ChannelNames, RegisterChannel(c)  PROVE  NoticeInv'
  BY <1>1, <1>2, <1>4 DEF RegisterChannel, schedulerVars, dispatchVars
<1>5. ASSUME NEW c \in Clients, UNCHANGED <<schedulerVars, noticeVars>>  PROVE  NoticeInv'
  BY <1>1, <1>2, <1>5 DEF schedulerVars, noticeVars, dispatchVars
<1>6. CASE Time \/ UNCHANGED notificationVars
  BY <1>1, <1>2, <1>6 DEF Time, SchedulerTick, notificationVars, schedulerVars, noticeVars, dispatchVars
<1>7. QED
  BY <1>3, <1>4, <1>5, <1>6, DispatchKeepsNotices, ReminderKeepsNotices, CancelKeepsNotices
     DEF NotificationNext, ServiceStep

-----------------------------------------------------------------------------

\* The inductive invariant of the scheduler, the feed and the notices.
LEMMA ServiceInvariant == NotificationSpec => []ServiceInv
<1>1. NotificationInit => ServiceInv
  <2> SUFFICES ASSUME NotificationInit  PROVE  ServiceInv
    OBVIOUS
  <2>1. SchedulerInit /\ FeedInit
    BY DEF NotificationInit
  <2>2. NoticesTyped
    BY DEF NotificationInit, NoticesTyped
  <2>3. ASSUME NEW n \in Notices  PROVE  NoticeAt(n)
    <3>1. /\ plans[n] = <<>> /\ notify[n] = "idle" /\ delivered[n] = {} /\ errors[n] = {}
          /\ fired[n] = 0 /\ n \notin reminderHandles /\ n \notin calledOff
      BY <2>1 DEF NotificationInit, SchedulerInit, Notices
    <3>2. Len(plans[n]) = 0
      BY <3>1
    <3>3. QED
      BY <3>1, <3>2 DEF NoticeAt, Silent
  <2>4. QED
    BY <2>1, <2>2, <2>3, SchedulerInitInv, FeedInvInit DEF ServiceInv, NoticeInv
<1>2. ServiceInv /\ [NotificationNext]_notificationVars => ServiceInv'
  BY SchedulerStep, SchedulerNextInv, FeedNextInv, NoticeNextInv DEF ServiceInv
<1>3. QED
  BY <1>1, <1>2, PTL DEF NotificationSpec

\* NotificationService is a client of the PrecisionScheduler as SchedulerSpec
\* has it: whatever notifications, cancels and dismissals come, its calls and
\* the callbacks it awaits are steps of the scheduler.
THEOREM UsesTheScheduler == NotificationSpec => SchedulerSpec
<1>1. NotificationInit => SchedulerInit
  BY DEF NotificationInit
<1>2. ServiceInv /\ [NotificationNext]_notificationVars => [SchedulerNext]_schedulerVars
  BY SchedulerStep DEF ServiceInv
<1>3. QED
  BY <1>1, <1>2, ServiceInvariant, PTL DEF NotificationSpec, SchedulerSpec

\* So a reminder is kept as any deadline is: planned, then sent, missed or called
\* off, once and in this order, whatever the service does between.
THEOREM RemindersKeepPromise == NotificationSpec => KeepsPromise
BY UsesTheScheduler, SchedulerKeepsPromise

\* Every client gets all it may still expect, no more often than it asked, and
\* in order but for nested events, however emissions, replays and unsubscribes
\* of any number of clients interleave.
THEOREM FeedStaysConsistent == NotificationSpec => []FeedConsistent
<1>1. ServiceInv => FeedConsistent
  BY DEF ServiceInv, FeedInv
<1>2. QED
  BY <1>1, ServiceInvariant, PTL

\* A failing channel keeps none of the others from a notification, which throws
\* exactly when one failed, and it reminds once at most, after all took it.
THEOREM DeliveriesStayConsistent == NotificationSpec => []DeliveryConsistent
<1>1. ServiceInv => DeliveryConsistent
  <2> SUFFICES ASSUME ServiceInv  PROVE  DeliveryConsistent
    OBVIOUS
  <2>1. SchedulerTypeOK
    BY DEF ServiceInv, SchedulerInv
  <2>2. FeedTypeOK
    <3>1. /\ nextId \in Nat \ {0} /\ Len(events) <= ReplayLimit
          /\ conn \in [Clients -> ConnRecord] /\ \A c \in Clients : OnlyTheEmitted(conn[c])
      BY DEF ServiceInv, FeedInv, BufferIsConsecutive, ConnectionsTypeOK
    <3>2. ASSUME NEW c \in Clients
          PROVE  /\ conn[c].topics \subseteq Patterns
                 /\ conn[c].since \in 0..(nextId - 1)
                 /\ \A i \in DOMAIN conn[c].got : conn[c].got[i] \in 1..(nextId - 1)
      <4>1. conn[c] \in ConnRecord /\ OnlyTheEmitted(conn[c])
        BY <3>1
      <4>2. conn[c].topics \subseteq Patterns /\ conn[c].since \in Nat
        BY <4>1 DEF ConnRecord
      <4>3. QED
        BY <3>1, <4>1, <4>2 DEF OnlyTheEmitted
    <3>3. QED
      BY <3>1, <3>2 DEF FeedTypeOK
  <2>3. NotificationTypeOK
    BY <2>1, <2>2 DEF ServiceInv, NoticeInv, NoticesTyped, NotificationTypeOK
  <2>4. Len(Channels) \in Nat \ {0} /\ DOMAIN Channels = 1..Len(Channels)
    BY ChannelsFacts
  <2>5. ASSUME NEW n \in Notices
        PROVE  /\ notify[n] \in {"returned", "threw"} =>
                    /\ delivered[n] \cup errors[n] = DOMAIN Channels
                    /\ notify[n] = "threw" <=> delivered[n] # DOMAIN Channels
               /\ fired[n] <= 1
               /\ fired[n] > 0 => delivered[n] = DOMAIN Channels /\ notify[n] = "returned"
    <3>1. /\ NoticeAt(n) /\ fired[n] \in Nat
          /\ notify[n] \in {"idle", "dispatching", "returned", "threw"}
      BY DEF ServiceInv, NoticeInv, NoticesTyped
    <3>2. CASE notify[n] = "returned"
      BY <3>1, <3>2 DEF NoticeAt
    <3>3. CASE notify[n] = "threw"
      <4>1. /\ delivered[n] \cup errors[n] = 1..Len(Channels) /\ errors[n] # {}
            /\ delivered[n] \cap errors[n] = {} /\ fired[n] = 0
        BY <2>4, <3>1, <3>3 DEF NoticeAt, Tried, Silent
      <4>2. delivered[n] # DOMAIN Channels
        BY <2>4, <4>1
      <4>3. QED
        BY <2>4, <3>3, <4>1, <4>2
    <3>4. CASE notify[n] \in {"idle", "dispatching"}
      <4>1. fired[n] = 0
        BY <3>1, <3>4 DEF NoticeAt, Silent
      <4>2. QED
        BY <3>4, <4>1
    <3>5. QED
      BY <3>1, <3>2, <3>3, <3>4
  <2>6. QED
    BY <2>3, <2>5 DEF DeliveryConsistent, EveryChannelIsTried, RemindersFollowDelivery
<1>2. QED
  BY <1>1, ServiceInvariant, PTL

\* cancelReminder() before the timer fires keeps the reminder silent for good.
THEOREM CancelledStaySilent == NotificationSpec => CancelledRemindersAreSilent
<1> DEFINE Uncalled == \A n \in Notices : fired'[n] > fired[n] => n \notin calledOff
<1>1. ServiceInv /\ [NotificationNext]_notificationVars => [Uncalled]_notificationVars
  <2> SUFFICES ASSUME ServiceInv, NotificationNext, NEW n \in Notices, fired'[n] > fired[n]
               PROVE  n \notin calledOff
    OBVIOUS
  <2>1. NoticeAt(n) /\ fired \in [Notices -> Nat]
    BY DEF ServiceInv, NoticeInv, NoticesTyped
  <2>2. fired' # fired
    BY <2>1
  <2>3. PICK m \in Notices : plans[m] # <<>> /\ Remind(m)
    BY <2>2 DEF NotificationNext, ServiceStep, Notify, NotifyWithin, Delivered, CancelReminder,
                Dismiss, RegisterChannel, Time, ReminderCallback, noticeVars
  <2>4. m = n
    BY <2>1, <2>3 DEF Remind
  <2>5. plans[n] # <<>> /\ plans[n][1].trigger = "asking"
    BY <2>3, <2>4 DEF Remind, TriggerActs
  <2>6. QED
    BY <2>1, <2>5 DEF NoticeAt
<1>2. QED
  BY <1>1, ServiceInvariant, PTL DEF NotificationSpec, CancelledRemindersAreSilent
==============================================================================
