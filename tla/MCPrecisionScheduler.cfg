SPECIFICATION SchedulerFairSpec
CONSTANTS
  strike = strike
  Handles = {strike}
  LeadOf <- MCLead
  WarmupOf <- MCWarmup
  TriggerTimes = {1, 4}
  MaxDelay = 2
  MaxPlans = 2
  MaxTime = 4
INVARIANTS
  TimersConsistent
PROPERTIES
  KeepsPromise
  NeverEarly
  EveryPlanEnds
CHECK_DEADLOCK FALSE
