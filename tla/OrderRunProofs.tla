---------------------------- MODULE OrderRunProofs ----------------------------
(***************************************************************************)
(* The safety of OrderVerification and of OrderRun for any flows, sites,   *)
(* prices and number of runs.  The verification comes first and by itself: *)
(* OrderRun uses it as its specification allows, so that what is proved of *)
(* it holds of the whole; the rest follows from invariants about the run,  *)
(* its requests and the queue.                                             *)
(*                                                                         *)
(* The verification.  One invariant carries all of it: a verification has  *)
(* timers only once it has begun, the current one has begun, and as long   *)
(* as there is only one, it has one timer or poll at a time and none at    *)
(* its end.                                                                *)
(***************************************************************************)
EXTENDS OrderRun, SumTheorems

Begun(o) == attempts[o] > 0
Single == \A o \in Orders : Begun(o) => o = current

\* What has begun: nothing after the current order, and nothing else has
\* timers, polls, an end or a verdict.
InTurn ==
  /\ current # 0 => Begun(current)
  /\ \A o \in Orders :
       /\ Begun(o) => o <= current
       /\ armed[o] + polling[o] > 0 \/ done[o] => Begun(o)
       /\ verdicts[o] # <<>> => done[o]

\* A single verification has one thread of timers and polls.
OneThread ==
  Single => \A o \in Orders :
    /\ armed[o] + polling[o] <= 1
    /\ done[o] => armed[o] + polling[o] = 0
    /\ Len(verdicts[o]) <= 1

StreakIsHeard == \A o \in Orders : unknownStreak[o] >= 1 => heard[o] = "unknown"

VerifyInv ==
  VerifyTypeOK /\ InTurn /\ CurrentIsPursued /\ OneThread /\ StreakIsHeard

-----------------------------------------------------------------------------
(* The pieces of a step *)

LEMMA InitHolds == VerifyInit => VerifyInv
  BY VerificationAssumption
     DEF VerifyInit, VerifyInv, VerifyTypeOK, InTurn, CurrentIsPursued, OneThread,
         StreakIsHeard, Begun, Single, Verdicts

\* What a tick does to the verification o: one more of everything, or the end.
Ticked(o) ==
  /\ attempts' \in [Orders -> 0..Intervals] /\ armed' \in [Orders -> Nat]
  /\ done' \in [Orders -> BOOLEAN]
  /\ \A x \in Orders \ {o} :
       attempts'[x] = attempts[x] /\ armed'[x] = armed[x] /\ done'[x] = done[x]
  /\ \/ done'[o] /\ attempts'[o] = attempts[o] /\ armed'[o] = armed[o]
          /\ (done[o] \/ attempts[o] >= Intervals)
     \/ ~done[o] /\ ~done'[o] /\ attempts'[o] = attempts[o] + 1
          /\ armed'[o] = armed[o] + 1

LEMMA TickTicks ==
  ASSUME VerifyTypeOK, NEW o \in Orders, Tick(o, done, armed)
  PROVE  Ticked(o)
<1>1. CASE done[o]
  BY <1>1 DEF Tick, Ticked, VerifyTypeOK
<1>2. CASE ~done[o] /\ attempts[o] >= Intervals
  BY <1>2 DEF Tick, Ticked, VerifyTypeOK
<1>3. CASE ~done[o] /\ ~(attempts[o] >= Intervals)
  <2>1. /\ attempts' = [attempts EXCEPT ![o] = @ + 1]
        /\ armed' = [armed EXCEPT ![o] = @ + 1] /\ done' = done
    BY <1>3 DEF Tick
  <2>2. attempts[o] \in 0..Intervals /\ attempts[o] + 1 \in 0..Intervals
    BY <1>3, VerificationAssumption DEF VerifyTypeOK
  <2>3. attempts' \in [Orders -> 0..Intervals] /\ armed' \in [Orders -> Nat]
    BY <2>1, <2>2 DEF VerifyTypeOK
  <2>4. /\ attempts'[o] = attempts[o] + 1 /\ armed'[o] = armed[o] + 1
        /\ \A x \in Orders \ {o} :
             attempts'[x] = attempts[x] /\ armed'[x] = armed[x] /\ done'[x] = done[x]
    BY <2>1 DEF VerifyTypeOK
  <2>5. QED
    BY <1>3, <2>1, <2>3, <2>4 DEF Ticked, VerifyTypeOK
<1> QED BY <1>1, <1>2, <1>3

\* A poll is in the air only once a verification is current.
LEMMA PolledIsBegun ==
  ASSUME VerifyInv, NEW o \in Orders, Polled(o)
  PROVE  /\ Begun(o) /\ current \in Orders /\ o <= current
         /\ polling' \in [Orders -> Nat] /\ polling[o] \in Nat \ {0}
         /\ polling'[o] = polling[o] - 1
         /\ \A x \in Orders \ {o} : polling'[x] = polling[x]
<1>1. polling[o] \in Nat /\ armed[o] \in Nat
  BY DEF VerifyInv, VerifyTypeOK
<1>2. Begun(o) /\ o <= current /\ o > 0 /\ current \in Orders
  BY <1>1, VerificationAssumption DEF VerifyInv, InTurn, Polled, VerifyTypeOK
<1> QED BY <1>1, <1>2 DEF VerifyInv, VerifyTypeOK, Polled

\* The poll of o has returned, without a verdict, and the current
\* verification ticks.
LEMMA TicksKeepInv ==
  ASSUME VerifyInv, NEW o \in Orders, Polled(o), Tick(current, done, armed),
         UNCHANGED <<current, verdicts>>,
         unknownStreak' \in [Orders -> Nat],
         heard' \in [Orders -> {"nothing", "unknown", "pending"}],
         StreakIsHeard'
  PROVE  VerifyInv'
<1>1. /\ Begun(o) /\ current \in Orders /\ o <= current
      /\ polling' \in [Orders -> Nat] /\ polling[o] \in Nat \ {0}
      /\ polling'[o] = polling[o] - 1
      /\ \A x \in Orders \ {o} : polling'[x] = polling[x]
  BY PolledIsBegun
<1>2. Ticked(current)
  BY <1>1, TickTicks DEF VerifyInv
<1>3. VerifyTypeOK'
  BY <1>1, <1>2 DEF VerifyInv, VerifyTypeOK, Ticked
<1>4. \A x \in Orders :
        /\ attempts[x] \in Nat /\ armed[x] \in Nat /\ polling[x] \in Nat
        /\ done[x] \in BOOLEAN /\ x \in Nat \ {0}
        /\ attempts'[x] \in Nat /\ armed'[x] \in Nat /\ polling'[x] \in Nat
        /\ done'[x] \in BOOLEAN
  BY <1>3, VerificationAssumption DEF VerifyInv, VerifyTypeOK
<1>a. /\ current' = current /\ verdicts' = verdicts
      /\ \A x \in Orders \ {current} :
           attempts'[x] = attempts[x] /\ armed'[x] = armed[x] /\ done'[x] = done[x]
      /\ \/ /\ done'[current] /\ attempts'[current] = attempts[current]
            /\ armed'[current] = armed[current]
         \/ /\ ~done[current] /\ ~done'[current]
            /\ attempts'[current] = attempts[current] + 1
            /\ armed'[current] = armed[current] + 1
  BY <1>2 DEF Ticked
<1>b. attempts[current] > 0
  BY <1>1, <1>4 DEF VerifyInv, InTurn, Begun
<1>5. \A x \in Orders : Begun(x)' <=> Begun(x)
  BY <1>a, <1>b, <1>4, <1>1 DEF Begun
<1>6. \A x \in Orders : polling'[x] <= polling[x]
  BY <1>1, <1>4
<1>7. InTurn'
  <2>1. \A x \in Orders : Begun(x)' => x <= current'
    BY <1>a, <1>5 DEF VerifyInv, InTurn
  <2>2. \A x \in Orders : armed'[x] + polling'[x] > 0 \/ done'[x] => Begun(x)'
    <3> SUFFICES ASSUME NEW x \in Orders, armed'[x] + polling'[x] > 0 \/ done'[x]
                 PROVE  attempts[x] > 0
      BY <1>5 DEF Begun
    <3>1. CASE x = current
      BY <3>1, <1>b
    <3>2. CASE x # current
      BY <3>2, <1>a, <1>4, <1>6 DEF VerifyInv, InTurn, Begun
    <3>3. QED
      BY <3>1, <3>2
  <2>3. \A x \in Orders : verdicts'[x] # <<>> => done'[x]
    BY <1>a, <1>2, <1>4 DEF VerifyInv, InTurn, Ticked
  <2>4. QED
    BY <1>1, <1>a, <1>b, <1>5, <2>1, <2>2, <2>3 DEF InTurn, Begun
<1>8. CurrentIsPursued'
  BY <1>1, <1>a, <1>4 DEF CurrentIsPursued
<1>9. OneThread'
  <2> SUFFICES ASSUME Single', NEW x \in Orders
               PROVE  /\ armed'[x] + polling'[x] <= 1
                      /\ done'[x] => armed'[x] + polling'[x] = 0
                      /\ Len(verdicts'[x]) <= 1
    BY DEF OneThread
  <2>1. Single /\ o = current
    BY <1>1, <1>5, <1>a DEF Single
  <2>2. /\ armed[x] + polling[x] <= 1 /\ Len(verdicts[x]) <= 1
        /\ done[x] => armed[x] + polling[x] = 0
    BY <2>1 DEF VerifyInv, OneThread
  <2>3. CASE x = current
    <3>1. armed[x] = 0 /\ polling'[x] = 0
      BY <1>1, <1>4, <2>1, <2>2, <2>3
    <3>2. QED
      BY <1>a, <2>2, <2>3, <3>1
  <2>4. CASE x # current
    BY <1>1, <1>a, <1>4, <2>1, <2>2, <2>4
  <2>5. QED
    BY <2>3, <2>4
<1>10. QED
  BY <1>3, <1>7, <1>8, <1>9 DEF VerifyInv

\* The poll of o has returned with a verdict.
LEMMA VerdictsKeepInv ==
  ASSUME VerifyInv, NEW o \in Orders, Polled(o), NEW v \in Verdicts, Conclude(o, v),
         unknownStreak' \in [Orders -> Nat],
         heard' \in [Orders -> {"nothing", "unknown", "pending"}],
         StreakIsHeard'
  PROVE  VerifyInv'
<1>1. /\ Begun(o) /\ current \in Orders /\ o <= current
      /\ polling' \in [Orders -> Nat] /\ polling[o] \in Nat \ {0}
      /\ polling'[o] = polling[o] - 1
      /\ \A x \in Orders \ {o} : polling'[x] = polling[x]
  BY PolledIsBegun
<1>2. /\ UNCHANGED <<current, attempts, armed>>
      /\ done' \in [Orders -> BOOLEAN] /\ done'[o]
      /\ verdicts' \in [Orders -> Seq(Verdicts)]
      /\ verdicts'[o] = Append(verdicts[o], v)
      /\ \A x \in Orders \ {o} : done'[x] = done[x] /\ verdicts'[x] = verdicts[x]
  BY DEF Conclude, VerifyInv, VerifyTypeOK
<1>3. VerifyTypeOK'
  BY <1>1, <1>2 DEF VerifyInv, VerifyTypeOK
<1>4. \A x \in Orders :
        /\ attempts[x] \in Nat /\ armed[x] \in Nat /\ polling[x] \in Nat
        /\ polling'[x] \in Nat /\ polling'[x] <= polling[x]
        /\ done[x] \in BOOLEAN /\ verdicts[x] \in Seq(Verdicts)
  <2>1. \A x \in Orders :
          /\ attempts[x] \in 0..Intervals /\ armed[x] \in Nat /\ polling[x] \in Nat
          /\ done[x] \in BOOLEAN /\ verdicts[x] \in Seq(Verdicts)
    BY DEF VerifyInv, VerifyTypeOK
  <2>2. \A x \in Orders : polling'[x] \in Nat /\ polling'[x] <= polling[x]
    <3>1. polling[o] \in Nat /\ polling'[o] = polling[o] - 1 /\ polling[o] # 0
      BY <1>1
    <3>2. \A x \in Orders : x = o \/ polling'[x] = polling[x]
      BY <1>1
    <3>3. QED
      BY <2>1, <3>1, <3>2
  <2>3. QED
    BY <2>1, <2>2, VerificationAssumption
<1>5. InTurn'
  <2>1. \A x \in Orders : armed[x] + polling'[x] > 0 \/ done'[x] => Begun(x)
    BY <1>1, <1>2, <1>4 DEF VerifyInv, InTurn
  <2>2. \A x \in Orders : verdicts'[x] # <<>> => done'[x]
    BY <1>2 DEF VerifyInv, InTurn
  <2>3. QED
    BY <1>2, <2>1, <2>2 DEF VerifyInv, InTurn, Begun
<1>6. CurrentIsPursued'
  BY <1>1, <1>2, <1>4 DEF VerifyInv, CurrentIsPursued
<1>7. OneThread'
  <2> SUFFICES ASSUME Single', NEW x \in Orders
               PROVE  /\ armed[x] + polling'[x] <= 1
                      /\ done'[x] => armed[x] + polling'[x] = 0
                      /\ Len(verdicts'[x]) <= 1
    BY <1>2 DEF OneThread
  <2>1. Single
    BY <1>2 DEF Single, Begun
  <2>2. /\ armed[x] + polling[x] <= 1 /\ Len(verdicts[x]) <= 1
        /\ done[x] => armed[x] + polling[x] = 0
    BY <2>1 DEF VerifyInv, OneThread
  <2>3. CASE x = o
    <3>1. armed[x] = 0 /\ polling'[x] = 0 /\ ~done[x]
      BY <1>1, <1>4, <2>2, <2>3
    <3>2. verdicts[x] = <<>>
      BY <3>1 DEF VerifyInv, InTurn
    <3>3. Len(verdicts'[x]) = 1
      <4>1. Len(Append(verdicts[x], v)) = Len(verdicts[x]) + 1
        BY <1>4
      <4>2. Len(verdicts[x]) = 0
        BY <3>2
      <4>3. QED
        BY <1>2, <2>3, <4>1, <4>2
    <3>4. QED
      BY <3>1, <3>3
  <2>4. CASE x # o
    BY <1>1, <1>2, <1>4, <2>2, <2>4
  <2>5. QED
    BY <2>3, <2>4
<1>8. QED
  BY <1>3, <1>5, <1>6, <1>7 DEF VerifyInv

\* A timer that fires becomes a poll, unless the current verification is done.
LEMMA TimersKeepInv ==
  ASSUME VerifyInv, NEW o \in Orders, TimerFires(o)
  PROVE  VerifyInv'
<1>1. /\ UNCHANGED <<current, attempts, unknownStreak, done, heard, verdicts>>
      /\ armed' \in [Orders -> Nat] /\ polling' \in [Orders -> Nat]
      /\ armed[o] > 0 /\ armed'[o] = armed[o] - 1
      /\ polling'[o] = IF done[current] THEN polling[o] ELSE polling[o] + 1
      /\ \A x \in Orders \ {o} : armed'[x] = armed[x] /\ polling'[x] = polling[x]
  <2>1. /\ UNCHANGED <<current, attempts, unknownStreak, done, heard, verdicts>>
        /\ armed[o] > 0 /\ armed' = [armed EXCEPT ![o] = @ - 1]
        /\ polling' = IF done[current] THEN polling ELSE [polling EXCEPT ![o] = @ + 1]
    BY DEF TimerFires
  <2>2. armed \in [Orders -> Nat] /\ polling \in [Orders -> Nat]
    BY DEF VerifyInv, VerifyTypeOK
  <2>3. CASE done[current]
    BY <2>1, <2>2, <2>3
  <2>4. CASE ~done[current]
    BY <2>1, <2>2, <2>4
  <2>5. QED
    BY <2>3, <2>4
<1>2. \A x \in Orders : armed[x] \in Nat /\ polling[x] \in Nat
  BY DEF VerifyInv, VerifyTypeOK
<1>3. VerifyTypeOK' /\ StreakIsHeard'
  BY <1>1 DEF VerifyInv, VerifyTypeOK, StreakIsHeard
<1>4. \A x \in Orders : /\ armed'[x] + polling'[x] <= armed[x] + polling[x]
                        /\ armed'[x] \in Nat /\ polling'[x] \in Nat
  BY <1>1, <1>2
<1>5. InTurn'
  <2>1. \A x \in Orders : armed'[x] + polling'[x] > 0 \/ done[x] => Begun(x)
    BY <1>2, <1>4 DEF VerifyInv, InTurn
  <2>2. QED
    BY <1>1, <2>1 DEF VerifyInv, InTurn, Begun
<1>6. CurrentIsPursued'
  <2> SUFFICES ASSUME current # 0, ~done[current]
               PROVE  armed'[current] + polling'[current] > 0
    BY <1>1 DEF CurrentIsPursued
  <2>1. current \in Orders /\ armed[current] + polling[current] > 0
    BY DEF VerifyInv, VerifyTypeOK, CurrentIsPursued
  <2>2. CASE o = current
    BY <1>1, <1>2, <2>1, <2>2
  <2>3. CASE o # current
    BY <1>1, <2>1, <2>3
  <2>4. QED
    BY <2>2, <2>3
<1>7. OneThread'
  BY <1>1, <1>2, <1>4 DEF VerifyInv, OneThread, Single, Begun
<1>8. QED
  BY <1>3, <1>5, <1>6, <1>7 DEF VerifyInv

\* A verification begins: it is alone if it is the first.
LEMMA ScheduleKeepsInv ==
  ASSUME VerifyInv, NEW o \in Orders, current < o, ScheduleVerification(o)
  PROVE  VerifyInv'
<1>1. current' = o /\ UNCHANGED <<unknownStreak, polling, heard, verdicts>> /\ Ticked(o)
  BY TickTicks DEF ScheduleVerification, VerifyInv
<1>2. \A x \in Orders :
        /\ attempts[x] \in Nat /\ armed[x] \in Nat /\ polling[x] \in Nat
        /\ attempts'[x] \in Nat /\ armed'[x] \in Nat
        /\ done[x] \in BOOLEAN /\ x \in Nat \ {0}
        /\ verdicts[x] \in Seq(Verdicts)
  BY <1>1, VerificationAssumption DEF VerifyInv, VerifyTypeOK, Ticked
<1>3. current \in Nat /\ Intervals \in Nat \ {0}
  BY VerificationAssumption DEF VerifyInv, VerifyTypeOK
<1>4. ~Begun(o) /\ armed[o] + polling[o] = 0 /\ ~done[o]
  BY <1>2, <1>3 DEF VerifyInv, InTurn
<1>5. /\ attempts[o] = 0 /\ attempts'[o] = 1 /\ armed'[o] = 1 /\ ~done'[o]
      /\ polling[o] = 0 /\ armed[o] = 0
      /\ \A x \in Orders \ {o} :
           attempts'[x] = attempts[x] /\ armed'[x] = armed[x] /\ done'[x] = done[x]
  <2>1. attempts[o] = 0 /\ polling[o] = 0 /\ armed[o] = 0
    BY <1>2, <1>4 DEF Begun
  <2>2. ~(done[o] \/ attempts[o] >= Intervals)
    BY <1>3, <1>4, <2>1
  <2>3. ~done'[o] /\ attempts'[o] = attempts[o] + 1 /\ armed'[o] = armed[o] + 1
    BY <1>1, <2>2 DEF Ticked
  <2>4. \A x \in Orders \ {o} :
          attempts'[x] = attempts[x] /\ armed'[x] = armed[x] /\ done'[x] = done[x]
    BY <1>1 DEF Ticked
  <2>5. QED
    BY <2>1, <2>3, <2>4
<1>6. VerifyTypeOK' /\ StreakIsHeard'
  BY <1>1 DEF VerifyInv, VerifyTypeOK, Ticked, StreakIsHeard
<1>7. InTurn'
  <2> SUFFICES ASSUME NEW x \in Orders
               PROVE  /\ attempts'[x] > 0 => x <= o
                      /\ armed'[x] + polling[x] > 0 \/ done'[x] => attempts'[x] > 0
                      /\ verdicts[x] # <<>> => done'[x]
    BY <1>1, <1>5 DEF InTurn, Begun
  <2>1. CASE x = o
    BY <1>2, <1>4, <1>5, <2>1 DEF VerifyInv, InTurn
  <2>2. CASE x # o
    BY <1>2, <1>3, <1>5, <2>2 DEF VerifyInv, InTurn, Begun
  <2>3. QED
    BY <2>1, <2>2
<1>8. CurrentIsPursued'
  BY <1>1, <1>5 DEF CurrentIsPursued
<1>9. OneThread'
  <2> SUFFICES ASSUME Single', NEW x \in Orders
               PROVE  /\ armed'[x] + polling[x] <= 1
                      /\ done'[x] => armed'[x] + polling[x] = 0
                      /\ Len(verdicts[x]) <= 1
    BY <1>1 DEF OneThread
  <2>1. CASE x = o
    <3>1. verdicts[x] = <<>>
      BY <1>4, <2>1 DEF VerifyInv, InTurn
    <3>2. QED
      BY <1>5, <2>1, <3>1
  <2>2. CASE x # o
    <3>1. ~Begun(x)
      BY <1>1, <1>5, <2>2 DEF Single, Begun
    <3>2. armed[x] + polling[x] = 0 /\ ~done[x] /\ verdicts[x] = <<>>
      BY <1>2, <3>1 DEF VerifyInv, InTurn
    <3>3. QED
      BY <1>2, <1>5, <2>2, <3>2
  <2>3. QED
    BY <2>1, <2>2
<1>10. QED
  BY <1>6, <1>7, <1>8, <1>9 DEF VerifyInv

-----------------------------------------------------------------------------
(* The theorems *)

\* Each way a poll can end preserves the invariant.
LEMMA PollsKeepInv ==
  ASSUME VerifyInv, NEW o \in Orders, PollAnswered(o)
  PROVE  VerifyInv'
<1> USE DEF VerifyInv, VerifyTypeOK, StreakIsHeard
<1>1. CASE PollThrows(o)
  <2>1. Polled(o) /\ Tick(current, done, armed) /\ UNCHANGED <<current, unknownStreak, heard, verdicts>>
    BY <1>1 DEF PollThrows
  <2>2. StreakIsHeard' /\ unknownStreak' \in [Orders -> Nat]
        /\ heard' \in [Orders -> {"nothing", "unknown", "pending"}]
    BY <2>1
  <2> HIDE DEF VerifyInv, VerifyTypeOK, StreakIsHeard
  <2>3. QED
    BY <2>1, <2>2, TicksKeepInv
<1>2. CASE PollJudged(o)
  <2>1. PICK v \in {"confirmed", "cancelled"} : Conclude(o, v)
    BY <1>2 DEF PollJudged
  <2>2. Polled(o) /\ UNCHANGED <<unknownStreak, heard>> /\ v \in Verdicts
    BY <1>2 DEF PollJudged, Verdicts
  <2>3. StreakIsHeard' /\ unknownStreak' \in [Orders -> Nat]
        /\ heard' \in [Orders -> {"nothing", "unknown", "pending"}]
    BY <2>2
  <2> HIDE DEF VerifyInv, VerifyTypeOK, StreakIsHeard
  <2>4. QED
    BY <2>1, <2>2, <2>3, VerdictsKeepInv
<1>3. CASE PollUnknown(o)
  <2>1. /\ Polled(o)
        /\ unknownStreak' = [unknownStreak EXCEPT ![o] = @ + 1]
        /\ heard' = [heard EXCEPT ![o] = "unknown"]
        /\ \/ Conclude(o, "timed_out")
           \/ Tick(current, done, armed) /\ UNCHANGED <<current, verdicts>>
    BY <1>3 DEF PollUnknown
  <2>2. StreakIsHeard' /\ unknownStreak' \in [Orders -> Nat]
        /\ heard' \in [Orders -> {"nothing", "unknown", "pending"}]
    BY <2>1
  <2>3. "timed_out" \in Verdicts
    BY DEF Verdicts
  <2> HIDE DEF VerifyInv, VerifyTypeOK, StreakIsHeard
  <2>4. QED
    BY <2>1, <2>2, <2>3, TicksKeepInv, VerdictsKeepInv
<1>4. CASE PollPending(o)
  <2>1. /\ Polled(o)
        /\ unknownStreak' = [unknownStreak EXCEPT ![o] = 0]
        /\ heard' = [heard EXCEPT ![o] = "pending"]
        /\ Tick(current, done, armed) /\ UNCHANGED <<current, verdicts>>
    BY <1>4 DEF PollPending
  <2>2. StreakIsHeard' /\ unknownStreak' \in [Orders -> Nat]
        /\ heard' \in [Orders -> {"nothing", "unknown", "pending"}]
    BY <2>1
  <2> HIDE DEF VerifyInv, VerifyTypeOK, StreakIsHeard
  <2>3. QED
    BY <2>1, <2>2, TicksKeepInv
<1>5. QED
  BY <1>1, <1>2, <1>3, <1>4 DEF PollAnswered

\* The invariant survives every step of every verification.
LEMMA VerifyNextInv == VerifyInv /\ [VerifyNext]_verifyVars => VerifyInv'
<1> SUFFICES ASSUME VerifyInv, [VerifyNext]_verifyVars  PROVE  VerifyInv'
  OBVIOUS
<1>1. CASE VerifyStep
  BY <1>1, TimersKeepInv, PollsKeepInv DEF VerifyStep
<1>2. CASE \E o \in Orders : current < o /\ ScheduleVerification(o)
  BY <1>2, ScheduleKeepsInv
<1>3. CASE UNCHANGED verifyVars
  BY <1>3 DEF verifyVars, VerifyInv, VerifyTypeOK, InTurn, Begun, CurrentIsPursued,
     OneThread, Single, StreakIsHeard
<1>4. QED
  BY <1>1, <1>2, <1>3 DEF VerifyNext

\* A verification has timers only when it has begun, and one thread of them
\* if it is the only one.
THEOREM VerifyInvariant == VerifySpec => []VerifyInv
<1>1. VerifyInit => VerifyInv
  BY InitHolds
<1>2. VerifyInv /\ [VerifyNext]_verifyVars => VerifyInv'
  BY VerifyNextInv
<1>3. QED
  BY <1>1, <1>2, PTL DEF VerifySpec

\* No way a poll can end loses the current verification.
THEOREM VerificationIsPursued == VerifySpec => [](VerifyTypeOK /\ CurrentIsPursued)
<1>1. VerifyInv => VerifyTypeOK /\ CurrentIsPursued
  BY DEF VerifyInv
<1>2. QED
  BY <1>1, VerifyInvariant, PTL

\* Of an order that is the only one of its task one fate is announced.
THEOREM OneVerdictIsAnnounced == VerifySpec => []OneVerdict
<1>1. VerifyInv => OneVerdict
  BY DEF VerifyInv, OneThread, OneVerdict, Single, Begun
<1>2. QED
  BY <1>1, VerifyInvariant, PTL

\* A verdict adds only itself to what was announced.
LEMMA AnnouncedAppended ==
  ASSUME NEW s \in Seq(Verdicts), NEW v \in Verdicts
  PROVE  \A i \in DOMAIN Append(s, v) :
           Append(s, v)[i] = v \/ \E k \in DOMAIN s : s[k] = Append(s, v)[i]
<1>1. \A i \in DOMAIN Append(s, v) : i \in DOMAIN s \/ i = Len(s) + 1
  OBVIOUS
<1>2. \A i \in DOMAIN s : Append(s, v)[i] = s[i]
  OBVIOUS
<1>3. Append(s, v)[Len(s) + 1] = v
  OBVIOUS
<1>4. QED
  BY <1>1, <1>2, <1>3

\* The alarm is raised by an answer "unknown" that follows another one.
THEOREM AlarmNeedsTwoUnknowns == VerifySpec => AlarmAfterTwoUnknowns
<1> DEFINE Warned == \A o \in Orders :
             "timed_out" \in Announced(o)' /\ "timed_out" \notin Announced(o)
               => heard[o] = "unknown"
<1>1. ASSUME VerifyInv, VerifyNext  PROVE  Warned
  <2> SUFFICES ASSUME NEW o \in Orders,
                      "timed_out" \in Announced(o)', "timed_out" \notin Announced(o)
               PROVE  heard[o] = "unknown"
    OBVIOUS
  <2>1. verdicts' # verdicts
    BY DEF Announced
  <2>2. PICK x \in Orders, v \in Verdicts :
          /\ Conclude(x, v)
          /\ v = "timed_out" => unknownStreak[x] + 1 >= 2
    <3>1. PICK x \in Orders : PollJudged(x) \/ PollUnknown(x)
      BY <1>1, <2>1 DEF VerifyNext, VerifyStep, ScheduleVerification, TimerFires,
         PollAnswered, PollThrows, PollPending
    <3>2. CASE PollJudged(x)
      BY <3>2 DEF PollJudged, Verdicts
    <3>3. CASE PollUnknown(x)
      BY <2>1, <3>3 DEF PollUnknown, Verdicts
    <3>4. QED
      BY <3>1, <3>2, <3>3
  <2>3. verdicts' = [verdicts EXCEPT ![x] = Append(@, v)]
    BY <2>2 DEF Conclude
  <2>4. x = o /\ verdicts'[o] = Append(verdicts[o], v) /\ verdicts[o] \in Seq(Verdicts)
    BY <1>1, <2>3 DEF Announced, VerifyInv, VerifyTypeOK
  <2>5. v = "timed_out"
    BY <2>4, AnnouncedAppended DEF Announced
  <2>6. unknownStreak[o] >= 1
    BY <1>1, <2>2, <2>4, <2>5 DEF VerifyInv, VerifyTypeOK
  <2>7. QED
    BY <1>1, <2>6 DEF VerifyInv, StreakIsHeard
<1>2. VerifyInv /\ [VerifyNext]_verifyVars => [Warned]_verifyVars
  BY <1>1
<1>3. QED
  BY <1>2, VerifyInvariant, PTL DEF VerifySpec, AlarmAfterTwoUnknowns

-----------------------------------------------------------------------------
(* The choice of a variant *)

\* Every set of positions has a least one.
LEMMA LeastIsMember ==
  ASSUME NEW S, S \subseteq Nat, S # {}
  PROVE  Least(S) \in S /\ \A k \in S : Least(S) <= k
<1> DEFINE R == {ss \in Nat \X Nat : ss[1] < ss[2]}
<1>a. IsWellFoundedOn(R, Nat)
  BY NatLessThanWellFounded, Zenon DEF OpToRel
<1> HIDE DEF R
<1>1. PICK n \in S : \A k \in S : ~(<<k, n>> \in R)
  BY <1>a, WFMin
<1>2. \A k \in S : n <= k
  <2> SUFFICES ASSUME NEW k \in S, ~(n <= k)  PROVE  FALSE
    OBVIOUS
  <2>1. k \in Nat /\ n \in Nat /\ k < n
    OBVIOUS
  <2>2. <<k, n>> \in R
    BY <2>1 DEF R
  <2>3. QED
    BY <1>1, <2>2
<1>3. \E m \in S : \A k \in S : m <= k
  BY <1>2
<1>4. QED
  BY <1>3 DEF Least

\* A snapshot that passes both checks has a variant to order, and one that is
\* the cheapest in stock is within the cap.
LEMMA ChoiceFacts ==
  ASSUME VariantAssumption, NEW snap \in Snapshots,
         PriceGuardPasses(snap), VariantMatches(snap)
  PROVE  /\ Choice(snap) \in [price : Prices, cheapest : BOOLEAN]
         /\ Choice(snap).cheapest => Choice(snap).price <= Cap
<1> DEFINE v == ResolveVariant(snap)
<1>1. Least(Satisfiable(snap)) \in Satisfiable(snap)
  BY LeastIsMember, VariantAssumption DEF VariantMatches, Satisfiable, VariantAssumption
<1>2. v \in Wanted[Least(Satisfiable(snap))] \cap InStock(snap)
  BY <1>1, LeastIsMember, VariantAssumption
     DEF Satisfiable, ResolveVariant, InStock, VariantAssumption
<1>3. v \in Variants /\ snap[v].price \in Prices
  BY <1>2 DEF InStock, Snapshots
<1>4. PICK w \in InStock(snap) : snap[w].price <= Cap
  BY DEF PriceGuardPasses
<1>5. snap[w].price \in Nat /\ snap[v].price \in Nat /\ Cap \in Nat
  BY <1>3, <1>4, VariantAssumption DEF InStock, Snapshots, VariantAssumption
<1>6. Choice(snap) = [price |-> snap[v].price,
                      cheapest |-> \A u \in InStock(snap) : snap[v].price <= snap[u].price]
  BY DEF Choice
<1>7. Choice(snap).cheapest => Choice(snap).price <= Cap
  BY <1>4, <1>5, <1>6
<1> HIDE DEF v
<1>8. QED
  BY <1>3, <1>6, <1>7

-----------------------------------------------------------------------------
(* The runs take turns *)

TurnInv ==
  /\ run \in 0..MaxRuns /\ liveRuns \subseteq 1..run
  /\ stage \in Stages
  /\ current \in Nat /\ current <= run
  /\ stage # "idle" => run \in Runs /\ current < run

EngineOrSite == EngineStep \/ HoldEnds \/ \E r \in Runs, p \in Phases : LateExecution(r, p)

\* Neither the engine nor the site begins a run or changes its flow.
LEMMA EngineKeepsRun ==
  ASSUME EngineOrSite
  PROVE  UNCHANGED <<flow, run, liveRuns>>
BY DEF EngineOrSite, EngineStep, HoldEnds, LateExecution, EndPhase, SkipStep, LocalStep,
       AbortStep, AssertStep, CaptureStep, UnsupportedStep, UseToken, NotSent, GivenUp,
       Answered, Locally

\* No poll begins a verification.
LEMMA PollsKeepCurrent ==
  ASSUME VerifyStep
  PROVE  current' = current
BY DEF VerifyStep, TimerFires, PollAnswered, PollThrows, PollJudged, PollUnknown,
       PollPending, Conclude

LEMMA TurnInitInv == OrderInit => TurnInv
BY EngineAssumption DEF OrderInit, EngineInit, VerifyInit, TurnInv, Stages, EngineAssumption

\* What the steps of runFullPipeline do to the turn: they begin a run, go on
\* with it, end it without paying, or end it with a verification.
LEMMA RunStepTurns ==
  ASSUME TurnInv, RunStep
  PROVE  \/ /\ stage = "idle" /\ run < MaxRuns /\ run' = run + 1
            /\ stage' = "snapshot" /\ UNCHANGED verifyVars
            /\ liveRuns' \in {liveRuns, liveRuns \cup {run + 1}}
         \/ /\ stage # "idle" /\ stage' \in Stages /\ UNCHANGED <<run, liveRuns, verifyVars>>
         \/ /\ stage = "settle" /\ stage' = "idle" /\ UNCHANGED <<run, liveRuns>>
            /\ ScheduleVerification(run)
<1>1. CASE \E isLive \in BOOLEAN : StartRun(isLive)
  BY <1>1 DEF StartRun
<1>2. CASE SnapshotThrows \/ AcquireFails \/ RecheckThrows \/ ChannelBusy
  BY <1>2 DEF SnapshotThrows, AcquireFails, RecheckThrows, ChannelBusy, RunOver, Stages
<1>3. CASE Enqueued
  BY <1>3 DEF Enqueued, RunOver, BeginSettle, Stages
<1>4. CASE SettleEnds
  BY <1>4 DEF SettleEnds, RunOver, Stages, verifyVars
<1>5. CASE \E snap \in Snapshots : SnapshotArrives(snap) \/ Rechecked(snap)
  BY <1>5 DEF SnapshotArrives, Rechecked, RunOver, BeginSettle, Stages
<1>6. QED
  BY <1>1, <1>2, <1>3, <1>4, <1>5 DEF RunStep

LEMMA TurnNextInv ==
  ASSUME TurnInv, [OrderNext]_orderVars
  PROVE  TurnInv'
<1>1. CASE RunStep
  <2>1. MaxRuns \in Nat
    BY EngineAssumption DEF EngineAssumption
  <2>2. CASE /\ stage = "idle" /\ run < MaxRuns /\ run' = run + 1
             /\ stage' = "snapshot" /\ UNCHANGED verifyVars
             /\ liveRuns' \in {liveRuns, liveRuns \cup {run + 1}}
    BY <2>1, <2>2 DEF TurnInv, Stages, verifyVars, Runs
  <2>3. CASE /\ stage # "idle" /\ stage' \in Stages
             /\ UNCHANGED <<run, liveRuns, verifyVars>>
    BY <2>1, <2>3 DEF TurnInv, verifyVars
  <2>4. CASE /\ stage = "settle" /\ stage' = "idle" /\ UNCHANGED <<run, liveRuns>>
             /\ ScheduleVerification(run)
    BY <2>1, <2>4 DEF TurnInv, Stages, ScheduleVerification, Runs
  <2>5. QED
    BY <1>1, <2>2, <2>3, <2>4, RunStepTurns
<1>2. CASE EngineOrSite /\ UNCHANGED <<verifyVars, runVars>>
  BY <1>2, EngineKeepsRun DEF TurnInv, verifyVars, runVars
<1>3. CASE VerifyStep /\ UNCHANGED <<engineVars, runVars>>
  BY <1>3, PollsKeepCurrent DEF TurnInv, engineVars, runVars
<1>4. CASE UNCHANGED orderVars
  BY <1>4 DEF TurnInv, orderVars, engineVars, runVars, verifyVars
<1>5. QED
  BY <1>1, <1>2, <1>3, <1>4 DEF OrderNext, EngineOrSite

\* The run, or the wait for it, is where the counters say it is.
THEOREM TurnInvariant == OrderSpec => []TurnInv
<1>1. TurnInv /\ [OrderNext]_orderVars => TurnInv'
  BY TurnNextInv
<1>2. QED
  BY <1>1, TurnInitInv, PTL DEF OrderSpec

\* Each step of the order is a step of its verifications or leaves them
\* alone: runFullPipeline schedules them in turn.
THEOREM UsesVerification == OrderSpec => VerifySpec
<1>1. OrderInit => VerifyInit
  BY DEF OrderInit
<1>2. TurnInv /\ [OrderNext]_orderVars => [VerifyNext]_verifyVars
  <2> SUFFICES ASSUME TurnInv, [OrderNext]_orderVars
               PROVE  [VerifyNext]_verifyVars
    OBVIOUS
  <2>1. CASE RunStep
    <3>1. stage = "settle" => run \in Orders /\ current < run
      BY OrderAssumption DEF TurnInv, OrderAssumption
    <3>2. QED
      BY <2>1, <3>1, RunStepTurns DEF VerifyNext
  <2>2. CASE ~RunStep
    BY <2>2 DEF OrderNext, VerifyNext, orderVars
  <2>3. QED
    BY <2>1, <2>2
<1>3. QED
  BY <1>1, <1>2, TurnInvariant, PTL DEF OrderSpec, VerifySpec

\* So the alarm needs two unknown answers in the whole system as well.
THEOREM OrderAlarm == OrderSpec => AlarmAfterTwoUnknowns
  BY UsesVerification, AlarmNeedsTwoUnknowns, PTL

\* And the user is told of one fate of an order that is the only one.
THEOREM OrderVerdict == OrderSpec => []OneVerdict
  BY UsesVerification, OneVerdictIsAnnounced, PTL

-----------------------------------------------------------------------------
(* Types *)

Names == {"reservation_token", "order_confirmation"}
Counts == [Runs -> [Phases -> Nat]]

EngineTypes ==
  /\ flow \in Flows
  /\ phase \in Phases \cup {"none"} /\ attempt \in Nat /\ step \in Nat \ {0}
  /\ captured \subseteq Names
  /\ response \in Responses \cup {NoResponse} /\ held \in BOOLEAN
  /\ result.ok \in BOOLEAN
  /\ executed \in Counts /\ late \in Counts

RunTypes ==
  /\ chosen \in [Runs -> [price : Prices \cup {0}, cheapest : BOOLEAN]]
  /\ queue \in Seq(Runs) /\ paying \in Runs \cup {0}
  /\ settled \in [Runs -> Nat] /\ confirmed \subseteq Runs
  /\ phase # "none" => phase = stage
  /\ paying # 0 <=> stage = "settle"

RunInv == TurnInv /\ EngineTypes /\ RunTypes

\* A step that is executed is one of the script's.
LEMMA CurrentIsStep ==
  ASSUME EngineTypes, phase # "none", step <= Len(flow[phase])
  PROVE  /\ phase \in Phases /\ step \in DOMAIN flow[phase]
         /\ Current \in FlowSteps
         /\ Current.asks => Current.action \in Requesting
<1>1. phase \in Phases
  BY DEF EngineTypes
<1>2. flow[phase] \in Seq(FlowSteps)
  BY <1>1, EngineAssumption DEF EngineTypes, EngineAssumption, Phases
<1>3. step \in DOMAIN flow[phase]
  BY <1>2 DEF EngineTypes
<1>4. flow[phase][step] \in FlowSteps
  BY <1>2, <1>3
<1>5. QED
  BY <1>1, <1>3, <1>4, EngineAssumption DEF Current, EngineTypes, EngineAssumption, Phases

\* What a step that throws or returns does to the phase.
PhaseGoesOn ==
  /\ phase' \in {phase, "none"} /\ attempt' \in Nat
  /\ step' \in {step, step + 1}
  /\ captured' \subseteq Names
  /\ result'.ok \in BOOLEAN
  /\ phase' # phase => ~result'.ok \/ step > Len(flow[phase])

LEMMA ThrowsGoOn ==
  ASSUME EngineTypes, NEW code, Throw(code)
  PROVE  PhaseGoesOn
<1>1. CASE Retried(code)
  BY <1>1 DEF EngineTypes, Throw, PhaseGoesOn
<1>2. CASE ~Retried(code)
  <2>1. result' = Fail(Reason(code)) /\ phase' = "none" /\ attempt' = 0
        /\ UNCHANGED <<step, captured>>
    BY <1>2 DEF Throw
  <2>2. result'.ok = FALSE
    BY <2>1 DEF Fail
  <2>3. QED
    BY <2>1, <2>2 DEF EngineTypes, PhaseGoesOn
<1>3. QED
  BY <1>1, <1>2

LEMMA StepsGoOn ==
  ASSUME EngineTypes, phase # "none", step <= Len(flow[phase]),
         NEW value \in BOOLEAN, StepDone(value)
  PROVE  PhaseGoesOn
<1>1. Current.captureAs \in Names \cup {"none"}
  BY CurrentIsStep DEF FlowSteps, Names
<1>2. captured' \subseteq Names
  BY <1>1 DEF StepDone, EngineTypes
<1>3. QED
  BY <1>2 DEF StepDone, PhaseGoesOn, EngineTypes

\* The engine works on a phase of the current run, and what it gets and what
\* it makes the site do have their types.
LEMMA EngineStepGoesOn ==
  ASSUME EngineTypes, EngineStep
  PROVE  /\ phase # "none" /\ PhaseGoesOn
         /\ response' \in Responses \cup {NoResponse} /\ held' \in BOOLEAN
         /\ UNCHANGED <<flow, run, liveRuns>>
<1>1. UNCHANGED <<flow, run, liveRuns>>
  BY EngineKeepsRun DEF EngineOrSite
<1>2. CASE EndPhase
  <2>1. /\ phase # "none" /\ phase' = "none" /\ UNCHANGED <<step, attempt, captured, response, held>>
    BY <1>2 DEF EndPhase
  <2>2. result'.ok \in BOOLEAN /\ step > Len(flow[phase])
    BY <1>2 DEF EndPhase, Fail
  <2>3. QED
    BY <1>1, <2>1, <2>2 DEF EngineTypes, PhaseGoesOn
<1>3. CASE SkipStep \/ LocalStep \/ AbortStep \/ AssertStep \/ CaptureStep
             \/ UnsupportedStep \/ UseToken \/ NotSent
  <2>1. phase # "none" /\ step <= Len(flow[phase]) /\ Locally
    BY <1>3 DEF SkipStep, LocalStep, AbortStep, AssertStep, CaptureStep,
       UnsupportedStep, UseToken, NotSent, At
  <2>2. (\E code : Throw(code)) \/ (\E value \in BOOLEAN : StepDone(value))
    BY <1>3 DEF SkipStep, LocalStep, AbortStep, AssertStep, CaptureStep,
       UnsupportedStep, UseToken, NotSent
  <2>3. PhaseGoesOn
    BY <2>1, <2>2, ThrowsGoOn, StepsGoOn
  <2>4. QED
    BY <1>1, <2>1, <2>3 DEF Locally, EngineTypes
<1>4. CASE GivenUp
  <2>1. phase # "none" /\ UNCHANGED <<response, held>> /\ \E code : Throw(code)
    BY <1>4 DEF GivenUp, Sends, At
  <2>2. QED
    BY <1>1, <2>1, ThrowsGoOn DEF EngineTypes
<1>5. CASE \E a \in Responses : Answered(a)
  <2>1. PICK a \in Responses : Answered(a)
    BY <1>5
  <2>2. /\ phase # "none" /\ step <= Len(flow[phase])
        /\ response' = a /\ held' \in BOOLEAN
        /\ (\E code : Throw(code)) \/ StepDone(TRUE)
    BY <2>1, EngineAssumption DEF Answered, Sends, At, EngineAssumption
  <2>3. PhaseGoesOn
    BY <2>2, ThrowsGoOn, StepsGoOn
  <2>4. QED
    BY <1>1, <2>2, <2>3
<1>6. QED
  BY <1>2, <1>3, <1>4, <1>5 DEF EngineStep

\* What a step of the engine adds to the site's account: nothing, or one
\* request of the current phase of a live run, executed now or perhaps later.
LEMMA EngineStepCounts ==
  ASSUME EngineStep
  PROVE  \/ UNCHANGED <<executed, late>>
         \/ /\ run \in liveRuns
            /\ \/ late' = late /\ executed' = [executed EXCEPT ![run][phase] = @ + 1]
               \/ executed' = executed /\ late' = [late EXCEPT ![run][phase] = @ + 1]
<1>1. CASE GivenUp \/ \E a \in Responses : Answered(a)
  BY <1>1 DEF GivenUp, Answered, Sends, BlockedByDryRun, Executes, siteVars
<1>2. CASE ~(GivenUp \/ \E a \in Responses : Answered(a))
  BY <1>2 DEF EngineStep, EndPhase, SkipStep, LocalStep, AbortStep, AssertStep,
     CaptureStep, UnsupportedStep, UseToken, NotSent, Locally, siteVars
<1>3. QED
  BY <1>1, <1>2

LEMMA CountUp ==
  ASSUME NEW c \in Counts, NEW r \in Runs, NEW p \in Phases
  PROVE  [c EXCEPT ![r][p] = @ + 1] \in Counts
BY DEF Counts

LEMMA EngineKeepsTypes ==
  ASSUME RunInv, EngineOrSite, UNCHANGED <<verifyVars, runVars>>
  PROVE  EngineTypes' /\ RunTypes'
<1>1. CASE EngineStep
  <2>1. /\ phase # "none" /\ PhaseGoesOn
        /\ response' \in Responses \cup {NoResponse} /\ held' \in BOOLEAN
        /\ UNCHANGED <<flow, run, liveRuns>>
    BY <1>1, EngineStepGoesOn DEF RunInv
  <2>2. run \in Runs /\ phase \in Phases
    BY <2>1 DEF RunInv, TurnInv, EngineTypes, RunTypes, Phases
  <2>3. executed' \in Counts /\ late' \in Counts
    BY <1>1, <2>2, EngineStepCounts, CountUp DEF RunInv, EngineTypes
  <2>4. EngineTypes'
    BY <2>1, <2>2, <2>3 DEF EngineTypes, PhaseGoesOn, RunInv
  <2>5. RunTypes'
    BY <2>1 DEF RunTypes, RunInv, runVars, PhaseGoesOn
  <2>6. QED
    BY <2>4, <2>5
<1>2. CASE HoldEnds
  BY <1>2 DEF HoldEnds, RunInv, EngineTypes, RunTypes, runVars, siteVars
<1>3. CASE \E r \in Runs, p \in Phases : LateExecution(r, p)
  <2>1. PICK r \in Runs, p \in Phases : LateExecution(r, p)
    BY <1>3
  <2>2. late[r][p] \in Nat \ {0}
    BY <2>1 DEF LateExecution, RunInv, EngineTypes, Counts
  <2>3. executed' \in Counts
    BY <2>1, CountUp DEF LateExecution, RunInv, EngineTypes
  <2>4. late' \in Counts
    BY <2>1, <2>2 DEF LateExecution, RunInv, EngineTypes, Counts
  <2>5. QED
    BY <2>1, <2>3, <2>4 DEF LateExecution, RunInv, EngineTypes, RunTypes, runVars
<1>4. QED
  BY <1>1, <1>2, <1>3 DEF EngineOrSite

\* A phase begins with nothing sent and only the token known.
LEMMA PhaseBegins ==
  ASSUME EngineTypes, NEW p \in Phases, StartPhase(p)
  PROVE  /\ phase' \in {p, "none"} /\ attempt' = 0 /\ step' = 1
         /\ captured' \subseteq Names /\ response' = NoResponse /\ held' \in BOOLEAN
         /\ result'.ok \in BOOLEAN /\ (phase' = "none" => ~result'.ok)
<1>1. captured' \subseteq Names
  BY DEF StartPhase, Names
<1>2. CASE Supported(flow) /\ WellFormed(flow)
  BY <1>1, <1>2 DEF StartPhase, EngineTypes, Phases
<1>3. CASE ~(Supported(flow) /\ WellFormed(flow))
  <2>1. result'.ok = FALSE /\ phase' = "none"
    BY <1>3 DEF StartPhase, Fail
  <2>2. QED
    BY <1>1, <2>1 DEF StartPhase
<1>4. QED
  BY <1>2, <1>3

LEMMA RunEnds ==
  ASSUME RunOver
  PROVE  /\ stage' = "idle" /\ phase' = "none" /\ attempt' = 0 /\ step' = 1
         /\ captured' = {} /\ response' = NoResponse /\ held' \in BOOLEAN
         /\ result'.ok \in BOOLEAN /\ ~result'.ok
BY DEF RunOver, Fail

\* What is left of the queue, and the run that is paid, are runs.
LEMMA SettleBegins ==
  ASSUME RunInv, NEW entries \in Seq(Runs), BeginSettle(entries),
         stage \in {"acquire", "recheck"},
         UNCHANGED <<flow, siteVars, chosen, confirmed>>
  PROVE  EngineTypes' /\ RunTypes'
<1>1. paying = 0 /\ EngineTypes /\ RunTypes
  BY DEF RunInv, RunTypes
<1>a. UNCHANGED <<flow, executed, late, chosen, confirmed>>
  BY DEF siteVars
<1>2. CASE run \in liveRuns /\ entries # <<>>
  <2>1. /\ stage' = "settle" /\ paying' = Head(entries) /\ queue' = Tail(entries)
        /\ settled' = [settled EXCEPT ![Head(entries)] = @ + 1]
        /\ StartPhase("settle")
    BY <1>2 DEF BeginSettle
  <2>a. Head(entries) \in Runs /\ Tail(entries) \in Seq(Runs)
    BY <1>2
  <2>2. Head(entries) \in Runs /\ Tail(entries) \in Seq(Runs) /\ Head(entries) # 0
    BY <2>a DEF Runs
  <2>3. settled' \in [Runs -> Nat]
    BY <2>1, <2>2 DEF RunInv, RunTypes
  <2>4. /\ phase' \in {"settle", "none"} /\ attempt' = 0 /\ step' = 1
        /\ captured' \subseteq Names /\ response' = NoResponse /\ held' \in BOOLEAN
        /\ result'.ok \in BOOLEAN
    <3>1. "settle" \in Phases
      BY DEF Phases
    <3>2. QED
      BY <1>1, <2>1, <3>1, PhaseBegins
  <2>5. EngineTypes'
    BY <1>1, <1>a, <2>4 DEF EngineTypes, Phases
  <2>6. RunTypes'
    BY <1>1, <1>a, <2>1, <2>2, <2>3, <2>4 DEF RunTypes
  <2>7. QED
    BY <2>5, <2>6
<1>3. CASE ~(run \in liveRuns /\ entries # <<>>)
  <2>1. RunOver /\ queue' = entries /\ UNCHANGED <<paying, settled>>
    BY <1>3 DEF BeginSettle
  <2>2. QED
    <3>1. /\ stage' = "idle" /\ phase' = "none" /\ attempt' = 0 /\ step' = 1
          /\ captured' = {} /\ response' = NoResponse /\ held' \in BOOLEAN
          /\ result'.ok \in BOOLEAN /\ ~result'.ok
      BY <2>1, RunEnds
    <3>2. EngineTypes'
      BY <1>1, <1>a, <3>1 DEF EngineTypes
    <3>3. RunTypes'
      BY <1>1, <1>a, <2>1, <3>1 DEF RunTypes
    <3>4. QED
      BY <3>2, <3>3
<1>4. QED
  BY <1>2, <1>3

\* A run that ends leaves nothing of the engine behind.
LEMMA EndsKeepTypes ==
  ASSUME RunInv, RunOver, UNCHANGED <<flow, siteVars>>, paying' = 0,
         chosen' \in [Runs -> [price : Prices \cup {0}, cheapest : BOOLEAN]],
         queue' \in Seq(Runs), settled' = settled, confirmed' \subseteq Runs
  PROVE  EngineTypes' /\ RunTypes'
<1>1. EngineTypes /\ RunTypes /\ UNCHANGED <<executed, late>>
  BY DEF RunInv, siteVars
<1>2. /\ stage' = "idle" /\ phase' = "none" /\ attempt' = 0 /\ step' = 1
      /\ captured' = {} /\ response' = NoResponse /\ held' \in BOOLEAN
      /\ result'.ok \in BOOLEAN /\ ~result'.ok
  BY RunEnds
<1>3. EngineTypes'
  BY <1>1, <1>2 DEF EngineTypes
<1>4. RunTypes'
  BY <1>1, <1>2 DEF RunTypes
<1>5. QED
  BY <1>3, <1>4

\* A snapshot that is refused ends the run; one that passes begins a phase.
LEMMA SnapshotsKeepTypes ==
  ASSUME RunInv, NEW snap \in Snapshots, SnapshotArrives(snap)
  PROVE  EngineTypes' /\ RunTypes'
<1>1. /\ EngineTypes /\ RunTypes /\ stage = "snapshot" /\ run \in Runs
      /\ UNCHANGED <<flow, siteVars, queue, paying, settled, confirmed>>
  BY DEF RunInv, TurnInv, SnapshotArrives
<1>2. CASE PriceGuardPasses(snap) /\ VariantMatches(snap)
  <2>1. /\ stage' = "acquire" /\ StartPhase("acquire")
        /\ chosen' = [chosen EXCEPT ![run] = Choice(snap)]
    BY <1>2 DEF SnapshotArrives
  <2>2. Choice(snap) \in [price : Prices, cheapest : BOOLEAN]
    BY <1>2, ChoiceFacts, VariantAssumption
  <2>3. chosen' \in [Runs -> [price : Prices \cup {0}, cheapest : BOOLEAN]]
    BY <1>1, <2>1, <2>2 DEF RunTypes
  <2>4. "acquire" \in Phases
    BY DEF Phases
  <2>5. /\ phase' \in {"acquire", "none"} /\ attempt' = 0 /\ step' = 1
        /\ captured' \subseteq Names /\ response' = NoResponse /\ held' \in BOOLEAN
        /\ result'.ok \in BOOLEAN
    BY <1>1, <2>1, <2>4, PhaseBegins
  <2>6. EngineTypes'
    BY <1>1, <2>4, <2>5 DEF EngineTypes, siteVars
  <2>7. RunTypes'
    BY <1>1, <2>1, <2>3, <2>5 DEF RunTypes
  <2>8. QED
    BY <2>6, <2>7
<1>3. CASE ~(PriceGuardPasses(snap) /\ VariantMatches(snap))
  <2>1. RunOver /\ chosen' = chosen
    BY <1>3 DEF SnapshotArrives
  <2>2. QED
    BY <1>1, <2>1, EndsKeepTypes DEF RunTypes
<1>4. QED
  BY <1>2, <1>3

LEMMA RunKeepsTypes ==
  ASSUME RunInv, RunStep
  PROVE  EngineTypes' /\ RunTypes'
<1>1. EngineTypes /\ RunTypes
  BY DEF RunInv
<1>2. CASE \E isLive \in BOOLEAN : StartRun(isLive)
  <2>1. /\ stage = "idle" /\ stage' = "snapshot" /\ EngineIdle
        /\ UNCHANGED <<flow, executed, late, chosen, queue, paying, settled, confirmed>>
    BY <1>2 DEF StartRun, siteVars
  <2>2. phase = "none"
    BY <1>1, <2>1 DEF RunTypes, EngineTypes, Phases
  <2>3. QED
    BY <1>1, <2>1, <2>2 DEF EngineTypes, RunTypes, EngineIdle
<1>3. CASE SnapshotThrows \/ RecheckThrows
  <2>1. /\ stage # "settle" /\ RunOver
        /\ UNCHANGED <<flow, siteVars, chosen, queue, paying, settled, confirmed>>
    BY <1>3 DEF SnapshotThrows, RecheckThrows
  <2>2. QED
    BY <1>1, <2>1, EndsKeepTypes DEF RunTypes
<1>4. CASE AcquireFails
  <2>1. /\ stage = "acquire" /\ RunOver
        /\ UNCHANGED <<flow, siteVars, queue, paying, settled, confirmed>>
        /\ chosen' = [chosen EXCEPT ![run] = NotChosen]
    BY <1>4 DEF AcquireFails
  <2>2. NotChosen \in [price : Prices \cup {0}, cheapest : BOOLEAN]
    BY DEF NotChosen
  <2>3. chosen' \in [Runs -> [price : Prices \cup {0}, cheapest : BOOLEAN]]
    BY <1>1, <2>1, <2>2 DEF RunTypes
  <2>4. QED
    BY <1>1, <2>1, <2>3, EndsKeepTypes DEF RunTypes
<1>5. CASE ChannelBusy
  <2>1. /\ stage \in {"acquire", "recheck"} /\ RunOver
        /\ UNCHANGED <<flow, siteVars, chosen, paying, settled, confirmed>>
        /\ queue' \in {queue, Append(queue, run)}
    BY <1>5 DEF ChannelBusy
  <2>2. run \in Runs
    BY <2>1 DEF RunInv, TurnInv
  <2>3. queue' \in Seq(Runs) /\ confirmed' \subseteq Runs /\ paying' = 0
        /\ chosen' \in [Runs -> [price : Prices \cup {0}, cheapest : BOOLEAN]]
        /\ UNCHANGED <<flow, siteVars, settled>>
    <3>1. queue \in Seq(Runs) /\ Append(queue, run) \in Seq(Runs)
      BY <1>1, <2>2 DEF RunTypes
    <3>2. queue' \in Seq(Runs)
      BY <2>1, <3>1
    <3>3. QED
      BY <1>1, <2>1, <3>2 DEF RunTypes
  <2>4. QED
    BY <2>1, <2>3, EndsKeepTypes
<1>6. CASE Enqueued
  <2>1. stage = "acquire" /\ run \in Runs /\ phase = "none"
    BY <1>6 DEF Enqueued, RunInv, TurnInv
  <2>2. UNCHANGED <<flow, siteVars, chosen, confirmed>>
    BY <1>6 DEF Enqueued
  <2>3. Append(queue, run) \in Seq(Runs)
    BY <1>1, <2>1 DEF RunTypes
  <2>4. CASE RunOver /\ queue' = Append(queue, run) /\ UNCHANGED <<paying, settled>>
    BY <1>1, <2>1, <2>2, <2>3, <2>4, EndsKeepTypes DEF RunTypes
  <2>5. CASE /\ stage' = "recheck" /\ queue' = Append(queue, run)
             /\ EngineIdle /\ UNCHANGED <<paying, settled>>
    BY <1>1, <2>1, <2>2, <2>3, <2>5 DEF EngineTypes, RunTypes, EngineIdle, siteVars
  <2>6. CASE BeginSettle(Append(queue, run))
    BY <2>1, <2>2, <2>3, <2>6, SettleBegins
  <2>7. QED
    BY <1>6, <2>4, <2>5, <2>6 DEF Enqueued
<1>7. CASE SettleEnds
  <2>1. /\ stage = "settle" /\ RunOver /\ paying' = 0
        /\ UNCHANGED <<flow, siteVars, queue, settled>>
        /\ confirmed' \in {confirmed, confirmed \cup {run}}
        /\ chosen' = [chosen EXCEPT ![paying] = NotChosen]
    BY <1>7 DEF SettleEnds
  <2>2. run \in Runs
    BY <2>1 DEF RunInv, TurnInv
  <2>3. NotChosen \in [price : Prices \cup {0}, cheapest : BOOLEAN]
    BY DEF NotChosen
  <2>4. chosen' \in [Runs -> [price : Prices \cup {0}, cheapest : BOOLEAN]]
    BY <1>1, <2>1, <2>3 DEF RunTypes
  <2>5. QED
    BY <1>1, <2>1, <2>2, <2>4, EndsKeepTypes DEF RunTypes
<1>8. CASE \E snap \in Snapshots : SnapshotArrives(snap)
  BY <1>8, SnapshotsKeepTypes
<1>9. CASE \E snap \in Snapshots : Rechecked(snap)
  <2>1. /\ stage = "recheck"
        /\ UNCHANGED <<flow, siteVars, chosen, confirmed>>
        /\ \/ BeginSettle(queue)
           \/ RunOver /\ UNCHANGED <<queue, paying, settled>>
    BY <1>9 DEF Rechecked
  <2>2. QED
    BY <1>1, <2>1, SettleBegins, EndsKeepTypes DEF RunTypes
<1>10. QED
  BY <1>2, <1>3, <1>4, <1>5, <1>6, <1>7, <1>8, <1>9 DEF RunStep

LEMMA RunInitInv == OrderInit => RunInv
<1> SUFFICES ASSUME OrderInit  PROVE  RunInv
  OBVIOUS
<1>1. TurnInv
  BY TurnInitInv
<1>2. result.ok \in BOOLEAN
  BY DEF OrderInit, EngineInit, Fail
<1>a. executed \in Counts /\ late \in Counts
  BY DEF OrderInit, EngineInit, Counts
<1>b. held \in BOOLEAN
  BY DEF OrderInit, EngineInit
<1>3. EngineTypes
  BY <1>2, <1>a, <1>b DEF OrderInit, EngineInit, EngineTypes
<1>4. NotChosen \in [price : Prices \cup {0}, cheapest : BOOLEAN]
  BY DEF NotChosen
<1>5. RunTypes
  BY <1>4 DEF OrderInit, EngineInit, RunTypes
<1>6. QED
  BY <1>1, <1>3, <1>5 DEF RunInv

LEMMA RunNextInv == RunInv /\ [OrderNext]_orderVars => RunInv'
<1> SUFFICES ASSUME RunInv, [OrderNext]_orderVars  PROVE  RunInv'
  OBVIOUS
<1>1. TurnInv'
  BY TurnNextInv DEF RunInv
<1>2. CASE RunStep
  BY <1>1, <1>2, RunKeepsTypes DEF RunInv
<1>3. CASE EngineOrSite /\ UNCHANGED <<verifyVars, runVars>>
  BY <1>1, <1>3, EngineKeepsTypes DEF RunInv
<1>4. CASE UNCHANGED <<engineVars, runVars>>
  BY <1>1, <1>4 DEF RunInv, EngineTypes, RunTypes, engineVars, runVars
<1>5. QED
  BY <1>2, <1>3, <1>4 DEF OrderNext, EngineOrSite, orderVars

\* The types of the run and of the engine, and that the two agree.
THEOREM RunInvariant == OrderSpec => []RunInv
<1>1. RunInv /\ [OrderNext]_orderVars => RunInv'
  BY RunNextInv
<1>2. QED
  BY <1>1, RunInitInv, PTL DEF OrderSpec

\* The run, its phase and its verification are always in order.
THEOREM OrderStaysConsistent == OrderSpec => []OrderConsistent
<1>1. OrderSpec => [](VerifyTypeOK /\ CurrentIsPursued)
  BY UsesVerification, VerificationIsPursued, PTL
<1>2. RunInv /\ VerifyTypeOK /\ CurrentIsPursued => OrderConsistent
  <2> SUFFICES ASSUME RunInv, VerifyTypeOK, CurrentIsPursued  PROVE  OrderTypeOK
    BY DEF OrderConsistent
  <2>1. liveRuns \subseteq Runs /\ run \in 0..MaxRuns
    BY EngineAssumption DEF RunInv, TurnInv, Runs, EngineAssumption
  <2>2. EngineTypes /\ stage \in Stages
    BY DEF RunInv, TurnInv
  <2>3. RunTypes
    BY DEF RunInv
  <2>4. held \in BOOLEAN /\ result.ok \in BOOLEAN
    BY <2>2 DEF EngineTypes
  <2>5. QED
    BY <2>1, <2>2, <2>3, <2>4 DEF EngineTypes, RunTypes, OrderTypeOK, Names, Counts
<1>3. QED
  BY <1>1, <1>2, RunInvariant, PTL

-----------------------------------------------------------------------------
(* What the site has executed *)

\* The steps of runFullPipeline send nothing themselves.
LEMMA RunKeepsSite ==
  ASSUME RunStep
  PROVE  UNCHANGED <<flow, executed, late>> /\ liveRuns \subseteq liveRuns'
BY DEF RunStep, StartRun, SnapshotThrows, AcquireFails, Enqueued, RecheckThrows, ChannelBusy,
       SettleEnds, SnapshotArrives, Rechecked, siteVars

Quiet == \A r \in Runs \ liveRuns, p \in Phases : executed[r][p] = 0 /\ late[r][p] = 0

LEMMA QuietNextInv ==
  ASSUME RunInv, Quiet, [OrderNext]_orderVars
  PROVE  Quiet'
<1>1. executed \in Counts /\ late \in Counts
  BY DEF RunInv, EngineTypes
<1>2. CASE RunStep
  BY <1>2, RunKeepsSite DEF Quiet
<1>3. CASE EngineStep
  BY <1>1, <1>3, EngineStepCounts, EngineKeepsRun DEF Quiet, Counts, EngineOrSite
<1>4. CASE HoldEnds \/ UNCHANGED engineVars
  BY <1>4 DEF HoldEnds, engineVars, siteVars, Quiet
<1>5. CASE \E r \in Runs, p \in Phases : LateExecution(r, p)
  BY <1>1, <1>5 DEF LateExecution, Quiet, Counts
<1>6. QED
  BY <1>2, <1>3, <1>4, <1>5 DEF OrderNext, orderVars

\* A run that may not execute live requests makes the site execute nothing
\* that changes anything, now or later.
THEOREM DryRunsSendNothing == OrderSpec => []DryRunSendsNothing
<1>1. OrderInit => Quiet
  BY DEF OrderInit, EngineInit, Quiet
<1>2. RunInv /\ Quiet /\ [OrderNext]_orderVars => Quiet'
  BY QuietNextInv
<1>3. RunInv /\ Quiet => DryRunSendsNothing
  BY DEF RunInv, EngineTypes, Quiet, DryRunSendsNothing, Incurred
<1>4. QED
  BY <1>1, <1>2, <1>3, RunInvariant, PTL DEF OrderSpec

-----------------------------------------------------------------------------
(* The payments that are made *)

\* The payments of the steps before the n-th one.
Paid(n) == {i \in Payments("settle") : i < n}

PaidSoFar ==
  /\ phase = "settle" => executed[run]["settle"] >= Cardinality(Paid(step))
  /\ stage = "settle" /\ phase = "none" /\ result.ok
       => executed[run]["settle"] >= Cardinality(Payments("settle"))
  /\ ConfirmedIsPaid

LEMMA PaymentsAreFinite ==
  ASSUME EngineTypes, NEW n \in Nat
  PROVE  /\ IsFiniteSet(Payments("settle")) /\ IsFiniteSet(Paid(n))
         /\ Cardinality(Paid(n)) \in Nat
         /\ Payments("settle") \subseteq 1..Len(flow["settle"])
         /\ Len(flow["settle"]) \in Nat
<1>1. flow["settle"] \in Seq(FlowSteps)
  BY EngineAssumption DEF EngineTypes, EngineAssumption
<1>2. Payments("settle") \subseteq 1..Len(flow["settle"]) /\ Len(flow["settle"]) \in Nat
  BY <1>1 DEF Payments
<1>3. IsFiniteSet(1..Len(flow["settle"]))
  BY <1>2, FS_Interval
<1>4. Paid(n) \subseteq Payments("settle")
  BY DEF Paid
<1>5. QED
  BY <1>2, <1>3, <1>4, FS_Subset, FS_CardinalityType

\* One more step is one more payment at most, and none if it is no payment.
LEMMA PaidGrows ==
  ASSUME EngineTypes
  PROVE  /\ Cardinality(Paid(step + 1)) <= Cardinality(Paid(step)) + 1
         /\ step \notin Payments("settle") => Paid(step + 1) = Paid(step)
<1>1. step \in Nat /\ \A i \in Payments("settle") : i \in Nat
  BY PaymentsAreFinite DEF EngineTypes
<1>2. CASE step \notin Payments("settle")
  <2>1. Paid(step + 1) = Paid(step)
    BY <1>1, <1>2 DEF Paid
  <2>2. QED
    BY <1>1, <2>1, PaymentsAreFinite
<1>3. CASE step \in Payments("settle")
  <2>1. Paid(step + 1) = Paid(step) \cup {step}
    <3>1. \A i \in Payments("settle") : i < step + 1 <=> i < step \/ i = step
      BY <1>1
    <3>2. QED
      BY <1>3, <3>1 DEF Paid
  <2>2. Cardinality(Paid(step) \cup {step}) \in {Cardinality(Paid(step)), Cardinality(Paid(step)) + 1}
    BY <1>1, PaymentsAreFinite, FS_AddElement
  <2>3. QED
    <3>1. Cardinality(Paid(step)) \in Nat
      BY <1>1, PaymentsAreFinite
    <3>2. QED
      BY <1>3, <2>1, <2>2, <3>1
<1>4. QED
  BY <1>2, <1>3

\* A step that goes on is a payment the site has executed, or none.
LEMMA StepsArePaid ==
  ASSUME EngineTypes, EngineStep, phase = "settle", step' # step
  PROVE  /\ step' = step + 1 /\ phase' = phase
         /\ \/ step \notin Payments("settle")
            \/ executed' = [executed EXCEPT ![run]["settle"] = @ + 1]
<1>1. step \in Payments("settle") => Current.asks /\ Current.when /\ Mutating
  BY DEF Payments, Current, Mutating
<1>2. step <= Len(flow[phase]) => (Current.asks => Current.action \in Requesting)
  BY CurrentIsStep
<1>3. ~EndPhase /\ ~AbortStep /\ ~NotSent /\ ~GivenUp
  BY DEF EndPhase, AbortStep, NotSent, GivenUp, Throw
<1>4. CASE SkipStep \/ LocalStep \/ AssertStep \/ CaptureStep \/ UnsupportedStep \/ UseToken
  <2>1. step <= Len(flow[phase]) /\ (StepDone(TRUE) \/ StepDone(FALSE))
    BY <1>4 DEF SkipStep, LocalStep, AssertStep, CaptureStep, UnsupportedStep, UseToken,
       Throw, At
  <2>2. step \notin Payments("settle")
    <3>1. CASE UseToken
      <4>1. ~Current.asks
        BY <3>1 DEF UseToken, Throw
      <4>2. QED
        BY <1>1, <4>1
    <3>2. CASE SkipStep \/ LocalStep \/ AssertStep \/ CaptureStep \/ UnsupportedStep
      BY <1>1, <1>2, <3>2 DEF SkipStep, LocalStep, AssertStep, CaptureStep, UnsupportedStep,
         At, Requesting
    <3>3. QED
      BY <1>4, <3>1, <3>2
  <2>3. QED
    BY <2>1, <2>2 DEF StepDone
<1>5. CASE \E a \in Responses : Answered(a)
  <2>1. PICK a \in Responses : Answered(a)
    BY <1>5
  <2>2. "none" \in Outcomes(a) /\ StepDone(TRUE)
    BY <2>1 DEF Answered, Throw
  <2>a. a.status \in {"ok", "challenge", "limited", "error", "refused", "declined"}
    BY DEF Responses
  <2>3. a.status = "ok"
    BY <2>2, <2>a DEF Outcomes, CaptureFailures
  <2>4. step \notin Payments("settle") \/ Executes
    BY <1>1, <2>1, <2>3 DEF Answered
  <2>5. QED
    BY <2>2, <2>4 DEF StepDone, Executes
<1>6. QED
  BY <1>3, <1>4, <1>5 DEF EngineStep

\* No step takes an execution back.
LEMMA CountsOnlyGrow ==
  ASSUME RunInv, [OrderNext]_orderVars
  PROVE  \A r \in Runs, p \in Phases : executed[r][p] \in Nat /\ executed'[r][p] >= executed[r][p]
<1>1. executed \in Counts /\ \A r \in Runs, p \in Phases : executed[r][p] \in Nat
  BY DEF RunInv, EngineTypes, Counts
<1>2. CASE RunStep \/ HoldEnds \/ UNCHANGED engineVars
  BY <1>1, <1>2, RunKeepsSite DEF HoldEnds, engineVars, siteVars
<1>3. CASE EngineStep
  <2>1. \/ executed' = executed
        \/ executed' = [executed EXCEPT ![run][phase] = @ + 1]
    BY <1>3, EngineStepCounts
  <2>2. QED
    BY <1>1, <2>1 DEF Counts
<1>4. CASE \E r \in Runs, p \in Phases : LateExecution(r, p)
  BY <1>1, <1>4 DEF LateExecution, Counts
<1>5. QED
  BY <1>2, <1>3, <1>4 DEF OrderNext, orderVars

\* Every payment is one of the steps before the end, and none comes first.
LEMMA PaidAtEnds ==
  ASSUME EngineTypes
  PROVE  /\ Cardinality(Paid(1)) = 0
         /\ step > Len(flow["settle"]) => Paid(step) = Payments("settle")
<1>1. /\ Payments("settle") \subseteq 1..Len(flow["settle"])
      /\ Len(flow["settle"]) \in Nat /\ step \in Nat
  BY PaymentsAreFinite DEF EngineTypes
<1>2. Paid(1) = {}
  <2>1. \A i \in Payments("settle") : ~(i < 1)
    BY <1>1
  <2>2. QED
    BY <2>1 DEF Paid
<1>3. ASSUME step > Len(flow["settle"])  PROVE  Paid(step) = Payments("settle")
  <2>1. \A i \in Payments("settle") : i < step
    BY <1>1, <1>3
  <2>2. QED
    BY <2>1 DEF Paid
<1>4. QED
  BY <1>2, <1>3, FS_EmptySet

\* The engine pays before it goes on, and ends with ok only at the end.
LEMMA EnginePays ==
  ASSUME RunInv, PaidSoFar, EngineStep, phase = "settle",
         executed'[run]["settle"] \in Nat,
         executed'[run]["settle"] >= executed[run]["settle"]
  PROVE  /\ phase' = "settle" => executed'[run]["settle"] >= Cardinality(Paid(step'))
         /\ phase' = "none" /\ result'.ok
              => executed'[run]["settle"] >= Cardinality(Payments("settle"))
<1>1. EngineTypes /\ run \in Runs /\ executed \in Counts /\ step \in Nat
  BY DEF RunInv, TurnInv, EngineTypes, RunTypes
<1>2. executed[run]["settle"] \in Nat
  BY <1>1 DEF Counts, Phases
<1>3. Cardinality(Paid(step)) \in Nat /\ executed[run]["settle"] >= Cardinality(Paid(step))
  BY <1>1, PaymentsAreFinite DEF PaidSoFar
<1>4. executed'[run]["settle"] >= Cardinality(Paid(step))
  BY <1>2, <1>3
<1>5. CASE step' = step
  <2>1. phase' = "none" /\ result'.ok => Paid(step) = Payments("settle")
    BY <1>1, EngineStepGoesOn, PaidAtEnds DEF PhaseGoesOn
  <2>2. QED
    BY <1>4, <1>5, <2>1
<1>6. CASE step' # step
  <2>1. /\ step' = step + 1 /\ phase' = phase
        /\ \/ step \notin Payments("settle")
           \/ executed' = [executed EXCEPT ![run]["settle"] = @ + 1]
    BY <1>1, <1>6, StepsArePaid
  <2>2. /\ Cardinality(Paid(step + 1)) <= Cardinality(Paid(step)) + 1
        /\ step \notin Payments("settle") => Paid(step + 1) = Paid(step)
        /\ Cardinality(Paid(step + 1)) \in Nat
    BY <1>1, PaidGrows, PaymentsAreFinite
  <2>3. CASE step \notin Payments("settle")
    BY <1>4, <2>1, <2>2, <2>3
  <2>4. CASE executed' = [executed EXCEPT ![run]["settle"] = @ + 1]
    <3>1. executed'[run]["settle"] = executed[run]["settle"] + 1
      BY <1>1, <2>4 DEF Counts, Phases
    <3>2. executed'[run]["settle"] >= Cardinality(Paid(step + 1))
      BY <1>2, <1>3, <2>2, <3>1
    <3>3. QED
      BY <2>1, <3>2
  <2>5. QED
    BY <2>1, <2>3, <2>4
<1>7. QED
  BY <1>5, <1>6

\* A settle phase begins with nothing paid; a run is confirmed at its end.
LEMMA RunStepsPay ==
  ASSUME RunInv, RunStep
  PROVE  /\ stage' = "settle" => step' = 1 /\ (phase' = "none" => ~result'.ok)
         /\ \/ confirmed' = confirmed
            \/ /\ confirmed' = confirmed \cup {run}
               /\ stage = "settle" /\ phase = "none" /\ result.ok
<1>1. ASSUME stage' = "settle"  PROVE  StartPhase("settle")
  BY <1>1 DEF RunStep, StartRun, SnapshotThrows, AcquireFails, Enqueued, RecheckThrows,
     ChannelBusy, SettleEnds, SnapshotArrives, Rechecked, RunOver, BeginSettle
<1>2. "settle" \in Phases /\ EngineTypes
  BY DEF Phases, RunInv
<1>3. StartPhase("settle") => step' = 1 /\ (phase' = "none" => ~result'.ok)
  BY <1>2, PhaseBegins
<1>4. \/ confirmed' = confirmed
      \/ /\ confirmed' = confirmed \cup {run}
         /\ stage = "settle" /\ phase = "none" /\ result.ok
  BY DEF RunStep, StartRun, SnapshotThrows, AcquireFails, Enqueued, RecheckThrows,
     ChannelBusy, SettleEnds, SnapshotArrives, Rechecked
<1>5. QED
  BY <1>1, <1>3, <1>4

LEMMA PaidNextInv ==
  ASSUME RunInv, PaidSoFar, [OrderNext]_orderVars
  PROVE  PaidSoFar'
<1>1. \A r \in Runs : /\ executed[r]["settle"] \in Nat
                      /\ executed'[r]["settle"] \in Nat
                      /\ executed'[r]["settle"] >= executed[r]["settle"]
  <2>1. executed' \in Counts
    BY RunNextInv DEF RunInv, EngineTypes
  <2>2. QED
    BY <2>1, CountsOnlyGrow DEF Counts, Phases
<1>2. /\ EngineTypes /\ RunTypes /\ confirmed \subseteq Runs
      /\ step \in Nat
  BY DEF RunInv, RunTypes, EngineTypes
<1>3. Cardinality(Payments("settle")) \in Nat /\ Cardinality(Paid(step)) \in Nat
  BY <1>2, PaymentsAreFinite, FS_CardinalityType
<1>4. flow' = flow
  BY RunKeepsSite, EngineKeepsRun
     DEF OrderNext, orderVars, engineVars, EngineOrSite
<1>5. Payments("settle")' = Payments("settle") /\ Paid(step)' = Paid(step')
  BY <1>4 DEF Payments, Paid
<1>6. stage # "idle" => run \in Runs
  BY DEF RunInv, TurnInv
<1>7. phase' = "settle" => stage' = "settle"
  BY RunNextInv DEF RunInv, RunTypes
<1>8. CASE RunStep
  <2>1. executed' = executed
    BY <1>8, RunKeepsSite
  <2>2. run' \in Runs \/ stage' # "settle"
    BY RunNextInv DEF RunInv, TurnInv
  <2>3. stage' = "settle" => step' = 1 /\ (phase' = "none" => ~result'.ok)
    BY <1>8, RunStepsPay
  <2>4. phase' = "settle" => executed'[run']["settle"] >= Cardinality(Paid(step)')
    BY <1>1, <1>2, <1>5, <1>7, <2>1, <2>2, <2>3, PaidAtEnds
  <2>5. ConfirmedIsPaid'
    BY <1>5, <1>8, <2>1, RunStepsPay DEF PaidSoFar, ConfirmedIsPaid
  <2>6. QED
    BY <2>3, <2>4, <2>5 DEF PaidSoFar
<1>9. ASSUME UNCHANGED <<run, runVars>>  PROVE  ConfirmedIsPaid'
  <2>1. \A r \in confirmed : executed[r]["settle"] >= Cardinality(Payments("settle"))
    BY DEF PaidSoFar, ConfirmedIsPaid
  <2>2. \A r \in confirmed : executed'[r]["settle"] >= Cardinality(Payments("settle"))
    BY <1>1, <1>2, <1>3, <2>1
  <2>3. QED
    BY <1>5, <1>9, <2>2 DEF ConfirmedIsPaid, runVars
<1>10. CASE EngineStep /\ UNCHANGED runVars
  <2>1. run' = run /\ phase # "none" /\ phase' \in {phase, "none"}
    BY <1>2, <1>10, EngineStepGoesOn DEF PhaseGoesOn
  <2>2. phase = stage /\ stage' = stage
    BY <1>2, <1>10, <2>1 DEF RunTypes, runVars
  <2>3. CASE phase = "settle"
    BY <1>1, <1>5, <1>6, <1>9, <1>10, <2>1, <2>2, <2>3, EnginePays DEF PaidSoFar
  <2>4. CASE phase # "settle"
    BY <1>9, <1>10, <2>1, <2>2, <2>4 DEF PaidSoFar
  <2>5. QED
    BY <2>3, <2>4
<1>11. CASE UNCHANGED <<run, runVars, phase, step, result>>
  <2>1. /\ phase' = phase /\ stage' = stage /\ result' = result /\ run' = run
        /\ Paid(step)' = Paid(step)
    BY <1>5, <1>11 DEF runVars
  <2>2. phase = "settle" => run \in Runs /\ executed'[run]["settle"] >= Cardinality(Paid(step))
    BY <1>1, <1>2, <1>3, <1>6 DEF PaidSoFar, RunTypes
  <2>3. stage = "settle" /\ phase = "none" /\ result.ok
          => executed'[run]["settle"] >= Cardinality(Payments("settle"))
    BY <1>1, <1>3, <1>6 DEF PaidSoFar
  <2>4. QED
    BY <1>5, <1>9, <1>11, <2>1, <2>2, <2>3 DEF PaidSoFar
<1>12. CASE HoldEnds \/ \E r \in Runs, p \in Phases : LateExecution(r, p)
  BY <1>8, <1>11, <1>12 DEF HoldEnds, LateExecution, OrderNext, orderVars, engineVars
<1>13. QED
  BY <1>8, <1>10, <1>11, <1>12 DEF OrderNext, orderVars, engineVars

-----------------------------------------------------------------------------
(* What is paid, and how often *)

\* Whatever was the cheapest in stock when a run chose it is within the cap.
Affordable == \A r \in Runs : chosen[r].cheapest => chosen[r].price <= Cap

LEMMA ChosenChanges ==
  ASSUME RunInv, RunStep
  PROVE  \/ chosen' = chosen
         \/ \E r \in Runs : chosen' = [chosen EXCEPT ![r] = NotChosen]
         \/ \E snap \in Snapshots : /\ PriceGuardPasses(snap) /\ VariantMatches(snap)
                                    /\ chosen' = [chosen EXCEPT ![run] = Choice(snap)]
<1>1. CASE AcquireFails \/ SettleEnds
  <2>1. run \in Runs /\ (stage = "settle" => paying \in Runs)
    BY <1>1 DEF AcquireFails, SettleEnds, RunInv, TurnInv, RunTypes
  <2>2. QED
    BY <1>1, <2>1 DEF AcquireFails, SettleEnds
<1>2. CASE ~(AcquireFails \/ SettleEnds)
  BY <1>2 DEF RunStep, StartRun, SnapshotThrows, Enqueued, RecheckThrows, ChannelBusy,
     SnapshotArrives, Rechecked
<1>3. QED
  BY <1>1, <1>2

LEMMA AffordableNextInv ==
  ASSUME RunInv, Affordable, [OrderNext]_orderVars
  PROVE  Affordable'
<1>1. /\ chosen \in [Runs -> [price : Prices \cup {0}, cheapest : BOOLEAN]]
      /\ Cap \in Nat
  BY VariantAssumption DEF RunInv, RunTypes, VariantAssumption
<1>2. CASE chosen' = chosen
  BY <1>2 DEF Affordable
<1>3. ASSUME NEW r \in Runs, chosen' = [chosen EXCEPT ![r] = NotChosen]
      PROVE  Affordable'
  <2>1. NotChosen.price <= Cap
    BY <1>1 DEF NotChosen
  <2>2. QED
    BY <1>1, <1>3, <2>1 DEF Affordable
<1>4. ASSUME NEW snap \in Snapshots, PriceGuardPasses(snap), VariantMatches(snap),
             chosen' = [chosen EXCEPT ![run] = Choice(snap)]
      PROVE  Affordable'
  <2>1. Choice(snap).cheapest => Choice(snap).price <= Cap
    BY <1>4, ChoiceFacts, VariantAssumption
  <2>2. QED
    BY <1>1, <1>4, <2>1 DEF Affordable
<1>5. CASE RunStep
  BY <1>2, <1>3, <1>4, <1>5, ChosenChanges
<1>6. QED
  BY <1>2, <1>5 DEF OrderNext, orderVars, runVars

\* The entries of `q` are of different runs, and none of them was paid.
Fresh(q) ==
  /\ \A i, j \in DOMAIN q : q[i] = q[j] => i = j
  /\ \A i \in DOMAIN q : q[i] <= run /\ settled[q[i]] = 0

QueueInv ==
  /\ Fresh(queue)
  /\ \A r \in Runs : settled[r] <= 1 /\ (r > run => settled[r] = 0)
  /\ stage \in {"snapshot", "acquire"} =>
       settled[run] = 0 /\ \A i \in DOMAIN queue : queue[i] # run

\* The reservation of the run is a new entry.
LEMMA AppendIsFresh ==
  ASSUME RunInv, QueueInv, stage = "acquire"
  PROVE  Append(queue, run) \in Seq(Runs) /\ Fresh(Append(queue, run))
<1> DEFINE q == Append(queue, run)
<1>1. queue \in Seq(Runs) /\ run \in Runs /\ run \in Nat
  BY EngineAssumption DEF RunInv, RunTypes, TurnInv, Runs, EngineAssumption
<1>2. Len(queue) \in Nat /\ DOMAIN queue = 1..Len(queue)
  BY <1>1
<1>3. /\ q \in Seq(Runs) /\ DOMAIN q = 1..(Len(queue) + 1)
      /\ \A i \in DOMAIN q : q[i] = IF i \in DOMAIN queue THEN queue[i] ELSE run
  BY <1>1, <1>2
<1>4. /\ \A i, j \in DOMAIN queue : queue[i] = queue[j] => i = j
      /\ \A i \in DOMAIN queue : queue[i] <= run /\ settled[queue[i]] = 0 /\ queue[i] # run
      /\ settled[run] = 0
  BY DEF QueueInv, Fresh
<1> HIDE DEF q
<1>5. \A i \in DOMAIN q : i \notin DOMAIN queue => i = Len(queue) + 1
  BY <1>2, <1>3
<1>6. \A i, j \in DOMAIN q : q[i] = q[j] => i = j
  BY <1>3, <1>4, <1>5
<1>7. \A i \in DOMAIN q : q[i] <= run /\ settled[q[i]] = 0
  BY <1>1, <1>3, <1>4
<1>8. Fresh(q)
  BY <1>6, <1>7 DEF Fresh
<1>9. QED
  BY <1>3, <1>8 DEF q

\* The first entry is paid for the first time, and leaves the queue.
LEMMA FirstIsPaidOnce ==
  ASSUME RunInv, QueueInv, NEW entries \in Seq(Runs), Fresh(entries),
         BeginSettle(entries), run' = run
  PROVE  QueueInv'
<1>1. settled \in [Runs -> Nat] /\ run \in Nat
  BY EngineAssumption DEF RunInv, RunTypes, TurnInv, EngineAssumption
<1>2. CASE run \in liveRuns /\ entries # <<>>
  <2> DEFINE q == Tail(entries)
             h == Head(entries)
  <2>1. /\ stage' = "settle" /\ queue' = q /\ settled' = [settled EXCEPT ![h] = @ + 1]
    BY <1>2 DEF BeginSettle
  <2>2. /\ Len(entries) \in Nat \ {0} /\ 1 \in DOMAIN entries /\ h = entries[1] /\ h \in Runs
        /\ \A i \in DOMAIN q : i + 1 \in DOMAIN entries /\ q[i] = entries[i + 1]
                               /\ i \in Nat \ {0} /\ q[i] \in Runs
    BY <1>2
  <2> HIDE DEF q, h
  <2>3. h <= run /\ settled[h] = 0
    BY <2>2 DEF Fresh
  <2>4. \A i \in DOMAIN q : q[i] # h
    <3> SUFFICES ASSUME NEW i \in DOMAIN q, q[i] = h  PROVE  FALSE
      OBVIOUS
    <3>1. i + 1 = 1
      BY <2>2 DEF Fresh
    <3>2. QED
      BY <2>2, <3>1
  <2>5. \A i, j \in DOMAIN q : q[i] = q[j] => i = j
    <3> SUFFICES ASSUME NEW i \in DOMAIN q, NEW j \in DOMAIN q, q[i] = q[j]  PROVE  i = j
      OBVIOUS
    <3>1. i + 1 = j + 1
      BY <2>2 DEF Fresh
    <3>2. QED
      BY <2>2, <3>1
  <2>6. \A i \in DOMAIN q : q[i] <= run /\ settled'[q[i]] = 0
    BY <1>1, <2>1, <2>2, <2>4 DEF Fresh
  <2>7. \A r \in Runs : settled'[r] <= 1 /\ (r > run => settled'[r] = 0)
    <3> SUFFICES ASSUME NEW r \in Runs
                 PROVE  settled'[r] <= 1 /\ (r > run => settled'[r] = 0)
      OBVIOUS
    <3>1. r \in Nat /\ h \in Nat
      BY <2>2 DEF Runs
    <3>2. CASE r = h
      BY <1>1, <2>1, <2>2, <2>3, <3>1, <3>2
    <3>3. CASE r # h
      BY <1>1, <2>1, <2>2, <3>1, <3>3 DEF QueueInv
    <3>4. QED
      BY <3>2, <3>3
  <2>8. Fresh(queue)'
    BY <2>1, <2>5, <2>6 DEF Fresh
  <2>9. QED
    BY <2>1, <2>7, <2>8 DEF QueueInv
<1>3. CASE ~(run \in liveRuns /\ entries # <<>>)
  <2>1. stage' = "idle" /\ queue' = entries /\ settled' = settled
    BY <1>3 DEF BeginSettle, RunOver
  <2>2. QED
    BY <2>1 DEF QueueInv, Fresh
<1>4. QED
  BY <1>2, <1>3

LEMMA RunKeepsQueue ==
  ASSUME RunInv, QueueInv, RunStep
  PROVE  QueueInv'
<1>1. settled \in [Runs -> Nat] /\ run \in Nat /\ queue \in Seq(Runs)
  BY EngineAssumption DEF RunInv, RunTypes, TurnInv, EngineAssumption
<1>2. CASE \E isLive \in BOOLEAN : StartRun(isLive)
  <2>1. /\ run' = run + 1 /\ stage' = "snapshot" /\ UNCHANGED <<queue, settled>>
        /\ run + 1 \in Runs
    BY <1>1, <1>2, EngineAssumption DEF StartRun, Runs, EngineAssumption
  <2>2. \A i \in DOMAIN queue : queue[i] \in Nat /\ queue[i] <= run
    BY <1>1 DEF QueueInv, Fresh, Runs
  <2>3. \A r \in Runs : r \in Nat
    BY DEF Runs
  <2>4. Fresh(queue)'
    BY <1>1, <2>1, <2>2 DEF QueueInv, Fresh
  <2>5. \A r \in Runs : settled[r] <= 1 /\ (r > run + 1 => settled[r] = 0)
    BY <1>1, <2>3 DEF QueueInv
  <2>6. settled[run + 1] = 0 /\ \A i \in DOMAIN queue : queue[i] # run + 1
    BY <1>1, <2>1, <2>2 DEF QueueInv
  <2>7. QED
    BY <2>1, <2>4, <2>5, <2>6 DEF QueueInv
<1>3. CASE SnapshotThrows \/ RecheckThrows \/ AcquireFails \/ SettleEnds
  <2>1. stage' = "idle" /\ UNCHANGED <<run, queue, settled>>
    BY <1>3 DEF SnapshotThrows, RecheckThrows, AcquireFails, SettleEnds, RunOver
  <2>2. QED
    BY <2>1 DEF QueueInv, Fresh
<1>4. ASSUME stage' \notin {"snapshot", "acquire"}, UNCHANGED <<run, settled>>,
             queue' = queue \/ (stage = "acquire" /\ queue' = Append(queue, run))
      PROVE  QueueInv'
  <2>1. Fresh(queue')
    BY <1>4, AppendIsFresh DEF QueueInv
  <2>2. Fresh(queue)'
    BY <1>4, <2>1 DEF Fresh
  <2>3. QED
    BY <1>4, <2>2 DEF QueueInv
<1>5. CASE ChannelBusy
  BY <1>4, <1>5 DEF ChannelBusy, RunOver
<1>6. CASE Enqueued
  <2>1. stage = "acquire" /\ run' = run
    BY <1>6 DEF Enqueued
  <2>2. CASE BeginSettle(Append(queue, run))
    BY <2>1, <2>2, AppendIsFresh, FirstIsPaidOnce
  <2>3. QED
    BY <1>4, <1>6, <2>1, <2>2 DEF Enqueued, RunOver
<1>7. CASE \E snap \in Snapshots : SnapshotArrives(snap)
  <2>1. /\ stage = "snapshot" /\ stage' \in {"acquire", "idle"}
        /\ UNCHANGED <<run, queue, settled>>
    BY <1>7 DEF SnapshotArrives, RunOver
  <2>2. QED
    BY <2>1 DEF QueueInv, Fresh
<1>8. CASE \E snap \in Snapshots : Rechecked(snap)
  <2>1. /\ stage = "recheck" /\ run' = run
        /\ \/ BeginSettle(queue)
           \/ RunOver /\ UNCHANGED <<queue, settled>>
    BY <1>8 DEF Rechecked
  <2>2. QED
    BY <1>1, <1>4, <2>1, FirstIsPaidOnce DEF QueueInv, RunOver
<1>9. QED
  BY <1>2, <1>3, <1>5, <1>6, <1>7, <1>8 DEF RunStep

\* Each reservation is paid once though later runs pay what earlier ones have
\* left, what is reported as confirmed was paid, and what was the cheapest in
\* stock is paid within the cap.
THEOREM PaymentsStaySound == OrderSpec => []PaymentsSound
<1>1. OrderInit => PaidSoFar /\ Affordable /\ QueueInv
  <2> SUFFICES ASSUME OrderInit  PROVE  PaidSoFar /\ Affordable /\ QueueInv
    OBVIOUS
  <2>1. PaidSoFar
    BY DEF OrderInit, EngineInit, PaidSoFar, ConfirmedIsPaid
  <2>2. Affordable
    BY VariantAssumption DEF OrderInit, Affordable, NotChosen, VariantAssumption
  <2>3. QueueInv
    BY DEF OrderInit, QueueInv, Fresh
  <2>4. QED
    BY <2>1, <2>2, <2>3
<1>2. RunInv /\ QueueInv /\ [OrderNext]_orderVars => QueueInv'
  <2> SUFFICES ASSUME RunInv, QueueInv, [OrderNext]_orderVars  PROVE  QueueInv'
    OBVIOUS
  <2>1. CASE RunStep
    BY <2>1, RunKeepsQueue
  <2>2. CASE EngineOrSite /\ UNCHANGED runVars
    BY <2>2, EngineKeepsRun DEF QueueInv, Fresh, runVars
  <2>3. CASE UNCHANGED <<engineVars, runVars>>
    BY <2>3 DEF QueueInv, Fresh, engineVars, runVars
  <2>4. QED
    BY <2>1, <2>2, <2>3 DEF OrderNext, EngineOrSite, orderVars
<1>3. RunInv /\ PaidSoFar /\ Affordable /\ QueueInv => PaymentsSound
  <2> SUFFICES ASSUME RunInv, PaidSoFar, Affordable, QueueInv  PROVE  PaymentsSound
    OBVIOUS
  <2>1. ConfirmedIsPaid
    BY DEF PaidSoFar
  <2>2. EachReservationIsPaidOnce
    BY DEF QueueInv, EachReservationIsPaidOnce
  <2>3. CheapestIsWithinCap
    BY DEF RunInv, RunTypes, Affordable, CheapestIsWithinCap
  <2>4. QED
    BY <2>1, <2>2, <2>3 DEF PaymentsSound
<1>4. RunInv /\ PaidSoFar /\ [OrderNext]_orderVars => PaidSoFar'
  BY PaidNextInv
<1>5. RunInv /\ Affordable /\ [OrderNext]_orderVars => Affordable'
  BY AffordableNextInv
<1>6. QED
  BY <1>1, <1>2, <1>3, <1>4, <1>5, RunInvariant, PTL DEF OrderSpec

-----------------------------------------------------------------------------
(* A refusal ends the settle phase *)

Refusals == {"challenge", "declined"}

RefusalEnds == stage = "settle" /\ response.status \in Refusals => phase = "none"

\* The errors that stand for a refusal are not tried again.
LEMMA RefusalsAreNotRetried ==
  ASSUME NEW a \in Responses, Answered(a), phase = "settle", a.status \in Refusals
  PROVE  phase' = "none"
<1>1. Outcomes(a) \subseteq {"payment_3ds_required", "payment_declined"}
  BY DEF Outcomes, Refusals
<1>2. \A code \in Outcomes(a) : ~Retriable(code) /\ code # "none"
  BY <1>1 DEF Retriable, Recovery
<1>3. QED
  BY <1>2 DEF Answered, Throw, Retried

LEMMA RefusalNextInv ==
  ASSUME RunInv, RefusalEnds, [OrderNext]_orderVars
  PROVE  RefusalEnds'
<1>1. RunTypes
  BY DEF RunInv
<1>2. CASE RunStep
  <2>1. ASSUME stage' = "settle"  PROVE  StartPhase("settle")
    BY <1>2, <2>1 DEF RunStep, StartRun, SnapshotThrows, AcquireFails, Enqueued,
       RecheckThrows, ChannelBusy, SettleEnds, SnapshotArrives, Rechecked, RunOver,
       BeginSettle
  <2>2. QED
    BY <2>1 DEF RefusalEnds, StartPhase, NoResponse, Refusals
<1>3. CASE EngineStep /\ UNCHANGED runVars
  <2>1. phase # "none" /\ phase = stage /\ stage' = stage
    BY <1>1, <1>3, EngineStepGoesOn DEF RunTypes, runVars, RunInv
  <2>2. ASSUME NEW a \in Responses, Answered(a)  PROVE  RefusalEnds'
    <3>1. response' = a
      BY <2>2 DEF Answered
    <3>2. QED
      BY <2>1, <2>2, <3>1, RefusalsAreNotRetried DEF RefusalEnds
  <2>3. CASE response' = response
    BY <2>1, <2>3 DEF RefusalEnds
  <2>4. QED
    BY <1>3, <2>2, <2>3 DEF EngineStep, EndPhase, SkipStep, LocalStep, AbortStep, AssertStep,
       CaptureStep, UnsupportedStep, UseToken, NotSent, GivenUp, Locally
<1>4. CASE UNCHANGED <<stage, response, phase>>
  BY <1>4 DEF RefusalEnds
<1>5. QED
  BY <1>2, <1>3, <1>4
     DEF OrderNext, HoldEnds, LateExecution, orderVars, engineVars, runVars

\* A declined payment, or one the bank wants confirmed, is the last the run
\* sends, however many retries the script allows.
THEOREM RefusalsAreFinal == OrderSpec => RefusalIsFinal
<1>1. OrderInit => RefusalEnds
  BY DEF OrderInit, RefusalEnds
<1>2. RunInv /\ RefusalEnds /\ [OrderNext]_orderVars => RefusalEnds'
  BY RefusalNextInv
<1>3. RunInv /\ RefusalEnds /\ [OrderNext]_orderVars =>
        [stage = "settle" /\ response.status \in {"challenge", "declined"}
           => Incurred(run, "settle")' <= Incurred(run, "settle")]_orderVars
  <2> SUFFICES ASSUME RunInv, RefusalEnds, OrderNext, stage = "settle",
                      response.status \in Refusals
               PROVE  Incurred(run, "settle")' <= Incurred(run, "settle")
    BY DEF Refusals
  <2>1. /\ executed \in Counts /\ late \in Counts /\ "settle" \in Phases /\ run \in Runs
        /\ phase = "none"
    BY DEF RunInv, EngineTypes, TurnInv, Phases, RefusalEnds
  <2>2. executed[run]["settle"] \in Nat /\ late[run]["settle"] \in Nat
    BY <2>1 DEF Counts
  <2>3. run' = run
    BY RunStepTurns, EngineKeepsRun
       DEF RunInv, OrderNext, EngineOrSite, engineVars
  <2>4. CASE UNCHANGED <<executed, late>>
    BY <2>2, <2>3, <2>4 DEF Incurred
  <2>5. CASE \E r \in Runs, p \in Phases : LateExecution(r, p)
    <3>1. PICK r \in Runs, p \in Phases : LateExecution(r, p)
      BY <2>5
    <3>2. CASE r = run /\ p = "settle"
      <4>1. /\ executed'[run]["settle"] = executed[run]["settle"] + 1
            /\ late'[run]["settle"] = late[run]["settle"] - 1
        BY <2>1, <3>1, <3>2 DEF LateExecution, Counts
      <4>2. QED
        BY <2>2, <2>3, <4>1 DEF Incurred
    <3>3. CASE ~(r = run /\ p = "settle")
      <4>1. /\ executed'[run]["settle"] = executed[run]["settle"]
            /\ late'[run]["settle"] = late[run]["settle"]
        BY <2>1, <3>1, <3>3 DEF LateExecution, Counts
      <4>2. QED
        BY <2>2, <2>3, <4>1 DEF Incurred
    <3>4. QED
      BY <3>2, <3>3
  <2>6. ~EngineStep
    BY <2>1, EngineStepGoesOn DEF RunInv
  <2>7. QED
    BY <2>4, <2>5, <2>6, RunKeepsSite DEF OrderNext, HoldEnds, engineVars, siteVars
<1>4. QED
  BY <1>1, <1>2, <1>3, RunInvariant, PTL DEF OrderSpec, RefusalIsFinal

-----------------------------------------------------------------------------
(* What the payments may cost *)

\* What the steps of a phase before the n-th one may have cost.
AllowedBefore(p, n) == SumFunctionOnSet(Allowance(p), {i \in Payments(p) : i < n})

\* What the tries of the current step before this one have cost.
Tried == IF step \in Payments(phase) THEN attempt ELSE 0

HasBegun(r, p) ==
  \/ r < run
  \/ r = run /\ p = "acquire" /\ stage # "snapshot"
  \/ r = run /\ p = "settle" /\ stage \in {"settle", "idle"}

ChargesInv ==
  /\ \A r \in Runs, p \in Phases : ~HasBegun(r, p) => Incurred(r, p) = 0
  /\ ChargesBounded
  /\ phase # "none" =>
       /\ Incurred(run, phase) <= AllowedBefore(phase, step) + Tried
       /\ step <= Len(flow[phase]) => attempt <= Current.retry

\* The payments of a phase are finitely many steps, each with an allowance.
LEMMA AllowanceFacts ==
  ASSUME EngineTypes, NEW p \in Phases
  PROVE  /\ Payments(p) \subseteq Nat \ {0} /\ IsFiniteSet(Payments(p))
         /\ \A i \in Payments(p) : /\ i <= Len(flow[p])
                                   /\ flow[p][i].retry \in Nat
                                   /\ Allowance(p)[i] = 1 + flow[p][i].retry
                                   /\ Allowance(p)[i] \in Nat
<1>1. flow[p] \in Seq(FlowSteps)
  BY EngineAssumption DEF EngineTypes, EngineAssumption, Phases
<1>2. Payments(p) \subseteq 1 .. Len(flow[p]) /\ Len(flow[p]) \in Nat
  BY <1>1 DEF Payments
<1>3. IsFiniteSet(Payments(p))
  <2>1. IsFiniteSet(1 .. Len(flow[p]))
    BY <1>2, FS_Interval
  <2>2. QED
    BY <1>2, <2>1, FS_Subset
<1>4. ASSUME NEW i \in Payments(p)
      PROVE  /\ flow[p][i].retry \in Nat
             /\ Allowance(p)[i] = 1 + flow[p][i].retry
  <2>1. i \in DOMAIN flow[p] /\ flow[p][i] \in FlowSteps
    BY <1>1 DEF Payments
  <2>2. QED
    BY <2>1 DEF FlowSteps, Allowance
<1>5. QED
  BY <1>2, <1>3, <1>4

\* The allowance of a phase adds up step by step.
LEMMA AllowanceAddsUp ==
  ASSUME EngineTypes, NEW p \in Phases, NEW n \in Nat
  PROVE  /\ AllowedBefore(p, n) \in Nat
         /\ SumFunctionOnSet(Allowance(p), Payments(p)) \in Nat
         /\ AllowedBefore(p, n) <= SumFunctionOnSet(Allowance(p), Payments(p))
         /\ n \in Payments(p) =>
              /\ AllowedBefore(p, n + 1) = Allowance(p)[n] + AllowedBefore(p, n)
              /\ AllowedBefore(p, n + 1) <= SumFunctionOnSet(Allowance(p), Payments(p))
         /\ n \notin Payments(p) => AllowedBefore(p, n + 1) = AllowedBefore(p, n)
<1> DEFINE Upto(m) == {i \in Payments(p) : i < m}
<1>1. /\ IsFiniteSet(Payments(p)) /\ Payments(p) \subseteq Nat
      /\ \A i \in Payments(p) : Allowance(p)[i] \in Nat
  BY AllowanceFacts
<1>2. \A m : Upto(m) \subseteq Payments(p) /\ IsFiniteSet(Upto(m))
  BY <1>1, FS_Subset
<1>3. \A m : /\ SumFunctionOnSet(Allowance(p), Upto(m)) \in Nat
             /\ SumFunctionOnSet(Allowance(p), Upto(m))
                  <= SumFunctionOnSet(Allowance(p), Payments(p))
  <2> TAKE m
  <2>1. \A i \in Upto(m) : Allowance(p)[i] \in Nat
    BY <1>1
  <2> HIDE DEF Upto
  <2>2. QED
    BY <1>1, <1>2, <2>1, SumType, SumMonotone
<1>4. SumFunctionOnSet(Allowance(p), Payments(p)) \in Nat
  BY <1>1, SumType
<1>5. ASSUME n \in Payments(p)
      PROVE  SumFunctionOnSet(Allowance(p), Upto(n + 1))
               = Allowance(p)[n] + SumFunctionOnSet(Allowance(p), Upto(n))
  <2>1. Upto(n + 1) = Upto(n) \cup {n} /\ n \notin Upto(n)
    <3>1. ~(n < n) /\ \A i \in Payments(p) : i < n + 1 <=> i < n \/ i = n
      BY <1>1
    <3>2. QED
      BY <1>5, <3>1
  <2>2. \A i \in Upto(n) : Allowance(p)[i] \in Nat
    BY <1>1
  <2>3. Allowance(p)[n] \in Nat
    BY <1>1, <1>5
  <2> HIDE DEF Upto
  <2>4. QED
    BY <1>2, <2>1, <2>2, <2>3, SumAdd
<1>6. ASSUME n \notin Payments(p)  PROVE  Upto(n + 1) = Upto(n)
  <2>1. \A i \in Payments(p) : i < n + 1 <=> i < n
    BY <1>1, <1>6
  <2>2. QED
    BY <2>1
<1>7. \A m : AllowedBefore(p, m) = SumFunctionOnSet(Allowance(p), Upto(m))
  BY DEF AllowedBefore
<1> HIDE DEF Upto
<1>8. QED
  BY <1>3, <1>4, <1>5, <1>6, <1>7

\* How a step of the engine goes on: with another try of the step, with the
\* next step, or not at all; and what it may charge for is a payment.
Retries ==
  /\ step <= Len(flow[phase]) /\ attempt < Current.retry
  /\ attempt' = attempt + 1 /\ UNCHANGED <<phase, step>>

Advances ==
  /\ step <= Len(flow[phase])
  /\ step' = step + 1 /\ attempt' = 0 /\ UNCHANGED phase

LEMMA ThrowGoesOn ==
  ASSUME NEW code, Throw(code), step <= Len(flow[phase])
  PROVE  Retries \/ phase' = "none"
BY DEF Throw, Retried, Retries

LEMMA EngineGoesOn ==
  ASSUME EngineStep
  PROVE  Retries \/ Advances \/ phase' = "none"
<1>1. CASE EndPhase
  BY <1>1 DEF EndPhase
<1>2. CASE ~EndPhase
  <2>1. step <= Len(flow[phase])
    BY <1>2 DEF EngineStep, SkipStep, LocalStep, AbortStep, AssertStep, CaptureStep,
       UnsupportedStep, UseToken, NotSent, GivenUp, Answered, Sends, At
  <2>2. (\E code : Throw(code)) \/ StepDone(TRUE) \/ StepDone(FALSE)
    BY <1>2 DEF EngineStep, SkipStep, LocalStep, AbortStep, AssertStep, CaptureStep,
       UnsupportedStep, UseToken, NotSent, GivenUp, Answered
  <2>3. QED
    BY <2>1, <2>2, ThrowGoesOn DEF StepDone, Advances
<1>3. QED
  BY <1>1, <1>2

LEMMA OnlyPaymentsCharge ==
  ASSUME EngineTypes, EngineStep
  PROVE  \/ UNCHANGED <<executed, late>>
         \/ /\ phase # "none" /\ step \in Payments(phase)
            /\ \/ late' = late /\ executed' = [executed EXCEPT ![run][phase] = @ + 1]
               \/ executed' = executed /\ late' = [late EXCEPT ![run][phase] = @ + 1]
<1>1. CASE GivenUp \/ \E a \in Responses : Answered(a)
  <2>1. Sends
    BY <1>1 DEF GivenUp, Answered
  <2>2. phase # "none" /\ step \in DOMAIN flow[phase] /\ Current.when /\ Current.asks
    BY <2>1, CurrentIsStep DEF Sends, At
  <2>3. Mutating => step \in Payments(phase)
    BY <2>2 DEF Mutating, Payments, Current
  <2>4. QED
    BY <1>1, <2>2, <2>3 DEF GivenUp, Answered, Executes, siteVars
<1>2. CASE ~(GivenUp \/ \E a \in Responses : Answered(a))
  BY <1>2 DEF EngineStep, EndPhase, SkipStep, LocalStep, AbortStep, AssertStep,
     CaptureStep, UnsupportedStep, UseToken, NotSent, Locally, siteVars
<1>3. QED
  BY <1>1, <1>2

\* A step of the engine adds to the account of the current phase one request
\* at most, and one only when the step is a payment.
LEMMA AccountGrows ==
  ASSUME RunInv, EngineStep, NEW r \in Runs, NEW p \in Phases
  PROVE  /\ Incurred(r, p) \in Nat
         /\ \/ Incurred(r, p)' = Incurred(r, p)
            \/ /\ r = run /\ p = phase /\ step \in Payments(p)
               /\ Incurred(r, p)' = Incurred(r, p) + 1
<1>1. /\ EngineTypes /\ executed \in [Runs -> [Phases -> Nat]] /\ late \in [Runs -> [Phases -> Nat]]
      /\ run \in Runs /\ phase # "none" /\ phase \in Phases
  BY EngineStepGoesOn DEF RunInv, TurnInv, EngineTypes, RunTypes, Counts, Phases
<1>2. executed[r][p] \in Nat /\ late[r][p] \in Nat
  BY <1>1
<1>3. \/ executed'[r][p] = executed[r][p] /\ late'[r][p] = late[r][p]
      \/ /\ r = run /\ p = phase /\ step \in Payments(p)
         /\ \/ executed'[r][p] = executed[r][p] + 1 /\ late'[r][p] = late[r][p]
            \/ executed'[r][p] = executed[r][p] /\ late'[r][p] = late[r][p] + 1
  BY <1>1, OnlyPaymentsCharge
<1>4. QED
  BY <1>2, <1>3 DEF Incurred

\* The engine spends no more than the allowance of the step it tries.
LEMMA EngineKeepsCharges ==
  ASSUME RunInv, ChargesInv, EngineStep, stage' = stage,
         NEW R \in Runs, NEW P \in Phases, run = R, phase = P
  PROVE  ChargesInv'
<1> DEFINE A == AllowedBefore(P, step)
           all == SumFunctionOnSet(Allowance(P), Payments(P))
           pays == step \in Payments(P)
           I == Incurred(R, P)
<1>1. /\ phase # "none" /\ EngineTypes /\ step \in Nat /\ attempt \in Nat /\ P = stage
      /\ UNCHANGED <<flow, run, liveRuns>>
  BY EngineStepGoesOn DEF RunInv, EngineTypes, RunTypes, Phases
<1>2. /\ \A r \in Runs, p \in Phases : <<r, p>> # <<R, P>> => Incurred(r, p)' = Incurred(r, p)
      /\ \/ I' = I
         \/ pays /\ I' = I + 1
      /\ I \in Nat /\ I' \in Nat
  <2>1. /\ I \in Nat
        /\ \/ I' = I
           \/ pays /\ I' = I + 1
    BY AccountGrows
  <2>2. I' \in Nat
    <3> HIDE DEF I, pays
    <3>1. QED
      BY <2>1
  <2>3. QED
    BY <2>1, <2>2, AccountGrows
<1>3. /\ A \in Nat /\ all \in Nat /\ A <= all
      /\ pays => /\ AllowedBefore(P, step + 1) = (1 + Current.retry) + A
                 /\ AllowedBefore(P, step + 1) <= all
                 /\ Current.retry \in Nat /\ attempt <= Current.retry
      /\ ~pays => AllowedBefore(P, step + 1) = A
      /\ I <= A + Tried
  <2>1. /\ A \in Nat /\ all \in Nat /\ A <= all
        /\ pays => /\ AllowedBefore(P, step + 1) = Allowance(P)[step] + A
                   /\ AllowedBefore(P, step + 1) <= all
        /\ ~pays => AllowedBefore(P, step + 1) = A
    BY <1>1, AllowanceAddsUp
  <2>2. ASSUME pays
        PROVE  /\ step <= Len(flow[P]) /\ flow[P][step].retry \in Nat
               /\ Allowance(P)[step] = 1 + flow[P][step].retry
    BY <1>1, <2>2, AllowanceFacts
  <2>3. /\ I <= A + Tried
        /\ step <= Len(flow[P]) => attempt <= Current.retry
    BY <1>1 DEF ChargesInv
  <2>4. Current.retry = flow[P][step].retry
    BY DEF Current
  <2> HIDE DEF A, all, pays, I
  <2>5. QED
    BY <2>1, <2>2, <2>3, <2>4
<1>4. \A p, n : /\ Payments(p)' = Payments(p) /\ Allowance(p)' = Allowance(p)
                /\ AllowedBefore(p, n)' = AllowedBefore(p, n)
  BY <1>1 DEF Payments, Allowance, AllowedBefore
<1>5. Tried = IF pays THEN attempt ELSE 0
  BY DEF Tried
<1> HIDE DEF A, all, pays, I
<1>6. I' <= A + (IF pays THEN attempt + 1 ELSE 0)
  <2>1. CASE pays
    BY <1>1, <1>2, <1>3, <1>5, <2>1
  <2>2. CASE ~pays
    BY <1>1, <1>2, <1>3, <1>5, <2>2
  <2>3. QED
    BY <2>1, <2>2
<1>7. I' <= AllowedBefore(P, step + 1) /\ AllowedBefore(P, step + 1) <= all
  <2>1. CASE pays
    BY <1>1, <1>2, <1>3, <1>6, <2>1
  <2>2. CASE ~pays
    BY <1>1, <1>2, <1>3, <1>6, <2>2
  <2>3. QED
    BY <2>1, <2>2
<1>8. AllowedBefore(P, step + 1) \in Nat
  BY <1>1, AllowanceAddsUp
<1>9. I' <= all
  BY <1>2, <1>3, <1>7, <1>8
<1>10. ChargesBounded'
  <2> SUFFICES ASSUME NEW r \in Runs, NEW p \in Phases
               PROVE  Incurred(r, p)' <= SumFunctionOnSet(Allowance(p)', Payments(p)')
    BY DEF ChargesBounded
  <2>1. CASE <<r, p>> = <<R, P>>
    BY <1>4, <1>9, <2>1 DEF I, all
  <2>2. CASE <<r, p>> # <<R, P>>
    BY <1>2, <1>4, <2>2 DEF ChargesInv, ChargesBounded
  <2>3. QED
    BY <2>1, <2>2
<1>11. \A r \in Runs, p \in Phases : ~HasBegun(r, p)' => Incurred(r, p)' = 0
  <2> SUFFICES ASSUME NEW r \in Runs, NEW p \in Phases, ~HasBegun(r, p)'
               PROVE  Incurred(r, p)' = 0
    OBVIOUS
  <2>1. HasBegun(R, P) /\ ~HasBegun(r, p)
    BY <1>1 DEF HasBegun, Phases
  <2>2. QED
    BY <1>2, <2>1 DEF ChargesInv
<1>12. ASSUME phase' # "none"
       PROVE  /\ (Incurred(run, phase) <= AllowedBefore(phase, step) + Tried)'
              /\ step' <= Len(flow'[phase']) => attempt' <= Current'.retry
  <2>1. Retries \/ Advances
    BY <1>12, EngineGoesOn
  <2>2. phase' = P /\ run' = R
    BY <1>1, <2>1 DEF Retries, Advances
  <2>3. SUFFICES /\ I' <= AllowedBefore(P, step') + Tried'
                 /\ step' <= Len(flow'[phase']) => attempt' <= Current'.retry
    BY <1>4, <2>2 DEF I
  <2>4. CASE Retries
    <3>1. /\ step' = step /\ attempt' = attempt + 1 /\ attempt < Current.retry
          /\ Current' = Current
          /\ Tried' = IF pays THEN attempt + 1 ELSE 0
      BY <1>1, <1>4, <2>2, <2>4 DEF Retries, Current, Tried, pays
    <3>2. Current.retry \in Nat
      BY <1>1, <2>4, CurrentIsStep DEF Retries, FlowSteps
    <3>3. I' <= AllowedBefore(P, step') + Tried'
      BY <1>6, <3>1 DEF A
    <3>4. QED
      BY <1>1, <3>1, <3>2, <3>3
  <2>5. CASE Advances
    <3>1. step' = step + 1 /\ attempt' = 0 /\ Tried' = 0
      BY <2>5 DEF Advances, Tried
    <3>2. step' <= Len(flow'[phase']) => Current'.retry \in Nat
      <4>1. flow[P] \in Seq(FlowSteps)
        BY <1>1, EngineAssumption DEF EngineTypes, EngineAssumption, Phases
      <4>2. flow'[phase'] = flow[P] /\ Current' = flow[P][step + 1]
        BY <1>1, <2>2, <3>1 DEF Current
      <4>3. step + 1 <= Len(flow[P]) => flow[P][step + 1] \in FlowSteps
        BY <1>1, <4>1
      <4>4. QED
        BY <3>1, <4>2, <4>3 DEF FlowSteps
    <3>3. QED
      BY <1>2, <1>7, <1>8, <3>1, <3>2
  <2>6. QED
    BY <2>1, <2>4, <2>5
<1>13. QED
  BY <1>10, <1>11, <1>12 DEF ChargesInv

\* The steps of runFullPipeline begin a phase only once in a run.
PhaseAnew ==
  /\ phase' = stage' /\ phase' \in Phases /\ step' = 1 /\ attempt' = 0
  /\ run' = run /\ ~HasBegun(run, stage')

LEMMA StagesGoOn ==
  ASSUME RunInv, RunStep
  PROVE  /\ phase' = "none" \/ PhaseAnew
         /\ \/ stage = "idle" /\ run' = run + 1
            \/ stage # "idle" /\ stage' = "idle" /\ run' = run
            \/ /\ run' = run
               /\ \/ stage = "snapshot" /\ stage' = "acquire"
                  \/ stage \in {"acquire", "recheck"} /\ stage' \in {"recheck", "settle"}
<1>1. run \in Nat /\ EngineTypes
  BY EngineAssumption DEF RunInv, TurnInv, EngineAssumption
<1>2. CASE \E isLive \in BOOLEAN : StartRun(isLive)
  BY <1>2 DEF StartRun, EngineIdle, RunInv, RunTypes, EngineTypes, Phases
<1>3. CASE SnapshotThrows \/ AcquireFails \/ RecheckThrows \/ ChannelBusy \/ SettleEnds
  BY <1>3, RunEnds DEF SnapshotThrows, AcquireFails, RecheckThrows, ChannelBusy, SettleEnds
<1>4. ASSUME NEW snap \in Snapshots, SnapshotArrives(snap)
      PROVE  /\ run' = run /\ stage = "snapshot"
             /\ \/ stage' = "idle" /\ phase' = "none"
                \/ stage' = "acquire" /\ StartPhase("acquire")
  BY <1>4, RunEnds DEF SnapshotArrives
<1>5. ASSUME Enqueued \/ \E snap \in Snapshots : Rechecked(snap)
      PROVE  /\ run' = run /\ stage \in {"acquire", "recheck"}
             /\ \/ stage' = "idle" /\ phase' = "none"
                \/ stage' = "recheck" /\ phase' = "none"
                \/ stage' = "settle" /\ StartPhase("settle")
  BY <1>5, RunEnds DEF Enqueued, Rechecked, BeginSettle, EngineIdle
<1>6. ASSUME NEW p \in Phases, StartPhase(p), stage' = p, run' = run, ~HasBegun(run, p)
      PROVE  phase' = "none" \/ PhaseAnew
  BY <1>1, <1>6, PhaseBegins DEF PhaseAnew
<1>7. /\ "acquire" \in Phases /\ "settle" \in Phases
      /\ stage = "snapshot" => ~HasBegun(run, "acquire")
      /\ stage \in {"acquire", "recheck"} => ~HasBegun(run, "settle")
  BY <1>1 DEF HasBegun, Phases
<1>8. CASE \E snap \in Snapshots : SnapshotArrives(snap)
  BY <1>4, <1>6, <1>7, <1>8
<1>9. CASE Enqueued \/ \E snap \in Snapshots : Rechecked(snap)
  BY <1>5, <1>6, <1>7, <1>9
<1>10. QED
  BY <1>2, <1>3, <1>8, <1>9 DEF RunStep

LEMMA RunKeepsCharges ==
  ASSUME RunInv, ChargesInv, RunStep
  PROVE  ChargesInv'
<1>1. /\ UNCHANGED <<flow, executed, late>> /\ EngineTypes /\ run \in Nat
      /\ executed \in Counts /\ late \in Counts
  BY RunKeepsSite, EngineAssumption DEF RunInv, TurnInv, EngineTypes, EngineAssumption
<1>2. \A p, n : /\ Payments(p)' = Payments(p) /\ Allowance(p)' = Allowance(p)
                /\ AllowedBefore(p, n)' = AllowedBefore(p, n)
  BY <1>1 DEF Payments, Allowance, AllowedBefore
<1>3. \A r \in Runs, p \in Phases : Incurred(r, p)' = Incurred(r, p)
  BY <1>1 DEF Incurred
<1>4. ChargesBounded'
  <2> SUFFICES ASSUME NEW r \in Runs, NEW p \in Phases
               PROVE  Incurred(r, p)' <= SumFunctionOnSet(Allowance(p)', Payments(p)')
    BY DEF ChargesBounded
  <2>1. QED
    BY <1>2, <1>3 DEF ChargesInv, ChargesBounded
<1>5. \A r \in Runs, p \in Phases : ~HasBegun(r, p)' => Incurred(r, p)' = 0
  <2> SUFFICES ASSUME NEW r \in Runs, NEW p \in Phases, ~HasBegun(r, p)'
               PROVE  Incurred(r, p)' = 0
    OBVIOUS
  <2>1. r \in Int
    BY EngineAssumption DEF Runs, EngineAssumption
  <2>2. ~HasBegun(r, p)
    BY <1>1, <2>1, StagesGoOn DEF HasBegun
  <2>3. QED
    BY <1>3, <2>2 DEF ChargesInv
<1>6. ASSUME phase' # "none"
      PROVE  /\ (Incurred(run, phase) <= AllowedBefore(phase, step) + Tried)'
             /\ step' <= Len(flow'[phase']) => attempt' <= Current'.retry
  <2>1. PhaseAnew
    BY <1>6, StagesGoOn
  <2>2. PICK P \in Phases : phase' = P /\ stage' = P /\ ~HasBegun(run, P)
    BY <2>1 DEF PhaseAnew
  <2>3. run \in Runs /\ run' = run
    <3>1. stage # "idle"
      BY <2>1, <1>1, StagesGoOn DEF PhaseAnew
    <3>2. QED
      BY <2>1, <3>1 DEF PhaseAnew, RunInv, TurnInv
  <2>4. PICK R \in Runs : run = R
    BY <2>3
  <2>5. Incurred(R, P)' = 0
    BY <1>3, <2>2, <2>4 DEF ChargesInv
  <2>6. step' = 1 /\ attempt' = 0 /\ Tried' = 0
    BY <2>1 DEF PhaseAnew, Tried
  <2>7. AllowedBefore(P, 1) \in Nat
    BY <1>1, AllowanceAddsUp
  <2>8. (Incurred(run, phase) <= AllowedBefore(phase, step) + Tried)'
    <3>1. Incurred(run, phase)' = Incurred(R, P)'
      BY <2>2, <2>3, <2>4 DEF Incurred
    <3>2. AllowedBefore(phase, step)' = AllowedBefore(P, 1)
      BY <1>1, <2>2, <2>6 DEF AllowedBefore, Payments, Allowance
    <3>3. QED
      BY <2>5, <2>6, <2>7, <3>1, <3>2
  <2>9. step' <= Len(flow'[phase']) => Current'.retry \in Nat
    <3>1. flow[P] \in Seq(FlowSteps)
      BY <1>1, EngineAssumption DEF EngineTypes, EngineAssumption, Phases
    <3>2. flow'[phase'] = flow[P] /\ Current' = flow[P][1]
      BY <1>1, <2>2, <2>6 DEF Current
    <3>3. 1 <= Len(flow[P]) => flow[P][1] \in FlowSteps
      BY <3>1
    <3>4. QED
      BY <2>6, <3>2, <3>3 DEF FlowSteps
  <2>10. QED
    BY <2>6, <2>8, <2>9
<1>7. QED
  BY <1>4, <1>5, <1>6 DEF ChargesInv

\* What is executed late was accounted for when the engine gave it up.
LEMMA LateIsIncurred ==
  ASSUME RunInv, ~RunStep, ~EngineStep, [OrderNext]_orderVars
  PROVE  /\ UNCHANGED <<flow, run, phase, step, attempt, stage>>
         /\ \A r \in Runs, p \in Phases : Incurred(r, p)' = Incurred(r, p)
<1>1. executed \in Counts /\ late \in Counts
  BY DEF RunInv, EngineTypes
<1>2. CASE (HoldEnds /\ UNCHANGED <<verifyVars, runVars>>) \/ UNCHANGED <<engineVars, runVars>>
  BY <1>2 DEF HoldEnds, siteVars, engineVars, runVars, Incurred
<1>3. CASE (\E r \in Runs, p \in Phases : LateExecution(r, p)) /\ UNCHANGED runVars
  <2>1. PICK s \in Runs, q \in Phases : LateExecution(s, q)
    BY <1>3
  <2>2. UNCHANGED <<flow, run, phase, step, attempt, stage>>
    BY <1>3, <2>1 DEF LateExecution, runVars
  <2>3. ASSUME NEW r \in Runs, NEW p \in Phases
        PROVE  Incurred(r, p)' = Incurred(r, p)
    <3>1. executed[r][p] \in Nat /\ late[r][p] \in Nat
      BY <1>1 DEF Counts
    <3>2. \/ executed'[r][p] = executed[r][p] /\ late'[r][p] = late[r][p]
          \/ executed'[r][p] = executed[r][p] + 1 /\ late'[r][p] = late[r][p] - 1
      BY <1>1, <2>1 DEF LateExecution, Counts
    <3>3. QED
      BY <3>1, <3>2 DEF Incurred
  <2>4. QED
    BY <2>2, <2>3
<1>4. QED
  BY <1>2, <1>3 DEF OrderNext, orderVars

LEMMA ChargesNextInv ==
  ASSUME RunInv, ChargesInv, [OrderNext]_orderVars
  PROVE  ChargesInv'
<1>1. CASE RunStep
  BY <1>1, RunKeepsCharges
<1>2. CASE EngineStep
  <2>1. phase # "none" /\ EngineTypes
    BY <1>2, EngineStepGoesOn DEF RunInv
  <2>2. run \in Runs /\ phase \in Phases
    BY <2>1 DEF RunInv, TurnInv, EngineTypes, RunTypes, Phases
  <2>3. CASE stage' = stage
    BY <1>2, <2>2, <2>3, EngineKeepsCharges
  <2>4. CASE RunStep
    BY <2>4, RunKeepsCharges
  <2>5. stage' = stage \/ RunStep
    BY DEF OrderNext, orderVars, runVars
  <2>6. QED
    BY <2>3, <2>4, <2>5
<1>3. CASE ~RunStep /\ ~EngineStep
  <2>1. /\ UNCHANGED <<flow, run, phase, step, attempt, stage>>
        /\ \A r \in Runs, p \in Phases : Incurred(r, p)' = Incurred(r, p)
    BY <1>3, LateIsIncurred
  <2>2. \A r, p, n : /\ HasBegun(r, p)' <=> HasBegun(r, p)
                     /\ Payments(p)' = Payments(p) /\ Allowance(p)' = Allowance(p)
                     /\ AllowedBefore(p, n)' = AllowedBefore(p, n)
    BY <2>1 DEF HasBegun, Payments, Allowance, AllowedBefore
  <2>3. \A r \in Runs, p \in Phases : ~HasBegun(r, p)' => Incurred(r, p)' = 0
    BY <2>1, <2>2 DEF ChargesInv
  <2>4. ChargesBounded'
    <3> SUFFICES ASSUME NEW r \in Runs, NEW p \in Phases
                 PROVE  Incurred(r, p)' <= SumFunctionOnSet(Allowance(p)', Payments(p)')
      BY DEF ChargesBounded
    <3>1. QED
      BY <2>1, <2>2 DEF ChargesInv, ChargesBounded
  <2>5. ASSUME phase' # "none"
        PROVE  /\ (Incurred(run, phase) <= AllowedBefore(phase, step) + Tried)'
               /\ step' <= Len(flow'[phase']) => attempt' <= Current'.retry
    <3>1. run \in Runs /\ phase \in Phases /\ phase # "none"
      BY <2>1, <2>5 DEF RunInv, TurnInv, EngineTypes, RunTypes, Phases
    <3>2. PICK R \in Runs, P \in Phases : run = R /\ phase = P
      BY <3>1
    <3>3. Incurred(run, phase)' = Incurred(R, P)' /\ Incurred(run, phase) = Incurred(R, P)
      BY <2>1, <3>2 DEF Incurred
    <3>4. AllowedBefore(phase, step)' = AllowedBefore(phase, step)
      BY <2>1 DEF AllowedBefore, Payments, Allowance
    <3>5. Tried' = Tried /\ Current' = Current
      BY <2>1 DEF Tried, Payments, Current
    <3>6. QED
      BY <2>1, <3>1, <3>3, <3>4, <3>5 DEF ChargesInv
  <2>6. QED
    BY <2>3, <2>4, <2>5 DEF ChargesInv
<1>4. QED
  BY <1>1, <1>2, <1>3

LEMMA ChargesInitInv == OrderInit => ChargesInv
<1> SUFFICES ASSUME OrderInit  PROVE  ChargesInv
  OBVIOUS
<1>1. EngineTypes
  BY RunInitInv DEF RunInv
<1>2. \A r \in Runs, p \in Phases : Incurred(r, p) = 0
  BY DEF OrderInit, EngineInit, Incurred
<1>3. \A p \in Phases : SumFunctionOnSet(Allowance(p), Payments(p)) \in Nat
  <2> TAKE p \in Phases
  <2>1. 0 \in Nat
    OBVIOUS
  <2>2. QED
    BY <1>1, <2>1, AllowanceAddsUp
<1>4. phase = "none"
  BY DEF OrderInit, EngineInit
<1>5. QED
  BY <1>2, <1>3, <1>4 DEF ChargesInv, ChargesBounded

\* A live run costs, in each phase, no more requests that change something
\* than the steps of its script may be tried, whatever the site answers and
\* however late the vault executes; and another run costs none.
THEOREM RequestsStayBounded == OrderSpec => []RequestsBounded
<1>1. RunInv /\ ChargesInv /\ [OrderNext]_orderVars => ChargesInv'
  BY ChargesNextInv
<1>2. ChargesInv => ChargesBounded
  BY DEF ChargesInv
<1>3. ChargesBounded /\ DryRunSendsNothing => RequestsBounded
  BY DEF RequestsBounded
<1>4. QED
  BY <1>1, <1>2, <1>3, ChargesInitInv, RunInvariant, DryRunsSendNothing, PTL DEF OrderSpec
=============================================================================
