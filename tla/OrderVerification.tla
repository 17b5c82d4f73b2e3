--------------------------- MODULE OrderVerification ---------------------------
(***************************************************************************)
(* scheduleOrderVerification of packages/server/sniper2-service/index.js:  *)
(* after a paid order the vendor is asked for its status at growing        *)
(* intervals, until it confirms or cancels the order, forgets it twice in  *)
(* a row, or the intervals are used up.  Each paid run of the task starts  *)
(* a verification of its own, which takes the place of the one before in   *)
(* task.orderVerification, while the timers of the old one live on.        *)
(***************************************************************************)
EXTENDS Integers, Sequences, FiniteSets

CONSTANTS Orders,     \* numbers of the task's orders, in the order they come
          Intervals   \* intervalsMs.length

ASSUME VerificationAssumption ==
  /\ Orders \subseteq Nat \ {0}
  /\ Intervals \in Nat \ {0}

VARIABLES current,   \* the order task.orderVerification is about, or 0
          attempts, unknownStreak, done, \* the fields of each verification
          armed,     \* timers of each order waiting to fire
          polling,   \* polls of each order in the air
          heard,     \* the last "unknown" or "pending" of each order
          verdicts   \* what was announced of each order, in turn

verifyVars == <<current, attempts, unknownStreak, done, armed, polling, heard, verdicts>>

Verdicts == {"confirmed", "cancelled", "timed_out"}

VerifyInit ==
  /\ current = 0
  /\ attempts = [o \in Orders |-> 0]
  /\ unknownStreak = [o \in Orders |-> 0]
  /\ done = [o \in Orders |-> FALSE]
  /\ armed = [o \in Orders |-> 0]
  /\ polling = [o \in Orders |-> 0]
  /\ heard = [o \in Orders |-> "nothing"]
  /\ verdicts = [o \in Orders |-> <<>>]

\* #tickOrderVerification for the verification o that is current: one more
\* timer, or the end of it.
Tick(o, dones, timers) ==
  IF dones[o] THEN UNCHANGED attempts /\ done' = dones /\ armed' = timers
  ELSE IF attempts[o] >= Intervals
       THEN /\ done' = [dones EXCEPT ![o] = TRUE]
            /\ armed' = timers /\ UNCHANGED attempts
       ELSE /\ attempts' = [attempts EXCEPT ![o] = @ + 1]
            /\ armed' = [timers EXCEPT ![o] = @ + 1]
            /\ done' = dones

\* scheduleOrderVerification for the order o.
ScheduleVerification(o) ==
  /\ current' = o
  /\ Tick(o, done, armed)
  /\ UNCHANGED <<unknownStreak, polling, heard, verdicts>>

\* The timer of a poll of o fires: it asks, unless the verification that is
\* current by now is done.
TimerFires(o) ==
  /\ armed[o] > 0
  /\ armed' = [armed EXCEPT ![o] = @ - 1]
  /\ polling' = IF done[current] THEN polling ELSE [polling EXCEPT ![o] = @ + 1]
  /\ UNCHANGED <<current, attempts, unknownStreak, done, heard, verdicts>>

Polled(o) == polling[o] > 0 /\ polling' = [polling EXCEPT ![o] = @ - 1]

\* Mutant of PollThrows: an error ends the poll and nothing else.
PollThrowsAway(o) ==
  /\ Polled(o)
  /\ UNCHANGED <<current, attempts, unknownStreak, done, armed, heard, verdicts>>

\* Mutant of PollThrows: a failed poll is repeated and not counted.
PollThrowsForFree(o) ==
  /\ Polled(o)
  /\ armed' = [armed EXCEPT ![o] = @ + 1]
  /\ UNCHANGED <<current, attempts, unknownStreak, done, heard, verdicts>>

\* fetchOrderStatus throws: the next attempt, for the current order.
PollThrows(o) ==
  /\ Polled(o)
  /\ Tick(current, done, armed)
  /\ UNCHANGED <<current, unknownStreak, heard, verdicts>>

\* A verdict on o is final and announced.
Conclude(o, verdict) ==
  /\ done' = [done EXCEPT ![o] = TRUE]
  /\ verdicts' = [verdicts EXCEPT ![o] = Append(@, verdict)]
  /\ UNCHANGED <<current, attempts, armed>>

\* Mutant of PollJudged: a confirmed order is polled on.
PollJudgedWatchesOn(o) ==
  /\ Polled(o)
  /\ \/ /\ verdicts' = [verdicts EXCEPT ![o] = Append(@, "confirmed")]
        /\ Tick(current, done, armed)
        /\ UNCHANGED current
     \/ Conclude(o, "cancelled")
  /\ UNCHANGED <<unknownStreak, heard>>

\* The vendor confirms the order, or has cancelled or refunded it.
PollJudged(o) ==
  /\ Polled(o)
  /\ \E verdict \in {"confirmed", "cancelled"} : Conclude(o, verdict)
  /\ UNCHANGED <<unknownStreak, heard>>

\* The vendor does not know the order: at the second time it is a timeout.
PollUnknown(o) ==
  /\ Polled(o)
  /\ unknownStreak' = [unknownStreak EXCEPT ![o] = @ + 1]
  /\ heard' = [heard EXCEPT ![o] = "unknown"]
  /\ IF unknownStreak[o] + 1 >= 2 THEN Conclude(o, "timed_out")
     ELSE Tick(current, done, armed) /\ UNCHANGED <<current, verdicts>>

\* Mutant of PollPending: the count of unknown answers goes on.
PollPendingCounts(o) ==
  /\ Polled(o)
  /\ heard' = [heard EXCEPT ![o] = "pending"]
  /\ Tick(current, done, armed)
  /\ UNCHANGED <<current, unknownStreak, verdicts>>

PollPending(o) ==
  /\ Polled(o)
  /\ unknownStreak' = [unknownStreak EXCEPT ![o] = 0]
  /\ heard' = [heard EXCEPT ![o] = "pending"]
  /\ Tick(current, done, armed)
  /\ UNCHANGED <<current, verdicts>>

PollAnswered(o) ==
  PollThrows(o) \/ PollJudged(o) \/ PollUnknown(o) \/ PollPending(o)

VerifyStep == \E o \in Orders : TimerFires(o) \/ PollAnswered(o)

\* A verification as its own system: the orders are scheduled in turn.
VerifyNext ==
  \/ VerifyStep
  \/ \E o \in Orders : current < o /\ ScheduleVerification(o)

VerifySpec == VerifyInit /\ [][VerifyNext]_verifyVars

-----------------------------------------------------------------------------
(* Properties *)

\* Types; no verification uses more attempts than it has intervals, whoever's
\* timers make them: with a second verification of the task, the timers of
\* the first one arm further ones for the second (#tickOrderVerification).
VerifyTypeOK ==
  /\ current \in Orders \cup {0}
  /\ attempts \in [Orders -> 0..Intervals]
  /\ unknownStreak \in [Orders -> Nat]
  /\ done \in [Orders -> BOOLEAN]
  /\ armed \in [Orders -> Nat]
  /\ polling \in [Orders -> Nat]
  /\ heard \in [Orders -> {"nothing", "unknown", "pending"}]
  /\ verdicts \in [Orders -> Seq(Verdicts)]

Announced(o) == {verdicts[o][i] : i \in DOMAIN verdicts[o]}

\* The verification the task holds is done, or has a timer or a poll of its
\* own under way: none of the ways a poll can end loses it.
CurrentIsPursued ==
  current # 0 /\ ~done[current] => armed[current] + polling[current] > 0

\* The user is told of one fate of an order, and of none that changes, as
\* long as the task was paid once.
OneVerdict ==
  (\A o \in Orders : attempts[o] > 0 => o = current) =>
     \A o \in Orders : Len(verdicts[o]) <= 1

\* The alarm that an order has disappeared is raised by the second of two
\* answers "unknown" with no "pending" between them; failing polls between
\* them neither count nor reset the count.
AlarmAfterTwoUnknowns ==
  [][\A o \in Orders :
       "timed_out" \in Announced(o)' /\ "timed_out" \notin Announced(o)
         => heard[o] = "unknown"]_verifyVars

\* The verification of a paid order comes to an end, unless another order of
\* the task takes its place.
EveryVerificationEnds ==
  \A o \in Orders : current = o ~> (done[o] \/ current # o)
=============================================================================
