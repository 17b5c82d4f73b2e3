---------------------------- MODULE Sniper3Watch ----------------------------
(***************************************************************************)
(* A restock watch of packages/server/sniper3-service/index.js: a stock    *)
(* signal drives it, after the user's confirmation where its policy asks   *)
(* for one, to create an order for Sniper2, and the outcomes Sniper2       *)
(* reports decide whether it goes on watching.                             *)
(*                                                                         *)
(* fireSignal suspends while notifications are sent, and the user, the     *)
(* confirmation timer, other signals and Sniper2's events come in between. *)
(* Watches share nothing, so one is modelled.                              *)
(***************************************************************************)
EXTENDS StateMachines, Naturals, FiniteSets

CONSTANTS Signals,        \* bound: the calls of fireSignal that are accepted
          Orders,         \* bound: the sniper2 tasks created for the watch
          Caps,           \* values of policy.maxOrders
          QuarantineAfter,\* quarantineAfterFailures
          None            \* no task linked, no timer handle

ASSUME WatchAssumption ==
  /\ Caps \subseteq Nat
  /\ QuarantineAfter \in Nat \ {0}
  /\ None \notin Signals /\ None \notin Orders

VARIABLES policy,    \* intent.policy, which createWatch stores
          state,     \* the machine's state
          completed, \* context.completedOrders
          failures,  \* context.consecutiveFailures
          linked,    \* linkedTaskId
          pc,        \* where the call of fireSignal with each signal is
          timers,    \* the signals whose confirmation timer is armed
          handle,    \* confirmationHandles: the timer that can be cancelled
          created,   \* history: the tasks created for the watch
          bought,    \* history: those Sniper2 reported as paid
          strayed,   \* history: did an event come that was not of the order
                     \* the watch was executing
          asked,     \* history: the signal last put before the user
          overtaken  \* history: has a request been answered before it was sent out?

machineVars == <<policy, state, completed, failures>>
timerVars == <<timers, handle>>
orderVars == <<linked, created>>
watchVars == <<machineVars, orderVars, pc, timerVars, bought, strayed, asked, overtaken>>

WatchTypeOK ==
  /\ policy \in [requireConfirmation : BOOLEAN, continueAfterSuccess : BOOLEAN,
                 maxOrders : Caps]
  /\ state \in Sniper3States
  /\ completed \in Nat /\ failures \in Nat
  /\ linked \in created \cup {None}
  /\ pc \in [Signals -> {"unused", "signalling", "asking", "returned"}]
  /\ timers \subseteq Signals
  /\ handle \in Signals \cup {None}
  /\ created \subseteq Orders /\ bought \subseteq created
  /\ asked \in Signals \cup {None}
  /\ overtaken \in BOOLEAN /\ strayed \in BOOLEAN

\* createWatch, with any policy.
WatchInit ==
  /\ policy \in [requireConfirmation : BOOLEAN, continueAfterSuccess : BOOLEAN,
                 maxOrders : Caps]
  /\ state = "monitoring"
  /\ completed = 0 /\ failures = 0
  /\ linked = None
  /\ pc = [s \in Signals |-> "unused"]
  /\ timers = {} /\ handle = None
  /\ created = {} /\ bought = {} /\ strayed = FALSE
  /\ asked = None /\ overtaken = FALSE

-----------------------------------------------------------------------------

\* #applyContinuationPolicy, on a machine in st with `done` orders completed.
Continuation(st, done) ==
  IF policy.continueAfterSuccess /\ done < policy.maxOrders
  THEN Sniper3Send(Sniper3Send(st, "continue"), "resume")
  ELSE Sniper3Send(st, "exhaust")

\* executeRestockOrder, of a watch that is executing: the task is created; or
\* there is no bridge or creating it fails, which ends the execution; or the
\* intent lacks a payment or a price, which throws past the machine.
PlaceOrder ==
  \/ /\ \E t \in Orders \ created :
          created' = created \cup {t} /\ linked' = t
     /\ state' = "executing"
  \/ /\ state' = Continuation(Sniper3Send("executing", "failed"), completed)
     /\ UNCHANGED orderVars
  \/ /\ state' = "executing"
     /\ UNCHANGED orderVars

\* Mutant of CancelTimer: the handle is forgotten, the timer goes on.
CancelTimerForgets == handle' = None /\ UNCHANGED timers

\* #cancelConfirmationTimer
CancelTimer == timers' = timers \ {handle} /\ handle' = None

\* The user, the timer or a result leaves the open request behind.
Answer == overtaken' = (overtaken \/ \E s \in Signals : s = asked /\ pc[s] = "asking")

\* fireSignal up to its first await.
FireSignal(s) ==
  /\ pc[s] = "unused"
  /\ completed < policy.maxOrders
  /\ state \in {"monitoring", "configured", "continued"}
  /\ LET from == IF state = "continued" THEN Sniper3Send(state, "resume") ELSE state
     IN state' = Sniper3Send(from, "signal")
  /\ pc' = [pc EXCEPT ![s] = "signalling"]
  /\ UNCHANGED <<policy, completed, failures, orderVars, timerVars, bought, strayed, asked, overtaken>>

\* Mutant of Notified: the order is placed before the user is asked.
NotifiedSkipsConfirm(s) ==
  /\ pc[s] = "signalling"
  /\ pc' = [pc EXCEPT ![s] = "returned"]
  /\ IF Sniper3Send(state, "execute") = "executing" THEN PlaceOrder
     ELSE UNCHANGED <<state, orderVars>>
  /\ UNCHANGED <<policy, completed, failures, timerVars, bought, strayed, asked, overtaken>>

\* fireSignal goes on when the signal's notification is sent or has failed:
\* it asks the user, or executes.  On a watch cancelled meanwhile both events
\* are ignored; executeRestockOrder then throws.
Notified(s) ==
  /\ pc[s] = "signalling"
  /\ IF policy.requireConfirmation
     THEN /\ state' = Sniper3Send(state, "confirm")
          /\ pc' = [pc EXCEPT ![s] = "asking"]
          /\ asked' = IF state' = "confirming" THEN s ELSE asked
          /\ UNCHANGED orderVars
     ELSE /\ IF Sniper3Send(state, "execute") = "executing" THEN PlaceOrder
             ELSE UNCHANGED <<state, orderVars>>
          /\ pc' = [pc EXCEPT ![s] = "returned"]
          /\ UNCHANGED asked
  /\ UNCHANGED <<policy, completed, failures, timerVars, bought, strayed, overtaken>>

\* Mutant of Asked: a failing notification leaves before the timer is armed.
AskedMayThrow(s) ==
  /\ pc[s] = "asking"
  /\ pc' = [pc EXCEPT ![s] = "returned"]
  /\ \/ timers' = timers \cup {s} /\ handle' = s
     \/ UNCHANGED timerVars
  /\ UNCHANGED <<machineVars, orderVars, bought, strayed, asked, overtaken>>

\* The user's notification is sent or has failed: the timer is armed, be the
\* watch still waiting for an answer or not.
Asked(s) ==
  /\ pc[s] = "asking"
  /\ pc' = [pc EXCEPT ![s] = "returned"]
  /\ timers' = timers \cup {s} /\ handle' = s
  /\ UNCHANGED <<machineVars, orderVars, bought, strayed, asked, overtaken>>

ConfirmFromUser ==
  /\ state = "confirming"
  /\ CancelTimer
  /\ PlaceOrder
  /\ Answer
  /\ UNCHANGED <<policy, completed, failures, pc, bought, strayed, asked>>

DismissConfirmation ==
  /\ state = "confirming"
  /\ CancelTimer
  /\ state' = Sniper3Send(state, "timeout")
  /\ Answer
  /\ UNCHANGED <<policy, completed, failures, orderVars, pc, bought, strayed, asked>>

\* The confirmation timer of s: it forgets whatever handle there is, and ends
\* the confirmation that is open, if there is one.
ConfirmationTimeout(s) ==
  /\ s \in timers
  /\ timers' = timers \ {s} /\ handle' = None
  /\ state' = IF state = "confirming" THEN Sniper3Send(state, "timeout") ELSE state
  /\ IF state = "confirming" THEN Answer ELSE UNCHANGED overtaken
  /\ UNCHANGED <<policy, completed, failures, orderVars, pc, bought, strayed, asked>>

-----------------------------------------------------------------------------

\* Mutant of MarkResult: the threshold is passed one failure late.
MarkResultLate(ok) ==
  IF state # "executing" THEN UNCHANGED <<state, completed, failures>>
  ELSE IF ok
  THEN /\ completed' = completed + 1 /\ failures' = 0
       /\ state' = Continuation(Sniper3Send(state, "succeeded"), completed')
  ELSE /\ failures' = failures + 1
       /\ state' = IF failures' > QuarantineAfter
                   THEN Sniper3Send(Sniper3Send(state, "failed"), "exhaust")
                   ELSE Continuation(Sniper3Send(state, "failed"), completed)
       /\ UNCHANGED completed

\* Mutant of MarkResult: a success is not counted.
MarkResultUncounted(ok) ==
  /\ completed' = completed
  /\ IF state # "executing" THEN UNCHANGED <<state, failures>>
     ELSE IF ok
     THEN failures' = 0 /\ state' = Continuation(Sniper3Send(state, "succeeded"), completed)
     ELSE /\ failures' = failures + 1
          /\ state' = IF failures' >= QuarantineAfter
                      THEN Sniper3Send(Sniper3Send(state, "failed"), "exhaust")
                      ELSE Continuation(Sniper3Send(state, "failed"), completed)

\* markExecutionResult: in any state but executing it throws.
MarkResult(ok) ==
  IF state # "executing" THEN UNCHANGED <<state, completed, failures>>
  ELSE IF ok
  THEN /\ completed' = completed + 1 /\ failures' = 0
       /\ state' = Continuation(Sniper3Send(state, "succeeded"), completed')
  ELSE /\ failures' = failures + 1
       /\ state' = IF failures' >= QuarantineAfter
                   THEN Sniper3Send(Sniper3Send(state, "failed"), "exhaust")
                   ELSE Continuation(Sniper3Send(state, "failed"), completed)
       /\ UNCHANGED completed

\* #onSniper2Terminal: a run of any task of the watch, the first or another,
\* reports how it ended.  The watch is found by the task's sourceWatchId, and
\* the result is recorded whichever of its tasks is linked now.
OnSniper2Terminal(t, ok) ==
  /\ t \in created
  /\ MarkResult(ok)
  /\ bought' = IF ok THEN bought \cup {t} ELSE bought
  /\ strayed' = (strayed \/ state # "executing" \/ t # linked)
  /\ UNCHANGED <<policy, orderVars, pc, timerVars, asked, overtaken>>

\* POST /result: the user records a result.
RecordResult(ok) ==
  /\ state = "executing"
  /\ MarkResult(ok)
  /\ UNCHANGED <<policy, orderVars, pc, timerVars, bought, strayed, asked, overtaken>>

\* pauseWatch and resumeWatch; where the machine does not know the event the
\* request is answered with ok and changes nothing.
PauseWatch ==
  /\ state' = Sniper3Send(state, "pause")
  /\ UNCHANGED <<policy, completed, failures, orderVars, pc, timerVars, bought, strayed, asked, overtaken>>

ResumeWatch ==
  /\ state' = Sniper3Send(state, "resume")
  /\ UNCHANGED <<policy, completed, failures, orderVars, pc, timerVars, bought, strayed, asked, overtaken>>

CancelWatch ==
  /\ state' = Sniper3Send(state, "cancel")
  /\ CancelTimer
  /\ IF state = "confirming" THEN Answer ELSE UNCHANGED overtaken
  /\ UNCHANGED <<policy, completed, failures, orderVars, pc, bought, strayed, asked>>

WatchNext ==
  \/ \E s \in Signals : FireSignal(s)
  \/ \E s \in Signals : Notified(s)
  \/ \E s \in Signals : Asked(s)
  \/ \E s \in Signals : ConfirmationTimeout(s)
  \/ ConfirmFromUser
  \/ DismissConfirmation
  \/ \E t \in Orders, ok \in BOOLEAN : OnSniper2Terminal(t, ok)
  \/ \E ok \in BOOLEAN : RecordResult(ok)
  \/ PauseWatch
  \/ ResumeWatch
  \/ CancelWatch

WatchSpec == WatchInit /\ [][WatchNext]_watchVars

\* Every channel delivers or fails, and every timer that is not cancelled
\* fires.  Nothing is assumed of the user, the signals or Sniper2.
WatchFairSpec ==
  /\ WatchSpec
  /\ \A s \in Signals :
       /\ WF_watchVars(Notified(s))
       /\ WF_watchVars(Asked(s))
       /\ WF_watchVars(ConfirmationTimeout(s))

-----------------------------------------------------------------------------
(* Properties *)

\* An order is created only for a watch that waits for it, with the user's
\* consent where the policy asks for it, below the cap of completed orders
\* and not quarantined: none of this changes while fireSignal is suspended,
\* although results of earlier orders may arrive then.
OrdersAreDue ==
  [][created' # created =>
       /\ state = IF policy.requireConfirmation THEN "confirming" ELSE "triggered"
       /\ completed < policy.maxOrders
       /\ failures < QuarantineAfter]_watchVars

\* No more orders than the cap are paid, whoever records their results, as
\* long as every event of Sniper2 is of the order the watch executes.  (When
\* the user has recorded a failure and the success comes later, the next
\* order is counted as the success, and one more than the cap is paid.)
PaidOrdersWithinCap == ~strayed => Cardinality(bought) <= policy.maxOrders

\* A watch with too many failures in a row is exhausted, and stays so.
QuarantineSticks == failures >= QuarantineAfter => state = "exhausted"

\* An armed timer is that of the request the user has open, which can still
\* be cancelled, so that no confirmation is ended by the timer of another:
\* unless the user once answered a request before its notification was sent,
\* which arms a timer after the answer, or the watch is cancelled.
TimersBelongToRequests ==
  \A s \in timers :
    \/ state = "confirming" /\ asked = s /\ handle = s
    \/ overtaken
    \/ state = "cancelled"

\* A signal does not leave the watch waiting for ever: the user's silence is
\* ended by the timer, also when notifications fail or timers are replaced.
EverySignalIsResolved ==
  state \in {"triggered", "confirming"} ~> state \notin {"triggered", "confirming"}

\* The watch in order: types, linked orders and a quarantine that lasts.
WatchConsistent == WatchTypeOK /\ QuarantineSticks
=============================================================================
