------------------------- MODULE Sniper3WatchProofs -------------------------
(***************************************************************************)
(* Proofs about Sniper3Watch, for any number of signals and orders and any *)
(* policy.  The inductive invariant WatchInv adds to the properties what   *)
(* the calls of fireSignal that are suspended may assume: one that waits   *)
(* for the signal's notification still holds the watch in `triggered`,     *)
(* unless it was cancelled, and one that waits for the user's notification *)
(* has its request open, unless it was answered already.                   *)
(***************************************************************************)
EXTENDS Sniper3Watch, FiniteSetTheorems, TLAPS

-----------------------------------------------------------------------------
(* The machine *)

\* The table leads from states of the machine to states of the machine.
LEMMA SendType ==
  ASSUME NEW st \in Sniper3States, NEW event
  PROVE  Sniper3Send(st, event) \in Sniper3States
<1>1. CASE st \in Sniper3Terminal \/ st \notin DOMAIN Sniper3Table
  BY <1>1 DEF Sniper3Send, Transition
<1>2. CASE st \in DOMAIN Sniper3Table /\ st \notin Sniper3Terminal
  <2>1. \A e \in DOMAIN Sniper3Table[st] : Sniper3Table[st][e] \in Sniper3States
    BY <1>2 DEF Sniper3Table, Sniper3States, Sniper3Terminal
  <2>2. QED
    BY <1>2, <2>1 DEF Sniper3Send, Transition
<1>3. QED
  BY <1>1, <1>2

\* What each event does to a watch, as far as the invariant tells apart.
LEMMA EventFacts ==
  /\ \A st \in {"monitoring", "configured"} : Sniper3Send(st, "signal") = "triggered"
  /\ Sniper3Send("continued", "resume") = "monitoring"
  /\ \A st \in Sniper3States :
       /\ Sniper3Send(st, "confirm") = IF st = "triggered" THEN "confirming" ELSE st
       /\ Sniper3Send(st, "execute") = IF st = "triggered" THEN "executing" ELSE st
       /\ Sniper3Send(st, "pause") = IF st = "monitoring" THEN "suspended" ELSE st
       /\ Sniper3Send(st, "resume") =
            IF st \in {"configured", "suspended", "continued"} THEN "monitoring" ELSE st
       /\ Sniper3Send(st, "cancel") =
            IF st \in Sniper3Terminal \cup {"succeeded", "failed"} THEN st ELSE "cancelled"
  /\ Sniper3Send("confirming", "timeout") = "monitoring"
  /\ Sniper3Send(Sniper3Send("executing", "failed"), "exhaust") = "exhausted"
BY DEF Sniper3Send, Transition, Sniper3States, Sniper3Table, Sniper3Terminal

\* An execution that ends sends the watch back to work or exhausts it.
LEMMA ContinuationFacts ==
  ASSUME NEW done, NEW event \in {"succeeded", "failed"}
  PROVE  Continuation(Sniper3Send("executing", event), done) \in {"monitoring", "exhausted"}
BY DEF Continuation, Sniper3Send, Transition, Sniper3Table, Sniper3Terminal

-----------------------------------------------------------------------------
(* The invariant *)

WaitingBelowCap ==
  /\ state \in {"triggered", "confirming"} => completed < policy.maxOrders
  /\ state = "confirming" => policy.requireConfirmation

SignalsHoldTheWatch ==
  /\ \A s \in Signals : pc[s] = "signalling" => state \in {"triggered", "cancelled"}
  /\ state = "triggered" =>
       \A s, q \in Signals : pc[s] = "signalling" /\ pc[q] = "signalling" => s = q

RequestsAreOpen ==
  \A s \in Signals :
    pc[s] = "asking" =>
      \/ state = "confirming" /\ asked = s
      \/ overtaken
      \/ state = "cancelled"

WatchInv ==
  /\ WatchTypeOK
  /\ QuarantineSticks
  /\ WaitingBelowCap
  /\ SignalsHoldTheWatch
  /\ RequestsAreOpen
  /\ TimersBelongToRequests

\* A new watch monitors, with no signal, order or timer.
LEMMA WatchInitInv == WatchAssumption /\ WatchInit => WatchInv
<1> SUFFICES ASSUME WatchAssumption, WatchInit  PROVE  WatchInv
  OBVIOUS
<1>1. "monitoring" \in Sniper3States
  BY DEF Sniper3States, Sniper3Table
<1>2. WatchTypeOK
  BY <1>1 DEF WatchInit, WatchTypeOK
<1>3. QuarantineSticks /\ WaitingBelowCap
  BY DEF WatchInit, WatchAssumption, QuarantineSticks, WaitingBelowCap
<1>4. SignalsHoldTheWatch /\ RequestsAreOpen /\ TimersBelongToRequests
  BY DEF WatchInit, SignalsHoldTheWatch, RequestsAreOpen, TimersBelongToRequests
<1>5. QED
  BY <1>2, <1>3, <1>4 DEF WatchInv

\* Where executeRestockOrder leaves the watch and its orders.
LEMMA PlaceOrderFacts ==
  ASSUME WatchTypeOK, PlaceOrder
  PROVE  /\ state' \in {"executing", "monitoring", "exhausted"}
         /\ state' \in Sniper3States
         /\ created' \subseteq Orders /\ created \subseteq created'
         /\ linked' \in created' \cup {None}
<1>1. state' \in {"executing", "monitoring", "exhausted"}
  BY ContinuationFacts DEF PlaceOrder
<1>2. {"executing", "monitoring", "exhausted"} \subseteq Sniper3States
  BY DEF Sniper3States, Sniper3Table, Sniper3Terminal
<1>3. QED
  BY <1>1, <1>2 DEF PlaceOrder, WatchTypeOK, orderVars

\* A result is recorded in executing only, and leaves no failing watch at work.
LEMMA MarkResultFacts ==
  ASSUME WatchAssumption, WatchTypeOK, QuarantineSticks, NEW ok \in BOOLEAN, MarkResult(ok)
  PROVE  /\ completed' \in Nat /\ failures' \in Nat
         /\ state' \in Sniper3States
         /\ QuarantineSticks'
         /\ \/ state' = state /\ completed' = completed
            \/ state = "executing" /\ state' \in {"monitoring", "exhausted"}
<1>1. CASE state # "executing"
  BY <1>1 DEF MarkResult, WatchTypeOK, QuarantineSticks
<1>2. {"monitoring", "exhausted"} \subseteq Sniper3States
  BY DEF Sniper3States, Sniper3Table, Sniper3Terminal
<1>3. CASE state = "executing" /\ ok
  BY <1>2, <1>3, ContinuationFacts DEF MarkResult, WatchTypeOK, QuarantineSticks, WatchAssumption
<1>4. CASE state = "executing" /\ ~ok
  <2>1. /\ failures' = failures + 1 /\ completed' = completed
        /\ state' = IF failures' >= QuarantineAfter
                    THEN Sniper3Send(Sniper3Send("executing", "failed"), "exhaust")
                    ELSE Continuation(Sniper3Send("executing", "failed"), completed)
    BY <1>4 DEF MarkResult
  <2>2. QED
    BY <1>2, <1>4, <2>1, EventFacts, ContinuationFacts DEF WatchTypeOK, QuarantineSticks
<1>5. QED
  BY <1>1, <1>3, <1>4

\* fireSignal takes the watch out of monitoring, so no other call holds it.
LEMMA FireSignalInv ==
  ASSUME WatchInv, NEW s \in Signals, FireSignal(s)
  PROVE  WatchInv'
<1> USE DEF WatchInv
<1>1. /\ state \in {"monitoring", "configured", "continued"} /\ state' = "triggered"
      /\ completed < policy.maxOrders
      /\ pc' = [pc EXCEPT ![s] = "signalling"]
      /\ UNCHANGED <<policy, completed, failures, orderVars, timerVars, bought, strayed, asked, overtaken>>
  BY EventFacts DEF FireSignal
<1>2. "triggered" \in Sniper3States
  BY DEF Sniper3States, Sniper3Table
<1>3. WatchTypeOK'
  BY <1>1, <1>2 DEF WatchTypeOK, orderVars, timerVars
<1>4. QuarantineSticks' /\ WaitingBelowCap'
  BY <1>1 DEF QuarantineSticks, WaitingBelowCap
<1>5. SignalsHoldTheWatch'
  BY <1>1 DEF SignalsHoldTheWatch, WatchTypeOK
<1>6. RequestsAreOpen' /\ TimersBelongToRequests'
  BY <1>1 DEF RequestsAreOpen, TimersBelongToRequests, WatchTypeOK, timerVars
<1>7. QED
  BY <1>3, <1>4, <1>5, <1>6

\* The call that holds the watch asks the user or places the order.
LEMMA NotifiedInv ==
  ASSUME WatchInv, NEW s \in Signals, Notified(s)
  PROVE  WatchInv'
<1> USE DEF WatchInv
<1>1. /\ pc[s] = "signalling" /\ state \in {"triggered", "cancelled"}
      /\ UNCHANGED <<policy, completed, failures, timerVars, bought, strayed, overtaken>>
  BY DEF Notified, SignalsHoldTheWatch
<1>2. CASE policy.requireConfirmation
  <2>1. /\ state' = IF state = "triggered" THEN "confirming" ELSE state
        /\ pc' = [pc EXCEPT ![s] = "asking"]
        /\ asked' = IF state' = "confirming" THEN s ELSE asked
        /\ UNCHANGED orderVars
    BY <1>1, <1>2, EventFacts DEF Notified, WatchTypeOK
  <2>2. "confirming" \in Sniper3States
    BY DEF Sniper3States, Sniper3Table
  <2>3. WatchTypeOK'
    BY <1>1, <2>1, <2>2 DEF WatchTypeOK, orderVars, timerVars
  <2>4. QuarantineSticks' /\ WaitingBelowCap'
    BY <1>1, <1>2, <2>1 DEF QuarantineSticks, WaitingBelowCap
  <2>5. SignalsHoldTheWatch'
    BY <1>1, <2>1 DEF SignalsHoldTheWatch, WatchTypeOK
  <2>6. RequestsAreOpen' /\ TimersBelongToRequests'
    BY <1>1, <2>1 DEF RequestsAreOpen, TimersBelongToRequests, WatchTypeOK, timerVars
  <2>7. QED
    BY <2>3, <2>4, <2>5, <2>6
<1>3. CASE ~policy.requireConfirmation
  <2>1. /\ pc' = [pc EXCEPT ![s] = "returned"] /\ asked' = asked
        /\ \/ state = "triggered" /\ PlaceOrder
           \/ state = "cancelled" /\ state' = state /\ UNCHANGED orderVars
    BY <1>1, <1>3, EventFacts DEF Notified, WatchTypeOK
  <2>2. /\ \/ state = "triggered" /\ state' \in {"executing", "monitoring", "exhausted"}
           \/ state = "cancelled" /\ state' = "cancelled"
        /\ state' \in Sniper3States
        /\ created' \subseteq Orders /\ created \subseteq created'
        /\ linked' \in created' \cup {None}
    BY <2>1, PlaceOrderFacts DEF WatchTypeOK, orderVars
  <2>3. WatchTypeOK'
    BY <1>1, <2>1, <2>2 DEF WatchTypeOK, timerVars
  <2>4. QuarantineSticks' /\ WaitingBelowCap'
    BY <1>1, <2>2 DEF QuarantineSticks, WaitingBelowCap
  <2>5. SignalsHoldTheWatch'
    BY <1>1, <2>1, <2>2 DEF SignalsHoldTheWatch, WatchTypeOK
  <2>6. RequestsAreOpen' /\ TimersBelongToRequests'
    BY <1>1, <2>1, <2>2 DEF RequestsAreOpen, TimersBelongToRequests, WatchTypeOK, timerVars
  <2>7. QED
    BY <2>3, <2>4, <2>5, <2>6
<1>4. QED
  BY <1>2, <1>3

\* The timer armed when the user was asked is that of the open request.
LEMMA AskedInv ==
  ASSUME WatchInv, NEW s \in Signals, Asked(s)
  PROVE  WatchInv'
<1> USE DEF WatchInv
<1>1. /\ pc[s] = "asking" /\ pc' = [pc EXCEPT ![s] = "returned"]
      /\ timers' = timers \cup {s} /\ handle' = s
      /\ UNCHANGED <<machineVars, orderVars, bought, strayed, asked, overtaken>>
  BY DEF Asked
<1>2. WatchTypeOK'
  BY <1>1 DEF WatchTypeOK, machineVars, orderVars
<1>3. QuarantineSticks' /\ WaitingBelowCap'
  BY <1>1 DEF QuarantineSticks, WaitingBelowCap, machineVars
<1>4. SignalsHoldTheWatch'
  BY <1>1 DEF SignalsHoldTheWatch, WatchTypeOK, machineVars
<1>5. RequestsAreOpen' /\ TimersBelongToRequests'
  BY <1>1 DEF RequestsAreOpen, TimersBelongToRequests, WatchTypeOK, machineVars
<1>6. QED
  BY <1>2, <1>3, <1>4, <1>5

\* An answer to the open request, by the user or the timer, takes its timer
\* away, or finds it not armed yet and is on record as having overtaken it.
LEMMA AnswerInv ==
  ASSUME WatchInv, state = "confirming", Answer,
         timers' \subseteq timers, handle \notin timers' \/ overtaken, handle' = None,
         state' \in {"executing", "monitoring", "exhausted", "cancelled"} \cap Sniper3States,
         created' \subseteq Orders, created \subseteq created',
         linked' \in created' \cup {None},
         UNCHANGED <<policy, completed, failures, pc, bought, strayed, asked>>
  PROVE  WatchInv'
<1> USE DEF WatchInv
<1>1. overtaken' = (overtaken \/ \E s \in Signals : s = asked /\ pc[s] = "asking")
  BY DEF Answer
<1>2. WatchTypeOK'
  BY <1>1 DEF WatchTypeOK
<1>3. QuarantineSticks' /\ WaitingBelowCap'
  BY DEF QuarantineSticks, WaitingBelowCap
<1>4. SignalsHoldTheWatch'
  BY DEF SignalsHoldTheWatch
<1>5. RequestsAreOpen'
  BY <1>1 DEF RequestsAreOpen
<1>6. TimersBelongToRequests'
  BY <1>1 DEF TimersBelongToRequests
<1>7. QED
  BY <1>2, <1>3, <1>4, <1>5, <1>6

\* The user agrees: the request's timer is cancelled, the order is placed.
LEMMA ConfirmInv ==
  ASSUME WatchInv, ConfirmFromUser
  PROVE  WatchInv'
<1>1. /\ WatchTypeOK /\ state = "confirming" /\ Answer /\ PlaceOrder
      /\ timers' = timers \ {handle} /\ handle' = None
      /\ UNCHANGED <<policy, completed, failures, pc, bought, strayed, asked>>
  BY DEF ConfirmFromUser, CancelTimer, WatchInv
<1>2. /\ state' \in {"executing", "monitoring", "exhausted", "cancelled"} \cap Sniper3States
      /\ created' \subseteq Orders /\ created \subseteq created'
      /\ linked' \in created' \cup {None}
  BY <1>1, PlaceOrderFacts
<1>3. timers' \subseteq timers /\ (handle \notin timers' \/ overtaken)
  BY <1>1
<1>4. QED
  BY <1>1, <1>2, <1>3, AnswerInv

\* The user declines, the watch is cancelled under the request, or its timer
\* fires: the timer goes, the watch leaves confirming and no order is placed.
LEMMA LeaveConfirmingInv ==
  ASSUME WatchInv, state = "confirming", Answer,
         timers' \subseteq timers, handle \notin timers' \/ overtaken, handle' = None,
         state' \in {Sniper3Send(state, "timeout"), Sniper3Send(state, "cancel")},
         UNCHANGED <<policy, completed, failures, orderVars, pc, bought, strayed, asked>>
  PROVE  WatchInv'
<1>1. WatchTypeOK
  BY DEF WatchInv
<1>2. state' \in {"executing", "monitoring", "exhausted", "cancelled"} \cap Sniper3States
  BY <1>1, EventFacts, SendType DEF WatchTypeOK, Sniper3Terminal
<1>3. /\ created' \subseteq Orders /\ created \subseteq created'
      /\ linked' \in created' \cup {None}
  BY <1>1 DEF WatchTypeOK, orderVars
<1>4. QED
  BY <1>2, <1>3, AnswerInv

\* A timer that fires without an open request only goes away.
LEMMA LateTimerInv ==
  ASSUME WatchInv, NEW s \in Signals, state # "confirming", ConfirmationTimeout(s)
  PROVE  WatchInv'
<1> USE DEF WatchInv
<1>1. /\ timers' = timers \ {s} /\ handle' = None
      /\ UNCHANGED <<machineVars, orderVars, pc, bought, strayed, asked, overtaken>>
  BY DEF ConfirmationTimeout, machineVars
<1>2. WatchTypeOK'
  BY <1>1 DEF WatchTypeOK, machineVars, orderVars
<1>3. QuarantineSticks' /\ WaitingBelowCap' /\ SignalsHoldTheWatch' /\ RequestsAreOpen'
  BY <1>1 DEF QuarantineSticks, WaitingBelowCap, SignalsHoldTheWatch, RequestsAreOpen, machineVars
<1>4. TimersBelongToRequests'
  BY <1>1 DEF TimersBelongToRequests, machineVars
<1>5. QED
  BY <1>2, <1>3, <1>4

\* A step that moves the machine from a state in which nobody waits for the
\* watch to another such state, or cancels it, disturbs no signal and no timer.
LEMMA MachineStepInv ==
  ASSUME WatchInv, state \notin {"confirming"},
         state' \in Sniper3States \ {"triggered", "confirming"},
         state = "triggered" => state' = "cancelled",
         state = "cancelled" => state' = "cancelled",
         completed' \in Nat, failures' \in Nat, QuarantineSticks',
         bought' \subseteq created /\ strayed' \in BOOLEAN,
         timers' \subseteq timers, handle' \in Signals \cup {None},
         UNCHANGED <<policy, orderVars, pc, asked, overtaken>>
  PROVE  WatchInv'
<1> USE DEF WatchInv
<1>1. WatchTypeOK'
  BY DEF WatchTypeOK, orderVars
<1>2. WaitingBelowCap'
  BY DEF WaitingBelowCap
<1>3. SignalsHoldTheWatch'
  BY DEF SignalsHoldTheWatch
<1>4. RequestsAreOpen' /\ TimersBelongToRequests'
  BY DEF RequestsAreOpen, TimersBelongToRequests
<1>5. QED
  BY <1>1, <1>2, <1>3, <1>4

\* A step that only puts a payment on record disturbs nothing.
LEMMA RecordInv ==
  ASSUME WatchInv, bought' \subseteq created /\ strayed' \in BOOLEAN,
         UNCHANGED <<machineVars, orderVars, pc, timerVars, asked, overtaken>>
  PROVE  WatchInv'
BY DEF WatchInv, WatchTypeOK, QuarantineSticks, WaitingBelowCap, SignalsHoldTheWatch,
       RequestsAreOpen, TimersBelongToRequests, machineVars, orderVars, timerVars

\* A result, recorded by Sniper2 or the user, ends an execution or is refused.
LEMMA ResultInv ==
  ASSUME WatchAssumption, WatchInv, NEW ok \in BOOLEAN, MarkResult(ok),
         bought' \subseteq created /\ strayed' \in BOOLEAN,
         UNCHANGED <<policy, orderVars, pc, timerVars, asked, overtaken>>
  PROVE  WatchInv'
<1>1. /\ completed' \in Nat /\ failures' \in Nat /\ state' \in Sniper3States
      /\ QuarantineSticks'
  BY MarkResultFacts DEF WatchInv
<1>2. CASE state # "executing"
  BY <1>2, RecordInv DEF MarkResult, machineVars
<1>3. CASE state = "executing"
  <2>1. state' \in {"monitoring", "exhausted", "executing"}
    BY <1>3, MarkResultFacts DEF WatchInv
  <2>2. timers' \subseteq timers /\ handle' \in Signals \cup {None}
    BY DEF WatchInv, WatchTypeOK, timerVars
  <2>3. QED
    BY <1>1, <1>3, <2>1, <2>2, MachineStepInv
<1>4. QED
  BY <1>2, <1>3

\* Pausing and resuming moves a watch that nobody waits for, or nothing.
LEMMA PauseResumeInv ==
  ASSUME WatchInv, PauseWatch \/ ResumeWatch
  PROVE  WatchInv'
<1>1. /\ UNCHANGED <<policy, completed, failures, orderVars, pc, timerVars, bought, strayed, asked,
                     overtaken>>
      /\ \/ state' = state
         \/ state \in {"monitoring", "suspended", "configured", "continued"}
            /\ state' \in {"monitoring", "suspended"}
  BY EventFacts DEF PauseWatch, ResumeWatch, WatchInv, WatchTypeOK
<1>2. bought' \subseteq created /\ strayed' \in BOOLEAN
  BY <1>1 DEF WatchInv, WatchTypeOK
<1>3. CASE state' = state
  BY <1>1, <1>2, <1>3, RecordInv DEF machineVars
<1>4. CASE state' # state
  <2>1. {"monitoring", "suspended"} \subseteq Sniper3States
    BY DEF Sniper3States, Sniper3Table
  <2>2. completed' \in Nat /\ failures' \in Nat /\ QuarantineSticks'
    BY <1>1, <1>4 DEF WatchInv, WatchTypeOK, QuarantineSticks
  <2>3. timers' \subseteq timers /\ handle' \in Signals \cup {None}
    BY <1>1 DEF WatchInv, WatchTypeOK, timerVars
  <2>4. QED
    BY <1>1, <1>2, <1>4, <2>1, <2>2, <2>3, MachineStepInv
<1>5. QED
  BY <1>3, <1>4

\* Cancelling takes the watch out of whatever it waits for.
LEMMA CancelInv ==
  ASSUME WatchInv, CancelWatch
  PROVE  WatchInv'
<1>1. /\ WatchTypeOK
      /\ state' = Sniper3Send(state, "cancel")
      /\ timers' = timers \ {handle} /\ handle' = None
      /\ UNCHANGED <<policy, completed, failures, orderVars, pc, bought, strayed, asked>>
  BY DEF CancelWatch, CancelTimer, WatchInv
<1>2. CASE state = "confirming"
  <2>1. Answer
    BY <1>2 DEF CancelWatch
  <2>2. QED
    BY <1>1, <1>2, <2>1, LeaveConfirmingInv
<1>3. CASE state # "confirming"
  <2>1. /\ state' \in Sniper3States \ {"triggered", "confirming"}
        /\ state \in {"triggered", "cancelled"} => state' = "cancelled"
        /\ state = "exhausted" => state' = "exhausted"
    BY <1>1, <1>3, EventFacts, SendType DEF WatchTypeOK, Sniper3Terminal
  <2>2. UNCHANGED overtaken
    BY <1>3 DEF CancelWatch
  <2>3. /\ completed' \in Nat /\ failures' \in Nat /\ QuarantineSticks'
        /\ bought' \subseteq created /\ strayed' \in BOOLEAN
    BY <1>1, <2>1 DEF WatchInv, WatchTypeOK, QuarantineSticks
  <2>4. timers' \subseteq timers /\ handle' \in Signals \cup {None}
    BY <1>1
  <2>5. QED
    BY <1>1, <1>3, <2>1, <2>2, <2>3, <2>4, MachineStepInv
<1>4. QED
  BY <1>2, <1>3

\* A confirmation timer ends the request that is open, if one is.
LEMMA TimeoutInv ==
  ASSUME WatchInv, NEW s \in Signals, ConfirmationTimeout(s)
  PROVE  WatchInv'
<1>1. CASE state = "confirming"
  <2>1. /\ Answer /\ s \in timers /\ timers' = timers \ {s} /\ handle' = None
        /\ state' = Sniper3Send(state, "timeout")
        /\ UNCHANGED <<policy, completed, failures, orderVars, pc, bought, strayed, asked>>
    BY <1>1 DEF ConfirmationTimeout
  <2>2. timers' \subseteq timers /\ (handle \notin timers' \/ overtaken)
    BY <1>1, <2>1 DEF WatchInv, TimersBelongToRequests
  <2>3. QED
    BY <1>1, <2>1, <2>2, LeaveConfirmingInv
<1>2. CASE state # "confirming"
  BY <1>2, LateTimerInv
<1>3. QED
  BY <1>1, <1>2

-----------------------------------------------------------------------------
(* The theorems *)

\* Every step of the watch preserves the invariant.
LEMMA WatchNextInv == WatchAssumption /\ WatchInv /\ [WatchNext]_watchVars => WatchInv'
<1> SUFFICES ASSUME WatchAssumption, WatchInv, [WatchNext]_watchVars  PROVE  WatchInv'
  OBVIOUS
<1>1. CASE \E s \in Signals : FireSignal(s)
  BY <1>1, FireSignalInv
<1>2. CASE \E s \in Signals : Notified(s)
  BY <1>2, NotifiedInv
<1>3. CASE \E s \in Signals : Asked(s)
  BY <1>3, AskedInv
<1>4. CASE \E s \in Signals : ConfirmationTimeout(s)
  BY <1>4, TimeoutInv
<1>5. CASE ConfirmFromUser
  BY <1>5, ConfirmInv
<1>6. CASE DismissConfirmation
  <2>1. /\ state = "confirming" /\ Answer
        /\ timers' = timers \ {handle} /\ handle' = None
        /\ state' = Sniper3Send(state, "timeout")
        /\ UNCHANGED <<policy, completed, failures, orderVars, pc, bought, strayed, asked>>
    BY <1>6 DEF DismissConfirmation, CancelTimer
  <2>2. QED
    BY <2>1, LeaveConfirmingInv
<1>7. CASE \E t \in Orders, ok \in BOOLEAN : OnSniper2Terminal(t, ok)
  <2>1. PICK t \in Orders, ok \in BOOLEAN : OnSniper2Terminal(t, ok)
    BY <1>7
  <2>2. bought' \subseteq created /\ strayed' \in BOOLEAN
    BY <2>1 DEF OnSniper2Terminal, WatchInv, WatchTypeOK
  <2>3. QED
    BY <2>1, <2>2, ResultInv DEF OnSniper2Terminal
<1>8. CASE \E ok \in BOOLEAN : RecordResult(ok)
  <2>1. PICK ok \in BOOLEAN : RecordResult(ok)
    BY <1>8
  <2>2. bought' \subseteq created /\ strayed' \in BOOLEAN
    BY <2>1 DEF RecordResult, WatchInv, WatchTypeOK
  <2>3. QED
    BY <2>1, <2>2, ResultInv DEF RecordResult
<1>9. CASE PauseWatch \/ ResumeWatch
  BY <1>9, PauseResumeInv
<1>10. CASE CancelWatch
  BY <1>10, CancelInv
<1>11. CASE UNCHANGED watchVars
  BY <1>11, RecordInv DEF watchVars, timerVars, WatchInv, WatchTypeOK
<1>12. QED
  BY <1>1, <1>2, <1>3, <1>4, <1>5, <1>6, <1>7, <1>8, <1>9, <1>10, <1>11 DEF WatchNext

\* A suspended fireSignal still holds the watch it signalled, a request that
\* waits to be sent out is the open one, and the cap and the quarantine hold
\* whatever comes in between.
THEOREM WatchInvariant == WatchSpec => []WatchInv
<1>1. WatchInit => WatchInv
  BY WatchInitInv, WatchAssumption
<1>2. WatchInv /\ [WatchNext]_watchVars => WatchInv'
  BY WatchNextInv, WatchAssumption
<1>3. QED
  BY <1>1, <1>2, PTL DEF WatchSpec

\* A quarantine lasts, whatever results come after it.
THEOREM WatchStaysConsistent == WatchSpec => []WatchConsistent
<1>1. WatchInv => WatchConsistent
  BY DEF WatchInv, WatchConsistent
<1>2. QED
  BY <1>1, WatchInvariant, PTL

\* An armed timer is that of the request the user has open.
THEOREM TimersStayTheirOwn == WatchSpec => []TimersBelongToRequests
<1>1. WatchInv => TimersBelongToRequests
  BY DEF WatchInv
<1>2. QED
  BY <1>1, WatchInvariant, PTL

\* fireSignal checks the cap before it suspends; the order it places when it
\* goes on is still below the cap, not quarantined, and the user's wish.
THEOREM OrdersAreDueHolds == WatchSpec => OrdersAreDue
<1> DEFINE Due == /\ state = IF policy.requireConfirmation THEN "confirming" ELSE "triggered"
                  /\ completed < policy.maxOrders
                  /\ failures < QuarantineAfter
<1>1. ASSUME WatchInv, [WatchNext]_watchVars, created' # created
      PROVE  Due
  <2>1. \/ \E s \in Signals : Notified(s) /\ ~policy.requireConfirmation /\ PlaceOrder
        \/ ConfirmFromUser
    BY <1>1 DEF WatchNext, FireSignal, Notified, Asked, ConfirmationTimeout,
       DismissConfirmation, OnSniper2Terminal, RecordResult, PauseWatch, ResumeWatch,
       CancelWatch, watchVars, orderVars
  <2>2. \/ state = "triggered" /\ ~policy.requireConfirmation
        \/ state = "confirming" /\ policy.requireConfirmation
    <3>1. CASE ConfirmFromUser
      BY <1>1, <3>1 DEF ConfirmFromUser, WatchInv, WaitingBelowCap
    <3>2. CASE \E s \in Signals : Notified(s) /\ ~policy.requireConfirmation /\ PlaceOrder
      <4>1. PICK s \in Signals : Notified(s) /\ ~policy.requireConfirmation
        BY <3>2
      <4>2. Sniper3Send(state, "execute") = "executing"
        BY <1>1, <4>1 DEF Notified, orderVars
      <4>3. state \in {"triggered", "cancelled"}
        BY <1>1, <4>1 DEF Notified, WatchInv, SignalsHoldTheWatch
      <4>4. QED
        BY <1>1, <4>1, <4>2, <4>3, EventFacts DEF WatchInv, WatchTypeOK
    <3>3. QED
      BY <2>1, <3>1, <3>2
  <2>3. QED
    BY <1>1, <2>2, WatchAssumption DEF WatchInv, WatchTypeOK, WaitingBelowCap, QuarantineSticks
<1>2. WatchInv /\ [WatchNext]_watchVars => [created' # created => Due]_watchVars
  BY <1>1
<1>3. QED
  BY <1>2, WatchInvariant, PTL DEF WatchSpec, OrdersAreDue

-----------------------------------------------------------------------------
(* The cap *)

\* The orders paid are among those counted, and no execution is under way
\* that the cap leaves no room for.
CapInv ==
  /\ IsFiniteSet(bought)
  /\ ~strayed => Cardinality(bought) <= completed
  /\ completed <= policy.maxOrders
  /\ state = "executing" => completed < policy.maxOrders

\* A step that records no result begins an execution only from a state in
\* which the cap was checked.
LEMMA ExecutionsBelowCap ==
  ASSUME WatchAssumption, WatchInv, CapInv,
         UNCHANGED <<policy, completed, bought, strayed>>,
         state' = "executing" => state \in {"triggered", "confirming", "executing"}
  PROVE  CapInv'
BY DEF CapInv, WatchInv, WaitingBelowCap

\* A result ends the execution it is recorded in.
LEMMA ResultCounts ==
  ASSUME WatchAssumption, WatchInv, CapInv, state = "executing",
         NEW ok \in BOOLEAN, MarkResult(ok), policy' = policy
  PROVE  /\ state' # "executing"
         /\ completed' = IF ok THEN completed + 1 ELSE completed
         /\ completed' <= policy'.maxOrders
<1>1. state' # "executing"
  <2>1. CASE ok
    BY <2>1, ContinuationFacts DEF MarkResult
  <2>2. CASE ~ok /\ failures + 1 >= QuarantineAfter
    BY <2>2, EventFacts DEF MarkResult
  <2>3. CASE ~ok /\ ~(failures + 1 >= QuarantineAfter)
    BY <2>3, ContinuationFacts DEF MarkResult
  <2>4. QED
    BY <2>1, <2>2, <2>3
<1>2. completed' = IF ok THEN completed + 1 ELSE completed
  BY DEF MarkResult
<1>3. completed \in Nat /\ policy.maxOrders \in Nat
  BY WatchAssumption DEF WatchInv, WatchTypeOK
<1>4. completed < policy.maxOrders
  BY DEF CapInv
<1>5. QED
  BY <1>1, <1>2, <1>3, <1>4

\* An event of the order the watch executes is counted with it; any other
\* goes down as strayed.
LEMMA EventsWithinCap ==
  ASSUME WatchAssumption, WatchInv, CapInv,
         NEW t \in Orders, NEW ok \in BOOLEAN, OnSniper2Terminal(t, ok)
  PROVE  CapInv'
<1>1. /\ policy' = policy /\ MarkResult(ok)
      /\ strayed' = (strayed \/ state # "executing" \/ t # linked)
      /\ bought' = IF ok THEN bought \cup {t} ELSE bought
  BY DEF OnSniper2Terminal
<1>2. /\ IsFiniteSet(bought') /\ Cardinality(bought) \in Nat
      /\ Cardinality(bought') \in Nat
      /\ Cardinality(bought') <= Cardinality(bought) + (IF ok THEN 1 ELSE 0)
  <2>1. IsFiniteSet(bought) /\ Cardinality(bought) \in Nat
    BY FS_CardinalityType DEF CapInv
  <2>2. /\ IsFiniteSet(bought \cup {t})
        /\ Cardinality(bought \cup {t}) \in {Cardinality(bought), Cardinality(bought) + 1}
    BY <2>1, FS_AddElement
  <2>3. CASE ok
    BY <1>1, <2>1, <2>2, <2>3
  <2>4. CASE ~ok
    BY <1>1, <2>1, <2>4
  <2>5. QED
    BY <2>3, <2>4
<1>3. CASE state = "executing"
  BY <1>1, <1>2, <1>3, ResultCounts DEF CapInv, WatchInv, WatchTypeOK
<1>4. CASE state # "executing"
  BY <1>1, <1>2, <1>4 DEF CapInv, MarkResult
<1>5. QED
  BY <1>3, <1>4

LEMMA CapNextInv ==
  ASSUME WatchAssumption, WatchInv, CapInv, [WatchNext]_watchVars
  PROVE  CapInv'
<1>1. CASE \E s \in Signals : FireSignal(s)
  <2>1. state' = "triggered" /\ UNCHANGED <<policy, completed, bought, strayed>>
    BY <1>1, EventFacts DEF FireSignal
  <2>2. QED
    BY <2>1, ExecutionsBelowCap
<1>2. CASE \E s \in Signals : Notified(s)
  <2>1. PICK s \in Signals : Notified(s)
    BY <1>2
  <2>2. state \in {"triggered", "cancelled"}
    BY <2>1 DEF Notified, WatchInv, SignalsHoldTheWatch
  <2>3. state' = "executing" => state = "triggered"
    <3>1. Sniper3Send("cancelled", "confirm") # "executing"
      BY EventFacts DEF Sniper3States, Sniper3Terminal
    <3>2. Sniper3Send("cancelled", "execute") # "executing"
      BY EventFacts DEF Sniper3States, Sniper3Terminal
    <3>3. QED
      BY <2>1, <2>2, <3>1, <3>2 DEF Notified
  <2>4. UNCHANGED <<policy, completed, bought, strayed>>
    BY <2>1 DEF Notified
  <2>5. QED
    BY <2>3, <2>4, ExecutionsBelowCap
<1>3. CASE \E s \in Signals : Asked(s) \/ ConfirmationTimeout(s)
  <2>1. /\ UNCHANGED <<policy, completed, bought, strayed>>
        /\ state' = "executing" => state \in {"triggered", "confirming", "executing"}
    BY <1>3, EventFacts DEF Asked, ConfirmationTimeout, machineVars
  <2>2. QED
    BY <2>1, ExecutionsBelowCap
<1>4. CASE ConfirmFromUser \/ DismissConfirmation
  <2>1. /\ UNCHANGED <<policy, completed, bought, strayed>>
        /\ state = "confirming"
    BY <1>4 DEF ConfirmFromUser, DismissConfirmation
  <2>2. QED
    BY <2>1, ExecutionsBelowCap
<1>5. CASE \E t \in Orders, ok \in BOOLEAN : OnSniper2Terminal(t, ok)
  BY <1>5, EventsWithinCap
<1>6. CASE \E ok \in BOOLEAN : RecordResult(ok)
  <2>1. PICK ok \in BOOLEAN : RecordResult(ok)
    BY <1>6
  <2>2. /\ policy' = policy /\ bought' = bought /\ strayed' = strayed
        /\ state = "executing" /\ MarkResult(ok)
    BY <2>1 DEF RecordResult
  <2>3. Cardinality(bought) \in Nat
    BY FS_CardinalityType DEF CapInv
  <2>4. QED
    BY <2>2, <2>3, ResultCounts DEF CapInv, WatchInv, WatchTypeOK
<1>7. CASE PauseWatch \/ ResumeWatch \/ CancelWatch
  <2>1. /\ UNCHANGED <<policy, completed, bought, strayed>>
        /\ state' = "executing" => state \in {"triggered", "confirming", "executing"}
    <3>1. state \in Sniper3States
      BY DEF WatchInv, WatchTypeOK
    <3>2. CASE PauseWatch
      BY <3>1, <3>2, EventFacts DEF PauseWatch
    <3>3. CASE ResumeWatch
      BY <3>1, <3>3, EventFacts DEF ResumeWatch
    <3>4. CASE CancelWatch
      BY <3>1, <3>4, EventFacts DEF CancelWatch
    <3>5. QED
      BY <1>7, <3>2, <3>3, <3>4
  <2>2. QED
    BY <2>1, ExecutionsBelowCap
<1>8. CASE UNCHANGED watchVars
  BY <1>8, ExecutionsBelowCap DEF watchVars, machineVars
<1>9. QED
  BY <1>1, <1>2, <1>3, <1>4, <1>5, <1>6, <1>7, <1>8 DEF WatchNext

\* No more orders than the cap are paid, as long as Sniper2 reports each
\* before the watch goes on to the next.
THEOREM CapIsKept == WatchSpec => []PaidOrdersWithinCap
<1>1. WatchInit => CapInv
  <2> SUFFICES ASSUME WatchInit  PROVE  CapInv
    OBVIOUS
  <2>1. IsFiniteSet(bought) /\ Cardinality(bought) = 0
    BY FS_EmptySet DEF WatchInit
  <2>2. policy.maxOrders \in Nat
    BY WatchAssumption DEF WatchInit
  <2>3. QED
    BY <2>1, <2>2 DEF CapInv, WatchInit
<1>2. WatchInv /\ CapInv /\ [WatchNext]_watchVars => CapInv'
  BY CapNextInv, WatchAssumption
<1>3. WatchInv /\ CapInv => PaidOrdersWithinCap
  <2> SUFFICES ASSUME WatchInv, CapInv, ~strayed
               PROVE  Cardinality(bought) <= policy.maxOrders
    BY DEF PaidOrdersWithinCap
  <2>1. Cardinality(bought) \in Nat /\ completed \in Nat /\ policy.maxOrders \in Nat
    BY FS_CardinalityType, WatchAssumption DEF CapInv, WatchInv, WatchTypeOK
  <2>2. QED
    BY <2>1 DEF CapInv
<1>4. QED
  BY <1>1, <1>2, <1>3, WatchInvariant, PTL DEF WatchSpec
=============================================================================
