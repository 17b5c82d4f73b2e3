--------------------------- MODULE StateMachines ---------------------------
(***************************************************************************)
(* The transition tables of packages/core/state-machine/index.js and the   *)
(* function that reads them: in a terminal state of its machine, or on an  *)
(* event the state does not know, a machine stays where it is.             *)
(***************************************************************************)

Sniper2Terminal == {"cancelled", "missed", "succeeded", "payment_timeout", "acquire_expired"}

Sniper2Table ==
  [draft |-> [configure |-> "configured", cancel |-> "cancelled"],
   configured |-> [prewarm |-> "prewarming", strike |-> "striking", cancel |-> "cancelled"],
   prewarming |-> [prewarmDone |-> "armed", prewarmFailed |-> "missed", cancel |-> "cancelled"],
   armed |-> [strike |-> "striking", cancel |-> "cancelled"],
   striking |-> [acquire |-> "acquiring", markMissed |-> "missed", cancel |-> "cancelled"],
   acquiring |-> [acquireFailed |-> "acquire_failed", acquired |-> "acquired",
                  cancel |-> "cancelled"],
   acquired |-> [queued |-> "queued_for_payment", acquireExpired |-> "acquire_expired"],
   queued_for_payment |-> [paymentStart |-> "paying", acquireExpired |-> "acquire_expired"],
   paying |-> [paymentSucceeded |-> "succeeded", paymentFailed |-> "payment_failed",
               paymentTimeout |-> "payment_timeout"],
   payment_failed |-> [paymentStart |-> "paying", cancel |-> "cancelled"]]

Sniper2States == DOMAIN Sniper2Table \cup Sniper2Terminal \cup {"acquire_failed"}

\* transition(), for the machine with this table and these terminal states.
Transition(table, terminal, state, event) ==
  IF state \notin terminal /\ state \in DOMAIN table /\ event \in DOMAIN table[state]
  THEN table[state][event]
  ELSE state

\* SimpleMachine.send on a task's machine.
Sniper2Send(state, event) == Transition(Sniper2Table, Sniper2Terminal, state, event)

Sniper3Terminal == {"cancelled", "expired", "exhausted"}

Sniper3Table ==
  [draft |-> [configure |-> "configured", cancel |-> "cancelled"],
   configured |-> [resume |-> "monitoring", signal |-> "triggered", cancel |-> "cancelled"],
   monitoring |-> [pause |-> "suspended", signal |-> "triggered", markExpired |-> "expired",
                   cancel |-> "cancelled"],
   suspended |-> [resume |-> "monitoring", cancel |-> "cancelled"],
   triggered |-> [confirm |-> "confirming", execute |-> "executing", cancel |-> "cancelled"],
   confirming |-> [confirmFromUser |-> "executing", timeout |-> "monitoring",
                   cancel |-> "cancelled"],
   executing |-> [succeeded |-> "succeeded", failed |-> "failed", cancel |-> "cancelled"],
   succeeded |-> [continue |-> "continued", exhaust |-> "exhausted"],
   failed |-> [continue |-> "continued", exhaust |-> "exhausted"],
   continued |-> [resume |-> "monitoring", cancel |-> "cancelled"]]

Sniper3States == DOMAIN Sniper3Table \cup Sniper3Terminal

\* SimpleMachine.send on a watch's machine.
Sniper3Send(state, event) == Transition(Sniper3Table, Sniper3Terminal, state, event)

Sniper1Terminal == {"lost", "cancelled", "expired", "paid", "payment_overdue"}

Sniper1Table ==
  [draft |-> [arm |-> "watching", cancel |-> "cancelled"],
   watching |-> [arm |-> "armed", cancel |-> "cancelled", markExpired |-> "expired"],
   armed |-> [executeBid |-> "bidding", disarm |-> "watching", cancel |-> "cancelled"],
   bidding |-> [bidWinning |-> "winning", bidOutbid |-> "outbid", bidFailed |-> "bid_failed"],
   winning |-> [tickOutbid |-> "outbid", markWon |-> "won", markLost |-> "lost"],
   outbid |-> [executeBid |-> "bidding", markLost |-> "lost"],
   bid_failed |-> [executeBid |-> "bidding", markLost |-> "lost"],
   won |-> [promoteToPendingPayment |-> "pending_user_payment", cancel |-> "cancelled"],
   pending_user_payment |-> [userMarkPaid |-> "paid", adapterDetectPaid |-> "paid",
                             paymentDeadlineHit |-> "payment_overdue", cancel |-> "cancelled"]]

Sniper1States == DOMAIN Sniper1Table \cup Sniper1Terminal

\* SimpleMachine.send on an item's machine.
Sniper1Send(state, event) == Transition(Sniper1Table, Sniper1Terminal, state, event)
=============================================================================
