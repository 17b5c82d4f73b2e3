----------------------------- MODULE Sniper1Item -----------------------------
(***************************************************************************)
(* The auction items of packages/server/sniper1-service/index.js and the   *)
(* budget they share: items are added with an allotment, armed, bid for,   *)
(* won, and paid by the user before a deadline or not.                     *)
(*                                                                         *)
(* Requests suspend while the site answers a bid and while the win is      *)
(* notified; other requests, removals and deadline timers come in between. *)
(***************************************************************************)
EXTENDS StateMachines, BudgetEngine, FiniteSets, Functions

CONSTANTS Items,   \* bound: the items ever added, each under a fresh name
          Calls,   \* bound: the calls of executeBid outstanding at a time
          Budgets, \* values of options.budget that are sums of money
          Prices,  \* values of outcome.finalPriceCents
          None     \* no machine, no allotment, no item

ASSUME ItemAssumption ==
  /\ IsFiniteSet(Items)
  /\ Budgets \subseteq Nat /\ Prices \subseteq Nat
  /\ None \notin Items /\ None \notin Nat /\ None \notin Sniper1States

VARIABLES listed,    \* the keys of the map of items
          state,     \* the state of each item's machine
          budget,    \* context.budgetCents
          won,       \* context.winOutcome.finalPriceCents
          book,      \* the ledger of the scope sniper1
          bids,      \* the item each call of executeBid awaits an answer for
          notifying, \* the items whose markItemWon awaits the notification
          deadlines  \* the items with a payment deadline timer, deadlineHandles

itemVars == <<listed, state, budget, won, book, bids, notifying, deadlines>>

ItemTypeOK ==
  /\ listed \subseteq Items
  /\ state \in [Items -> Sniper1States \cup {None}]
  /\ budget \in [Items -> Budgets \cup {None}]
  /\ won \in [Items -> Prices \cup {None}]
  /\ book \in [total : Nat, available : Nat, committed : [Items -> Nat], spent : [Items -> Nat]]
  /\ bids \in [Calls -> Items \cup {None}]
  /\ notifying \subseteq Items /\ deadlines \subseteq Items

ItemInit ==
  /\ listed = {}
  /\ state = [i \in Items |-> None]
  /\ budget = [i \in Items |-> None]
  /\ won = [i \in Items |-> None]
  /\ book = EmptyBook(Items)
  /\ bids = [c \in Calls |-> None]
  /\ notifying = {} /\ deadlines = {}

-----------------------------------------------------------------------------

After(i, event) == [state EXCEPT ![i] = Sniper1Send(@, event)]

\* The total is raised by what the new allotment lacks.
Expanded(b) ==
  IF book.available < b THEN SetTotalBudget(book, book.total + b - book.available) ELSE book

\* addWatchedItem.  An allotment that is no sum of money throws when it is
\* committed, and the item stays listed without one: the total has been raised
\* by then if the allotment counts as a number (a numeral in a string).
AddWatchedItem(i) ==
  /\ state[i] = None
  /\ listed' = listed \cup {i}
  /\ state' = [state EXCEPT ![i] = "watching"]
  /\ \/ \E b \in Budgets :
          /\ CanCommit(Expanded(b), b)
          /\ book' = Commit(Expanded(b), i, b)
          /\ budget' = [budget EXCEPT ![i] = b]
     \/ /\ book' \in {book} \cup {Expanded(b) : b \in Budgets}
        /\ UNCHANGED budget
  /\ UNCHANGED <<won, bids, notifying, deadlines>>

\* What removeWatchedItem leaves in the book.
Refunded(i) == Release(book, i, book.committed[i])

\* removeWatchedItem: in every state of the machine.
RemoveWatchedItem(i) ==
  /\ i \in listed
  /\ listed' = listed \ {i}
  /\ state' = After(i, "cancel")
  /\ deadlines' = deadlines \ {i}
  /\ book' = Refunded(i)
  /\ UNCHANGED <<budget, won, bids, notifying>>

ArmItem(i) ==
  /\ i \in listed
  /\ state' = After(i, "arm")
  /\ UNCHANGED <<listed, budget, won, book, bids, notifying, deadlines>>

DisarmItem(i) ==
  /\ i \in listed
  /\ state' = After(i, "disarm")
  /\ UNCHANGED <<listed, budget, won, book, bids, notifying, deadlines>>

\* executeBid up to placeBid: the bid is placed also where the machine does
\* not know the event.
ExecuteBid(c, i) ==
  /\ bids[c] = None /\ i \in listed
  /\ state' = After(i, "executeBid")
  /\ bids' = [bids EXCEPT ![c] = i]
  /\ UNCHANGED <<listed, budget, won, book, notifying, deadlines>>

\* The site answers, and handleBidOutcome records it if the item is listed
\* still; or placeBid throws and the machine is not told.
BidAnswered(c, event) ==
  /\ bids[c] # None
  /\ bids' = [bids EXCEPT ![c] = None]
  /\ state' = IF bids[c] \in listed THEN After(bids[c], event) ELSE state
  /\ UNCHANGED <<listed, budget, won, book, notifying, deadlines>>

BidThrows(c) ==
  /\ bids[c] # None
  /\ bids' = [bids EXCEPT ![c] = None]
  /\ UNCHANGED <<listed, state, budget, won, book, notifying, deadlines>>

-----------------------------------------------------------------------------

\* Mutant of MarkItemWon: without a notification there is no deadline.
MarkItemWonQuietly(i, price) ==
  /\ i \in listed /\ Sniper1Send(state[i], "markWon") = "won"
  /\ state' = [state EXCEPT ![i] = Sniper1Send("won", "promoteToPendingPayment")]
  /\ won' = [won EXCEPT ![i] = price]
  /\ notifying' \in {notifying, notifying \cup {i}}
  /\ UNCHANGED <<listed, budget, book, bids, deadlines>>

\* markItemWon up to its await, which it skips for an item that is not to be
\* notified of.  In a state that does not lead to won it throws.
MarkItemWon(i, price) ==
  /\ i \in listed /\ Sniper1Send(state[i], "markWon") = "won"
  /\ state' = [state EXCEPT ![i] = Sniper1Send("won", "promoteToPendingPayment")]
  /\ won' = [won EXCEPT ![i] = price]
  /\ \/ notifying' = notifying \cup {i} /\ UNCHANGED deadlines
     \/ deadlines' = deadlines \cup {i} /\ UNCHANGED notifying
  /\ UNCHANGED <<listed, budget, book, bids>>

\* Mutant of WinNotified: a failing notification leaves before the deadline.
WinNotifiedOrNot(i) ==
  /\ i \in notifying
  /\ notifying' = notifying \ {i}
  /\ deadlines' \in {deadlines, deadlines \cup {i}}
  /\ UNCHANGED <<listed, state, budget, won, book, bids>>

\* The win is notified, or that has failed: the deadline is scheduled, be the
\* item paid or removed meanwhile.
WinNotified(i) ==
  /\ i \in notifying
  /\ notifying' = notifying \ {i}
  /\ deadlines' = deadlines \cup {i}
  /\ UNCHANGED <<listed, state, budget, won, book, bids>>

\* What markPaymentCompleted makes of the item's allotment: the price is
\* spent as far as the allotment goes, the rest is released.
Settled(i) ==
  LET held == book.committed[i]
      spend == IF won[i] < held THEN won[i] ELSE held
  IN Release(Spend(book, i, spend), i, held - spend)

\* Mutant of MarkPaymentCompleted: any item that was won may be paid, also
\* one whose payment is overdue.
MarkPaymentCompletedAgain(i) ==
  /\ i \in listed /\ won[i] # None
  /\ state' = After(i, "userMarkPaid")
  /\ deadlines' = deadlines \ {i}
  /\ book' = Settled(i)
  /\ UNCHANGED <<listed, budget, won, bids, notifying>>

MarkPaymentCompleted(i) ==
  /\ i \in listed /\ state[i] = "pending_user_payment"
  /\ state' = After(i, "userMarkPaid")
  /\ deadlines' = deadlines \ {i}
  /\ book' = Settled(i)
  /\ UNCHANGED <<listed, budget, won, bids, notifying>>

\* The deadline timer fires and markPaymentOverdue looks at the item; of one
\* that is not listed it throws.  So nothing is lost by taking a cancelled
\* timer for one that does not fire.
DeadlineHit(i) ==
  /\ i \in deadlines
  /\ deadlines' = deadlines \ {i}
  /\ state' = IF i \in listed /\ state[i] = "pending_user_payment"
              THEN After(i, "paymentDeadlineHit") ELSE state
  /\ UNCHANGED <<listed, budget, won, book, bids, notifying>>

ItemNext ==
  \/ \E i \in Items : AddWatchedItem(i) \/ RemoveWatchedItem(i) \/ ArmItem(i) \/ DisarmItem(i)
  \/ \E i \in Items, c \in Calls : ExecuteBid(c, i)
  \/ \E c \in Calls, event \in {"bidWinning", "bidOutbid", "bidFailed"} : BidAnswered(c, event)
  \/ \E c \in Calls : BidThrows(c)
  \/ \E i \in Items, price \in Prices : MarkItemWon(i, price)
  \/ \E i \in Items : WinNotified(i) \/ MarkPaymentCompleted(i) \/ DeadlineHit(i)

ItemSpec == ItemInit /\ [][ItemNext]_itemVars

\* The notification is sent or fails, and a timer that is not cancelled fires.
\* Nothing is assumed of the user or of the sites.
ItemFairSpec ==
  /\ ItemSpec
  /\ \A i \in Items : WF_itemVars(WinNotified(i)) /\ WF_itemVars(DeadlineHit(i))

-----------------------------------------------------------------------------
(* Properties *)

\* The money follows the item: its whole allotment stays committed while it
\* is listed and not paid, also past a deadline; of a paid item the price, or
\* as much of it as was allotted, is spent once and nothing stays committed,
\* whatever is done with the item later.  Of an item that is removed with its
\* win unpaid it says only that no part of the allotment is lost or counted
\* twice: the code gives it back, and docs/03-products/sniper1.md:138 keeps it.
MoneyFollowsItems ==
  \A i \in Items :
    LET allotted == IF budget[i] = None THEN 0 ELSE budget[i]
        paid == state[i] = "paid"
        abandoned == i \notin listed /\ won[i] # None /\ ~paid
    IN /\ IF abandoned THEN book.committed[i] \in {0, allotted}
          ELSE book.committed[i] = IF i \in listed /\ ~paid THEN allotted ELSE 0
       /\ book.spent[i] = IF ~paid THEN 0
                          ELSE IF won[i] < allotted THEN won[i] ELSE allotted

\* availableCents, as the code adds it up over the entries of all tasks.
AvailableSum ==
  book.total - SumFunctionOnSet(book.committed, Items)
             - SumFunctionOnSet(book.spent, Items)

\* What is available is the total less everything committed and spent, and
\* is never negative: docs/03-products/sniper1.md, "All items' current_budget
\* + spent <= total_budget".
BudgetCoversItems == book.available = AvailableSum /\ AvailableSum >= 0

\* A listed item that waits for the user's payment has its deadline timer
\* armed, or the markItemWon that will arm it under way: neither a failing
\* notification nor any other request loses it.
PendingItemsAreWatched ==
  \A i \in listed : state[i] = "pending_user_payment" => i \in notifying \cup deadlines

\* A win does not wait for its payment for ever.
EveryWinIsSettled ==
  \A i \in Items :
    i \in listed /\ state[i] = "pending_user_payment"
      ~> ~(i \in listed /\ state[i] = "pending_user_payment")

\* The items in order: types, and a timer for every win that is not paid.
ItemsConsistent == ItemTypeOK /\ PendingItemsAreWatched
=============================================================================
