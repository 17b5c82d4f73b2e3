------------------------- MODULE Sniper1ItemProofs -------------------------
(***************************************************************************)
(* Proofs about Sniper1Item, for any items, outstanding bids, allotments   *)
(* and prices.  The inductive invariant ItemInv adds to the properties     *)
(* what an item is before it is added (FreshItems) and that a win has its  *)
(* price (WinsHavePrices).                                                 *)
(***************************************************************************)
EXTENDS Sniper1Item, SumTheorems

-----------------------------------------------------------------------------
(* The machine *)

\* The table leads from states of the machine to states of the machine.
LEMMA ItemSendType ==
  ASSUME NEW st \in Sniper1States, NEW event
  PROVE  Sniper1Send(st, event) \in Sniper1States
<1>1. CASE st \in Sniper1Terminal \/ st \notin DOMAIN Sniper1Table
  BY <1>1 DEF Sniper1Send, Transition
<1>2. CASE st \in DOMAIN Sniper1Table /\ st \notin Sniper1Terminal
  <2>1. \A e \in DOMAIN Sniper1Table[st] : Sniper1Table[st][e] \in Sniper1States
    BY <1>2 DEF Sniper1Table, Sniper1States, Sniper1Terminal
  <2>2. QED
    BY <1>2, <2>1 DEF Sniper1Send, Transition
<1>3. QED
  BY <1>1, <1>2

\* None of these events leads to a state that waits for a payment or has one,
\* nor out of the paid state.
LEMMA QuietEvents ==
  ASSUME NEW st \in Sniper1States,
         NEW event \in {"cancel", "arm", "disarm", "executeBid", "bidWinning", "bidOutbid",
                        "bidFailed", "paymentDeadlineHit"}
  PROVE  LET to == Sniper1Send(st, event)
         IN /\ (to = "paid") <=> (st = "paid")
            /\ to = "pending_user_payment" => st = "pending_user_payment"
BY DEF Sniper1Send, Transition, Sniper1States, Sniper1Table, Sniper1Terminal

\* The way of a win.
LEMMA WinEvents ==
  /\ Sniper1Send("won", "promoteToPendingPayment") = "pending_user_payment"
  /\ Sniper1Send("pending_user_payment", "userMarkPaid") = "paid"
  /\ \A st \in Sniper1States :
       Sniper1Send(st, "markWon") = "won" => st \notin {"paid", "pending_user_payment"}
  /\ {"watching", "won", "pending_user_payment", "paid"} \subseteq Sniper1States
<1>1. \A st \in Sniper1States : Sniper1Send(st, "markWon") = "won" => st # "paid"
  BY DEF Sniper1Send, Transition, Sniper1States, Sniper1Table, Sniper1Terminal
<1>2. \A st \in Sniper1States :
        Sniper1Send(st, "markWon") = "won" => st # "pending_user_payment"
  BY DEF Sniper1Send, Transition, Sniper1States, Sniper1Table, Sniper1Terminal
<1>3. {"watching", "won", "pending_user_payment", "paid"} \subseteq Sniper1States
  BY DEF Sniper1States, Sniper1Table, Sniper1Terminal
<1>4. /\ Sniper1Send("won", "promoteToPendingPayment") = "pending_user_payment"
      /\ Sniper1Send("pending_user_payment", "userMarkPaid") = "paid"
  BY DEF Sniper1Send, Transition, Sniper1Table, Sniper1Terminal
<1>5. QED
  BY <1>1, <1>2, <1>3, <1>4

-----------------------------------------------------------------------------
(* The book *)

Books == [total : Nat, available : Nat, committed : [Items -> Nat], spent : [Items -> Nat]]

\* The total is raised by what an allotment lacks, so that it can be committed.
LEMMA ExpandedCovers ==
  ASSUME book \in Books, NEW b \in Nat
  PROVE  /\ Expanded(b) \in Books
         /\ Expanded(b).committed = book.committed
         /\ Expanded(b).spent = book.spent
         /\ CanCommit(Expanded(b), b)
<1>1. book.available \in Nat /\ book.total \in Nat
  BY DEF Books
<1>2. CASE book.available < b
  <2> DEFINE raised == book.total + b - book.available
  <2>1. raised \in Nat /\ book.available + raised - book.total = b
    BY <1>1, <1>2
  <2>2. Expanded(b) = SetTotalBudget(book, raised)
    BY <1>2 DEF Expanded
  <2> HIDE DEF raised
  <2>3. Expanded(b) =
          [book EXCEPT !.total = raised, !.available = book.available + raised - book.total]
    BY <2>2 DEF SetTotalBudget, Books
  <2>4. Expanded(b) = [book EXCEPT !.total = raised, !.available = b]
    BY <2>1, <2>3
  <2>5. /\ Expanded(b).available = b
        /\ Expanded(b).committed = book.committed
        /\ Expanded(b).spent = book.spent
    BY <2>4 DEF Books
  <2>6. Expanded(b) \in Books
    BY <2>1, <2>4 DEF Books
  <2>7. QED
    BY <2>5, <2>6 DEF CanCommit
<1>3. CASE ~(book.available < b)
  BY <1>1, <1>3 DEF Expanded, CanCommit
<1>4. QED
  BY <1>2, <1>3

\* A commitment that is covered leaves a book.
LEMMA CommitBook ==
  ASSUME NEW bk \in Books, NEW i \in Items, NEW b \in Nat, CanCommit(bk, b)
  PROVE  /\ Commit(bk, i, b) \in Books
         /\ Commit(bk, i, b).committed = [bk.committed EXCEPT ![i] = @ + b]
         /\ Commit(bk, i, b).spent = bk.spent
<1>1. bk.available - b \in Nat
  BY DEF Books, CanCommit
<1>2. bk.committed[i] + b \in Nat
  BY DEF Books
<1>3. Commit(bk, i, b) =
        [bk EXCEPT !.available = bk.available - b,
                   !.committed = [bk.committed EXCEPT ![i] = bk.committed[i] + b]]
  BY DEF Commit, Books
<1>4. [bk.committed EXCEPT ![i] = bk.committed[i] + b] \in [Items -> Nat]
  BY <1>2 DEF Books
<1>5. QED
  BY <1>1, <1>3, <1>4 DEF Books

\* Releasing what is committed leaves a book.
LEMMA ReleaseBook ==
  ASSUME NEW bk \in Books, NEW i \in Items, NEW a \in Nat, a <= bk.committed[i]
  PROVE  /\ Release(bk, i, a) \in Books
         /\ Release(bk, i, a).committed = [bk.committed EXCEPT ![i] = @ - a]
         /\ Release(bk, i, a).spent = bk.spent
<1>1. bk.committed[i] - a \in Nat /\ bk.available + a \in Nat
  BY DEF Books
<1>2. QED
  BY <1>1 DEF Books, Release

\* Spending what is committed leaves a book.
LEMMA SpendBook ==
  ASSUME NEW bk \in Books, NEW i \in Items, NEW a \in Nat, a <= bk.committed[i]
  PROVE  /\ Spend(bk, i, a) \in Books
         /\ Spend(bk, i, a).committed = [bk.committed EXCEPT ![i] = @ - a]
         /\ Spend(bk, i, a).spent = [bk.spent EXCEPT ![i] = @ + a]
<1>1. bk.committed[i] - a \in Nat /\ bk.spent[i] + a \in Nat
  BY DEF Books
<1>2. QED
  BY <1>1 DEF Books, Spend

-----------------------------------------------------------------------------
(* The invariant *)

FreshItems ==
  \A i \in Items : state[i] = None => i \notin listed /\ budget[i] = None

WinsHavePrices ==
  \A i \in Items : state[i] \in {"pending_user_payment", "paid"} => won[i] \in Prices

\* MoneyFollowsItems with what the code does when an item is removed: whatever
\* was committed to it is given back.
MoneyInPlace ==
  \A i \in Items :
    LET allotted == IF budget[i] = None THEN 0 ELSE budget[i]
        paid == state[i] = "paid"
    IN /\ book.committed[i] = IF i \in listed /\ ~paid THEN allotted ELSE 0
       /\ book.spent[i] = IF ~paid THEN 0
                          ELSE IF won[i] < allotted THEN won[i] ELSE allotted

ItemInv ==
  /\ ItemTypeOK
  /\ FreshItems
  /\ WinsHavePrices
  /\ MoneyInPlace
  /\ PendingItemsAreWatched

\* At the start nothing is listed and the book is empty.
LEMMA ItemInitInv == ItemAssumption /\ ItemInit => ItemInv
<1> SUFFICES ASSUME ItemAssumption, ItemInit  PROVE  ItemInv
  OBVIOUS
<1>1. EmptyBook(Items) \in Books
  BY DEF EmptyBook, Books
<1>2. ItemTypeOK
  BY <1>1 DEF ItemInit, ItemTypeOK, Books
<1>3. None \notin {"paid", "pending_user_payment"}
  BY WinEvents DEF ItemAssumption
<1>4. FreshItems /\ WinsHavePrices /\ PendingItemsAreWatched
  BY <1>3 DEF ItemInit, FreshItems, WinsHavePrices, PendingItemsAreWatched
<1>5. MoneyInPlace
  BY <1>3 DEF ItemInit, MoneyInPlace, EmptyBook
<1>6. QED
  BY <1>2, <1>4, <1>5 DEF ItemInv

\* A step that lets the money alone and sends items only events that have
\* nothing to do with payments keeps the invariant, if no timer of a listed
\* item that waits for its payment is lost.
LEMMA QuietStep ==
  ASSUME ItemAssumption, ItemInv,
         UNCHANGED <<listed, budget, won, book>>,
         state' \in [Items -> Sniper1States \cup {None}],
         bids' \in [Calls -> Items \cup {None}],
         notifying' \subseteq Items, deadlines' \subseteq Items,
         \A i \in Items : (state'[i] = None) <=> (state[i] = None),
         \A i \in Items : (state'[i] = "paid") <=> (state[i] = "paid"),
         \A i \in Items :
           state'[i] = "pending_user_payment" =>
             /\ state[i] = "pending_user_payment"
             /\ i \in listed /\ i \in notifying \cup deadlines => i \in (notifying \cup deadlines)'
  PROVE  ItemInv'
<1>1. ItemTypeOK'
  BY DEF ItemInv, ItemTypeOK
<1>2. FreshItems'
  BY DEF ItemInv, FreshItems
<1>3. WinsHavePrices'
  BY DEF ItemInv, WinsHavePrices
<1>4. MoneyInPlace'
  BY DEF ItemInv, MoneyInPlace
<1>5. PendingItemsAreWatched'
  BY DEF ItemInv, PendingItemsAreWatched, ItemTypeOK
<1>6. QED
  BY <1>1, <1>2, <1>3, <1>4, <1>5 DEF ItemInv

\* After() on an added item, for the events of QuietEvents.
LEMMA AfterQuiet ==
  ASSUME ItemAssumption, ItemTypeOK, NEW i \in Items, state[i] # None,
         NEW event \in {"cancel", "arm", "disarm", "executeBid", "bidWinning", "bidOutbid",
                        "bidFailed", "paymentDeadlineHit"}
  PROVE  /\ After(i, event) \in [Items -> Sniper1States \cup {None}]
         /\ \A j \in Items : (After(i, event)[j] = None) <=> (state[j] = None)
         /\ \A j \in Items : (After(i, event)[j] = "paid") <=> (state[j] = "paid")
         /\ \A j \in Items :
              After(i, event)[j] = "pending_user_payment" => state[j] = "pending_user_payment"
<1>1. state[i] \in Sniper1States
  BY DEF ItemTypeOK
<1>2. Sniper1Send(state[i], event) \in Sniper1States
  BY <1>1, ItemSendType
<1>3. /\ (Sniper1Send(state[i], event) = "paid") <=> (state[i] = "paid")
      /\ Sniper1Send(state[i], event) = "pending_user_payment" => state[i] = "pending_user_payment"
  BY <1>1, QuietEvents
<1>4. After(i, event) = [state EXCEPT ![i] = Sniper1Send(state[i], event)]
  BY DEF After
<1>5. QED
  BY <1>1, <1>2, <1>3, <1>4 DEF ItemTypeOK, ItemAssumption

-----------------------------------------------------------------------------
(* Requests and bids *)

\* An item that is not added yet has nothing in the book.
LEMMA FreshMoney ==
  ASSUME ItemAssumption, ItemInv, NEW i \in Items, state[i] = None
  PROVE  i \notin listed /\ budget[i] = None /\ book.committed[i] = 0 /\ book.spent[i] = 0
<1>1. None # "paid"
  BY WinEvents DEF ItemAssumption
<1>2. i \notin listed /\ budget[i] = None
  BY DEF ItemInv, FreshItems
<1>3. QED
  BY <1>1, <1>2 DEF ItemInv, MoneyInPlace

\* An item that is added has its whole allotment committed, or none.
LEMMA AddKeepsInv ==
  ASSUME ItemAssumption, ItemInv, NEW i \in Items, AddWatchedItem(i)
  PROVE  ItemInv'
<1>1. /\ i \notin listed /\ budget[i] = None
      /\ book.committed[i] = 0 /\ book.spent[i] = 0
  BY FreshMoney DEF AddWatchedItem
<1>2. /\ listed' = listed \cup {i}
      /\ state' = [state EXCEPT ![i] = "watching"]
      /\ UNCHANGED <<won, bids, notifying, deadlines>>
  BY DEF AddWatchedItem
<1>3. /\ "watching" \in Sniper1States /\ "watching" # None
      /\ "watching" \notin {"paid", "pending_user_payment"}
  BY WinEvents DEF ItemAssumption
<1>4. /\ book \in Books /\ book.committed \in [Items -> Nat] /\ book.spent \in [Items -> Nat]
      /\ budget \in [Items -> Budgets \cup {None}] /\ state \in [Items -> Sniper1States \cup {None}]
  BY DEF ItemInv, ItemTypeOK, Books
<1> DEFINE Allotted ==
             /\ book' \in Books
             /\ budget' \in [Items -> Budgets \cup {None}]
             /\ book'.committed[i] = (IF budget'[i] = None THEN 0 ELSE budget'[i])
             /\ \A j \in Items \ {i} :
                  budget'[j] = budget[j] /\ book'.committed[j] = book.committed[j]
             /\ book'.spent = book.spent
<1>5. Allotted
  <2>1. ASSUME book' \in {book} \cup {Expanded(b) : b \in Budgets}, UNCHANGED budget
        PROVE  Allotted
    <3>1. /\ book' \in Books
          /\ book'.committed = book.committed /\ book'.spent = book.spent
      <4>1. ASSUME NEW b \in Budgets, book' = Expanded(b)  PROVE  <3>1
        <5>1. b \in Nat
          BY DEF ItemAssumption
        <5>2. QED
          BY <1>4, <4>1, <5>1, ExpandedCovers
      <4>2. QED
        BY <1>4, <2>1, <4>1
    <3>2. QED
      BY <1>1, <1>4, <2>1, <3>1
  <2>2. ASSUME NEW b \in Budgets,
               book' = Commit(Expanded(b), i, b), budget' = [budget EXCEPT ![i] = b]
        PROVE  Allotted
    <3>1. b \in Nat /\ b # None
      BY DEF ItemAssumption
    <3>2. /\ Expanded(b) \in Books /\ CanCommit(Expanded(b), b)
          /\ Expanded(b).committed = book.committed /\ Expanded(b).spent = book.spent
      BY <1>4, <3>1, ExpandedCovers
    <3>3. /\ book' \in Books
          /\ book'.committed = [book.committed EXCEPT ![i] = @ + b]
          /\ book'.spent = book.spent
      BY <2>2, <3>1, <3>2, CommitBook
    <3>4. book'.committed[i] = b /\ \A j \in Items \ {i} : book'.committed[j] = book.committed[j]
      BY <1>1, <1>4, <3>1, <3>3
    <3>5. budget'[i] = b /\ \A j \in Items \ {i} : budget'[j] = budget[j]
      BY <1>4, <2>2
    <3>6. QED
      BY <1>4, <2>2, <3>1, <3>3, <3>4, <3>5
  <2> HIDE DEF Allotted
  <2>3. QED
    BY <2>1, <2>2 DEF AddWatchedItem
<1>6. state'[i] = "watching" /\ \A j \in Items \ {i} : state'[j] = state[j]
  BY <1>2, <1>4
<1>7. ItemTypeOK'
  BY <1>2, <1>3, <1>5 DEF ItemInv, ItemTypeOK, Books
<1>8. FreshItems' /\ WinsHavePrices' /\ PendingItemsAreWatched'
  BY <1>2, <1>3, <1>5, <1>6 DEF ItemInv, FreshItems, WinsHavePrices, PendingItemsAreWatched, ItemTypeOK
<1>9. MoneyInPlace'
  <2> SUFFICES ASSUME NEW j \in Items
               PROVE  MoneyInPlace!(j)'
    BY DEF MoneyInPlace
  <2>1. CASE j = i
    BY <1>1, <1>2, <1>3, <1>5, <1>6, <2>1
  <2>2. CASE j # i
    BY <1>2, <1>5, <1>6, <2>2 DEF ItemInv, MoneyInPlace
  <2>3. QED
    BY <2>1, <2>2
<1>10. QED
  BY <1>7, <1>8, <1>9 DEF ItemInv

\* A removed item gives back what is committed to it.
LEMMA RemoveKeepsInv ==
  ASSUME ItemAssumption, ItemInv, NEW i \in Items, RemoveWatchedItem(i)
  PROVE  ItemInv'
<1>1. /\ i \in listed /\ listed' = listed \ {i}
      /\ state' = After(i, "cancel")
      /\ deadlines' = deadlines \ {i} /\ book' = Release(book, i, book.committed[i])
      /\ UNCHANGED <<budget, won, bids, notifying>>
  BY DEF RemoveWatchedItem, Refunded
<1>2. state[i] # None
  BY <1>1 DEF ItemInv, FreshItems
<1>3. /\ state' \in [Items -> Sniper1States \cup {None}]
      /\ \A j \in Items : (state'[j] = None) <=> (state[j] = None)
      /\ \A j \in Items : (state'[j] = "paid") <=> (state[j] = "paid")
      /\ \A j \in Items : state'[j] = "pending_user_payment" => state[j] = "pending_user_payment"
  BY <1>1, <1>2, AfterQuiet DEF ItemInv
<1>4. book \in Books /\ book.committed \in [Items -> Nat]
  BY DEF ItemInv, ItemTypeOK, Books
<1> DEFINE held == book.committed[i]
<1>5. held \in Nat /\ held <= book.committed[i] /\ book' = Release(book, i, held)
  BY <1>1, <1>4
<1>6. /\ book' \in Books
      /\ book'.committed = [book.committed EXCEPT ![i] = @ - held]
      /\ book'.spent = book.spent
  <2> HIDE DEF held
  <2>1. QED
    BY <1>4, <1>5, ReleaseBook
<1>7. book'.committed[i] = 0 /\ \A j \in Items \ {i} : book'.committed[j] = book.committed[j]
  BY <1>4, <1>5, <1>6
<1>8. ItemTypeOK'
  BY <1>1, <1>3, <1>6 DEF ItemInv, ItemTypeOK, Books
<1>9. FreshItems' /\ WinsHavePrices' /\ PendingItemsAreWatched'
  BY <1>1, <1>3 DEF ItemInv, FreshItems, WinsHavePrices, PendingItemsAreWatched, ItemTypeOK
<1>10. MoneyInPlace'
  <2> SUFFICES ASSUME NEW j \in Items
               PROVE  MoneyInPlace!(j)'
    BY DEF MoneyInPlace
  <2>1. MoneyInPlace!(j)
    BY DEF ItemInv, MoneyInPlace
  <2>2. CASE j = i
    BY <1>1, <1>3, <1>6, <1>7, <2>1, <2>2
  <2>3. CASE j # i
    BY <1>1, <1>3, <1>6, <1>7, <2>1, <2>3
  <2>4. QED
    BY <2>2, <2>3
<1>11. QED
  BY <1>8, <1>9, <1>10 DEF ItemInv

\* Arming, disarming and bidding do not touch the money.
LEMMA BidsKeepInv ==
  ASSUME ItemAssumption, ItemInv,
         \/ \E i \in Items : ArmItem(i) \/ DisarmItem(i)
         \/ \E i \in Items, c \in Calls : ExecuteBid(c, i)
         \/ \E c \in Calls, event \in {"bidWinning", "bidOutbid", "bidFailed"} :
              BidAnswered(c, event)
         \/ \E c \in Calls : BidThrows(c)
  PROVE  ItemInv'
<1> USE DEF ItemInv
<1> DEFINE events == {"arm", "disarm", "executeBid", "bidWinning", "bidOutbid", "bidFailed"}
<1>1. \/ state' = state
      \/ \E i \in listed, event \in events : state' = After(i, event)
  BY DEF ArmItem, DisarmItem, ExecuteBid, BidAnswered, BidThrows
<1>2. UNCHANGED <<listed, budget, won, book, notifying, deadlines>>
  BY DEF ArmItem, DisarmItem, ExecuteBid, BidAnswered, BidThrows
<1>3. bids' \in [Calls -> Items \cup {None}]
  <2>1. \/ bids' = bids
        \/ \E c \in Calls, i \in Items \cup {None} : bids' = [bids EXCEPT ![c] = i]
    BY DEF ArmItem, DisarmItem, ExecuteBid, BidAnswered, BidThrows
  <2>2. QED
    BY <2>1 DEF ItemTypeOK
<1>4. /\ state' \in [Items -> Sniper1States \cup {None}]
      /\ \A j \in Items : (state'[j] = None) <=> (state[j] = None)
      /\ \A j \in Items : (state'[j] = "paid") <=> (state[j] = "paid")
      /\ \A j \in Items : state'[j] = "pending_user_payment" => state[j] = "pending_user_payment"
  <2>1. CASE state' = state
    BY <2>1 DEF ItemTypeOK
  <2>2. ASSUME NEW i \in listed, NEW event \in events, state' = After(i, event)
        PROVE  <1>4
    <3>1. i \in Items /\ state[i] # None
      BY DEF ItemTypeOK, FreshItems
    <3>2. QED
      BY <2>2, <3>1, AfterQuiet
  <2>3. QED
    BY <1>1, <2>1, <2>2
<1>5. notifying' \subseteq Items /\ deadlines' \subseteq Items
  BY <1>2 DEF ItemTypeOK
<1> USE ItemInv
<1> HIDE DEF ItemInv
<1>6. QED
  BY <1>2, <1>3, <1>4, <1>5, QuietStep

-----------------------------------------------------------------------------
(* Wins and payments *)

\* A win waits for its payment with a deadline, or with the call that arms it.
LEMMA WonKeepsInv ==
  ASSUME ItemAssumption, ItemInv, NEW i \in Items, NEW price \in Prices, MarkItemWon(i, price)
  PROVE  ItemInv'
<1>1. /\ i \in listed /\ Sniper1Send(state[i], "markWon") = "won"
      /\ state' = [state EXCEPT ![i] = "pending_user_payment"]
      /\ won' = [won EXCEPT ![i] = price]
      /\ \/ notifying' = notifying \cup {i} /\ deadlines' = deadlines
         \/ deadlines' = deadlines \cup {i} /\ notifying' = notifying
      /\ UNCHANGED <<listed, budget, book, bids>>
  BY WinEvents DEF MarkItemWon
<1>2. state[i] \in Sniper1States /\ state[i] # "paid" /\ state[i] # None
  <2>1. state[i] # None
    BY <1>1 DEF ItemInv, FreshItems
  <2>2. state[i] \in Sniper1States
    BY <2>1 DEF ItemInv, ItemTypeOK
  <2>3. QED
    BY <1>1, <2>1, <2>2, WinEvents
<1>3. /\ "pending_user_payment" \in Sniper1States /\ "pending_user_payment" # None
      /\ "pending_user_payment" # "paid"
  BY WinEvents DEF ItemAssumption
<1>4. state'[i] = "pending_user_payment" /\ \A j \in Items \ {i} : state'[j] = state[j]
  BY <1>1 DEF ItemInv, ItemTypeOK
<1>5. won'[i] = price /\ \A j \in Items \ {i} : won'[j] = won[j]
  BY <1>1 DEF ItemInv, ItemTypeOK
<1>6. ItemTypeOK'
  BY <1>1, <1>3 DEF ItemInv, ItemTypeOK
<1>7. FreshItems' /\ WinsHavePrices' /\ PendingItemsAreWatched'
  BY <1>1, <1>3, <1>4, <1>5
     DEF ItemInv, FreshItems, WinsHavePrices, PendingItemsAreWatched, ItemTypeOK
<1>8. MoneyInPlace'
  <2> SUFFICES ASSUME NEW j \in Items
               PROVE  MoneyInPlace!(j)'
    BY DEF MoneyInPlace
  <2>1. MoneyInPlace!(j)
    BY DEF ItemInv, MoneyInPlace
  <2>2. CASE j = i
    BY <1>1, <1>2, <1>3, <1>4, <2>1, <2>2
  <2>3. CASE j # i
    BY <1>1, <1>4, <1>5, <2>1, <2>3
  <2>4. QED
    BY <2>2, <2>3
<1>9. QED
  BY <1>6, <1>7, <1>8 DEF ItemInv

\* The notification's end hands the item over to its deadline.
LEMMA NotifiedKeepsInv ==
  ASSUME ItemAssumption, ItemInv, NEW i \in Items, WinNotified(i)
  PROVE  ItemInv'
<1>1. /\ notifying' = notifying \ {i} /\ deadlines' = deadlines \cup {i}
      /\ UNCHANGED <<listed, state, budget, won, book, bids>>
  BY DEF WinNotified
<1>2. /\ notifying' \subseteq Items /\ deadlines' \subseteq Items
      /\ state' \in [Items -> Sniper1States \cup {None}]
      /\ bids' \in [Calls -> Items \cup {None}]
  BY <1>1 DEF ItemInv, ItemTypeOK
<1>3. notifying \cup deadlines \subseteq (notifying \cup deadlines)'
  BY <1>1
<1>4. QED
  BY <1>1, <1>2, <1>3, QuietStep

\* A deadline that fires ends the wait of its own item.
LEMMA DeadlineKeepsInv ==
  ASSUME ItemAssumption, ItemInv, NEW i \in Items, DeadlineHit(i)
  PROVE  ItemInv'
<1>1. /\ deadlines' = deadlines \ {i}
      /\ UNCHANGED <<listed, budget, won, book, bids, notifying>>
  BY DEF DeadlineHit
<1>2. /\ notifying' \subseteq Items /\ deadlines' \subseteq Items
      /\ bids' \in [Calls -> Items \cup {None}]
  BY <1>1 DEF ItemInv, ItemTypeOK
<1>3. CASE i \in listed /\ state[i] = "pending_user_payment"
  <2>1. state' = After(i, "paymentDeadlineHit") /\ state[i] # None
    BY <1>3, WinEvents DEF DeadlineHit, ItemAssumption
  <2>2. /\ state' \in [Items -> Sniper1States \cup {None}]
        /\ \A j \in Items : (state'[j] = None) <=> (state[j] = None)
        /\ \A j \in Items : (state'[j] = "paid") <=> (state[j] = "paid")
        /\ \A j \in Items : state'[j] = "pending_user_payment" => state[j] = "pending_user_payment"
    BY <2>1, AfterQuiet DEF ItemInv
  <2>3. state'[i] # "pending_user_payment"
    <3>1. Sniper1Send("pending_user_payment", "paymentDeadlineHit") # "pending_user_payment"
      BY DEF Sniper1Send, Transition, Sniper1Table, Sniper1Terminal
    <3>2. QED
      BY <1>3, <2>1, <3>1 DEF After, ItemInv, ItemTypeOK
  <2>4. \A j \in Items \ {i} :
          j \in notifying \cup deadlines => j \in (notifying \cup deadlines)'
    BY <1>1
  <2>5. QED
    BY <1>1, <1>2, <2>2, <2>3, <2>4, QuietStep
<1>4. CASE ~(i \in listed /\ state[i] = "pending_user_payment")
  <2>1. state' = state /\ state' \in [Items -> Sniper1States \cup {None}]
    BY <1>4 DEF DeadlineHit, ItemInv, ItemTypeOK
  <2>2. \A j \in Items :
          state'[j] = "pending_user_payment" =>
            /\ state[j] = "pending_user_payment"
            /\ j \in listed /\ j \in notifying \cup deadlines => j \in (notifying \cup deadlines)'
    BY <1>1, <1>4, <2>1
  <2>3. QED
    BY <1>1, <1>2, <2>1, <2>2, QuietStep
<1>5. QED
  BY <1>3, <1>4

\* A paid item has spent its price, or its allotment, and gives back the rest.
LEMMA PaidKeepsInv ==
  ASSUME ItemAssumption, ItemInv, NEW i \in Items, MarkPaymentCompleted(i)
  PROVE  ItemInv'
<1> DEFINE held == book.committed[i]
           spend == IF won[i] < held THEN won[i] ELSE held
           between == Spend(book, i, spend)
<1>1. /\ i \in listed /\ state[i] = "pending_user_payment"
      /\ state' = [state EXCEPT ![i] = "paid"]
      /\ deadlines' = deadlines \ {i}
      /\ book' = Release(between, i, held - spend)
      /\ UNCHANGED <<listed, budget, won, bids, notifying>>
  BY WinEvents DEF MarkPaymentCompleted, After, Settled
<1>2. book \in Books /\ book.committed \in [Items -> Nat] /\ book.spent \in [Items -> Nat]
  BY DEF ItemInv, ItemTypeOK, Books
<1>3. /\ "paid" \in Sniper1States /\ "paid" # None /\ "paid" # "pending_user_payment"
      /\ "pending_user_payment" # "paid"
  BY WinEvents DEF ItemAssumption
<1>4. won[i] \in Nat
  BY <1>1 DEF ItemInv, WinsHavePrices, ItemAssumption
<1>5. /\ held = (IF budget[i] = None THEN 0 ELSE budget[i])
      /\ book.spent[i] = 0
  BY <1>1, <1>3 DEF ItemInv, MoneyInPlace
<1>6. held \in Nat /\ spend \in Nat /\ spend <= held /\ held - spend \in Nat
  BY <1>2, <1>4
<1>7. /\ between \in Books
      /\ between.committed = [book.committed EXCEPT ![i] = @ - spend]
      /\ between.spent = [book.spent EXCEPT ![i] = @ + spend]
  <2>1. spend <= book.committed[i]
    BY <1>6
  <2> HIDE DEF held, spend
  <2>2. QED
    BY <1>2, <1>6, <2>1, SpendBook
<1>8. between.committed[i] = held - spend /\ between.spent[i] = spend
  <2>1. between.committed[i] = held - spend
    BY <1>2, <1>7
  <2>2. between.spent[i] = 0 + spend
    BY <1>2, <1>5, <1>7
  <2>3. QED
    BY <1>6, <2>1, <2>2
<1>9. /\ book' \in Books
      /\ book'.committed = [between.committed EXCEPT ![i] = @ - (held - spend)]
      /\ book'.spent = between.spent
  <2>1. held - spend <= between.committed[i]
    BY <1>6, <1>8
  <2> DEFINE left == held - spend
  <2>2. /\ left \in Nat /\ left <= between.committed[i] /\ book' = Release(between, i, left)
        /\ between \in Books
    BY <1>1, <1>6, <1>7, <2>1
  <2>3. /\ book' \in Books
        /\ book'.committed = [between.committed EXCEPT ![i] = @ - left]
        /\ book'.spent = between.spent
    <3> HIDE DEF held, spend, left, between
    <3>1. QED
      BY <2>2, ReleaseBook
  <2>4. QED
    BY <2>3
<1>10. book'.committed[i] = 0 /\ book'.spent[i] = spend
  <2>1. between.committed \in [Items -> Nat]
    BY <1>7 DEF Books
  <2> HIDE DEF held, spend, between
  <2>2. book'.committed[i] = (held - spend) - (held - spend)
    BY <1>8, <1>9, <2>1
  <2>3. QED
    BY <1>6, <1>8, <1>9, <2>2
<1>11. \A j \in Items \ {i} :
         /\ book'.committed[j] = book.committed[j] /\ book'.spent[j] = book.spent[j]
         /\ state'[j] = state[j]
  <2> HIDE DEF held, spend, between
  <2>1. between.committed \in [Items -> Nat]
    BY <1>7 DEF Books
  <2>2. QED
    BY <1>1, <1>2, <1>7, <1>9, <2>1 DEF ItemInv, ItemTypeOK
<1>12. state'[i] = "paid"
  BY <1>1 DEF ItemInv, ItemTypeOK
<1>13. ItemTypeOK'
  <2> HIDE DEF held, spend, between
  <2>1. QED
    BY <1>1, <1>3, <1>9 DEF ItemInv, ItemTypeOK, Books
<1>14. FreshItems' /\ WinsHavePrices' /\ PendingItemsAreWatched'
  <2> HIDE DEF held, spend, between
  <2>1. FreshItems'
    BY <1>1, <1>3, <1>11, <1>12 DEF ItemInv, FreshItems
  <2>2. WinsHavePrices'
    BY <1>1, <1>3, <1>11, <1>12 DEF ItemInv, WinsHavePrices
  <2>3. PendingItemsAreWatched'
    BY <1>1, <1>3, <1>11, <1>12 DEF ItemInv, PendingItemsAreWatched, ItemTypeOK
  <2>4. QED
    BY <2>1, <2>2, <2>3
<1>15. MoneyInPlace'
  <2> SUFFICES ASSUME NEW j \in Items
               PROVE  MoneyInPlace!(j)'
    BY DEF MoneyInPlace
  <2>1. CASE j = i
    BY <1>1, <1>5, <1>10, <1>12, <2>1
  <2>2. CASE j # i
    BY <1>1, <1>11, <2>2 DEF ItemInv, MoneyInPlace
  <2>3. QED
    BY <2>1, <2>2
<1>16. QED
  BY <1>13, <1>14, <1>15 DEF ItemInv

-----------------------------------------------------------------------------
(* Theorems *)

\* The inductive invariant of the items and their money.
THEOREM ItemInvariant == ItemSpec => []ItemInv
<1> USE DEF ItemInv
<1>1. ItemInit => ItemInv
  BY ItemAssumption, ItemInitInv
<1>2. ItemInv /\ [ItemNext]_itemVars => ItemInv'
  <2> USE ItemAssumption
  <2> SUFFICES ASSUME ItemInv, [ItemNext]_itemVars  PROVE  ItemInv'
    OBVIOUS
  <2>1. CASE \E i \in Items : AddWatchedItem(i)
    BY <2>1, AddKeepsInv
  <2>2. CASE \E i \in Items : RemoveWatchedItem(i)
    BY <2>2, RemoveKeepsInv
  <2>3. CASE \/ \E i \in Items : ArmItem(i) \/ DisarmItem(i)
             \/ \E i \in Items, c \in Calls : ExecuteBid(c, i)
             \/ \E c \in Calls, event \in {"bidWinning", "bidOutbid", "bidFailed"} :
                  BidAnswered(c, event)
             \/ \E c \in Calls : BidThrows(c)
    BY <2>3, BidsKeepInv
  <2>4. CASE \E i \in Items, price \in Prices : MarkItemWon(i, price)
    BY <2>4, WonKeepsInv
  <2>5. CASE \E i \in Items : WinNotified(i)
    BY <2>5, NotifiedKeepsInv
  <2>6. CASE \E i \in Items : MarkPaymentCompleted(i)
    BY <2>6, PaidKeepsInv
  <2>7. CASE \E i \in Items : DeadlineHit(i)
    BY <2>7, DeadlineKeepsInv
  <2>8. CASE UNCHANGED itemVars
    <3>1. UNCHANGED <<listed, state, budget, won, book, bids, notifying, deadlines>>
      BY <2>8 DEF itemVars
    <3>2. QED
      BY <3>1 DEF ItemTypeOK, FreshItems, WinsHavePrices, MoneyInPlace,
                  PendingItemsAreWatched
  <2>9. QED
    BY <2>1, <2>2, <2>3, <2>4, <2>5, <2>6, <2>7, <2>8 DEF ItemNext
<1> HIDE DEF ItemInv
<1>3. QED
  BY <1>1, <1>2, PTL DEF ItemSpec

\* The money follows the item through every order of bids, wins, payments,
\* deadlines and removals.
THEOREM MoneyIsKept == ItemSpec => []MoneyFollowsItems
<1>1. ItemInv => MoneyFollowsItems
  BY DEF ItemInv, MoneyInPlace, MoneyFollowsItems
<1>2. QED
  BY <1>1, ItemInvariant, PTL

\* The types hold, among them that neither what is available nor what is
\* committed to an item ever becomes negative; and an item that waits for its
\* payment has a deadline armed or about to be.
THEOREM ItemsStayConsistent == ItemSpec => []ItemsConsistent
<1>1. ItemInv => ItemsConsistent
  BY DEF ItemInv, ItemsConsistent
<1>2. QED
  BY <1>1, ItemInvariant, PTL

-----------------------------------------------------------------------------
(* The budget over all items *)

\* What is available of a book, as the ledger adds it up.
SumOf(bk) ==
  bk.total - SumFunctionOnSet(bk.committed, Items) - SumFunctionOnSet(bk.spent, Items)

LEMMA SumsAreInt ==
  ASSUME ItemAssumption, NEW f \in [Items -> Nat]
  PROVE  SumFunctionOnSet(f, Items) \in Nat
BY SumType DEF ItemAssumption

\* What changes for one item changes the sum by as much.
LEMMA SumMoves ==
  ASSUME ItemAssumption, NEW f \in [Items -> Nat], NEW g \in [Items -> Nat], NEW i \in Items,
         NEW d \in Int, g[i] = f[i] + d, \A x \in Items : x # i => g[x] = f[x]
  PROVE  SumFunctionOnSet(g, Items) = SumFunctionOnSet(f, Items) + d
<1>1. SumFunctionOnSet(g, Items) + f[i] = SumFunctionOnSet(f, Items) + g[i]
  <2>1. \A x \in Items : f[x] \in Nat /\ g[x] \in Nat
    OBVIOUS
  <2>2. IsFiniteSet(Items)
    BY DEF ItemAssumption
  <2>3. QED
    BY <2>1, <2>2, SumChange
<1>2. SumFunctionOnSet(g, Items) \in Nat /\ SumFunctionOnSet(f, Items) \in Nat
  BY SumsAreInt
<1>3. QED
  BY <1>1, <1>2

\* Each operation of the ledger changes what is available as it changes the
\* sums of its entries.
LEMMA CommitSum ==
  ASSUME ItemAssumption, NEW bk \in Books, NEW i \in Items, NEW b \in Nat,
         CanCommit(bk, b), bk.available = SumOf(bk)
  PROVE  Commit(bk, i, b).available = SumOf(Commit(bk, i, b))
<1> DEFINE new == Commit(bk, i, b)
<1>1. /\ new \in Books /\ new.committed = [bk.committed EXCEPT ![i] = @ + b]
      /\ new.spent = bk.spent
  BY CommitBook
<1>2. new.total = bk.total /\ new.available = bk.available - b
  BY DEF Commit, Books
<1> HIDE DEF new
<1>3. /\ bk.committed \in [Items -> Nat] /\ new.committed \in [Items -> Nat]
      /\ bk.spent \in [Items -> Nat] /\ b \in Int /\ bk.total \in Nat
  BY <1>1 DEF Books
<1>4. SumFunctionOnSet(new.committed, Items) = SumFunctionOnSet(bk.committed, Items) + b
  <2>1. /\ new.committed[i] = bk.committed[i] + b
        /\ \A x \in Items : x # i => new.committed[x] = bk.committed[x]
    BY <1>1, <1>3
  <2>2. QED
    BY <1>3, <2>1, SumMoves
<1>5. /\ SumFunctionOnSet(bk.committed, Items) \in Nat
      /\ SumFunctionOnSet(bk.spent, Items) \in Nat
  BY <1>3, SumsAreInt
<1>6. new.available = SumOf(new)
  BY <1>1, <1>2, <1>3, <1>4, <1>5 DEF SumOf
<1>7. QED
  BY <1>6 DEF new

LEMMA ReleaseSum ==
  ASSUME ItemAssumption, NEW bk \in Books, NEW i \in Items, NEW a \in Nat,
         a <= bk.committed[i], bk.available = SumOf(bk)
  PROVE  Release(bk, i, a).available = SumOf(Release(bk, i, a))
<1> DEFINE new == Release(bk, i, a)
           d == 0 - a
<1>1. /\ new \in Books /\ new.committed = [bk.committed EXCEPT ![i] = @ - a]
      /\ new.spent = bk.spent
  BY ReleaseBook
<1>2. new.total = bk.total /\ new.available = bk.available + a
  BY DEF Release, Books
<1> HIDE DEF new
<1>3. /\ bk.committed \in [Items -> Nat] /\ new.committed \in [Items -> Nat]
      /\ bk.spent \in [Items -> Nat] /\ d \in Int /\ bk.total \in Nat
  BY <1>1 DEF Books
<1>4. SumFunctionOnSet(new.committed, Items) = SumFunctionOnSet(bk.committed, Items) + d
  <2>1. /\ new.committed[i] = bk.committed[i] + d
        /\ \A x \in Items : x # i => new.committed[x] = bk.committed[x]
    BY <1>1, <1>3
  <2> HIDE DEF d
  <2>2. QED
    BY <1>3, <2>1, SumMoves
<1>5. /\ SumFunctionOnSet(bk.committed, Items) \in Nat
      /\ SumFunctionOnSet(bk.spent, Items) \in Nat
  BY <1>3, SumsAreInt
<1>6. new.available = SumOf(new)
  BY <1>1, <1>2, <1>3, <1>4, <1>5 DEF SumOf
<1>7. QED
  BY <1>6 DEF new

LEMMA SpendSum ==
  ASSUME ItemAssumption, NEW bk \in Books, NEW i \in Items, NEW a \in Nat,
         a <= bk.committed[i], bk.available = SumOf(bk)
  PROVE  Spend(bk, i, a).available = SumOf(Spend(bk, i, a))
<1> DEFINE new == Spend(bk, i, a)
           d == 0 - a
<1>1. /\ new \in Books /\ new.committed = [bk.committed EXCEPT ![i] = @ - a]
      /\ new.spent = [bk.spent EXCEPT ![i] = @ + a]
  BY SpendBook
<1>2. new.total = bk.total /\ new.available = bk.available
  BY DEF Spend, Books
<1> HIDE DEF new
<1>3. /\ bk.committed \in [Items -> Nat] /\ new.committed \in [Items -> Nat]
      /\ bk.spent \in [Items -> Nat] /\ new.spent \in [Items -> Nat]
      /\ d \in Int /\ a \in Int /\ bk.total \in Nat
  BY <1>1 DEF Books
<1>4. SumFunctionOnSet(new.committed, Items) = SumFunctionOnSet(bk.committed, Items) + d
  <2>1. /\ new.committed[i] = bk.committed[i] + d
        /\ \A x \in Items : x # i => new.committed[x] = bk.committed[x]
    BY <1>1, <1>3
  <2> HIDE DEF d
  <2>2. QED
    BY <1>3, <2>1, SumMoves
<1>5. SumFunctionOnSet(new.spent, Items) = SumFunctionOnSet(bk.spent, Items) + a
  <2>1. /\ new.spent[i] = bk.spent[i] + a
        /\ \A x \in Items : x # i => new.spent[x] = bk.spent[x]
    BY <1>1, <1>3
  <2>2. QED
    BY <1>3, <2>1, SumMoves
<1>6. /\ SumFunctionOnSet(bk.committed, Items) \in Nat
      /\ SumFunctionOnSet(bk.spent, Items) \in Nat
  BY <1>3, SumsAreInt
<1>7. new.available = SumOf(new)
  BY <1>1, <1>2, <1>3, <1>4, <1>5, <1>6 DEF SumOf
<1>8. QED
  BY <1>7 DEF new

LEMMA ExpandSum ==
  ASSUME ItemAssumption, book \in Books, NEW b \in Nat, book.available = SumOf(book)
  PROVE  Expanded(b).available = SumOf(Expanded(b))
<1>1. /\ Expanded(b).committed = book.committed /\ Expanded(b).spent = book.spent
      /\ Expanded(b).available - Expanded(b).total = book.available - book.total
  <2>1. book.available \in Nat /\ book.total \in Nat
    BY DEF Books
  <2>2. CASE book.available < b
    <3> DEFINE raised == book.total + b - book.available
    <3>1. Expanded(b).total = raised /\ Expanded(b).available = book.available + raised - book.total
      BY <2>2 DEF Expanded, SetTotalBudget, Books
    <3>2. QED
      BY <2>1, <3>1, ExpandedCovers
  <2>3. CASE ~(book.available < b)
    BY <2>3 DEF Expanded
  <2>4. QED
    BY <2>2, <2>3
<1>2. /\ book.available \in Nat /\ book.total \in Nat
      /\ Expanded(b).available \in Nat /\ Expanded(b).total \in Nat
  BY ExpandedCovers DEF Books
<1>3. /\ SumFunctionOnSet(book.committed, Items) \in Nat
      /\ SumFunctionOnSet(book.spent, Items) \in Nat
  BY SumsAreInt DEF Books
<1>4. QED
  BY <1>1, <1>2, <1>3 DEF SumOf

SummedUp == book.available = AvailableSum

\* Every request that touches the book keeps it summed up.
LEMMA BudgetNextInv ==
  ASSUME ItemInv, SummedUp, [ItemNext]_itemVars
  PROVE  SummedUp'
<1>1. book \in Books /\ book.available = SumOf(book) /\ (SummedUp' <=> book'.available = SumOf(book'))
  BY DEF ItemInv, ItemTypeOK, Books, SummedUp, AvailableSum, SumOf
<1>2. CASE UNCHANGED book
  BY <1>1, <1>2
<1>3. CASE \E i \in Items : AddWatchedItem(i)
  <2>1. PICK i \in Items : AddWatchedItem(i)
    BY <1>3
  <2>2. CASE UNCHANGED book
    BY <1>1, <2>2
  <2>3. CASE \E b \in Budgets : CanCommit(Expanded(b), b) /\ book' = Commit(Expanded(b), i, b)
    <3>1. PICK b \in Budgets : CanCommit(Expanded(b), b) /\ book' = Commit(Expanded(b), i, b)
      BY <2>3
    <3>2. b \in Nat
      BY ItemAssumption DEF ItemAssumption
    <3>3. Expanded(b) \in Books /\ Expanded(b).available = SumOf(Expanded(b))
      BY <1>1, <3>2, ItemAssumption, ExpandedCovers, ExpandSum
    <3>4. QED
      BY <1>1, <3>1, <3>2, <3>3, ItemAssumption, CommitSum
  <2>4. ASSUME NEW b \in Budgets, book' = Expanded(b)  PROVE  SummedUp'
    <3>1. b \in Nat
      BY ItemAssumption DEF ItemAssumption
    <3>2. QED
      BY <1>1, <2>4, <3>1, ItemAssumption, ExpandSum
  <2>5. QED
    BY <2>1, <2>2, <2>3, <2>4 DEF AddWatchedItem
<1>4. CASE \E i \in Items : RemoveWatchedItem(i)
  <2>1. PICK i \in Items : book' = Release(book, i, book.committed[i])
    BY <1>4 DEF RemoveWatchedItem, Refunded
  <2>2. book.committed[i] \in Nat /\ book.committed[i] <= book.committed[i]
    BY <1>1 DEF Books
  <2>3. QED
    BY <1>1, <2>1, <2>2, ItemAssumption, ReleaseSum
<1>5. CASE \E i \in Items : MarkPaymentCompleted(i)
  <2>1. PICK i \in Items : MarkPaymentCompleted(i)
    BY <1>5
  <2> DEFINE held == book.committed[i]
             spend == IF won[i] < held THEN won[i] ELSE held
             between == Spend(book, i, spend)
             left == held - spend
  <2>2. book' = Release(between, i, left)
    BY <2>1 DEF MarkPaymentCompleted, Settled
  <2>3. held \in Nat /\ won[i] \in Nat
    BY <1>1, <2>1, ItemAssumption
    DEF Books, MarkPaymentCompleted, ItemInv, WinsHavePrices, ItemAssumption
  <2>4. spend \in Nat /\ spend <= book.committed[i] /\ left \in Nat
        /\ left = book.committed[i] - spend
    BY <2>3
  <2> HIDE DEF held, spend, left
  <2>5. /\ between \in Books /\ between.available = SumOf(between)
        /\ between.committed = [book.committed EXCEPT ![i] = @ - spend]
    <3>1. book \in Books /\ spend \in Nat /\ spend <= book.committed[i]
      BY <1>1, <2>4
    <3>2. book.available = SumOf(book)
      BY <1>1
    <3>3. /\ between \in Books
          /\ between.committed = [book.committed EXCEPT ![i] = @ - spend]
          /\ between.spent = [book.spent EXCEPT ![i] = @ + spend]
      BY <3>1, SpendBook
    <3>4. between.available = SumOf(between)
      BY <3>1, <3>2, ItemAssumption, SpendSum
    <3>5. QED
      BY <3>3, <3>4
  <2>6. left <= between.committed[i]
    <3>1. book.committed \in [Items -> Nat]
      BY <1>1 DEF Books
    <3>2. between.committed[i] = left
      BY <2>4, <2>5, <3>1
    <3>3. QED
      BY <2>4, <3>2
  <2> HIDE DEF between
  <2>7. QED
    BY <1>1, <2>2, <2>4, <2>5, <2>6, ItemAssumption, ReleaseSum
<1>6. QED
  BY <1>2, <1>3, <1>4, <1>5 DEF ItemNext, ArmItem, DisarmItem, ExecuteBid, BidAnswered,
     BidThrows, MarkItemWon, WinNotified, DeadlineHit, itemVars

\* What is available to further items is the total less everything that is
\* committed to items and everything that was spent on them, summed over all
\* of them, and it never becomes negative.
THEOREM BudgetIsKept == ItemSpec => []BudgetCoversItems
<1>1. ItemInit => SummedUp
  <2> SUFFICES ASSUME ItemInit  PROVE  SummedUp
    OBVIOUS
  <2> DEFINE nothing == [i \in Items |-> 0]
  <2>1. book.available = 0 /\ book.total = 0 /\ book.committed = nothing /\ book.spent = nothing
    BY DEF ItemInit, EmptyBook
  <2>2. SumFunctionOnSet(nothing, Items) = 0
    <3>1. nothing \in [Items -> Nat] /\ \A i \in Items : nothing[i] = 0
      OBVIOUS
    <3> HIDE DEF nothing
    <3>2. QED
      BY <3>1, ItemAssumption, SumOfZeros DEF ItemAssumption
  <2> HIDE DEF nothing
  <2>3. QED
    BY <2>1, <2>2 DEF SummedUp, AvailableSum
<1>2. ItemInv /\ SummedUp /\ [ItemNext]_itemVars => SummedUp'
  BY BudgetNextInv
<1>3. ItemInv /\ SummedUp => BudgetCoversItems
  BY DEF ItemInv, SummedUp, ItemTypeOK, BudgetCoversItems
<1>4. QED
  BY <1>1, <1>2, <1>3, ItemInvariant, PTL DEF ItemSpec
=============================================================================
