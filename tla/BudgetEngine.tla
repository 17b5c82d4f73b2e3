---------------------------- MODULE BudgetEngine ----------------------------
(***************************************************************************)
(* The ledger of packages/core/budget-engine/index.js.  Its entries are    *)
(* only ever added, and read only as sums by task and by kind: a book is   *)
(* these sums.  `available` is the sum the code forms as what was          *)
(* transferred less what is committed and what is spent.                   *)
(***************************************************************************)
EXTENDS Integers

EmptyBook(tasks) ==
  [total |-> 0, available |-> 0,
   committed |-> [t \in tasks |-> 0], spent |-> [t \in tasks |-> 0]]

\* setTotalBudget, which transfers the difference in or out.
SetTotalBudget(book, amount) ==
  [book EXCEPT !.total = amount, !.available = @ + amount - book.total]

\* commit, which throws unless its guard holds.
CanCommit(book, amount) == amount <= book.available
Commit(book, t, amount) ==
  [book EXCEPT !.available = @ - amount, !.committed[t] = @ + amount]

\* release and spend, for a caller that draws no more than is committed.
Release(book, t, amount) ==
  [book EXCEPT !.available = @ + amount, !.committed[t] = @ - amount]

\* Mutant of Spend: what is committed is summed up without what was spent.
SpendKeepsCommitment(book, t, amount) ==
  [book EXCEPT !.available = @ - amount, !.spent[t] = @ + amount]

Spend(book, t, amount) ==
  [book EXCEPT !.committed[t] = @ - amount, !.spent[t] = @ + amount]
=============================================================================
