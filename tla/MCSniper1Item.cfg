SPECIFICATION ItemFairSpec
CONSTANTS
  i1 = i1
  i2 = i2
  c1 = c1
  c2 = c2
  None = None
  Items = {i1, i2}
  Calls = {c1, c2}
  Budgets = {1, 3}
  Prices = {0, 2}
INVARIANTS
  ItemsConsistent
  MoneyFollowsItems
  BudgetCoversItems
PROPERTIES
  EveryWinIsSettled
CHECK_DEADLOCK FALSE
