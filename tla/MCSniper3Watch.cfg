SPECIFICATION WatchFairSpec
CONSTANTS
  s1 = s1
  s2 = s2
  s3 = s3
  t1 = t1
  t2 = t2
  None = None
  Signals = {s1, s2, s3}
  Orders = {t1, t2}
  Caps = {0, 1, 2}
  QuarantineAfter = 2
INVARIANTS
  WatchConsistent
  TimersBelongToRequests
  PaidOrdersWithinCap
PROPERTIES
  OrdersAreDue
  EverySignalIsResolved
