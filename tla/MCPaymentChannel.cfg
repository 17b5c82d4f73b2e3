SPECIFICATION ChannelSpec
CONSTANTS
  A = A
  B = B
  Tasks = {A, B}
  None = None
  MinInterval = 1
  TightMargin = 2
  TypicalDuration = 1
  MaxQueueSize = 3
  MinSamples = 2
  MaxSamples = 2
  Lifetimes = {2, 5}
  Estimates = {1, 2}
  MaxTime = 3
  MaxArrivals = 3
INVARIANTS
  ChannelConsistent
  PlannerIsRight
PROPERTIES
  StartsInTurn
  LaterDeadlinesDoNotDelay
