SPECIFICATION PipelineFairSpec
CONSTANTS
  A = A
  B = B
  C = C
  r1 = r1
  r2 = r2
  r3 = r3
  eBay = eBay
  tgtg = tgtg
  None = None
  Sites = {eBay, tgtg}
  SiteOf <- MCSiteOf
  SiteLimit <- MCSiteLimit
  GlobalLimits = {}
  SiteLimits = {}
  MinInterval = 1
  TightMargin = 1
  TypicalDuration = 1
  MinSamples = 1
  MaxSamples = 1
  Estimates = {1}
  Requests = {r1, r2, r3}
  Tasks = {A, B, C}
  TaskOf <- OneRunPerTask
  GlobalLimit = 2
  Kinds = {"run"}
  AutoDriven = {r1}
  Forced = {r2}
  Cancels = {}
  MaxQueueSize = 2
  Lifetimes = {2, 6}
  MaxTime = 1
  MaxArrivals = 3
INVARIANTS
  PipelineTypeOK
  RunsOwnTheirTasks
PROPERTIES
  NoPaymentStartsFrozen
  EveryRunEnds
CHECK_DEADLOCK FALSE
