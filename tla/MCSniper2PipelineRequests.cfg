SPECIFICATION PipelineSpec
CONSTANTS
  A = A
  B = B
  C = C
  r1 = r1
  r2 = r2
  r3 = r3
  eBay = eBay
  tgtg = tgtg
  None = None
  Sites = {eBay, tgtg}
  SiteOf <- MCSiteOf
  SiteLimit <- MCSiteLimit
  GlobalLimits = {}
  SiteLimits = {}
  MinInterval = 1
  TightMargin = 1
  TypicalDuration = 1
  MinSamples = 1
  MaxSamples = 1
  Estimates = {1}
  Requests = {r1, r2, r3}
  Tasks = {A, B}
  TaskOf <- TwoRunsOfA
  GlobalLimit = 2
  Kinds = {"run", "acquire", "settle"}
  AutoDriven = {}
  Forced = {}
  Cancels = {A}
  MaxQueueSize = 2
  Lifetimes = {4}
  MaxTime = 0
  MaxArrivals = 3
INVARIANTS
  SlotsMatchRuns
  CardPaysOneTask
PROPERTIES
  PoolSpec
CHECK_DEADLOCK FALSE
