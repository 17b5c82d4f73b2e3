SPECIFICATION OrderFairSpec
CONSTANTS
  Flows <- MCFlows
  SupportedVersions = {1, 2}
  SiteConfigured = TRUE
  MaxRuns = 2
  Orders <- MCOrders
  Intervals = 3
  Variants <- MCVariants
  Prices <- MCPrices
  Wanted <- MCWanted
  Cap = 1
INVARIANTS
  OrderConsistent
  RequestsBounded
  PaymentsSound
  OneVerdict
PROPERTIES
  RefusalIsFinal
  AlarmAfterTwoUnknowns
  EveryVerificationEnds
CHECK_DEADLOCK FALSE
