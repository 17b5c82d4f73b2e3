SPECIFICATION OrderSpec
CONSTANTS
  Flows <- MCFlows
  SupportedVersions = {1, 2}
  SiteConfigured = TRUE
  MaxRuns = 2
  Orders <- MCOrders
  Intervals = 3
  Variants <- MCVariants
  Prices <- MCPrices
  Wanted <- MCWanted
  Cap = 1
INVARIANT PaidWithinCap
CHECK_DEADLOCK FALSE
