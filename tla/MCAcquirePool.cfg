SPECIFICATION PoolSpec
CONSTANTS
  r1 = r1
  r2 = r2
  r3 = r3
  r4 = r4
  eBay = eBay
  tgtg = tgtg
  Requests = {r1, r2, r3, r4}
  Sites = {eBay, tgtg}
  SiteOf <- MCSiteOf
  GlobalLimit = 2
  SiteLimit <- MCSiteLimit
  GlobalLimits = {0, 1, 2, 3}
  SiteLimits = {0, 1, 2}
INVARIANTS
  PoolConsistent
  WorkConserving
  DrainIsTheLoop
PROPERTIES
  GrantsWithinLimits
  NoOvertaking
