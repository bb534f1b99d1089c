CONSTANTS
  F = F
  G = G
  H = H
  Contracts = {F, G, H}
  Future = Future
  Expiration <- MCExpiration
  Settlement <- MCSettlement
  FirstStored <- MCFirstStored
  SessionLength = 3
  MaxPageLimit = 2
  MaxPrimeBars = 2
  Widths = {1, 2}
  PageLimit = 1
  Elapsed = 1
  LastDay = 3
  FirstDays = {2}
  MaxArrivals = 1
  MaxSelections = 2
  Reach = 2
SPECIFICATION Spec
CHECK_DEADLOCK FALSE
INVARIANT PrimedAtTheLevelOfThePage
