CONSTANTS
  Length = 4
  Bars <- Market
  Capital = 1003
  Sides = {FALSE, TRUE}
  Sizings <- AnySizing
  Stops <- AnyStop
  Targets <- AnyTarget
  Lot = 1
  Tick = 5
  Brokerage = 3
  FeeBPS = 100
  SlippageBPS = 300
  BorrowRate = 3
  RateUnit = 1000
SPECIFICATION Spec
CHECK_DEADLOCK FALSE
INVARIANTS
  BooksBalance
  RentIsPaidToTheCent
  EntriesFollowTheirSignal
  FillsHappenInsideTheirBar
PROPERTIES
  LongsArePaidFor
  AmbiguousBarsEndWorse
