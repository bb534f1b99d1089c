CONSTANTS
  Requests <- AnyRequest
  Outcomes <- AnyOutcome
  Lot = 2
  Tick = 1
  Brokerage = 1
  FeeBPS = 300
  SlippageBPS = 100
SPECIFICATION SleevesSpec
CHECK_DEADLOCK FALSE
INVARIANTS
  CurvesAddUp
  MergedLogIsTheSleevesLogs
  DrawdownsAreTheWorst
