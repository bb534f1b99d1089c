SPECIFICATION Spec
CONSTANTS
  None = None
  Fault = Fault
  Unknown = Unknown
  Names <- MCNames
  Drafts <- MCDrafts
  Closes = {4, 8, 12}
  MaxBars = 5
  MaxInputs = 3
  MaxNodes = 6
  MaxDepth = 3
  MaxBack = 3
  MaxPeriod = 3
  MaxQuantity = 100
  MaxCash = 100
  MaxBrokerageCents = 100
  MaxPrimeBars = 3
  Requests <- MCRequests
  Listed = {"x", "y"}
  MaxBasket = 2
  MaxAxes = 3
  MaxValues = 3
  MaxPoints = 6
  MaxRuns = 9
  MaxFolds = 3
  MinFoldDays = 2
  MinCapital = 100
  MaxCapital = 1000
  DefaultCapital = 500
INVARIANTS
  SavedSpecsCompile
  SignalsFollowTheRules
  PrimingIsEnough
  LegsCarryTheirBrackets
  FoldsTestEachDayOnce
  SweepsRunTheWholeGrid
CHECK_DEADLOCK FALSE
