SPECIFICATION Spec
CONSTANTS
  Universe = 2
  LastDay = 1
  TradingDays = {0, 1}
  Hours = 3
  OpenAt = 1
  CloseAt = 1
  Settled = 2
  FillHours = {0, 2}
  Tail = 2
  ChunkDays = 1
  Gaps <- SomeGaps
  Batches <- SomeBatches
  MaxFaults = 1
  MaxCommands = 2
INVARIANTS
  QuietEveningsHealTheTail
  PassesWaitForTheClose
  QuotaIsSpentOnce
  ResumedBackfillsMissOnlyUnfinishedSessions
