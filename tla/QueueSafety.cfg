CONSTANTS
  a1 = a1
  c1 = c1
  c2 = c2
  w1 = w1
  w2 = w2
  p1 = p1
  p2 = p2
  NoRun = NoRun
  AdHoc = {a1}
  Children = {c1, c2}
  Poison = {}
  Workers = {w1, w2}
  Replicas = {p1, p2}
  Home <- MCHome
  ClaimTime = 1
  RunTimeout = 1
  EngineTime = 1
  WriteTimeout = 1
  StaleAfter = 4
  MaxStops = 1
  MaxFaults = 1
SPECIFICATION Spec
INVARIANTS
  OneWorkerPerRun
  LiveRunNeverLooksAbandoned
  ResultsExactlyWhenDone
PROPERTIES
  OnlyUnheardClaimsAreOrphaned
  RowsFollowTheLifecycle
