CONSTANTS
  w1 = w1
  w2 = w2
  j1 = j1
  f1 = f1
  f2 = f2
  Folds = {f1}
  Points = 2
  Scores = {0, 1}
  Workers = {w1, w2}
  Janitors = {j1}
  NoRun = NoRun
  NoPoint = NoPoint
  NoFold = NoFold
  Unscored = Unscored
  MaxFaults = 1
SPECIFICATION FairSpec
INVARIANTS
  FoldTestedAtMostOnce
  TestedPointIsTheWinner
  DeletedSweepHasNoRuns
PROPERTIES
  EveryFoldResolves
  OnlyFaultsStrandTests
