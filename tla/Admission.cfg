CONSTANTS
  h1 = h1
  h2 = h2
  i1 = i1
  i2 = i2
  r1 = r1
  r2 = r2
  r3 = r3
  s1 = s1
  s2 = s2
  n1 = n1
  n2 = n2
  x = x
  y = y
  Absent = Absent
  NoToken = NoToken
  Handlers = {h1, h2}
  Names = {n1, n2}
  Specs = {x, y}
  MaxStrategies = 1
  MaxBacktests = 1
  MaxSweeps = 1
  Ids = {i1, i2}
  Runs = {r1, r2, r3}
  Sweeps = {s1}
  MaxVersion = 2
  Tokens = {"t1"}
SPECIFICATION Spec
CHECK_DEADLOCK FALSE
SYMMETRY Symmetric
INVARIANTS
  LimitsAreOverrunByRequestsOnly
  ReferencedStrategiesStay
  VersionsNameOneSpec
PROPERTY RevokedLinksStayDead
