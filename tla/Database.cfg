CONSTANTS
  Runner = {m1, m2}
  Crashes = 1
  SeedRun = {m1, m2}
  Wanted = 3
  BatchSize = 2
  ApiRows = 1
  LabRequest = {m1, m2}
  Conn = {n1, n2, n3, n4}
  LabFaults = 1
  MaxOrder = 3
  MaxTime = 2
  PageLimit = 1
  TotalTimeout = 3
  OutboxTimeout = 2
  Probe = {p1}
SPECIFICATION DatabaseSpec
SYMMETRY Alike
INVARIANTS DatabaseInv AppliedOnce NoForeignHistory SeedExact RepeatableStable StuckTogether PagesExact ShutdownOrderly
CHECK_DEADLOCK FALSE
