CONSTANTS
  Caller = {c1, c2, c3}
  Threshold = 2
  MaxAttempts = 2
  Failures = 5
SPECIFICATION FairSpec
INVARIANTS IInv
PROPERTIES Recovers
