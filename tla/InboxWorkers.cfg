CONSTANTS
  e1 = e1
  e2 = e2
  NoEvent = NoEvent
  Worker = {w1, w2}
  Event = {e1, e2}
  ReceivedAt <- InOrder
  BatchSize = 2
  MaxAttempts = 2
  Crashes = 1
  Faults = 1
SPECIFICATION FairSpec
INVARIANTS IInv BoundedCalls RepeatsNeedFaults
PROPERTIES EventuallySettled
CHECK_DEADLOCK FALSE
