CONSTANTS
  w1 = w1
  w2 = w2
  e1 = e1
  e2 = e2
  k1 = k1
  k2 = k2
  NoEvent = NoEvent
  Worker = {w1, w2}
  Event = {e1, e2}
  Key = {k1, k2}
  KeyOf <- DistinctKeyOf
  Kind <- MixedKind
  CreatedAt <- InOrder
  BatchSize = 1
  MaxAttempts = 2
  Budget <- OneCrash
SPECIFICATION Spec
SYMMETRY Workers
INVARIANTS AtLeastOnce
CHECK_DEADLOCK FALSE
