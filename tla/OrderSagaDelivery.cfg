CONSTANTS
  Client = {c1, c2}
  Saga = saga
  NoOne = noone
  MaxAttempts = 1
  Faults = 1
  Requeues = 1
SPECIFICATION FairSpec
INVARIANTS EventChain CompensationUndone IInv
PROPERTIES NoLostUpdate StageNotRepeated EveryDeliveryEnds
CHECK_DEADLOCK FALSE
