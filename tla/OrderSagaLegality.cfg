CONSTANTS
  Client = {c1, c2}
  Saga = saga
  NoOne = noone
  MaxAttempts = 2
  Faults = 1
  Requeues = 0
SPECIFICATION Spec
SYMMETRY Clients
PROPERTIES OnlyLegalTransitions
CHECK_DEADLOCK FALSE
