CONSTANTS
  Runner = {m1}
  Crashes = 0
SPECIFICATION MigrationsSpec
INVARIANTS ResetRebuilds
CHECK_DEADLOCK FALSE
