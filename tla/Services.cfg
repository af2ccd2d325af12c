CONSTANTS
  Request = {r1, r2, r3, r4}
  Expiries = 1
  Faults = 1
  Call = {r1, r2, r3}
  RouteKey = {"routes:maps", "routes:nearby"}
  Mishaps = 1
  Generation = {r1, r2, r3}
  PutAttempts = 2
  Failures = 3
  Instance = {i1, i2}
  Limit = 2
  Window = 3
  Outages = 2
  MaxRecent = 6
SPECIFICATION ServicesSpec
SYMMETRY Alike
INVARIANTS ServicesInv OneLiveToken RoleWasInForce StaleExplained OwnershipAudited MediaConsistent LimitKept
PROPERTIES DeletedNotRefreshed
