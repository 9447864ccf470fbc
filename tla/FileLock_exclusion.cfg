SPECIFICATION LockFairSpec
CONSTANTS
  Proc = {p1, p2}
  MaxCrashes = 2
INVARIANTS ExclusionUntilUsurped
PROPERTIES LivingOwnerKeepsLock DeadOwnersAreRecovered
