SPECIFICATION SmallSpec
CONSTANTS
  Replica = {r1, r2}
  None = None
  Orphan = Orphan
  MaxFaults = 1
  Worker = {1, 2}
  Up = 1
  Down = 1
  Unit = 2
  UpCooldown = 1
  DownCooldown = 2
  Window = 2
  MaxDepth = 1
  MaxStall = 1
INVARIANTS
  LockIsUsed
PROPERTIES
  ImplementsLeaderLock
  StaleLeaderStepsDown
  LeadershipReturns
  DrainsAreSpaced
  IdleIsDrained
  BacklogIsReported
