SPECIFICATION FairSpec
CONSTANTS
  a = a
  b = b
  k = k
  None = None
  Replica = {r1, r2}
  Job = {a, b}
  Key = {k}
  KeyOf <- SharedKey
  Priority = {0}
  PriorityOf <- OnePriority
  Count = 1
  MaxLen = 1
  MaxRetries = 1
  MaxFaults = 1
INVARIANTS
  OneJobPerKey
  QueuedIsReachable
PROPERTIES
  OldestAreRetried
  SettledAreAcked
