SPECIFICATION FairSystemSpec
CONSTANTS
  Worker = {w1}
  Job = {j1}
  Capability = {}
  None = None
  SlotRequests = {1}
  RetryRequests = {1}
  MaxEpoch = 2
  MaxAttempts = 4
  Budgets <- OneCrash
PROPERTIES
  SupersededIsReleased
CHECK_DEADLOCK FALSE
