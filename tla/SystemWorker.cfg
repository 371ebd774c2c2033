SPECIFICATION WorkingSpec
CONSTANTS
  Worker = {w1}
  Job = {j1}
  Capability = {}
  None = None
  SlotRequests = {1}
  RetryRequests = {1}
  MaxEpoch = 2
  MaxAttempts = 4
  Budgets <- DelaysAndDrains
PROPERTIES
  LiveWorkersSettle
  
CHECK_DEADLOCK FALSE
