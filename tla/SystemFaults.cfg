SPECIFICATION LeadingSpec
CONSTANTS
  Worker = {w1}
  Job = {j1}
  Capability = {}
  None = None
  SlotRequests = {1}
  RetryRequests = {1}
  MaxEpoch = 1
  MaxAttempts = 4
  Budgets <- FaultAndFailover
INVARIANTS
  SystemTypeOK
  EntriesAccounted
  FailedOnlyWhenExhausted
PROPERTIES
  RetriesComeBack
