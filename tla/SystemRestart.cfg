SPECIFICATION SystemSpec
CONSTANTS
  Worker = {w1}
  Job = {j1}
  Capability = {}
  None = None
  SlotRequests = {1}
  RetryRequests = {1}
  MaxEpoch = 2
  MaxAttempts = 2
  Budgets <- OneCrash
INVARIANTS
  RunsOnlyWhatWasGranted
  AttemptsAreBounded
PROPERTIES
  ResultsAreEarned
CHECK_DEADLOCK FALSE
