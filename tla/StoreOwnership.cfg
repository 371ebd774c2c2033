CONSTANTS
  Worker = {w1, w2}
  Job = {j1}
  Capability = {}
  None = None
  SlotRequests = {0}
  RetryRequests = {1}
  MaxEpoch = 2
  MaxAttempts = 1
SPECIFICATION HistorySpec
SYMMETRY Symmetry
INVARIANTS
  TypeOK
  CapacityWithinSlots
  OwnedByARegistration
  DeadHoldsNothing
  ReapCoversHeld
  OneResultPerAssignment
  AssignmentsAreCounted
PROPERTIES
  OnlyTheReaperReopens
  ImplementsOwnership
