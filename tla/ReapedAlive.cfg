SPECIFICATION Spec
CONSTANTS
  Hz <- HalfSeconds
  Coalesce = 15
  Gap <- FiveSeconds
  Timeout <- TwentySeconds
  SweepEvery <- FiveSeconds
  MaxMissed = 0
PROPERTIES
  DeadMeansSilent
