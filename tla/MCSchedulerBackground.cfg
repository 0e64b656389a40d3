SPECIFICATION FairSpec
CONSTANTS
  Background = TRUE
  Delta = TRUE
  Limited = FALSE
  GroupScored = FALSE
  GroupSize = 2
  MaxInflight = 3
  BatchSize = 2
  MaxOff = 1
  MaxAttempts = 2
  MaxSteps = 4
  MaxFaults = 1
CHECK_DEADLOCK FALSE
INVARIANTS OffPolicyExact GroupFresh SaltIsPolicy
PROPERTY StepsComplete
