SPECIFICATION FairSpec
CONSTANTS
  Background = FALSE
  Delta = TRUE
  Limited = TRUE
  GroupScored = FALSE
  GroupSize = 2
  MaxInflight = 3
  BatchSize = 2
  MaxOff = 0
  MaxAttempts = 2
  MaxSteps = 3
  MaxFaults = 1
CHECK_DEADLOCK FALSE
INVARIANTS
    TypeOK
    OffPolicyExact
    GroupAccounted
PROPERTIES
    ImplementsAsync
    StepsComplete
