SPECIFICATION Spec
CONSTANTS
  Background = FALSE
  Delta = TRUE
  Limited = FALSE
  GroupScored = FALSE
  GroupSize = 1
  MaxInflight = 1
  BatchSize = 1
  MaxOff = 1
  MaxAttempts = 2
  MaxSteps = 2
  MaxFaults = 0
INVARIANT EvalOneCheckpoint
