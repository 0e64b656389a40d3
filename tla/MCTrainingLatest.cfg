SPECIFICATION Spec
CONSTANTS
    MaxSteps = 4
    Interval = 2
    KeepLast = 2
    Resume = "latest"
    MaxCrashes = 2
CHECK_DEADLOCK FALSE
INVARIANT
    OneResumeStep
