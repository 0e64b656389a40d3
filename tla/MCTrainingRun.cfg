SPECIFICATION FairSpec
CONSTANTS
    MaxSteps = 6
    Interval = 2
    KeepLast = 2
    Resume = "explicit"
    MaxCrashes = 3
INVARIANTS
    TypeOK
    LabelIsStep
    NothingMissing
PROPERTIES
    StaysResumable
    Finishes
