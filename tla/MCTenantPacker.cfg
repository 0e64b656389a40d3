SPECIFICATION FairSpec
CONSTANTS
    run1 = run1
    run2 = run2
    Runs <- MCRuns
    NoRun = NoRun
    NumSlots = 2
    SeqLen = 2
    DpSize = 2
    BatchKinds <- MCBatches
    MaxBatches = 2
CHECK_DEADLOCK FALSE
INVARIANTS
    TypeOK
    BufferOwn
    RanksAligned
    StepIsBatch
PROPERTY
    BatchesTrained
