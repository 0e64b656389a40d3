SPECIFICATION Spec
CONSTANTS
    Handlers = {h1, h2}
    Chunks = {c1}
    Names = {f1, f2}
    NoHandler = NoHandler
    Absent = Absent
    Mixed = Mixed
    MaxVersion = 2
    MaxStreams = 1
SYMMETRY Symmetry
INVARIANTS
    TypeOK
    LedgerSound
    StagedFollowsActive
    StagedIntact
    LockHeldInside
PROPERTY
    ImplementsChain
