SPECIFICATION Spec
CONSTANTS
    a = a
    b = b
    c = c
    r1 = r1
    r2 = r2
    Names <- MCNames
    Slots = {0, 1}
    Master = Master
    Others <- MCOthers
    NoSlot = NoSlot
    NoRun = NoRun
    MaxBorn = 2
    MaxDirs = 4
CHECK_DEADLOCK FALSE
SYMMETRY Symmetry
INVARIANTS
    TypeOK
    RanksFollow
    AdapterFresh
