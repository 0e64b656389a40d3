SPECIFICATION FairSpec
CONSTANTS
    e1 = e1
    e2 = e2
    Endpoints <- MCEndpoints
    NoEndpoint = NoEndpoint
    MaxVersion = 2
    MaxFaults = 2
CHECK_DEADLOCK FALSE
INVARIANTS
    TypeOK
    HealthyInSync
    NoSurprise
PROPERTIES
    ImplementsChain
    PoolRecovers
