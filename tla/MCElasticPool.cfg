SPECIFICATION FairSpec
CONSTANTS
    s1 = s1
    s2 = s2
    Servers <- MCServers
    MaxStep = 2
    MaxFaults = 2
    MaxCrashes = 2
INVARIANTS
    TypeOK
    ExposedMatch
PROPERTY
    ServersJoin
