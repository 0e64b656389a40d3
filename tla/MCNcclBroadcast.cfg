SPECIFICATION FairSpec
CONSTANTS
    s1 = s1
    s2 = s2
    r0 = r0
    r1 = r1
    Servers <- MCServers
    Master = r0
    Others <- MCOthers
    MaxSteps = 5
    Starts <- MCStarts
    MaxFaults = 3
CHECK_DEADLOCK FALSE
INVARIANTS
    TypeOK
    NobodyEarly
PROPERTIES
    ServesWhatItSays
    Ends
