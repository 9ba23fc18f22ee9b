SPECIFICATION FairSpec
CONSTANTS
    s1 = s1 s2 = s2 b = b c = c
    Switch = {s1}
    Machine = {b}
    None = None
    MaxWrites = 1
    MaxCrashes = 1
    MaxLost = 1
    MaxFaults = 1
INVARIANTS TypeOK NothingLost
PROPERTIES WritableAgain 
CHECK_DEADLOCK FALSE
