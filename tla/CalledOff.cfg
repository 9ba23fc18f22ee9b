SPECIFICATION Spec
CONSTANTS
    s1 = s1 s2 = s2 b = b c = c
    Switch = {s1}
    Machine = {b}
    None = None
    MaxWrites = 1
    MaxCrashes = 0
    MaxLost = 0
    MaxFaults = 0
INVARIANTS   CalledOffIsFinal
CHECK_DEADLOCK FALSE
