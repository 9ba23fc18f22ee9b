SPECIFICATION Spec
CONSTANTS
    s1 = s1 s2 = s2 b = b c = c
    Switch = {s1, s2}
    Machine = {b}
    None = None
    MaxWrites = 0
    MaxCrashes = 1
    MaxLost = 0
    MaxFaults = 1
SYMMETRY Alike
INVARIANTS FrozenInDoubt
CHECK_DEADLOCK FALSE
