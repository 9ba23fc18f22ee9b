SPECIFICATION MCSpec
CONSTANTS
    r1 = r1
    r2 = r2
    Relays = {r1, r2}
    MaxTunnels = 2
    MaxFaults = 1
    MaxMoves = 1
INVARIANT NothingEmpty
CHECK_DEADLOCK FALSE
