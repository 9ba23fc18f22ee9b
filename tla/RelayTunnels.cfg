SPECIFICATION MCSpec
CONSTANTS
    r1 = r1
    r2 = r2
    Relays = {r1, r2}
    MaxTunnels = 3
    MaxFaults = 1
    MaxMoves = 1
INVARIANTS TypeOK ShownOnline
PROPERTIES  NewestStays RowForward Found EveryRequestEnds
\* The home may have made its last tunnel, and the request ends.
CHECK_DEADLOCK FALSE
