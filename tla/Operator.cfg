SPECIFICATION Spec
CONSTANTS
    k1 = k1  k2 = k2  w1 = w1  w2 = w2  t1 = t1  t2 = t2  t3 = t3
    Keys = {k1}
    Workers = {w1, w2}
    Tasks = {t1, t3}
    Host <- MCHost
    Dependents <- MCChain
    Always <- MCNoEdges
    Requests <- MCNoEdges
    Debounced = {}
    Cooperative = {}
    PoolSize = 1
    MaxAttempts = 2
    TransientTries = 3
    PauseGrace = FALSE
    None = None
    Levels = {0, 1}
    MaxTriggers = 3
    MaxFaults = 0
    MaxFailures = 1
    MaxCommands = 2
    MaxSwitches = 0
INVARIANTS TypeOK AttemptsBounded NoForceLost
CHECK_DEADLOCK FALSE
