SPECIFICATION Spec
CONSTANTS
    k1 = k1  k2 = k2  w1 = w1  w2 = w2  t1 = t1  t2 = t2  t3 = t3
    Keys = {k1, k2}
    Workers = {w1, w2}
    Tasks = {t1, t3}
    Host <- MCHost
    Dependents <- MCChain
    Always <- MCChain
    Requests <- MCBack
    Debounced = {k2}
    Cooperative = {}
    PoolSize = 2
    MaxAttempts = 2
    TransientTries = 3
    PauseGrace = FALSE
    None = None
    Levels = {0, 2}
    MaxTriggers = 2
    MaxFaults = 1
    MaxFailures = 1
    MaxCommands = 0
    MaxSwitches = 0
INVARIANTS NoForceLost 
PROPERTIES SlotsLent
CHECK_DEADLOCK FALSE
