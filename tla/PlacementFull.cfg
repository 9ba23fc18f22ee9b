SPECIFICATION Spec
CONSTANTS
    home = home  node = node  c1 = c1  c2 = c2
    Channels = {c1, c2}
    Hosts = {home}
    Home = home
    Capacity <- MCCapacity
    FailuresToDown = 1
    None = None
    MaxViews = 2
    MaxGen = 4
    MaxEvents = 1
INVARIANTS WithinCapacity
CHECK_DEADLOCK FALSE
SYMMETRY Either
