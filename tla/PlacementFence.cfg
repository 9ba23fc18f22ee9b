SPECIFICATION FairSpec
CONSTANTS
    home = home  node = node  c1 = c1  c2 = c2
    Channels = {c1}
    Hosts = {home, node}
    Home = home
    Capacity <- MCCapacity
    FailuresToDown = 1
    None = None
    MaxViews = 2
    MaxGen = 9
    MaxEvents = 1
INVARIANTS TypeOK 
PROPERTIES EncodesOnce SupersededStops 
CHECK_DEADLOCK FALSE
