SPECIFICATION FairSpec
CONSTANTS
    c1 = c1
    c2 = c2
    h1 = h1
    h2 = h2
    Callers = {c1, c2}
    Main = main
    Tasks = {h1, h2}
    Nobody = Nobody
    MaxRetries = 2
    MaxOutages = 2
    MaxHangs = 1
INVARIANTS TypeOK OneHealthLoop OneCallerReconnects StaysDisconnected
PROPERTY ConnectedFollowsRedis
CHECK_DEADLOCK FALSE
