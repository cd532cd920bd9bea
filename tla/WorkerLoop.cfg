SPECIFICATION FairSpec
CONSTANTS
    w1 = w1
    w2 = w2
    m1 = m1
    m2 = m2
    Messages = {m1, m2}
    Workers = {w1, w2}
    Consumers = {}
    Reads <- SharedQueue
    Nobody = Nobody
    InitialDelay = 3
    MaxDelay = 5
    Faults = {"connect", "redis", "slow", "late", "channel", "crash"}
    MaxFaults = 3
    MaxSignals = 3
INVARIANTS TypeOK
PROPERTIES ImplementsWorkQueue MessagesHandled ShutdownEnds
CHECK_DEADLOCK FALSE
