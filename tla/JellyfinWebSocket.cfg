SPECIFICATION FairSpec
CONSTANTS
    i1 = i1
    i2 = i2
    Items = {i1, i2}
    InitialDelay = 2
    MaxDelay = 8
    MaxOutages = 2
PROPERTY ReconnectsAutomatically
CHECK_DEADLOCK FALSE
