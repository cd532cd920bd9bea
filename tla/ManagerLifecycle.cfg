SPECIFICATION FairSpec
CONSTANTS
    m1 = m1
    m2 = m2
    Messages = {m1, m2}
    Nobody = Nobody
    StartupRetries = 2
    LoopRetries = 3
    MaxOutages = 3
    MaxFaults = 2
INVARIANTS TypeOK HealthyMeansConsuming OnlyShutdownLosesOne StoppedIsClean
PROPERTIES ImplementsWorkQueue ResumesConsuming ShutdownEnds
CHECK_DEADLOCK FALSE
