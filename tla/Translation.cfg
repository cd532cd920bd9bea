CONSTANTS
    english = english
    french = french
    Workers = {w1, w2}
    Paths = {english, french}
    FirstPath = english
    Tokens <- TokensOf
    Limits <- SomeLimits
    Parallel = 1
    None = None
    Torn = Torn
    Faults = {"crash", "conn", "timeout", "model", "skip", "source", "disk", "hang", "download"}
    MaxFaults = 2
SPECIFICATION FairSpec
INVARIANTS TypeOK FilesAreWhole ResumesOwnSource CompletedHasFile
PROPERTIES ComesToRest
CHECK_DEADLOCK FALSE
