CONSTANTS
    english = english
    french = french
    Workers = {w1}
    Paths = {english}
    FirstPath = english
    Tokens <- LongTail
    Limits <- TailLimits
    Parallel = 2
    None = None
    Torn = Torn
    Faults = {"skip"}
    MaxFaults = 1
SPECIFICATION Spec
INVARIANTS OnlyMissingIsOriginal
CHECK_DEADLOCK FALSE
