CONSTANTS
    d1 = d1
    d2 = d2
    t1 = t1
    t2 = t2
    DownloadJobs = {movie}
    TranslateJobs = {}
    Downloaders = {d1}
    Translators = {t1}
    Consumer = consumer
    NoOne = NoOne
    AutoTranslate = TRUE
    Faults <- RecoverableFaults
    MaxFaults = 1
SPECIFICATION FairSpec
INVARIANTS NoJobLost StatusMatchesHistory
PROPERTIES EveryJobReported
CHECK_DEADLOCK FALSE
