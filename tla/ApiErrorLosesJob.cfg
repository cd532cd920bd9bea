CONSTANTS
    d1 = d1
    d2 = d2
    t1 = t1
    t2 = t2
    DownloadJobs = {movie}
    TranslateJobs = {}
    Downloaders = {d1}
    Translators = {t1}
    Consumer = consumer
    NoOne = NoOne
    AutoTranslate = TRUE
    Faults = {"api"}
    MaxFaults = 1
SPECIFICATION Spec
INVARIANTS NoJobLost
CHECK_DEADLOCK FALSE
