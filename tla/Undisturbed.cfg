CONSTANTS
    d1 = d1
    d2 = d2
    t1 = t1
    t2 = t2
    DownloadJobs = {movie}
    TranslateJobs = {srt}
    Downloaders = {d1, d2}
    Translators = {t1, t2}
    Consumer = consumer
    NoOne = NoOne
    AutoTranslate = TRUE
    Faults = {}
    MaxFaults = 0
SPECIFICATION Spec
INVARIANTS ExactlyOneAnswer
PROPERTIES OutcomeOverridesWorkers
SYMMETRY WorkerSymmetry
CHECK_DEADLOCK FALSE
