CONSTANTS
    d1 = d1
    d2 = d2
    t1 = t1
    t2 = t2
    DownloadJobs = {movie}
    TranslateJobs = {}
    Downloaders = {d1, d2}
    Translators = {t1, t2}
    Consumer = consumer
    NoOne = NoOne
    AutoTranslate = TRUE
    Faults <- FaultKinds
    MaxFaults = 1
SPECIFICATION Spec
INVARIANTS TypeOK StatusHasEvidence
PROPERTIES ImplementsService
SYMMETRY WorkerSymmetry
CHECK_DEADLOCK FALSE
