CONSTANTS
    scan = scan
    hook = hook
    push = push
    other = other
    path = path
    link = link
    Jobs = {scan, hook, push, other}
    Pushed = {push}
    Urls = {path, link}
    UrlOf <- UrlGiven
    Manager = manager
    Nobody = Nobody
    Faults = {"redis", "script", "window", "enqueue", "conn", "manager"}
    MaxFaults = 2
SPECIFICATION FairSpec
INVARIANTS RegisteredIsTakenUp
PROPERTIES EveryUrlHeardOf
CHECK_DEADLOCK FALSE
