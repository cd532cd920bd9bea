CONSTANTS
    scan = scan
    hook = hook
    push = push
    other = other
    path = path
    link = link
    Jobs = {scan, hook, push, other}
    Pushed = {push}
    Urls = {path, link}
    UrlOf <- UrlGiven
    Manager = manager
    Nobody = Nobody
    Faults = {"hang", "reply", "publish", "enqueue", "conn", "scanner", "manager", "stop"}
    MaxFaults = 2
SPECIFICATION Spec
INVARIANTS TypeOK OneJobPerUrl
CHECK_DEADLOCK FALSE
