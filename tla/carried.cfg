SPECIFICATION FairSpec
CONSTANTS
    p1 = p1
    p2 = p2
    f1 = f1
    f2 = f2
    e1 = e1
    e2 = e2
    Entities = {e1}
    Accumulators = {p1, p2}
    Flushers = {f1, f2}
    Policies = {"schedule", "interval"}
    MinItems = 1
    MaxClock = 2
    MaxBatches = 1
    MaxExecs = 2
    FaultKinds = {"flusher_crash", "publish"}
    MaxFaults = 1
PROPERTIES
    WindowsClose
