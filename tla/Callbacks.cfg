SPECIFICATION Spec
CONSTANTS
    w1 = w1
    w2 = w2
    c1 = c1
    c2 = c2
    k1 = k1
    k2 = k2
    t1 = t1
    t2 = t2
    None = None
    Workers = {w1, w2}
    CallIds = {c1}
    Keys = {k1}
    Tasks = {t1, t2}
    Allowed = {t1}
    Endings = {"busy", "no-answer", "failed"}
    Faults <- AllFaults
    Runtime = TRUE
SYMMETRY InterchangeableWorkers
INVARIANTS TypeOK HonestResults CancelledIsHungUp
CHECK_DEADLOCK FALSE
