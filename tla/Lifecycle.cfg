SPECIFICATION Spec
CONSTANTS
    w1 = w1
    w2 = w2
    c1 = c1
    c2 = c2
    k1 = k1
    k2 = k2
    t1 = t1
    t2 = t2
    None = None
    Workers = {w1, w2}
    CallIds = {c1, c2}
    Keys = {k1, k2}
    Tasks = {t1, t2}
    Allowed = {t1}
    Endings = {"busy", "no-answer"}
    Faults <- AllFaults
    Runtime = FALSE
SYMMETRY Interchangeable
INVARIANTS NoSecondDial ReservationIsExclusive
PROPERTY ImplementsAttempts
CHECK_DEADLOCK FALSE
