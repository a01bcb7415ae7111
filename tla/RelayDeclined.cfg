SPECIFICATION FairSpec
CONSTANTS
    a = a
    b = b
    k1 = k1
    k2 = k2
    s1 = s1
    s2 = s2
    None = None
    Servers = {a}
    Keys = {k1, k2}
    ServerOf <- OneServer
    Slots = {s1, s2}
    Endings = {"busy"}
    Answering = {}
    Cancelling = {}
    MaxMishaps = 0
PROPERTY OutcomeReachesServer
CHECK_DEADLOCK FALSE
