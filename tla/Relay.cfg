SPECIFICATION FairSpec
CONSTANTS
    a = a
    b = b
    k1 = k1
    k2 = k2
    s1 = s1
    s2 = s2
    None = None
    Servers = {a, b}
    Keys = {k1, k2}
    ServerOf <- TwoServers
    Slots = {s1, s2}
    Endings = {"no-answer"}
    Answering = {k1}
    Cancelling = {k1, k2}
    MaxMishaps = 1
INVARIANTS TypeOK OneCallUnlessFreed FreedEarly BothStoresAreHonest
PROPERTY OutcomeReachesServer
\* When every key is used up the servers have nothing left to do.
CHECK_DEADLOCK FALSE
