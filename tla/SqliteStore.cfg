SPECIFICATION FairSpec
CONSTANTS
    a = a
    b = b
    server = server
    callbacks = callbacks
    other = other
    c1 = c1
    c2 = c2
    k1 = k1
    k2 = k2
    confirmed = confirmed
    ended = ended
    None = None
    Threads = {server, callbacks, other}
    ProcessOf <- MCProcessOf
    Asks <- MCAsks
    CallIds = {c1, c2}
    Keys = {k1, k2}
    Tasks = {k1, k2}
    Results = {confirmed, ended}
    NewResult = confirmed
    Ended = {ended}
INVARIANTS TypeOK LocksAreReturned NoCircularWait
PROPERTIES ImplementsAtomicStore EveryCallReturns
