SPECIFICATION Spec
CONSTANTS
    Clients = {a, b}
    MaxRequests = 2
    Window = 3
    Horizon = 7
INVARIANTS AtMostPerWindow DeniedOnlyWhenFull
