CONSTANTS
    p1 = p1
    Ports = {p1}
    MaxEvents = 4
    MaxRequests = 1
    MaxOpens = 3
SPECIFICATION FanoutSpec
INVARIANT LoadedInOrder
