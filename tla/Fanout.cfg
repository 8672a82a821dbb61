CONSTANTS
    p1 = p1
    Ports = {p1}
    MaxEvents = 4
    MaxRequests = 2
    MaxOpens = 3
SPECIFICATION FanoutSpec
INVARIANTS SeqsUnique AttachedOnceInOrder CaughtUp
