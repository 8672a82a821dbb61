CONSTANTS
    MaxRestarts = 1
    MaxStarts = 2
    MaxStops = 2
    MaxRevives = 1
    MaxFaults = 3
SPECIFICATION FairSpec
INVARIANTS OneLiveServer StopLeavesNothing
PROPERTIES Settles StopResolves
CHECK_DEADLOCK FALSE
