CONSTANTS
    c1 = c1
    Clients = {c1}
    MaxRestarts = 1
    MaxToolsRestarts = 1
    MaxFaults = 2
SPECIFICATION FairSpec
INVARIANTS OneEngine NothingLeftBehind
PROPERTIES Settles CallsSettle
CHECK_DEADLOCK FALSE
