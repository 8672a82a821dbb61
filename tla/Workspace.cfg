SPECIFICATION MCSpec
CONSTANTS
    i1 = i1  i2 = i2  p1 = p1  p2 = p2
    Captures = {i1, i2}  Indexes = {"x1"}  CaptureQueue = 2  ReadByClients = {"x1"}  RetainedMax = 2
    MaxCapFaults = 1  MaxCapCrashes = 1
    Paths = {p1, p2}  Ops = {i1, i2, "o3"}  Earlier = {"o3"}  OldFile = "f0"  Foreign = {"e1"}  QueueSize = 2
    MaxOpErrors = 1  MaxOpCrashes = 1  MaxForeign = 1
    RootFiles = {"f"}  MaxIndexEvents = 2
    Saves = {"s1", "s2"}  MaxReferences = 2  MaxReceipts = 2
SYMMETRY Symmetric
INVARIANTS CapturePromises FilePromises PassIsExact
PROPERTY ReferencesHold
CHECK_DEADLOCK FALSE
