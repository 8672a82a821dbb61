SPECIFICATION MCSpec
CONSTANTS
    p1 = p1  p2 = p2  v1 = v1  v2 = v2
    CloudPaths = {p1, p2}  Locals = {"l1"}  Programs = {"f1"}  FirstVersion = "v0"  Remotes = {v1, v2}
    MaxSeq = 3  MaxSyncEvents = 3
    RingMax = 3  RotateSize = 2  WriteFaults = {"clean", "rename"}  MaxEvents = 6  MaxCrashes = 2  MaxFaults = 1
    Requests = {v1, v2}  Tools = {"t1"}  NoTool = "-"  Tabs = {"a"}  MaxTurns = 2  MaxPermCrashes = 1
    MaxChanges = 4  MaxReports = 2
    Chats = {"s1"}  Cline = {"c1"}  MaxStoreEvents = 4
    Talks = {"t1"}  MaxRestarts = 1  MaxUsers = 1  MaxToolEvents = 4
    Calls = {"a", "b"}  Kids = {"k", "l"}  NoCall = "-"  NoKid = "-"
    Tokens = {"t1", "t2"}  Relays = {"c1"}  Skew = 1  CookieAge = 2  MaxTime = 4  MaxEpoch = 2  MaxQueue = 2
    Folders = {"a", "b"}  Watched = {"a"}  RingSize = 2  IssuedSize = 2  ResetSize = 1  SubscriberSize = 2
    MaxJournal = 3  MaxBoots = 2  MaxConnections = 2
    Members = 2  MaxRev = 2  MaxOwner = 2  MaxDemoEvents = 5
    AgentCalls = {"a1", "a2", "a3"}  Runs = {"r1", "r2", "r3"}  Slots = 2
SYMMETRY Symmetric
INVARIANTS SeqsHold ReplaysHold SyncPromises PermissionPromises IdleIsKnown PromptedIsKept NoLostWakeup LinksAgree GatePromises NoMissedChange DemoTruthful DrainPromises
PROPERTY FenceHolds
CHECK_DEADLOCK FALSE
