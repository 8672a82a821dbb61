SPECIFICATION MCSpec
CONSTANTS
    FileJobs = {"j1"}  UploadJobs = {"j2", "j3"}  CloudJobs = {"j2"}  ActiveTickets = 1  MaxProcFaults = 1  MaxProcCrashes = 1
    Works = {"w1"}  MaxRevision = 3  MaxImportEvents = 3
    Saves = {"s1", "s2"}  NoSave = "none"  Workers = 1  MaxVoxelEvents = 3
INVARIANTS TicketPromises ImportPromises VoxelPromises
CHECK_DEADLOCK FALSE
