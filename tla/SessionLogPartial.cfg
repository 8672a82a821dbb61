CONSTANTS
    RingMax = 2
    RotateSize = 4
    WriteFaults = {"partial"}
    MaxEvents = 4
    MaxCrashes = 1
    MaxFaults = 1
SPECIFICATION LogSpec
INVARIANT NothingLostSilently
