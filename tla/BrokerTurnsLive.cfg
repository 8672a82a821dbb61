CONSTANTS
    c1 = c1  c2 = c2
    p1 = p1  p2 = p2  p3 = p3  p4 = p4
    s1 = s1  s2 = s2
    NoSub = NoSub
    None = None
    Convs = {c1, c2}
    Prompts = {p1, p4}
    Subs = {s1, s2}
    ConvOf <- MCConvOf
    SubOf <- MCSubOf
    ReportConvs = {}
    MaxRunning = 1
    SubmissionsKept = 2
    MaxCancels = 1
    MaxCrashes = 1
SPECIFICATION FairSpec
PROPERTIES RefinesContract CancelledTurnEnds ShutdownEndsTurns
