SPECIFICATION Spec
CONSTANTS
    t1 = t1
    t2 = t2
    Runs = {t1, t2}
    Image = {"slim"}
    Package = {"p1", "p2"}
    Requests <- MCRequests
    Settings <- MCSettings
    Slots = 2
    HealthyFor = 2
    FailedFor = 1
    CheckTime = 1
    MaxBegun = 3
    MaxFaults = 1
SYMMETRY Symmetric
INVARIANTS
    
    LeaseCoversRun
    VerdictIsRecent
CHECK_DEADLOCK FALSE
