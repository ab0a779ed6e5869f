SPECIFICATION LocalSpec
CONSTANTS
    t1 = t1
    t2 = t2
    Threads = {t1, t2}
    Services = {"gateway", "shop"}
    FixedPort <- MCFixedPort
    Ports = {1, 2, 3}
    Backends = {"process", "container"}
    Processes = {1, 2, 3, 4, 5, 6, 7, 8}
    Clusters = {1, 2, 3}
    MaxRequests = 3
    MaxFaults = 1
SYMMETRY Symmetric
INVARIANTS
    NoWorkerLost
    PortsAreKnown
CHECK_DEADLOCK FALSE
