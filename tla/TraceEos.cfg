SPECIFICATION TraceSpec
CONSTANTS
    t1 = t1
    t2 = t2
    p1 = p1
    p2 = p2
    e1 = e1
    e2 = e2
    Clients = {t1, t2}
    Reactor = r1
    Processes <- MCProcesses
    Cpus = {p1, p2}
    Elements = {e1, e2}
    ReactorStages = {"REACTOR_CONSUME"}
    MaxTracked = 1
    RingEvents = 1
    MaxProbes = 3
    MaxTime = 1
CHECK_DEADLOCK FALSE
PROPERTIES
    EosEndsRequest
