SPECIFICATION BpfSpec
CONSTANTS
    Bytes = {1, 2}
    Tables <- MCTables
    MaxPromptLen = 6
    MaxSeqLen = 5
    MaxMergePasses = 3
    NoPriority = 99
    MaxLen = 7
    MaxCalls = 1
    t1 = t1
    t2 = t2
    Clients = {t1, t2}
    Reactor = r1
    Processes <- MCProcesses
    ReactorStages = {"REACTOR_CONSUME"}
    p1 = p1
    p2 = p2
    Cpus = {p1, p2}
    e1 = e1
    e2 = e2
    Elements = {e1, e2}
    MaxTracked = 1
    RingEvents = 1
    MaxProbes = 3
    MaxTime = 1
SYMMETRY Interchangeable
INVARIANTS
    Lossless
    MatchesReference
    DeltaWrapsOnlyInRace
    TotalsMatchEvents
CHECK_DEADLOCK FALSE
