SPECIFICATION BatchSpec
CONSTANTS
    MaxRequests = 2
    MaxBatchSize = 1
    PrefillBudget = 4
    MaxSeqLen = 4
    SchedGpus = {"none"}
    FreshPhase = "PREFILL"
    IdLimit = 8
    SubmitLens = {2}
    MaxSubmits = 3
    CpuSeqThreshold = 2
    GpuQueueMax = 2
INVARIANTS
    PoolNotFullHasSlot
