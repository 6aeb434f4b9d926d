SPECIFICATION ServingSpec
CONSTANTS
    CpuSeqThreshold = 2
    GpuQueueMax = 2
    RingBytes = 40
    RingHdrSize = 16
    PollBatch = 2
    MaxPromptSize = 3
    Clients = {c1}
    Hooks = {"todo", "attached"}
    WriteSizes = {0, 3, 4}
    MaxPrompts = 3
    MaxLoads = 2
    MaxLaunches = 2
    MaxRequests = 3
    MaxBatchSize = 2
    PrefillBudget = 4
    MaxSeqLen = 4
    SchedGpus = {"none", "placeholder", "device"}
    FreshPhase = "DONE"
    IdLimit = 8
    SubmitLens = {2, 4}
    MaxSubmits = 3
    MaxSequenceLen = 5
    Gpus = {"none", "placeholder", "device"}
    PromptLens = {1, 3, 5, 6}
    MaxTokens = {0, 3}
    MaxRuns = 2
    Strategies <- MCStrategies
    EosToken = 2
    Logits <- MCLogits
    NegInf = 0
INVARIANTS
    PollerUsesLiveObjects
    DeviceOutlivesUsers
    ShutdownReleasesOnce
    TakenOnceInOrder
    ShortBatchEndsPrompt
    ActiveIsExact
    EndIsSignalled
    
    DrawnIsLikely
PROPERTIES
    RequestsEnd
    CallsReturn
CHECK_DEADLOCK FALSE
