SPECIFICATION FairSpec
CONSTANTS
    MaxBlocks = 2
    Engines = {"placeholder", "device"}
    MaxFailures = 1
    SeqIds = {s1, s2}
    SeqLens = {4, 5}
    TokensPerBlock = 2
    MaxCreates = 1
    MaxInfers = 2
    NumLayers = 1
    Components <- MCComponents
    HiddenDim = 2
    KvDim = 1
    InterDim = 3
    VocabSize = 2
    Settings <- MCSettings
    MaxLoads = 1
CHECK_DEADLOCK FALSE
INVARIANTS
    AttentionSeesItsBlocks
    CallLeavesNoReads
    BlocksAskedOnce
    ResourcesBalanced
    WeightsReleased
PROPERTIES
    FetchEnds
