SPECIFICATION Spec
CONSTANTS
    MaxBlocks = 2
    Engines = {"device"}
    MaxFailures = 0
    SeqIds = {s1, s2}
    SeqLens = {1}
    TokensPerBlock = 2
    MaxCreates = 1
    MaxInfers = 2
    NumLayers = 1
    Components <- MCComponents
    HiddenDim = 2
    KvDim = 1
    InterDim = 3
    VocabSize = 2
    Settings <- MCSettings
    MaxLoads = 0
CHECK_DEADLOCK FALSE
INVARIANTS
    LogitsOfLastTurn
