SPECIFICATION WeightSpec
CONSTANTS
    MaxBlocks = 1
    Engines = {"device"}
    MaxFailures = 0
    NumLayers = 2
    Components <- MCComponents
    HiddenDim = 2
    KvDim = 1
    InterDim = 3
    VocabSize = 2
    Settings <- MCSettings
    MaxLoads = 1
CHECK_DEADLOCK FALSE
INVARIANTS
    LoadedWhenComplete
