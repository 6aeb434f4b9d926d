SPECIFICATION FairSpec
CONSTANTS
    SlotCount = 4
    MaxBatch = 2
    Producers = {p1}
    Tokens = {0, 1}
    MaxSeqLen = 2
    MaxWrites = 4
INVARIANTS
    FifoOrder
PROPERTIES
    PublishedSlotsStable
    RefinesFifo
    EveryTokenDelivered
CHECK_DEADLOCK FALSE
