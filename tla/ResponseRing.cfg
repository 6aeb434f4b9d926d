SPECIFICATION FairSpec
CONSTANTS
    SlotCount = 4
    Tokens = {0, 9}
    Eos = 9
    Readers = {r1}
    MaxWords = 3
    MaxEmit = 2
    MaxCalls = 3
    MaxFaults = 1
INVARIANTS
    TypeOK
    InOrder
PROPERTIES
    AcceptedTokensRead
CHECK_DEADLOCK FALSE
