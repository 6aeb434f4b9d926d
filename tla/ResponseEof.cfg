SPECIFICATION FairSpec
CONSTANTS
    SlotCount = 4
    Tokens = {0, 9}
    Eos = 9
    Readers = {r1}
    MaxWords = 3
    MaxEmit = 2
    MaxCalls = 3
    MaxFaults = 1
PROPERTIES
    EosReadAsEof
CHECK_DEADLOCK FALSE
