SPECIFICATION Spec
CONSTANTS
    WordBits = 2
    ArenaSizes = {3, 4}
    Capacity = 4
    Keys = {3, 7}
    MaxClock = 3
INVARIANTS
    EntriesOwnSlots
    InsertFindsRoom
    InsertedIsFound
PROPERTIES
    LruGoesFirst
    RefinesLossyCache
