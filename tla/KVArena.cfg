SPECIFICATION ArenaSpec
CONSTANTS
    WordBits = 3
    ArenaSizes = {1, 2, 3, 4, 5, 6, 7, 8}
INVARIANTS
    BitmapMatchesLive
    AllocIsFresh
    NothingFreeBelowHint
