------------------------------- MODULE ArenaOps -------------------------------
(***************************************************************************)
(* The slab allocator of KV cache blocks (userspace/kvcache/arena_alloc.c).*)
(*                                                                         *)
(* A bitmap, one bit per slot, in words of WordBits bits (64 in the code), *)
(* and a hint: the word where the search for a free bit begins.  A word of *)
(* the bitmap is the set of its bits that are 1, that is, free.  The       *)
(* operations are functions of the arena's state, a record of total_slots, *)
(* the bitmap, the hint and stats.used_slots: the cache index uses them    *)
(* inside its own steps, KVArena on their own.                             *)
(***************************************************************************)
EXTENDS Integers, FiniteSets

CONSTANTS
    WordBits,          \* bits in a word of the bitmap
    ArenaSizes         \* the values total_bytes / slot_size may have; create
                       \* fails when it is 0

ASSUME WordBitsAssumption == WordBits \in Nat \ {0}
ASSUME ArenaSizesAssumption == ArenaSizes \subseteq Nat \ {0}

VARIABLE arena         \* struct kllm_arena

bitmap_words(n) == (n + WordBits - 1) \div WordBits

\* The words and the slots of an arena a; the bits of a word.
Words(a) == 0 .. bitmap_words(a.total_slots) - 1
Slots(a) == 0 .. a.total_slots - 1
Bits == 0 .. WordBits - 1

\* A NULL block.
NoSlot == -1

-----------------------------------------------------------------------------
(* The operations.                                                         *)

\* kllm_arena_create: all ones, but for the bits beyond total_slots.
FreshWord(n, w) ==
    IF w = bitmap_words(n) - 1 /\ n % WordBits > 0
    THEN 0 .. (n % WordBits) - 1
    ELSE Bits

FreshArena(n) ==
    [total_slots |-> n,
     bitmap |-> [w \in 0 .. bitmap_words(n) - 1 |-> FreshWord(n, w)],
     hint |-> 0,
     used |-> 0]

\* The first member of a set of words, and __builtin_ctzll on a set of bits.
Lowest(S) == CHOOSE m \in S : \A n \in S : m <= n

\* The words with a free bit that a loop over w \in from .. to-1 meets.
NonZero(a, from, to) == {w \in Words(a) : from <= w /\ w < to /\ a.bitmap[w] # {}}

\* The word the two loops of kllm_arena_alloc stop at.
ScanWord(a) ==
    LET ahead  == NonZero(a, a.hint, bitmap_words(a.total_slots))
        behind == NonZero(a, 0, a.hint)
    IN Lowest(IF ahead # {} THEN ahead ELSE behind)

SlotOf(w, bit) == w * WordBits + bit

\* Mutant of AllocFound: the bit stays set.
AllocNotMarked(a, w, bit) ==
    IF SlotOf(w, bit) >= a.total_slots
    THEN [arena |-> a, slot |-> NoSlot]
    ELSE [arena |-> [a EXCEPT !.hint = w, !.used = @ + 1],
          slot |-> SlotOf(w, bit)]

\* What kllm_arena_alloc does to the arena, and the slot it returns.
AllocFound(a, w, bit) ==
    IF SlotOf(w, bit) >= a.total_slots
    THEN [arena |-> a, slot |-> NoSlot]
    ELSE [arena |-> [a EXCEPT !.bitmap[w] = @ \ {bit}, !.hint = w, !.used = @ + 1],
          slot |-> SlotOf(w, bit)]

ArenaAlloc(a) ==
    IF NonZero(a, 0, bitmap_words(a.total_slots)) = {}
    THEN [arena |-> a, slot |-> NoSlot]
    ELSE LET w == ScanWord(a) IN AllocFound(a, w, Lowest(a.bitmap[w]))

WordOf(slot) == slot \div WordBits
BitOf(slot) == slot % WordBits

\* Mutant of HintAfterFree: a free never moves the hint.
HintKept(a, w) == a.hint

\* kllm_arena_free
HintAfterFree(a, w) == IF w < a.hint THEN w ELSE a.hint

\* Mutant of ArenaFree: used_slots is not decremented.
FreeNotCounted(a, slot) ==
    LET w == WordOf(slot)
    IN [a EXCEPT !.bitmap[w] = @ \cup {BitOf(slot)},
                 !.hint = HintAfterFree(a, w)]

ArenaFree(a, slot) ==
    LET w == WordOf(slot)
    IN [a EXCEPT !.bitmap[w] = @ \cup {BitOf(slot)},
                 !.hint = HintAfterFree(a, w),
                 !.used = @ - 1]

-----------------------------------------------------------------------------
(* What the state says.                                                    *)

\* The slots whose bit is set.
FreeSlots(a) == {slot \in Slots(a) : BitOf(slot) \in a.bitmap[WordOf(slot)]}

\* The shape of the record; no bit beyond total_slots is ever set.
ArenaShape(a) ==
    /\ a = [total_slots |-> a.total_slots, bitmap |-> a.bitmap,
            hint |-> a.hint, used |-> a.used]
    /\ a.total_slots \in ArenaSizes
    /\ a.bitmap \in [Words(a) -> SUBSET Bits]
    /\ \A w \in Words(a) : \A bit \in a.bitmap[w] : SlotOf(w, bit) < a.total_slots
    /\ a.hint \in Words(a)
    /\ a.used \in 0..a.total_slots
=============================================================================
