-------------------------------- MODULE KVArena --------------------------------
(***************************************************************************)
(* The slab allocator of KV cache blocks (userspace/kvcache/arena_alloc.c) *)
(* and a client that frees only what it holds.  The arena belongs to the   *)
(* reactor's one thread, so an operation is one step.                      *)
(***************************************************************************)
EXTENDS ArenaOps

VARIABLE live          \* slots handed out and not given back

ArenaInit == (\E n \in ArenaSizes : arena = FreshArena(n)) /\ live = {}

Alloc ==
    LET r == ArenaAlloc(arena)
    IN /\ arena' = r.arena
       /\ live' = IF r.slot = NoSlot THEN live ELSE live \cup {r.slot}

Free(slot) ==
    /\ slot \in live
    /\ arena' = ArenaFree(arena, slot)
    /\ live' = live \ {slot}

ArenaNext == Alloc \/ \E slot \in Slots(arena) : Free(slot)

ArenaSpec == ArenaInit /\ [][ArenaNext]_<<arena, live>>

-----------------------------------------------------------------------------
(* Properties.                                                             *)

(* The hint is a word of the bitmap and no bit beyond total_slots is set.  *)
ArenaTypeOK == ArenaShape(arena) /\ live \subseteq Slots(arena)

(* The bitmap is the complement of what clients hold, and used_slots       *)
(* counts it: no slot is lost by an alloc or a free.                       *)
BitmapMatchesLive ==
    /\ FreeSlots(arena) = Slots(arena) \ live
    /\ arena.used = Cardinality(live)

(* kllm_arena_alloc never hands out a slot that a client still holds, and  *)
(* returns NULL only when clients hold every slot.                         *)
AllocIsFresh ==
    LET slot == ArenaAlloc(arena).slot
    IN /\ slot \notin live
       /\ slot = NoSlot => live = Slots(arena)

(* "Free list hint": no free bit lies in a word before the hint, so an     *)
(* alloc takes the lowest free slot and its second loop never finds one.   *)
NothingFreeBelowHint ==
    /\ NonZero(arena, 0, arena.hint) = {}
    /\ live # Slots(arena) => ArenaAlloc(arena).slot = Lowest(Slots(arena) \ live)
=============================================================================
