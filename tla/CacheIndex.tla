------------------------------ MODULE CacheIndex ------------------------------
(***************************************************************************)
(* The content-addressed index of KV blocks (userspace/kvcache/            *)
(* cache_index.c) on top of the arena.                                     *)
(*                                                                         *)
(* An open-addressing table with linear probing.  A key stands for a       *)
(* SHA-256 hash and is the number its first four bytes spell, so that keys *)
(* equal modulo the capacity collide.  Removing an entry marks its         *)
(* position EMPTY and leaves the rest of the probe chain where it was; the *)
(* hash and the time an EMPTY position still holds are never read (every   *)
(* loop tests slot_index first), so the model drops them.                  *)
(* The table belongs to the reactor's thread: a call is one step.          *)
(* The arena serves this index alone, as in kllm_init_kvcache, and is of   *)
(* any size: smaller than the table, it runs out before the table is full. *)
(***************************************************************************)
EXTENDS ArenaOps

CONSTANTS
    Keys,              \* the hashes clients use
    Capacity,          \* positions of the table
    MaxClock           \* bound: the latest time in a behaviour

\* kllm_index_create refuses a capacity that is not a power of two.
ASSUME CapacityAssumption ==
    Capacity \in Nat \ {0} /\ \E n \in 0..31 : Capacity = 2^n
ASSUME KeysAssumption == Keys \subseteq Nat
ASSUME MaxClockAssumption == MaxClock \in Nat

VARIABLES
    entries,           \* position -> [hash, slot, last_access_ns], or EMPTY
    occupied,
    clock,             \* CLOCK_MONOTONIC
    op, result,        \* the last call and what it returned
    used_at            \* history: when a caller was last given each block

index == <<entries, occupied>>
vars == <<arena, index, clock, op, result, used_at>>

EMPTY == [slot |-> -1]
Positions == 0 .. Capacity - 1
Empty(i) == entries[i] = EMPTY
Used == {i \in Positions : ~Empty(i)}

\* The calls, as op records them.
Calls == [name : {"none"}] \cup [name : {"lookup", "insert", "evict"}, key : Keys]
Call(name, k) == [name |-> name, key |-> k]

\* The blocks an arena of some size may have.
Blocks == UNION {0 .. n - 1 : n \in ArenaSizes}

-----------------------------------------------------------------------------
(* kllm_index_create                                                       *)

Init ==
    /\ \E n \in ArenaSizes : arena = FreshArena(n)
    /\ entries = [i \in Positions |-> EMPTY]
    /\ occupied = 0
    /\ clock = 0
    /\ op = [name |-> "none"] /\ result = NoSlot
    /\ used_at = [s \in Blocks |-> 0]

\* now_ns(): the clock never goes back, and two calls may read the same time.
NowNs(t) == t \in clock .. MaxClock /\ t <= clock + 1 /\ clock' = t

hash_to_bucket(k) == k % Capacity

\* The i-th position a probe for k visits.
Probe(k, i) == (hash_to_bucket(k) + i) % Capacity

\* Mutant of StopsAt: keys are compared by their bucket.
StopsTruncated(k, i) ==
    \/ Empty(Probe(k, i))
    \/ hash_to_bucket(entries[Probe(k, i)].hash) = hash_to_bucket(k)

\* The probe of kllm_index_lookup and kllm_index_evict stops at an empty
\* position or at the key's; the number of positions it passes, or Capacity.
StopsAt(k, i) == Empty(Probe(k, i)) \/ entries[Probe(k, i)].hash = k

Steps(k) == Lowest({i \in Positions : StopsAt(k, i)} \cup {Capacity})

Hit(k) == Steps(k) < Capacity /\ ~Empty(Probe(k, Steps(k)))
HitPosition(k) == Probe(k, Steps(k))

-----------------------------------------------------------------------------
(* kllm_index_lookup                                                       *)

\* Mutant of LookupHit: a hit does not refresh the time of its entry.
LookupHitUntimed(k, t) ==
    /\ Hit(k)
    /\ NowNs(t)
    /\ op' = Call("lookup", k)
    /\ result' = entries[HitPosition(k)].slot
    /\ UNCHANGED <<arena, index>>

LookupHit(k, t) ==
    /\ Hit(k)
    /\ NowNs(t)
    /\ entries' = [entries EXCEPT ![HitPosition(k)].last_access_ns = t]
    /\ op' = Call("lookup", k)
    /\ result' = entries[HitPosition(k)].slot
    /\ UNCHANGED <<arena, occupied>>

LookupMiss(k) ==
    /\ ~Hit(k)
    /\ op' = Call("lookup", k)
    /\ result' = NoSlot
    /\ UNCHANGED <<arena, index, clock>>

-----------------------------------------------------------------------------
(* kllm_index_insert                                                       *)

\* Mutant of OverLoaded: the table may fill up before anything goes.
OverFull == occupied > Capacity

\* occupied / capacity >= 0.85
OverLoaded == 20 * occupied >= 17 * Capacity

\* find_lru_entry: the first of the entries with the oldest access.
find_lru_entry ==
    LET oldest == {i \in Used : \A j \in Used :
                     entries[i].last_access_ns <= entries[j].last_access_ns}
    IN IF oldest = {} THEN 0 ELSE Lowest(oldest)

\* Mutant of Cut: the block is not given back to the arena.
CutKeepsSlot(v) ==
    [arena |-> arena,
     entries |-> [entries EXCEPT ![v] = EMPTY],
     occupied |-> occupied - 1]

\* The index and the arena once position v is given up.
Cut(v) ==
    [arena |-> ArenaFree(arena, entries[v].slot),
     entries |-> [entries EXCEPT ![v] = EMPTY],
     occupied |-> occupied - 1]

Uncut == [arena |-> arena, entries |-> entries, occupied |-> occupied]

MakeRoom == IF OverLoaded THEN Cut(find_lru_entry) ELSE Uncut

\* Mutant of FreeProbes: the search for room starts one position late.
FreeProbesLate(es, k) ==
    {i \in Positions \ {0} : es[Probe(k, i)] = EMPTY}

\* The positions a probe for k may insert at, in a table es: the first
\* empty one, if there is one.
FreeProbes(es, k) ==
    {i \in Positions : es[Probe(k, i)] = EMPTY}

\* The rest of an insert: memcpy and bookkeeping at the first empty position,
\* or, should the whole table be taken, the block given back.
Store(room, block, k, t) ==
    LET free == FreeProbes(room.entries, k)
        pos  == Probe(k, Lowest(free))
    IN IF free = {}
       THEN [arena |-> ArenaFree(block.arena, block.slot),
             entries |-> room.entries,
             occupied |-> room.occupied,
             result |-> NoSlot]
       ELSE [arena |-> block.arena,
             entries |-> [room.entries EXCEPT ![pos] =
                            [hash |-> k, slot |-> block.slot,
                             last_access_ns |-> t]],
             occupied |-> room.occupied + 1,
             result |-> block.slot]

InsertStores(k, t) ==
    LET room  == MakeRoom
        block == ArenaAlloc(room.arena)
        after == Store(room, block, k, t)
    IN /\ block.slot # NoSlot
       /\ NowNs(t)
       /\ arena' = after.arena
       /\ entries' = after.entries
       /\ occupied' = after.occupied
       /\ op' = Call("insert", k)
       /\ result' = after.result

\* The arena is exhausted.  The eviction, if the load asked for one, stays.
InsertFails(k) ==
    LET room == MakeRoom
    IN /\ ArenaAlloc(room.arena).slot = NoSlot
       /\ arena' = room.arena
       /\ entries' = room.entries
       /\ occupied' = room.occupied
       /\ op' = Call("insert", k)
       /\ result' = NoSlot
       /\ UNCHANGED clock

-----------------------------------------------------------------------------
(* kllm_index_evict: true, the entry gone, or false.                       *)

EvictHit(k) ==
    LET room == Cut(HitPosition(k))
    IN /\ Hit(k)
       /\ arena' = room.arena
       /\ entries' = room.entries
       /\ occupied' = room.occupied
       /\ op' = Call("evict", k)
       /\ result' = 1
       /\ UNCHANGED clock

EvictMiss(k) ==
    /\ ~Hit(k)
    /\ op' = Call("evict", k)
    /\ result' = 0
    /\ UNCHANGED <<arena, index, clock>>

-----------------------------------------------------------------------------

Times == 0 .. MaxClock

\* History: the step gave its caller a block, by a lookup or an insert.
Given(s) == op'.name \in {"lookup", "insert"} /\ result' = s
RecordUse == used_at' = [s \in Blocks |-> IF Given(s) THEN clock' ELSE used_at[s]]

Next ==
    /\ \E k \in Keys :
        \/ \E t \in Times : LookupHit(k, t)
        \/ LookupMiss(k)
        \/ \E t \in Times : InsertStores(k, t)
        \/ InsertFails(k)
        \/ EvictHit(k)
        \/ EvictMiss(k)
    /\ RecordUse

Spec == Init /\ [][Next]_vars

-----------------------------------------------------------------------------
(* Properties.                                                             *)

SlotsHeld == {entries[i].slot : i \in Used}

(* The entries and the arena agree: no two entries share a block, the      *)
(* blocks of the entries are exactly the arena's allocated slots (none is  *)
(* leaked, none is both free and in the table), and the two counters count *)
(* them.                                                                   *)
EntriesOwnSlots ==
    /\ \A i, j \in Used : entries[i].slot = entries[j].slot => i = j
    /\ SlotsHeld = Slots(arena) \ FreeSlots(arena)
    /\ occupied = Cardinality(Used)
    /\ arena.used = occupied

(* kllm_index_insert never reaches its "Shouldn't reach here after         *)
(* eviction": once the load has been looked at, the table has room.        *)
InsertFindsRoom == \A k \in Keys : FreeProbes(MakeRoom.entries, k) # {}

(* A key is found right after it was inserted, whatever else collides with *)
(* it and whichever entry the insert had to evict.                         *)
InsertedIsFound ==
    op.name = "insert" /\ result # NoSlot => Hit(op.key)

(* "If index is full, evicts LRU entry" (cache_index.h): a block an insert *)
(* gives up was last given to a caller no later than any block in the      *)
(* table, as the callers saw it, whichever lookups came between and        *)
(* whichever keys were inserted twice.  (The time is the clock's: blocks   *)
(* given at the same reading are not told apart.  KLLM_BLOCK_F_PINNED,     *)
(* "exempt from eviction" in block_format.h, is set and read nowhere.)     *)
LruGoesFirst ==
    [][\A i \in Used :
          op'.name = "insert" /\ entries'[i] # entries[i] =>
              \A j \in Used :
                  used_at[entries[i].slot] <= used_at[entries[j].slot]]_vars

Stored == {<<entries[i].hash, entries[i].slot>> : i \in Used}

(* The index is a lossy cache: no caller gets a block that belongs to      *)
(* another key or that has been freed.                                     *)
Cache == INSTANCE LossyCache WITH
             Blocks <- Blocks,
             NoBlock <- NoSlot,
             Limit <- (17 * Capacity + 19) \div 20,
             store <- Stored

RefinesLossyCache == Cache!Spec
=============================================================================
