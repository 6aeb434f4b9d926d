---------------------------- MODULE KVCacheProofs ----------------------------
(***************************************************************************)
(* Proofs about the KV cache: the slab allocator of its blocks, for every  *)
(* width of a bitmap word and every size of the arena, and the index over  *)
(* it, for every capacity, set of keys and bound of the clock.             *)
(*                                                                         *)
(* Sound(a, held) says of each bit of each word of arena a what            *)
(* BitmapMatchesLive says of the slots: that form survives an operation,   *)
(* because an operation flips one bit.  It speaks of an arena rather than  *)
(* of the variable because kllm_index_insert frees the slot of the oldest  *)
(* entry and allocates one in the same call: TableInv, which adds that the *)
(* entries of the table own the slots the arena has handed out, one each,  *)
(* has to hold of the arena and the table in between.                      *)
(***************************************************************************)
EXTENDS KVArena, CacheIndex, TLAPS

\* The limit of every SMT step, in seconds.
USE SMTT(60)

USE WordBitsAssumption

-----------------------------------------------------------------------------
(* Slots, words and bits.                                                  *)

LEMMA SlotSplit ==
    \A slot \in Nat : /\ WordOf(slot) \in Nat /\ BitOf(slot) \in Bits
                      /\ SlotOf(WordOf(slot), BitOf(slot)) = slot
BY DEF WordOf, BitOf, SlotOf, Bits

\* Two ways to write a slot as word and bit are the same.
LEMMA SlotUnique ==
    ASSUME NEW v \in Nat, NEW w \in Nat, NEW b \in Bits, NEW c \in Bits,
           SlotOf(v, b) = SlotOf(w, c)
    PROVE  v = w /\ b = c
<1>0. /\ b \in Nat /\ c \in Nat /\ b < WordBits /\ c < WordBits /\ WordBits \in Nat
      /\ v * WordBits + b = w * WordBits + c
      /\ v * WordBits \in Nat /\ w * WordBits \in Nat
  BY DEF Bits, SlotOf
<1>1. \A x, y \in Nat : x < y => x * WordBits + WordBits <= y * WordBits
  <2> TAKE x, y \in Nat
  <2> HAVE x < y
  <2>1. y - x - 1 \in Nat /\ (y - x - 1) * WordBits \in Nat
    OBVIOUS
  <2>2. (y - x - 1) * WordBits = y * WordBits - x * WordBits - WordBits
    BY <2>1
  <2> QED
    BY <2>1, <2>2
<1>2. ~(v < w) /\ ~(w < v)
  <2>1. v < w => v * WordBits + WordBits <= w * WordBits
    BY <1>1
  <2>2. w < v => w * WordBits + WordBits <= v * WordBits
    BY <1>1
  <2> QED
    BY <1>0, <2>1, <2>2
<1> QED
  BY <1>0, <1>2

LEMMA SlotOfSplit ==
    ASSUME NEW w \in Nat, NEW b \in Bits
    PROVE  /\ SlotOf(w, b) \in Nat
           /\ WordOf(SlotOf(w, b)) = w /\ BitOf(SlotOf(w, b)) = b
<1>1. SlotOf(w, b) \in Nat
  BY DEF SlotOf, Bits
<1> QED
  BY <1>1, SlotSplit, SlotUnique

\* The words of a bitmap cover its slots, and none is superfluous.
LEMMA WordsCover ==
    ASSUME NEW n \in Nat \ {0}
    PROVE  /\ bitmap_words(n) \in Nat \ {0}
           /\ n <= bitmap_words(n) * WordBits
           /\ bitmap_words(n) * WordBits <= n + WordBits - 1
<1> DEFINE x == n + WordBits - 1
<1>1. x \in Nat /\ x >= WordBits
  OBVIOUS
<1>2. SlotOf(WordOf(x), BitOf(x)) = x /\ WordOf(x) \in Nat /\ BitOf(x) \in Bits
  BY <1>1, SlotSplit
<1>3. bitmap_words(n) = WordOf(x)
  BY DEF bitmap_words, WordOf
<1>4. WordOf(x) * WordBits \in Nat /\ WordOf(x) * WordBits + BitOf(x) = x
      /\ BitOf(x) \in 0 .. WordBits - 1
  BY <1>2 DEF SlotOf, Bits
<1>5. WordOf(x) # 0
  <2> SUFFICES ASSUME WordOf(x) = 0 PROVE FALSE
    OBVIOUS
  <2>1. WordOf(x) * WordBits = 0
    OBVIOUS
  <2> QED
    BY <1>1, <1>4, <2>1
<1> HIDE DEF x
<1> QED
  BY <1>2, <1>3, <1>4, <1>5 DEF x

LEMMA OrderOfSlots ==
    ASSUME NEW v \in Nat, NEW w \in Nat, NEW b \in Bits, NEW c \in Bits, v < w
    PROVE  SlotOf(v, b) < SlotOf(w, c)
<1>1. w - v - 1 \in Nat /\ (w - v - 1) * WordBits \in Nat
  OBVIOUS
<1>2. (w - v - 1) * WordBits = w * WordBits - v * WordBits - WordBits
  BY <1>1
<1>3. v * WordBits \in Nat /\ w * WordBits \in Nat
  OBVIOUS
<1> QED
  BY <1>1, <1>2, <1>3 DEF SlotOf, Bits

\* The word of a slot is a word of the bitmap.
LEMMA WordOfSlot ==
    ASSUME NEW n \in Nat \ {0}, NEW slot \in 0 .. n - 1
    PROVE  WordOf(slot) \in 0 .. bitmap_words(n) - 1
<1> DEFINE k == bitmap_words(n)
           w == WordOf(slot)
<1>1. k \in Nat \ {0} /\ n <= k * WordBits /\ k * WordBits \in Nat
  BY WordsCover
<1>2. w \in Nat /\ BitOf(slot) \in Bits /\ SlotOf(w, BitOf(slot)) = slot
  BY SlotSplit
<1>3. 0 \in Bits /\ SlotOf(k, 0) = k * WordBits
  BY <1>1 DEF Bits, SlotOf
<1> HIDE DEF k, w
<1>4. ~(k < w)
  <2>1. k < w => SlotOf(k, 0) < SlotOf(w, BitOf(slot))
    BY <1>1, <1>2, <1>3, OrderOfSlots
  <2> QED
    BY <1>1, <1>2, <1>3, <2>1
<1>5. k # w
  BY <1>1, <1>2, <1>3 DEF SlotOf, Bits
<1>6. w \in 0 .. k - 1
  BY <1>1, <1>2, <1>4, <1>5
<1> QED
  BY <1>6 DEF k, w

\* kllm_arena_create sets the bits of the slots there are, and no others.
LEMMA FreshBits ==
    ASSUME NEW n \in Nat \ {0}, NEW w \in 0 .. bitmap_words(n) - 1, NEW bit \in Bits
    PROVE  bit \in FreshWord(n, w) <=> SlotOf(w, bit) < n
<1> DEFINE k == bitmap_words(n)
           q == WordOf(n)
           r == BitOf(n)
<1>1. k \in Nat \ {0} /\ n <= k * WordBits /\ k * WordBits <= n + WordBits - 1
  BY WordsCover
<1>2. q \in Nat /\ r \in Bits /\ SlotOf(q, r) = n /\ q * WordBits + r = n
  BY SlotSplit DEF SlotOf
<1>3. /\ w \in Nat /\ w <= k - 1 /\ bit \in Nat /\ bit <= WordBits - 1
      /\ r \in Nat /\ r <= WordBits - 1
      /\ w * WordBits \in Nat /\ q * WordBits \in Nat /\ k * WordBits \in Nat
  BY <1>1, <1>2 DEF Bits
<1>4. FreshWord(n, w) = IF w = k - 1 /\ r > 0 THEN 0 .. r - 1 ELSE Bits
  BY DEF FreshWord, BitOf
<1> HIDE DEF k, q, r
<1>5. (k - 1) * WordBits = k * WordBits - WordBits
  BY <1>1
<1>6. CASE w = k - 1 /\ r > 0
  <2>1. w * WordBits < n /\ n <= w * WordBits + WordBits
    BY <1>1, <1>3, <1>5, <1>6
  <2>2. ~(q < w)
    <3>1. q < w => SlotOf(q, r) < SlotOf(w, 0)
      BY <1>2, <1>3, OrderOfSlots, 0 \in Bits DEF Bits
    <3>2. SlotOf(w, 0) = w * WordBits
      BY <1>3 DEF SlotOf
    <3> QED
      BY <1>2, <1>3, <2>1, <3>1, <3>2
  <2>3. ~(w < q)
    <3> SUFFICES ASSUME w < q PROVE FALSE
      OBVIOUS
    <3>1. q - w - 1 \in Nat /\ (q - w - 1) * WordBits \in Nat
      BY <1>2, <1>3
    <3>2. (q - w - 1) * WordBits = q * WordBits - w * WordBits - WordBits
      BY <1>2, <1>3, <3>1
    <3> QED
      BY <1>2, <1>3, <1>6, <2>1, <3>1, <3>2
  <2>4. q = w
    BY <1>2, <1>3, <2>2, <2>3
  <2>5. SlotOf(w, bit) = w * WordBits + bit /\ n = w * WordBits + r
    BY <1>2, <2>4 DEF SlotOf
  <2>6. SlotOf(w, bit) < n <=> bit < r
    BY <1>3, <2>5
  <2> QED
    BY <1>3, <1>4, <1>6, <2>6
<1>7. CASE w = k - 1 /\ r = 0
  <2>1. k * WordBits = n
    <3>1. n <= k * WordBits /\ k * WordBits < n + WordBits /\ n = q * WordBits
      BY <1>1, <1>2, <1>3, <1>7
    <3>2. ~(k < q)
      <4>1. k < q => SlotOf(k, 0) < SlotOf(q, 0)
        BY <1>1, <1>2, OrderOfSlots, 0 \in Bits DEF Bits
      <4> QED
        BY <1>1, <1>2, <1>3, <3>1, <4>1 DEF SlotOf
    <3>3. ~(q < k)
      <4> SUFFICES ASSUME q < k PROVE FALSE
        OBVIOUS
      <4>1. k - q - 1 \in Nat /\ (k - q - 1) * WordBits \in Nat
        BY <1>1, <1>2
      <4>2. (k - q - 1) * WordBits = k * WordBits - q * WordBits - WordBits
        BY <1>1, <1>2, <4>1
      <4> QED
        BY <1>3, <3>1, <4>1, <4>2
    <3> QED
      BY <1>1, <1>2, <3>1, <3>2, <3>3
  <2> QED
    BY <1>3, <1>4, <1>5, <1>7, <2>1 DEF SlotOf
<1>8. CASE w # k - 1
  <2>1. w < k - 1 /\ k - 1 \in Nat
    BY <1>1, <1>3, <1>8
  <2>2. SlotOf(w, bit) < SlotOf(k - 1, 0)
    BY <1>3, <2>1, OrderOfSlots, 0 \in Bits DEF Bits
  <2> QED
    BY <1>1, <1>3, <1>4, <1>5, <1>8, <2>2 DEF SlotOf
<1> QED
  BY <1>3, <1>6, <1>7, <1>8

\* What the proofs use of finite sets and of the naturals.  The libraries that
\* have it are brought in where the theorems begin: the provers carry a library
\* along in every step that follows it.
EmptySetFact == IsFiniteSet({}) /\ Cardinality({}) = 0

SubsetFact ==
    \A S : IsFiniteSet(S) =>
        /\ Cardinality(S) \in Nat
        /\ \A T \in SUBSET S : /\ IsFiniteSet(T) /\ Cardinality(T) <= Cardinality(S)
                               /\ Cardinality(T) = Cardinality(S) => T = S

ElementFact ==
    \A S, x : IsFiniteSet(S) =>
        /\ x \notin S => Cardinality(S \cup {x}) = Cardinality(S) + 1
        /\ x \in S => Cardinality(S \ {x}) = Cardinality(S) - 1

IntervalFact == \A n \in Nat : IsFiniteSet(0 .. n - 1) /\ Cardinality(0 .. n - 1) = n

BijectionFact ==
    \A S, T, f :
        /\ f \in [S -> T] /\ IsFiniteSet(S)
        /\ \A x, y \in S : f[x] = f[y] => x = y
        /\ \A z \in T : \E x \in S : f[x] = z
        => Cardinality(T) = Cardinality(S)

LeastFact == \A S \in SUBSET Nat : S # {} => \E m \in S : \A n \in S : m <= n

FiniteSetFacts ==
    EmptySetFact /\ SubsetFact /\ ElementFact /\ IntervalFact /\ BijectionFact /\ LeastFact

\* Lowest is well defined.
LEMMA LowestIsLeast ==
    ASSUME FiniteSetFacts, NEW S \in SUBSET Nat, S # {}
    PROVE  Lowest(S) \in S /\ \A n \in S : Lowest(S) <= n
BY Zenon DEF Lowest, FiniteSetFacts, LeastFact

LEMMA LowestUnique ==
    ASSUME FiniteSetFacts, NEW S \in SUBSET Nat, NEW m \in S, \A n \in S : m <= n
    PROVE  Lowest(S) = m
<1>1. Lowest(S) \in S /\ Lowest(S) <= m
  BY LowestIsLeast
<1>2. m <= Lowest(S)
  BY Zenon, <1>1
<1>3. Lowest(S) \in Nat /\ m \in Nat
  BY Zenon, <1>1
<1> QED
  BY <1>1, <1>2, <1>3


-----------------------------------------------------------------------------
(* What kllm_arena_alloc and kllm_arena_free keep, for an arena a of which *)
(* clients hold the slots in held.                                         *)

Sound(a, held) ==
    /\ ArenaShape(a)
    /\ held \in SUBSET Slots(a)
    /\ \A w \in Words(a), bit \in Bits :
          bit \in a.bitmap[w] <=> SlotOf(w, bit) \in Slots(a) \ held
    /\ a.used = Cardinality(held)
    /\ \A w \in Words(a) : w < a.hint => a.bitmap[w] = {}

\* The facts about types that the steps use.
LEMMA SoundTypes ==
    ASSUME FiniteSetFacts, NEW a, NEW held, Sound(a, held)
    PROVE  /\ a.total_slots \in Nat \ {0}
           /\ a.bitmap \in [Words(a) -> SUBSET Bits]
           /\ a.hint \in Words(a)
           /\ Words(a) \subseteq Nat /\ Slots(a) \subseteq Nat
           /\ IsFiniteSet(held)
           /\ IsFiniteSet(Slots(a)) /\ Cardinality(Slots(a)) = a.total_slots
<1>1. /\ a.total_slots \in Nat \ {0}
      /\ a.bitmap \in [Words(a) -> SUBSET Bits]
      /\ a.hint \in Words(a)
      /\ held \in SUBSET Slots(a)
  BY ArenaSizesAssumption DEF Sound, ArenaShape
<1>2. bitmap_words(a.total_slots) \in Nat
  BY <1>1, WordsCover
<1>3. Words(a) \subseteq Nat /\ Slots(a) \subseteq Nat
  BY <1>1, <1>2 DEF Words, Slots
<1>4. IsFiniteSet(Slots(a)) /\ Cardinality(Slots(a)) = a.total_slots
  <2> DEFINE n == a.total_slots
  <2>1. n \in Nat \ {0} /\ n - 1 \in Int /\ 0 \in Int
    BY <1>1
  <2> HIDE DEF n
  <2>2. IsFiniteSet(0 .. n - 1) /\ Cardinality(0 .. n - 1) = n
    BY <2>1 DEF FiniteSetFacts, IntervalFact
  <2> QED
    BY <2>1, <2>2 DEF n, Slots
<1> QED
  BY <1>1, <1>3, <1>4 DEF FiniteSetFacts, SubsetFact

\* A slot of the arena is a bit of a word.
LEMMA SlotHasBit ==
    ASSUME FiniteSetFacts, NEW a, NEW held, Sound(a, held), NEW slot \in Slots(a)
    PROVE  /\ WordOf(slot) \in Words(a) /\ BitOf(slot) \in Bits
           /\ SlotOf(WordOf(slot), BitOf(slot)) = slot
           /\ BitOf(slot) \in a.bitmap[WordOf(slot)] <=> slot \notin held
<1>1. slot \in 0 .. a.total_slots - 1 /\ slot \in Nat
  BY SoundTypes DEF Slots
<1>2. WordOf(slot) \in Words(a)
  BY <1>1, SoundTypes, WordOfSlot DEF Words
<1>3. BitOf(slot) \in Bits /\ SlotOf(WordOf(slot), BitOf(slot)) = slot
  BY <1>1, SlotSplit
<1> QED
  BY <1>2, <1>3 DEF Sound

\* kllm_arena_create
LEMMA FreshSound ==
    ASSUME FiniteSetFacts, NEW n \in ArenaSizes
    PROVE  Sound(FreshArena(n), {})
<1> DEFINE a == FreshArena(n)
<1>1. n \in Nat \ {0} /\ bitmap_words(n) \in Nat \ {0}
  BY ArenaSizesAssumption, WordsCover
<1>2. /\ a.total_slots = n /\ a.hint = 0 /\ a.used = 0
      /\ a.bitmap = [w \in 0 .. bitmap_words(n) - 1 |-> FreshWord(n, w)]
      /\ Words(a) = 0 .. bitmap_words(n) - 1 /\ Slots(a) = 0 .. n - 1
      /\ a = [total_slots |-> a.total_slots, bitmap |-> a.bitmap,
              hint |-> a.hint, used |-> a.used]
  BY DEF FreshArena, Words, Slots
<1> HIDE DEF a
<1>3. \A w \in Words(a), bit \in Bits :
          bit \in a.bitmap[w] <=> SlotOf(w, bit) < n
  BY <1>1, <1>2, FreshBits
<1>4. \A w \in Words(a) : a.bitmap[w] \in SUBSET Bits
  <2> SUFFICES ASSUME NEW w \in Words(a) PROVE FreshWord(n, w) \subseteq Bits
    BY <1>2
  <2>1. n % WordBits \in 0 .. WordBits - 1
    BY <1>1
  <2> QED
    BY <2>1 DEF FreshWord, Bits
<1>5. a.bitmap \in [Words(a) -> SUBSET Bits]
  BY <1>2, <1>4
<1>6. ArenaShape(a)
  <2>1. \A w \in Words(a) : \A bit \in a.bitmap[w] : SlotOf(w, bit) < n
    BY <1>3, <1>4
  <2> QED
    BY <1>1, <1>2, <1>5, <2>1 DEF ArenaShape
<1>7. \A w \in Words(a), bit \in Bits : SlotOf(w, bit) \in Nat
  BY <1>1, <1>2 DEF SlotOf, Bits
<1>8. Sound(a, {})
  BY <1>1, <1>2, <1>3, <1>6, <1>7 DEF Sound, FiniteSetFacts, EmptySetFact
<1> QED
  BY <1>8 DEF a

\* A step of the allocator from a to new flips one bit.
Flips(a, held, w, bit, word, h, left, new) ==
    /\ w \in Words(a) /\ bit \in Bits /\ SlotOf(w, bit) \in Slots(a)
    /\ word \in SUBSET Bits /\ h \in Words(a) /\ left \in SUBSET Slots(a)
    /\ \A slot \in Slots(a) : slot # SlotOf(w, bit) => (slot \in left <=> slot \in held)
    /\ \A b \in Bits : b # bit => (b \in word <=> b \in a.bitmap[w])
    /\ bit \in word <=> SlotOf(w, bit) \notin left
    /\ \A v \in Words(a) : v < h => (a.bitmap[v] = {} /\ v # w)
    /\ new = [a EXCEPT !.bitmap[w] = word, !.hint = h, !.used = Cardinality(left)]

LEMMA FlipBit ==
    ASSUME FiniteSetFacts, NEW a, NEW held, NEW w, NEW bit, NEW word, NEW h, NEW left, NEW new,
           Sound(a, held), Flips(a, held, w, bit, word, h, left, new)
    PROVE  Sound(new, left) /\ new.total_slots = a.total_slots
<1> DEFINE u == Cardinality(left)
<1>0. /\ w \in Words(a) /\ bit \in Bits /\ SlotOf(w, bit) \in Slots(a)
      /\ word \in SUBSET Bits /\ h \in Words(a) /\ left \in SUBSET Slots(a)
      /\ \A v \in Words(a) : v < h => (a.bitmap[v] = {} /\ v # w)
      /\ new = [a EXCEPT !.bitmap[w] = word, !.hint = h, !.used = u]
  BY DEF Flips
<1> HIDE DEF u
<1>1. /\ new.total_slots = a.total_slots /\ new.hint = h /\ new.used = u
      /\ new.bitmap = [a.bitmap EXCEPT ![w] = word]
      /\ new = [total_slots |-> new.total_slots, bitmap |-> new.bitmap,
                hint |-> new.hint, used |-> new.used]
  BY Zenon, <1>0 DEF Sound, ArenaShape
<1>2. Words(new) = Words(a) /\ Slots(new) = Slots(a)
  BY <1>1 DEF Words, Slots
<1>3. /\ new.bitmap \in [Words(a) -> SUBSET Bits]
      /\ new.bitmap[w] = word
      /\ \A v \in Words(a) : v # w => new.bitmap[v] = a.bitmap[v]
  BY <1>0, <1>1, SoundTypes
<1>4. ASSUME NEW v \in Words(a), NEW b \in Bits
      PROVE  b \in new.bitmap[v] <=> SlotOf(v, b) \in Slots(a) \ left
  <2>1. b \in a.bitmap[v] <=> SlotOf(v, b) \in Slots(a) \ held
    BY DEF Sound
  <2>2. CASE v = w /\ b = bit
    BY <1>3, <2>2 DEF Flips
  <2>3. CASE ~(v = w /\ b = bit)
    <3>1. SlotOf(v, b) # SlotOf(w, bit)
      <4>1. v \in Nat /\ w \in Nat
        BY <1>0, SoundTypes
      <4> QED
        BY <1>0, <2>3, <4>1, SlotUnique
    <3>2. b \in new.bitmap[v] <=> b \in a.bitmap[v]
      BY <1>3, <2>3 DEF Flips
    <3> QED
      BY <2>1, <3>1, <3>2 DEF Flips
  <2> QED
    BY <2>2, <2>3
<1>5. u \in 0 .. a.total_slots
  <2>1. IsFiniteSet(Slots(a)) /\ Cardinality(Slots(a)) = a.total_slots
        /\ a.total_slots \in Nat
    BY SoundTypes
  <2>2. IsFiniteSet(left) /\ Cardinality(left) <= Cardinality(Slots(a))
    BY <1>0, <2>1 DEF FiniteSetFacts, SubsetFact
  <2>3. Cardinality(left) \in Nat
    BY <2>2 DEF FiniteSetFacts, SubsetFact
  <2> QED
    BY <2>1, <2>2, <2>3 DEF u
<1>6. \A v \in Words(a) : \A b \in new.bitmap[v] : SlotOf(v, b) < a.total_slots
  BY <1>3, <1>4, SoundTypes DEF Slots
<1>7. ArenaShape(new)
  <2>1. a.total_slots \in ArenaSizes
    BY DEF Sound, ArenaShape
  <2> QED
    BY <1>0, <1>1, <1>2, <1>3, <1>5, <1>6, <2>1 DEF ArenaShape
<1>8. \A v \in Words(a) : v < h => new.bitmap[v] = {}
  BY <1>0, <1>3
<1> QED
  BY <1>0, <1>1, <1>2, <1>4, <1>7, <1>8 DEF Sound, u

\* kllm_arena_alloc takes the lowest free slot, or there is none.
LEMMA AllocKeeps ==
    ASSUME FiniteSetFacts, NEW a, NEW held, Sound(a, held)
    PROVE  \/ ArenaAlloc(a) = [arena |-> a, slot |-> NoSlot] /\ held = Slots(a)
           \/ /\ ArenaAlloc(a).slot \in Slots(a) \ held
              /\ \A slot \in Slots(a) \ held : ArenaAlloc(a).slot <= slot
              /\ Sound(ArenaAlloc(a).arena, held \cup {ArenaAlloc(a).slot})
              /\ ArenaAlloc(a).arena.total_slots = a.total_slots
<1> DEFINE k == bitmap_words(a.total_slots)
<1>0. k \in Nat /\ Words(a) = 0 .. k - 1
  BY Zenon, SoundTypes, WordsCover DEF Words
<1> HIDE DEF k
<1>1. CASE NonZero(a, 0, k) = {}
  <2>1. \A w \in Words(a) : a.bitmap[w] = {}
    BY <1>0, <1>1 DEF NonZero
  <2>2. \A slot \in Slots(a) : slot \in held
    BY <2>1, SlotHasBit
  <2>3. held = Slots(a)
    BY <2>2 DEF Sound
  <2> QED
    BY <1>1, <2>3 DEF ArenaAlloc, k
<1>2. CASE NonZero(a, 0, k) # {}
  <2> DEFINE ahead == NonZero(a, a.hint, k)
             w == ScanWord(a)
             bit == Lowest(a.bitmap[w])
             word == a.bitmap[w] \ {bit}
             left == held \cup {SlotOf(w, bit)}
  <2>1. ahead # {} /\ ahead \in SUBSET Nat
    <3>1. PICK v \in Words(a) : a.bitmap[v] # {}
      BY <1>2 DEF NonZero
    <3>2. ~(v < a.hint)
      BY <3>1 DEF Sound
    <3>3. v \in ahead
      BY <1>0, <3>1, <3>2, SoundTypes DEF NonZero
    <3> QED
      BY <3>3, SoundTypes DEF NonZero
  <2>2. w = Lowest(ahead)
    BY <2>1 DEF ScanWord, k
  <2> HIDE DEF ahead
  <2>3. w \in ahead /\ \A v \in ahead : w <= v
    BY <2>1, <2>2, LowestIsLeast
  <2>4. w \in Words(a) /\ a.hint <= w /\ a.bitmap[w] # {} /\ w \in Nat
    BY <2>3, SoundTypes DEF ahead, NonZero
  <2>5. ASSUME NEW v \in Words(a), v < w PROVE a.bitmap[v] = {}
    <3>1. CASE v < a.hint
      BY <3>1 DEF Sound
    <3>2. CASE ~(v < a.hint)
      <4>1. v \notin ahead
        BY <2>3, <2>4, <2>5, SoundTypes
      <4> QED
        BY <1>0, <3>2, <4>1, SoundTypes DEF ahead, NonZero
    <3> QED
      BY <3>1, <3>2
  <2> HIDE DEF w
  <2>6. bit \in a.bitmap[w] /\ \A b \in a.bitmap[w] : bit <= b
    <3>1. a.bitmap[w] \in SUBSET Nat
      BY <2>4, SoundTypes DEF Bits
    <3> QED
      BY <2>4, <3>1, LowestIsLeast
  <2> HIDE DEF bit
  <2>7. bit \in Bits
    BY <2>4, <2>6, SoundTypes
  <2>8. SlotOf(w, bit) \in Slots(a) \ held
    BY <2>4, <2>6, <2>7 DEF Sound
  <2>9. ASSUME NEW slot \in Slots(a) \ held PROVE SlotOf(w, bit) <= slot
    <3>1. /\ WordOf(slot) \in Words(a) /\ BitOf(slot) \in a.bitmap[WordOf(slot)]
          /\ BitOf(slot) \in Bits /\ SlotOf(WordOf(slot), BitOf(slot)) = slot
      BY SlotHasBit
    <3>2. WordOf(slot) \in Nat /\ w \in Nat /\ SlotOf(w, bit) \in Nat /\ slot \in Nat
      BY <2>4, <2>8, <3>1, SoundTypes
    <3>3. ~(WordOf(slot) < w)
      BY <2>5, <3>1
    <3>4. CASE w < WordOf(slot)
      <4>1. SlotOf(w, bit) < SlotOf(WordOf(slot), BitOf(slot))
        BY <2>7, <3>1, <3>2, <3>4, OrderOfSlots
      <4> QED
        BY <3>1, <3>2, <4>1
    <3>5. CASE w = WordOf(slot)
      <4>1. bit <= BitOf(slot)
        BY <2>6, <3>1, <3>5
      <4> QED
        BY <2>7, <3>1, <3>2, <3>5, <4>1 DEF SlotOf, Bits
    <3> QED
      BY <3>2, <3>3, <3>4, <3>5
  <2>10. ArenaAlloc(a) = AllocFound(a, w, bit)
    BY <1>2 DEF ArenaAlloc, w, bit, k
  <2>11. ~(SlotOf(w, bit) >= a.total_slots)
    BY <2>8, SoundTypes DEF Slots
  <2>12. /\ ArenaAlloc(a).arena =
                [a EXCEPT !.bitmap[w] = word, !.hint = w, !.used = a.used + 1]
         /\ ArenaAlloc(a).slot = SlotOf(w, bit)
    BY <2>10, <2>11 DEF AllocFound
  <2>13. a.used + 1 = Cardinality(left)
    <3>1. IsFiniteSet(held) /\ SlotOf(w, bit) \notin held
      BY <2>8, SoundTypes
    <3>2. Cardinality(held \cup {SlotOf(w, bit)}) = Cardinality(held) + 1
      BY <3>1 DEF FiniteSetFacts, ElementFact
    <3> QED
      BY <3>2 DEF Sound
  <2>14. /\ word \in SUBSET Bits /\ left \in SUBSET Slots(a)
         /\ \A v \in Words(a) : v < w => (a.bitmap[v] = {} /\ v # w)
         /\ \A s \in Slots(a) : s # SlotOf(w, bit) => (s \in left <=> s \in held)
         /\ \A b \in Bits : b # bit => (b \in word <=> b \in a.bitmap[w])
         /\ bit \in word <=> SlotOf(w, bit) \notin left
    BY <2>4, <2>5, <2>8, SoundTypes DEF Sound
  <2>15. Flips(a, held, w, bit, word, w, left, ArenaAlloc(a).arena)
    <3> HIDE DEF word, left
    <3> QED
      BY Zenon, <2>4, <2>7, <2>8, <2>12, <2>13, <2>14 DEF Flips
  <2>16. Sound(ArenaAlloc(a).arena, left) /\ ArenaAlloc(a).arena.total_slots = a.total_slots
    BY <2>15, FlipBit
  <2> QED
    BY <2>8, <2>9, <2>12, <2>16
<1> QED
  BY <1>1, <1>2

\* kllm_arena_free gives back a slot that is held.
LEMMA FreeKeeps ==
    ASSUME FiniteSetFacts, NEW a, NEW held, Sound(a, held), NEW slot \in held
    PROVE  /\ Sound(ArenaFree(a, slot), held \ {slot})
           /\ ArenaFree(a, slot).total_slots = a.total_slots
<1> DEFINE w == WordOf(slot)
           bit == BitOf(slot)
           word == a.bitmap[w] \cup {bit}
           h == HintAfterFree(a, w)
           left == held \ {slot}
<1>1. /\ w \in Words(a) /\ bit \in Bits /\ SlotOf(w, bit) = slot
      /\ slot \in Slots(a) /\ held \in SUBSET Slots(a)
  BY SlotHasBit DEF Sound
<1>2. ArenaFree(a, slot) = [a EXCEPT !.bitmap[w] = word, !.hint = h, !.used = a.used - 1]
  BY DEF ArenaFree
<1>3. a.used - 1 = Cardinality(left)
  <2>1. Cardinality(held \ {slot}) = Cardinality(held) - 1
    BY Zenon, SoundTypes DEF FiniteSetFacts, ElementFact
  <2> QED
    BY <2>1 DEF Sound
<1>4. h \in Words(a) /\ \A v \in Words(a) : v < h => (a.bitmap[v] = {} /\ v # w)
  <2>1. h = IF w < a.hint THEN w ELSE a.hint
    BY DEF HintAfterFree
  <2>2. \A v \in Words(a) : v < h => v < a.hint /\ v # w
    BY <1>1, <2>1, SoundTypes
  <2> QED
    BY <1>1, <2>1, <2>2, SoundTypes DEF Sound
<1>5. /\ word \in SUBSET Bits /\ left \in SUBSET Slots(a)
      /\ \A s \in Slots(a) : s # SlotOf(w, bit) => (s \in left <=> s \in held)
      /\ \A b \in Bits : b # bit => (b \in word <=> b \in a.bitmap[w])
      /\ bit \in word <=> SlotOf(w, bit) \notin left
      /\ SlotOf(w, bit) \in Slots(a)
  BY <1>1, SoundTypes
<1>6. Flips(a, held, w, bit, word, h, left, ArenaFree(a, slot))
  <2> HIDE DEF w, bit, word, h, left
  <2> QED
    BY Zenon, <1>1, <1>2, <1>3, <1>4, <1>5 DEF Flips
<1> QED
  BY <1>6, FlipBit

-----------------------------------------------------------------------------
(* The arena and a client that frees what it holds.                        *)

ArenaInv == Sound(arena, live)

LEMMA NextArenaInv ==
    ASSUME FiniteSetFacts, ArenaInv, [ArenaNext]_<<arena, live>>
    PROVE  ArenaInv'
<1> SUFFICES Sound(arena', live')
  BY DEF ArenaInv
<1>1. CASE Alloc
  <2>1. NoSlot \notin Slots(arena)
    BY SoundTypes DEF NoSlot, ArenaInv
  <2> QED
    BY <1>1, <2>1, AllocKeeps DEF Alloc, ArenaInv
<1>2. ASSUME NEW slot \in Slots(arena), Free(slot) PROVE Sound(arena', live')
  BY <1>2, FreeKeeps DEF Free, ArenaInv
<1>3. CASE UNCHANGED <<arena, live>>
  BY <1>3 DEF ArenaInv
<1> QED
  BY <1>1, <1>2, <1>3 DEF ArenaNext

-----------------------------------------------------------------------------
(* The table: entries es, of which occ are in use, on the arena a.         *)

Entry == [hash : Keys, slot : Nat, last_access_ns : Nat]

UsedIn(es) == {i \in Positions : es[i] # EMPTY}
HeldBy(es) == {es[i].slot : i \in UsedIn(es)}

TableInv(a, es, occ) ==
    /\ es \in [Positions -> {EMPTY} \cup Entry]
    /\ \A i, j \in UsedIn(es) : es[i].slot = es[j].slot => i = j
    /\ Sound(a, HeldBy(es))
    /\ occ = Cardinality(UsedIn(es))

LEMMA EntryNotEmpty == \A e \in Entry : e # EMPTY
<1> SUFFICES ASSUME NEW e \in Entry, e = EMPTY PROVE FALSE
  OBVIOUS
<1>1. e.slot \in Nat /\ e.slot = -1
  BY DEF Entry, EMPTY
<1> QED
  BY <1>1

LEMMA PositionsFinite ==
    ASSUME FiniteSetFacts
    PROVE  IsFiniteSet(Positions) /\ Cardinality(Positions) = Capacity
BY CapacityAssumption DEF Positions, FiniteSetFacts, IntervalFact

LEMMA TableTypes ==
    ASSUME FiniteSetFacts, NEW a, NEW es, NEW occ, TableInv(a, es, occ)
    PROVE  /\ IsFiniteSet(UsedIn(es)) /\ occ \in Nat /\ occ <= Capacity
           /\ \A i \in UsedIn(es) : i \in Positions /\ es[i] \in Entry
           /\ \A i \in Positions \ UsedIn(es) : es[i] = EMPTY
           /\ occ = Capacity => UsedIn(es) = Positions
<1>1. UsedIn(es) \in SUBSET Positions
  BY DEF UsedIn
<1>2. /\ IsFiniteSet(UsedIn(es)) /\ Cardinality(UsedIn(es)) <= Cardinality(Positions)
      /\ Cardinality(UsedIn(es)) = Cardinality(Positions) => UsedIn(es) = Positions
  BY <1>1, PositionsFinite DEF FiniteSetFacts, SubsetFact
<1>3. Cardinality(UsedIn(es)) \in Nat
  BY <1>2 DEF FiniteSetFacts, SubsetFact
<1>4. /\ \A i \in UsedIn(es) : i \in Positions /\ es[i] \in Entry
      /\ \A i \in Positions \ UsedIn(es) : es[i] = EMPTY
  BY DEF UsedIn, TableInv
<1> QED
  BY <1>2, <1>3, <1>4, PositionsFinite DEF TableInv

\* As many slots are held as positions are in use.
LEMMA HeldCount ==
    ASSUME FiniteSetFacts, NEW a, NEW es, NEW occ, TableInv(a, es, occ)
    PROVE  a.used = occ
<1> DEFINE f == [i \in UsedIn(es) |-> es[i].slot]
<1>1. f \in [UsedIn(es) -> HeldBy(es)]
  BY DEF HeldBy
<1>2. \A i, j \in UsedIn(es) : f[i] = f[j] => i = j
  BY DEF TableInv
<1>3. \A s \in HeldBy(es) : \E i \in UsedIn(es) : f[i] = s
  BY DEF HeldBy
<1>4. Cardinality(HeldBy(es)) = Cardinality(UsedIn(es))
  <2> HIDE DEF f
  <2>1. IsFiniteSet(UsedIn(es))
    BY TableTypes
  <2> QED
    BY Zenon, <1>1, <1>2, <1>3, <2>1 DEF FiniteSetFacts, BijectionFact
<1> QED
  BY <1>4 DEF TableInv, Sound

\* A position is given up with its block.
LEMMA CutKeeps ==
    ASSUME FiniteSetFacts, NEW a, NEW es, NEW occ, TableInv(a, es, occ), NEW v \in UsedIn(es)
    PROVE  /\ TableInv(ArenaFree(a, es[v].slot), [es EXCEPT ![v] = EMPTY], occ - 1)
           /\ UsedIn([es EXCEPT ![v] = EMPTY]) = UsedIn(es) \ {v}
           /\ HeldBy([es EXCEPT ![v] = EMPTY]) = HeldBy(es) \ {es[v].slot}
           /\ es[v].slot \in HeldBy(es)
           /\ ArenaFree(a, es[v].slot).total_slots = a.total_slots
<1> DEFINE new == [es EXCEPT ![v] = EMPTY]
<1>0. es \in [Positions -> {EMPTY} \cup Entry] /\ v \in Positions
  BY DEF TableInv, UsedIn
<1>1. new \in [Positions -> {EMPTY} \cup Entry]
      /\ \A i \in Positions : new[i] = IF i = v THEN EMPTY ELSE es[i]
  BY <1>0
<1> HIDE DEF new
<1>2. UsedIn(new) = UsedIn(es) \ {v}
  BY <1>1 DEF UsedIn
<1>3. \A i \in UsedIn(new) : new[i] = es[i] /\ i \in UsedIn(es) /\ i # v
  BY <1>1, <1>2 DEF UsedIn
<1>4. HeldBy(new) = HeldBy(es) \ {es[v].slot}
  <2>1. ASSUME NEW s \in HeldBy(new) PROVE s \in HeldBy(es) \ {es[v].slot}
    BY <1>3 DEF HeldBy, TableInv
  <2>2. ASSUME NEW s \in HeldBy(es) \ {es[v].slot} PROVE s \in HeldBy(new)
    <3>1. PICK i \in UsedIn(es) : s = es[i].slot
      BY DEF HeldBy
    <3>2. i \in UsedIn(new)
      BY <1>2, <3>1
    <3> QED
      BY <1>3, <3>1, <3>2 DEF HeldBy
  <2> QED
    BY <2>1, <2>2
<1>5. es[v].slot \in HeldBy(es)
  BY DEF HeldBy
<1>6. /\ Sound(ArenaFree(a, es[v].slot), HeldBy(new))
      /\ ArenaFree(a, es[v].slot).total_slots = a.total_slots
  BY <1>4, <1>5, FreeKeeps DEF TableInv
<1>7. occ - 1 = Cardinality(UsedIn(new))
  BY Zenon, <1>2, TableTypes DEF TableInv, FiniteSetFacts, ElementFact
<1>8. \A i, j \in UsedIn(new) : new[i].slot = new[j].slot => i = j
  BY <1>3 DEF TableInv
<1>9. TableInv(ArenaFree(a, es[v].slot), new, occ - 1)
  BY <1>1, <1>6, <1>7, <1>8 DEF TableInv
<1> QED
  BY Zenon, <1>2, <1>4, <1>5, <1>6, <1>9 DEF new

\* A new block is stored at an empty position.
LEMMA StoreKeeps ==
    ASSUME FiniteSetFacts, NEW a, NEW es, NEW occ, TableInv(a, es, occ), NEW p \in Positions,
           es[p] = EMPTY, ArenaAlloc(a).slot # NoSlot, NEW k \in Keys, NEW t \in Nat,
           NEW e, e = [hash |-> k, slot |-> ArenaAlloc(a).slot, last_access_ns |-> t]
    PROVE  /\ TableInv(ArenaAlloc(a).arena, [es EXCEPT ![p] = e], occ + 1)
           /\ UsedIn([es EXCEPT ![p] = e]) = UsedIn(es) \cup {p}
           /\ ArenaAlloc(a).slot \in Slots(a) \ HeldBy(es)
           /\ ArenaAlloc(a).arena.total_slots = a.total_slots
           /\ e \in Entry
<1> DEFINE new == [es EXCEPT ![p] = e]
           slot == ArenaAlloc(a).slot
<1>0. /\ slot \in Slots(a) \ HeldBy(es)
      /\ Sound(ArenaAlloc(a).arena, HeldBy(es) \cup {slot})
      /\ ArenaAlloc(a).arena.total_slots = a.total_slots
  <2>1. Sound(a, HeldBy(es))
    BY DEF TableInv
  <2>2. ArenaAlloc(a) # [arena |-> a, slot |-> NoSlot]
    OBVIOUS
  <2> QED
    BY Zenon, <2>1, <2>2, AllocKeeps
<1>1. slot \in Nat
  BY <1>0, SoundTypes DEF TableInv
<1> HIDE DEF slot
<1>2. e \in Entry /\ e # EMPTY /\ e.slot = slot
  BY <1>1, EntryNotEmpty DEF Entry, slot
<1>3. new \in [Positions -> {EMPTY} \cup Entry]
      /\ \A i \in Positions : new[i] = IF i = p THEN e ELSE es[i]
  BY <1>2 DEF TableInv
<1> HIDE DEF new
<1>4. UsedIn(new) = UsedIn(es) \cup {p} /\ p \notin UsedIn(es)
  BY <1>2, <1>3 DEF UsedIn
<1>5. new[p] = e /\ \A i \in UsedIn(es) : new[i] = es[i] /\ i # p
  BY <1>3, <1>4 DEF UsedIn
<1>6. HeldBy(new) = HeldBy(es) \cup {slot}
  <2>1. ASSUME NEW s \in HeldBy(new) PROVE s \in HeldBy(es) \cup {slot}
    BY <1>2, <1>4, <1>5 DEF HeldBy
  <2>2. ASSUME NEW s \in HeldBy(es) \cup {slot} PROVE s \in HeldBy(new)
    BY <1>2, <1>4, <1>5 DEF HeldBy
  <2> QED
    BY <2>1, <2>2
<1>7. \A i, j \in UsedIn(new) : new[i].slot = new[j].slot => i = j
  <2>1. \A i \in UsedIn(es) : es[i].slot # slot
    BY <1>0 DEF HeldBy
  <2> QED
    BY <1>2, <1>4, <1>5, <2>1 DEF TableInv
<1>8. occ + 1 = Cardinality(UsedIn(new))
  BY Zenon, <1>4, TableTypes DEF TableInv, FiniteSetFacts, ElementFact
<1>9. TableInv(ArenaAlloc(a).arena, new, occ + 1)
  BY <1>0, <1>3, <1>6, <1>7, <1>8 DEF TableInv
<1> QED
  BY Zenon, <1>0, <1>2, <1>4, <1>9 DEF new, slot

-----------------------------------------------------------------------------
(* Probing.                                                                *)

LEMMA ProbeType == \A k \in Keys, i \in Nat : Probe(k, i) \in Positions
<1>1. \A x \in Nat : x % Capacity \in Positions
  BY CapacityAssumption DEF Positions
<1> QED
  BY <1>1, KeysAssumption, CapacityAssumption DEF Probe, hash_to_bucket, Positions

\* A probe visits every position of the table.
LEMMA ProbeOnto == \A k \in Keys : \A p \in Positions : \E i \in Positions : Probe(k, i) = p
<1> SUFFICES ASSUME NEW k \in Keys, NEW p \in Positions
             PROVE  \E i \in Positions : Probe(k, i) = p
  OBVIOUS
<1> DEFINE b == hash_to_bucket(k)
           i == IF b <= p THEN p - b ELSE p - b + Capacity
<1>1. b \in Positions /\ Capacity \in Nat \ {0} /\ p \in Nat /\ p < Capacity
  BY KeysAssumption, CapacityAssumption DEF hash_to_bucket, Positions
<1>2. i \in Positions /\ b + i = IF b <= p THEN p ELSE p + Capacity
  BY <1>1 DEF Positions
<1>3. p % Capacity = p /\ (p + Capacity) % Capacity = p
  BY <1>1
<1>4. Probe(k, i) = p
  <2> HIDE DEF b, i
  <2>1. (b + i) % Capacity = p
    BY <1>2, <1>3
  <2> QED
    BY <2>1 DEF Probe, b
<1> QED
  BY <1>2, <1>4

\* The first empty position a probe meets.
LEMMA FirstFree ==
    ASSUME FiniteSetFacts, NEW es, NEW k \in Keys, FreeProbes(es, k) # {}
    PROVE  LET m == Lowest(FreeProbes(es, k))
           IN  /\ m \in Positions /\ Probe(k, m) \in Positions /\ es[Probe(k, m)] = EMPTY
               /\ \A i \in Positions : i < m => es[Probe(k, i)] # EMPTY
<1> DEFINE m == Lowest(FreeProbes(es, k))
<1>1. Positions \subseteq Nat
  BY CapacityAssumption DEF Positions
<1>2. FreeProbes(es, k) \in SUBSET Nat /\ FreeProbes(es, k) \in SUBSET Positions
  BY Zenon, <1>1 DEF FreeProbes
<1>3. m \in FreeProbes(es, k) /\ \A n \in FreeProbes(es, k) : m <= n
  BY <1>2, LowestIsLeast
<1> HIDE DEF m
<1>4. m \in Positions /\ es[Probe(k, m)] = EMPTY /\ m \in Nat
  BY <1>1, <1>3 DEF FreeProbes
<1>5. \A i \in Positions : i < m => es[Probe(k, i)] # EMPTY
  <2> SUFFICES ASSUME NEW i \in Positions, i < m, es[Probe(k, i)] = EMPTY PROVE FALSE
    OBVIOUS
  <2>1. m <= i
    BY <1>3 DEF FreeProbes
  <2> QED
    BY <1>1, <1>4, <2>1
<1>6. Probe(k, m) \in Positions
  BY <1>4, ProbeType
<1> QED
  BY <1>4, <1>5, <1>6 DEF m

LEMMA StepsRange ==
    ASSUME FiniteSetFacts, NEW k
    PROVE  /\ Steps(k) \in {i \in Positions : StopsAt(k, i)} \cup {Capacity}
           /\ \A i \in Positions : StopsAt(k, i) => Steps(k) <= i
<1> DEFINE S == {i \in Positions : StopsAt(k, i)} \cup {Capacity}
<1>1. S \in SUBSET Nat /\ S # {}
  BY CapacityAssumption DEF Positions
<1>2. Lowest(S) \in S /\ \A n \in S : Lowest(S) <= n
  <2> HIDE DEF S
  <2> QED
    BY <1>1, LowestIsLeast
<1> QED
  BY <1>2 DEF Steps

\* A hit is at a position that holds the key.
LEMMA HitFacts ==
    ASSUME FiniteSetFacts, NEW k \in Keys, Hit(k)
    PROVE  HitPosition(k) \in Used /\ entries[HitPosition(k)].hash = k
<1>1. Steps(k) # Capacity /\ ~Empty(HitPosition(k)) /\ HitPosition(k) = Probe(k, Steps(k))
  BY CapacityAssumption DEF Hit, HitPosition
<1>2. Steps(k) \in Positions /\ StopsAt(k, Steps(k))
  BY <1>1, StepsRange
<1>3. Probe(k, Steps(k)) \in Positions
  BY <1>2, ProbeType, CapacityAssumption DEF Positions
<1> QED
  BY <1>1, <1>2, <1>3 DEF StopsAt, Used

-----------------------------------------------------------------------------
(* The room an insert makes.                                               *)

IndexInv == TableInv(arena, entries, occupied)

LEMMA UsedEntries == Used = UsedIn(entries) /\ SlotsHeld = HeldBy(entries)
<1>1. Used = UsedIn(entries)
  BY DEF Used, UsedIn, Empty
<1> QED
  BY <1>1 DEF SlotsHeld, HeldBy

\* find_lru_entry finds an entry when the table is over its load.
LEMMA OldestFound ==
    ASSUME FiniteSetFacts, IndexInv, OverLoaded
    PROVE  /\ find_lru_entry \in Used
           /\ \A j \in Used : entries[find_lru_entry].last_access_ns
                                  <= entries[j].last_access_ns
<1> DEFINE T == {entries[i].last_access_ns : i \in Used}
           oldest == {i \in Used : \A j \in Used :
                        entries[i].last_access_ns <= entries[j].last_access_ns}
<1>1. \A i \in Used : i \in Positions /\ entries[i] \in Entry
  BY TableTypes, UsedEntries DEF IndexInv
<1>2. Used # {}
  <2> SUFFICES ASSUME Used = {} PROVE FALSE
    OBVIOUS
  <2>1. occupied = 0
    BY UsedEntries DEF IndexInv, TableInv, FiniteSetFacts, EmptySetFact
  <2> QED
    BY <2>1, CapacityAssumption DEF OverLoaded
<1>3. T \in SUBSET Nat /\ T # {}
  BY <1>1, <1>2 DEF Entry
<1>4. Lowest(T) \in T /\ \A n \in T : Lowest(T) <= n
  <2> HIDE DEF T
  <2> QED
    BY <1>3, LowestIsLeast
<1>5. PICK i \in Used : Lowest(T) = entries[i].last_access_ns
  BY Zenon, <1>4
<1>6. i \in oldest
  BY <1>4, <1>5
<1>7. oldest \in SUBSET Nat /\ oldest # {}
  BY <1>1, <1>6, CapacityAssumption DEF Positions
<1>8. find_lru_entry = Lowest(oldest)
  BY <1>6 DEF find_lru_entry
<1>9. Lowest(oldest) \in oldest
  <2> HIDE DEF oldest
  <2> QED
    BY <1>7, LowestIsLeast
<1> QED
  BY <1>8, <1>9

\* Whether an entry goes or not, the table is sound and not full after it.
LEMMA RoomMade ==
    ASSUME FiniteSetFacts, IndexInv
    PROVE  /\ TableInv(MakeRoom.arena, MakeRoom.entries, MakeRoom.occupied)
           /\ MakeRoom.occupied \in Nat /\ MakeRoom.occupied < Capacity
           /\ MakeRoom.arena.total_slots = arena.total_slots
<1>1. CASE OverLoaded
  <2>1. find_lru_entry \in UsedIn(entries)
    BY <1>1, OldestFound, UsedEntries
  <2>2. /\ MakeRoom.arena = ArenaFree(arena, entries[find_lru_entry].slot)
        /\ MakeRoom.entries = [entries EXCEPT ![find_lru_entry] = EMPTY]
        /\ MakeRoom.occupied = occupied - 1
    BY <1>1 DEF MakeRoom, Cut
  <2>3. /\ TableInv(MakeRoom.arena, MakeRoom.entries, MakeRoom.occupied)
        /\ MakeRoom.arena.total_slots = arena.total_slots
    BY <2>1, <2>2, CutKeeps DEF IndexInv
  <2>4. MakeRoom.occupied \in Nat /\ occupied \in Nat /\ occupied <= Capacity
    BY <2>3, TableTypes DEF IndexInv
  <2> QED
    BY <2>2, <2>3, <2>4, CapacityAssumption
<1>2. CASE ~OverLoaded
  <2>1. /\ MakeRoom.arena = arena /\ MakeRoom.entries = entries
        /\ MakeRoom.occupied = occupied
    BY <1>2 DEF MakeRoom, Uncut
  <2>2. occupied \in Nat
    BY TableTypes DEF IndexInv
  <2>3. occupied < Capacity
    BY <1>2, <2>2, CapacityAssumption DEF OverLoaded
  <2> QED
    BY <2>1, <2>2, <2>3 DEF IndexInv
<1> QED
  BY <1>1, <1>2

LEMMA RoomFound ==
    ASSUME FiniteSetFacts, IndexInv, NEW k \in Keys
    PROVE  FreeProbes(MakeRoom.entries, k) # {}
<1>1. /\ TableInv(MakeRoom.arena, MakeRoom.entries, MakeRoom.occupied)
      /\ MakeRoom.occupied # Capacity
  BY RoomMade, CapacityAssumption
<1>2. UsedIn(MakeRoom.entries) # Positions
  BY <1>1, TableTypes, PositionsFinite DEF TableInv
<1>3. PICK p \in Positions : MakeRoom.entries[p] = EMPTY
  BY <1>2 DEF UsedIn
<1>4. PICK i \in Positions : Probe(k, i) = p
  BY ProbeOnto
<1> QED
  BY <1>3, <1>4 DEF FreeProbes

-----------------------------------------------------------------------------
(* The calls.                                                              *)

\* What an insert that finds a block does.
LEMMA InsertFacts ==
    ASSUME FiniteSetFacts, IndexInv, NEW k \in Keys, NEW t \in Times, InsertStores(k, t)
    PROVE  \E p \in Positions, e \in Entry :
              /\ e = [hash |-> k, slot |-> result', last_access_ns |-> t]
              /\ MakeRoom.entries[p] = EMPTY
              /\ entries' = [MakeRoom.entries EXCEPT ![p] = e]
              /\ \E m \in Positions :
                    /\ p = Probe(k, m)
                    /\ \A i \in Positions : i < m => MakeRoom.entries[Probe(k, i)] # EMPTY
              /\ result' \in Slots(arena) \ HeldBy(MakeRoom.entries)
              /\ arena'.total_slots = arena.total_slots
              /\ TableInv(arena', entries', occupied')
<1> DEFINE a == MakeRoom.arena
           es == MakeRoom.entries
           free == FreeProbes(es, k)
           m == Lowest(free)
           p == Probe(k, m)
           slot == ArenaAlloc(a).slot
           e == [hash |-> k, slot |-> slot, last_access_ns |-> t]
<1>1. free # {}
  BY Zenon, RoomFound
<1>2. /\ slot # NoSlot /\ result' = slot
      /\ arena' = ArenaAlloc(a).arena
      /\ entries' = [es EXCEPT ![p] = e]
      /\ occupied' = MakeRoom.occupied + 1
  BY Zenon, <1>1 DEF InsertStores, Store
<1>3. /\ m \in Positions /\ p \in Positions /\ es[p] = EMPTY
      /\ \A i \in Positions : i < m => es[Probe(k, i)] # EMPTY
  BY <1>1, FirstFree
<1>4. TableInv(a, es, MakeRoom.occupied) /\ a.total_slots = arena.total_slots
  BY RoomMade
<1>5. t \in Nat
  BY MaxClockAssumption DEF Times
<1> HIDE DEF a, es, free, m
<1>6. /\ TableInv(ArenaAlloc(a).arena, [es EXCEPT ![p] = e], MakeRoom.occupied + 1)
      /\ slot \in Slots(a) \ HeldBy(es)
      /\ ArenaAlloc(a).arena.total_slots = a.total_slots
      /\ e \in Entry
  BY Zenon, <1>2, <1>3, <1>4, <1>5, StoreKeeps
<1>7. Slots(a) = Slots(arena)
  BY <1>4 DEF Slots
<1>8. TableInv(arena', entries', occupied')
  BY <1>2, <1>6
<1> QED
  BY Zenon, <1>2, <1>3, <1>4, <1>6, <1>7, <1>8 DEF es

\* An insert that finds no block had not given one up.
LEMMA InsertFailsFacts ==
    ASSUME FiniteSetFacts, IndexInv, NEW k \in Keys, InsertFails(k)
    PROVE  ~OverLoaded /\ UNCHANGED <<arena, entries, occupied>>
<1>1. ~OverLoaded
  <2> SUFFICES ASSUME OverLoaded PROVE FALSE
    OBVIOUS
  <2> DEFINE v == find_lru_entry
             es == [entries EXCEPT ![v] = EMPTY]
             a == ArenaFree(arena, entries[v].slot)
  <2>1. v \in UsedIn(entries)
    BY OldestFound, UsedEntries
  <2> HIDE DEF v
  <2>2. /\ TableInv(a, es, occupied - 1)
        /\ HeldBy(es) = HeldBy(entries) \ {entries[v].slot}
        /\ entries[v].slot \in HeldBy(entries)
        /\ a.total_slots = arena.total_slots
    <3>1. TableInv(a, es, occupied - 1)
      BY <2>1, CutKeeps DEF IndexInv
    <3>2. HeldBy(es) = HeldBy(entries) \ {entries[v].slot}
      BY <2>1, CutKeeps DEF IndexInv
    <3>3. entries[v].slot \in HeldBy(entries) /\ a.total_slots = arena.total_slots
      BY Zenon, <2>1, CutKeeps DEF IndexInv
    <3> QED
      BY Zenon, <3>1, <3>2, <3>3
  <2>3. MakeRoom.arena = a
    BY DEF MakeRoom, Cut, v
  <2> HIDE DEF es, a
  <2>4. Sound(a, HeldBy(es)) /\ HeldBy(entries) \in SUBSET Slots(arena)
    BY <2>2 DEF IndexInv, TableInv, Sound
  <2>5. Slots(a) = Slots(arena) /\ HeldBy(es) # Slots(a)
    BY <2>2, <2>4 DEF Slots
  <2>6. ArenaAlloc(a).slot \in Slots(a)
    BY Zenon, <2>4, <2>5, AllocKeeps
  <2>7. NoSlot \notin Slots(a)
    BY <2>4, SoundTypes DEF NoSlot
  <2> QED
    BY <2>3, <2>6, <2>7 DEF InsertFails
<1> QED
  BY <1>1 DEF InsertFails, MakeRoom, Uncut

\* A lookup changes the time of one entry only.
LEMMA LookupHitFacts ==
    ASSUME FiniteSetFacts, IndexInv, NEW k \in Keys, NEW t \in Times, LookupHit(k, t)
    PROVE  /\ entries' \in [Positions -> {EMPTY} \cup Entry]
           /\ UsedIn(entries') = UsedIn(entries)
           /\ \A i \in UsedIn(entries) : /\ entries'[i].slot = entries[i].slot
                                         /\ entries'[i].hash = entries[i].hash
           /\ HitPosition(k) \in UsedIn(entries) /\ entries[HitPosition(k)].hash = k
           /\ result' = entries[HitPosition(k)].slot
<1> DEFINE h == HitPosition(k)
           e == [entries[h] EXCEPT !.last_access_ns = t]
<1>1. h \in UsedIn(entries) /\ entries[h].hash = k
  BY HitFacts, UsedEntries DEF LookupHit
<1>2. entries[h] \in Entry /\ h \in Positions /\ entries \in [Positions -> {EMPTY} \cup Entry]
  BY <1>1, TableTypes DEF IndexInv, TableInv
<1>3. t \in Nat
  BY MaxClockAssumption DEF Times
<1>4. e \in Entry /\ e.slot = entries[h].slot /\ e.hash = entries[h].hash
  BY <1>2, <1>3 DEF Entry
<1>5. entries' = [entries EXCEPT ![h] = e] /\ result' = entries[h].slot
  BY DEF LookupHit
<1> HIDE DEF h, e
<1>6. entries' \in [Positions -> {EMPTY} \cup Entry]
      /\ \A i \in Positions : entries'[i] = IF i = h THEN e ELSE entries[i]
  BY <1>2, <1>4, <1>5
<1>7. UsedIn(entries') = UsedIn(entries)
  BY <1>1, <1>4, <1>6, EntryNotEmpty DEF UsedIn
<1>8. \A i \in UsedIn(entries) : /\ entries'[i].slot = entries[i].slot
                                 /\ entries'[i].hash = entries[i].hash
  BY <1>4, <1>6 DEF UsedIn
<1> QED
  BY <1>1, <1>5, <1>6, <1>7, <1>8 DEF h

\* An evict that hits gives up the entry of its key.
LEMMA EvictHitFacts ==
    ASSUME FiniteSetFacts, IndexInv, NEW k \in Keys, EvictHit(k)
    PROVE  \E v \in UsedIn(entries) :
              /\ entries[v].hash = k
              /\ entries' = [entries EXCEPT ![v] = EMPTY]
              /\ TableInv(arena', entries', occupied')
<1> DEFINE v == HitPosition(k)
<1>1. v \in UsedIn(entries) /\ entries[v].hash = k
  BY HitFacts, UsedEntries DEF EvictHit
<1>2. /\ arena' = ArenaFree(arena, entries[v].slot)
      /\ entries' = [entries EXCEPT ![v] = EMPTY] /\ occupied' = occupied - 1
  BY DEF EvictHit, Cut
<1> HIDE DEF v
<1>3. TableInv(ArenaFree(arena, entries[v].slot), [entries EXCEPT ![v] = EMPTY], occupied - 1)
  BY <1>1, CutKeeps DEF IndexInv
<1> QED
  BY Zenon, <1>1, <1>2, <1>3

LEMMA NextIndexInv ==
    ASSUME FiniteSetFacts, IndexInv, [Next]_vars
    PROVE  IndexInv'
<1> SUFFICES TableInv(arena', entries', occupied')
  BY DEF IndexInv
<1>1. ASSUME NEW k \in Keys, NEW t \in Times, LookupHit(k, t)
      PROVE  TableInv(arena', entries', occupied')
  <2>1. /\ entries' \in [Positions -> {EMPTY} \cup Entry]
        /\ UsedIn(entries') = UsedIn(entries)
        /\ \A i \in UsedIn(entries) : entries'[i].slot = entries[i].slot
    BY <1>1, LookupHitFacts
  <2>2. HeldBy(entries') = HeldBy(entries)
    BY <2>1 DEF HeldBy
  <2>3. arena' = arena /\ occupied' = occupied
    BY <1>1 DEF LookupHit
  <2> QED
    BY <2>1, <2>2, <2>3 DEF TableInv, IndexInv
<1>2. ASSUME NEW k \in Keys, NEW t \in Times, InsertStores(k, t)
      PROVE  TableInv(arena', entries', occupied')
  BY <1>2, InsertFacts
<1>3. ASSUME NEW k \in Keys, InsertFails(k) PROVE TableInv(arena', entries', occupied')
  BY <1>3, InsertFailsFacts DEF IndexInv
<1>4. ASSUME NEW k \in Keys, EvictHit(k) PROVE TableInv(arena', entries', occupied')
  BY <1>4, EvictHitFacts
<1>5. ASSUME NEW k \in Keys, LookupMiss(k) \/ EvictMiss(k)
      PROVE  TableInv(arena', entries', occupied')
  BY <1>5 DEF LookupMiss, EvictMiss, index, IndexInv
<1>6. CASE UNCHANGED vars
  BY <1>6 DEF vars, index, IndexInv
<1> QED
  BY <1>1, <1>2, <1>3, <1>4, <1>5, <1>6 DEF Next

\* The probe of a key that was just stored stops where it was stored.
LEMMA StoredIsFound ==
    ASSUME FiniteSetFacts, IndexInv, NEW k \in Keys, NEW t \in Times, InsertStores(k, t)
    PROVE  Hit(k)'
<1>1. PICK p \in Positions, e \in Entry :
          /\ e = [hash |-> k, slot |-> result', last_access_ns |-> t]
          /\ MakeRoom.entries[p] = EMPTY
          /\ entries' = [MakeRoom.entries EXCEPT ![p] = e]
          /\ \E m \in Positions :
                /\ p = Probe(k, m)
                /\ \A i \in Positions : i < m => MakeRoom.entries[Probe(k, i)] # EMPTY
  BY InsertFacts
<1>2. PICK m \in Positions :
          /\ p = Probe(k, m)
          /\ \A i \in Positions : i < m => MakeRoom.entries[Probe(k, i)] # EMPTY
  BY <1>1
<1>3. MakeRoom.entries \in [Positions -> {EMPTY} \cup Entry]
  BY RoomMade DEF TableInv
<1>4. \A i \in Positions : entries'[i] = IF i = p THEN e ELSE MakeRoom.entries[i]
  BY <1>1, <1>3
<1>5. \A i \in Positions : i \in Nat /\ i < Capacity /\ Probe(k, i) \in Positions
  BY ProbeType, CapacityAssumption DEF Positions
<1>6. e # EMPTY /\ e.hash = k
  BY <1>1, EntryNotEmpty
<1>7. \A i \in Positions : i <= m => entries'[Probe(k, i)] # EMPTY
  BY <1>2, <1>4, <1>5, <1>6
<1>8. StopsAt(k, m)'
  BY <1>2, <1>4, <1>6 DEF StopsAt, Probe, hash_to_bucket
<1> DEFINE n == Steps(k)'
<1>9. n \in Positions \cup {Capacity} /\ n <= m
  <2> DEFINE S == {i \in Positions : StopsAt(k, i)'} \cup {Capacity}
  <2>1. S \in SUBSET Nat /\ S # {} /\ n = Lowest(S)
    BY <1>5, CapacityAssumption DEF Steps
  <2> HIDE DEF S, n
  <2>2. n \in S /\ \A i \in S : n <= i
    BY <2>1, LowestIsLeast
  <2> QED
    BY <1>8, <2>2 DEF S
<1> HIDE DEF n
<1>10. n \in Positions
  BY <1>5, <1>9, CapacityAssumption
<1> QED
  BY <1>5, <1>7, <1>9, <1>10 DEF Hit, Empty, n, Probe, hash_to_bucket

-----------------------------------------------------------------------------

\* What making room leaves is as it was.
LEMMA RoomKept ==
    ASSUME IndexInv, NEW i \in Positions, MakeRoom.entries[i] # EMPTY
    PROVE  MakeRoom.entries[i] = entries[i]
<1>1. entries \in [Positions -> {EMPTY} \cup Entry]
  BY DEF IndexInv, TableInv
<1>2. CASE OverLoaded
  <2>1. MakeRoom.entries = [entries EXCEPT ![find_lru_entry] = EMPTY]
    BY <1>2 DEF MakeRoom, Cut
  <2> QED
    BY <1>1, <2>1
<1>3. CASE ~OverLoaded
  BY <1>3 DEF MakeRoom, Uncut
<1> QED
  BY <1>2, <1>3

\* What MakeRoom leaves at each position.
LEMMA RoomEntries ==
    ASSUME IndexInv, NEW i \in Positions
    PROVE  \/ MakeRoom.entries[i] = entries[i]
           \/ OverLoaded /\ i = find_lru_entry
<1>1. entries \in [Positions -> {EMPTY} \cup Entry]
  BY DEF IndexInv, TableInv
<1>2. CASE OverLoaded
  <2>1. MakeRoom.entries = [entries EXCEPT ![find_lru_entry] = EMPTY]
    BY <1>2 DEF MakeRoom, Cut
  <2> QED
    BY <1>1, <1>2, <2>1
<1>3. CASE ~OverLoaded
  BY <1>3 DEF MakeRoom, Uncut
<1> QED
  BY <1>2, <1>3

-----------------------------------------------------------------------------
(* The refinement of LossyCache.                                           *)

StoreOf(es) == {<<es[i].hash, es[i].slot>> : i \in UsedIn(es)}

LEMMA StoredEntries == Stored = StoreOf(entries)
BY UsedEntries DEF Stored, StoreOf

LEMMA StoreWithout ==
    ASSUME FiniteSetFacts, NEW a, NEW es, NEW occ, TableInv(a, es, occ), NEW v \in UsedIn(es)
    PROVE  StoreOf([es EXCEPT ![v] = EMPTY]) = StoreOf(es) \ {<<es[v].hash, es[v].slot>>}
<1> DEFINE new == [es EXCEPT ![v] = EMPTY]
<1>1. UsedIn(new) = UsedIn(es) \ {v}
  BY CutKeeps
<1>2. \A i \in UsedIn(es) \ {v} : new[i] = es[i] /\ es[i].slot # es[v].slot
  BY DEF TableInv, UsedIn
<1> HIDE DEF new
<1>3. ASSUME NEW x \in StoreOf(new) PROVE x \in StoreOf(es) \ {<<es[v].hash, es[v].slot>>}
  BY <1>1, <1>2 DEF StoreOf
<1>4. ASSUME NEW x \in StoreOf(es) \ {<<es[v].hash, es[v].slot>>} PROVE x \in StoreOf(new)
  BY <1>1, <1>2 DEF StoreOf
<1>5. StoreOf(new) = StoreOf(es) \ {<<es[v].hash, es[v].slot>>}
  BY <1>3, <1>4
<1> QED
  BY Zenon, <1>5 DEF new

LEMMA StoreWith ==
    ASSUME NEW es \in [Positions -> {EMPTY} \cup Entry], NEW p \in Positions,
           es[p] = EMPTY, NEW e \in Entry
    PROVE  StoreOf([es EXCEPT ![p] = e]) = StoreOf(es) \cup {<<e.hash, e.slot>>}
<1> DEFINE new == [es EXCEPT ![p] = e]
<1>1. \A i \in Positions : new[i] = IF i = p THEN e ELSE es[i]
  OBVIOUS
<1> HIDE DEF new
<1>2. UsedIn(new) = UsedIn(es) \cup {p} /\ new[p] = e
      /\ \A i \in UsedIn(es) : new[i] = es[i]
  BY <1>1, EntryNotEmpty DEF UsedIn
<1>3. ASSUME NEW x \in StoreOf(new) PROVE x \in StoreOf(es) \cup {<<e.hash, e.slot>>}
  BY <1>2 DEF StoreOf
<1>4. ASSUME NEW x \in StoreOf(es) \cup {<<e.hash, e.slot>>} PROVE x \in StoreOf(new)
  BY <1>2 DEF StoreOf
<1>5. StoreOf(new) = StoreOf(es) \cup {<<e.hash, e.slot>>}
  BY <1>3, <1>4
<1> QED
  BY Zenon, <1>5 DEF new

\* The store has a pair for each position in use.
LEMMA StoreCount ==
    ASSUME FiniteSetFacts, NEW a, NEW es, NEW occ, TableInv(a, es, occ)
    PROVE  Cardinality(StoreOf(es)) = occ
<1> DEFINE f == [i \in UsedIn(es) |-> <<es[i].hash, es[i].slot>>]
<1>1. f \in [UsedIn(es) -> StoreOf(es)]
  BY DEF StoreOf
<1>2. \A i, j \in UsedIn(es) : f[i] = f[j] => i = j
  BY DEF TableInv
<1>3. \A s \in StoreOf(es) : \E i \in UsedIn(es) : f[i] = s
  BY DEF StoreOf
<1>4. Cardinality(StoreOf(es)) = Cardinality(UsedIn(es))
  <2> HIDE DEF f
  <2>1. IsFiniteSet(UsedIn(es))
    BY TableTypes
  <2> QED
    BY Zenon, <1>1, <1>2, <1>3, <2>1 DEF FiniteSetFacts, BijectionFact
<1> QED
  BY <1>4 DEF TableInv

CacheVars == <<Stored, op, result>>

\* The slots of the arena and of the entries are blocks of the cache.
LEMMA SlotsAreBlocks ==
    ASSUME IndexInv
    PROVE  /\ Slots(arena) \subseteq Blocks
           /\ \A i \in UsedIn(entries) : entries[i].slot \in Slots(arena)
<1>1. arena.total_slots \in ArenaSizes
  BY DEF IndexInv, TableInv, Sound, ArenaShape
<1>2. HeldBy(entries) \in SUBSET Slots(arena)
  BY DEF IndexInv, TableInv, Sound
<1> QED
  BY <1>1, <1>2 DEF Slots, HeldBy, Blocks

LEMMA LookupImplements ==
    ASSUME FiniteSetFacts, IndexInv, NEW k \in Keys, NEW t \in Times, LookupHit(k, t) \/ LookupMiss(k)
    PROVE  Cache!Lookup(k)
<1>1. CASE LookupHit(k, t)
  <2> DEFINE h == HitPosition(k)
  <2>1. /\ UsedIn(entries') = UsedIn(entries)
        /\ \A i \in UsedIn(entries) : /\ entries'[i].slot = entries[i].slot
                                      /\ entries'[i].hash = entries[i].hash
        /\ h \in UsedIn(entries) /\ entries[h].hash = k
        /\ result' = entries[h].slot
    BY <1>1, LookupHitFacts
  <2> HIDE DEF h
  <2>2. Stored' = Stored
    <3>1. StoreOf(entries') = StoreOf(entries)
      BY <2>1 DEF StoreOf
    <3>2. Stored' = StoreOf(entries')
      BY DEF Stored, StoreOf, Used, UsedIn, Empty
    <3> QED
      BY <3>1, <3>2, StoredEntries
  <2>3. <<k, result'>> \in Stored
    BY <2>1, StoredEntries DEF StoreOf
  <2>4. result' \in Blocks
    BY <2>1, SlotsAreBlocks
  <2>5. op' = Cache!Call("lookup", k)
    BY <1>1 DEF LookupHit, Call, Cache!Call
  <2> QED
    BY <2>2, <2>3, <2>4, <2>5 DEF Cache!Lookup
<1>2. CASE LookupMiss(k)
  <2>1. entries' = entries /\ op' = Call("lookup", k) /\ result' = NoSlot
    BY <1>2 DEF LookupMiss, index
  <2>2. Stored' = Stored
    BY <2>1 DEF Stored, Used, Empty
  <2> QED
    BY <2>1, <2>2 DEF Cache!Lookup, Cache!Call, Call
<1> QED
  BY <1>1, <1>2

\* Stored' in terms of the table.
LEMMA StoredAfter == Stored' = StoreOf(entries')
BY DEF Stored, StoreOf, Used, UsedIn, Empty

LEMMA InsertImplements ==
    ASSUME FiniteSetFacts, IndexInv, NEW k \in Keys, NEW t \in Times, InsertStores(k, t)
    PROVE  Cache!InsertStores(k)
<1>1. PICK p \in Positions, e \in Entry :
          /\ e = [hash |-> k, slot |-> result', last_access_ns |-> t]
          /\ MakeRoom.entries[p] = EMPTY
          /\ entries' = [MakeRoom.entries EXCEPT ![p] = e]
          /\ \E m \in Positions :
                /\ p = Probe(k, m)
                /\ \A i \in Positions : i < m => MakeRoom.entries[Probe(k, i)] # EMPTY
          /\ result' \in Slots(arena) \ HeldBy(MakeRoom.entries)
          /\ arena'.total_slots = arena.total_slots
          /\ TableInv(arena', entries', occupied')
  BY Zenon, InsertFacts
<1> DEFINE es == MakeRoom.entries
<1>2. es \in [Positions -> {EMPTY} \cup Entry]
  BY RoomMade DEF TableInv
<1>3. Stored' = StoreOf(es) \cup {<<k, result'>>}
  <2>1. StoreOf(entries') = StoreOf(es) \cup {<<e.hash, e.slot>>}
    BY <1>1, <1>2, StoreWith
  <2>2. e.hash = k /\ e.slot = result'
    BY Zenon, <1>1
  <2> QED
    BY <2>1, <2>2, StoredAfter
<1> HIDE DEF es
<1>4. PICK cut : /\ cut \in {{}} \cup Cache!MayGiveUp
                 /\ StoreOf(es) = Stored \ cut
  <2>1. CASE OverLoaded
    <3> DEFINE v == find_lru_entry
               pair == <<entries[v].hash, entries[v].slot>>
    <3>1. v \in UsedIn(entries)
      BY <2>1, OldestFound, UsedEntries
    <3>2. es = [entries EXCEPT ![v] = EMPTY]
      BY <2>1 DEF MakeRoom, Cut, es
    <3> HIDE DEF v
    <3>3. StoreOf(es) = Stored \ {pair} /\ pair \in Stored
      BY ZenonT(30), <3>1, <3>2, StoreWithout, StoredEntries DEF IndexInv, StoreOf
    <3>4. Cardinality(Stored) = occupied /\ occupied \in Nat
      BY StoreCount, StoredEntries, TableTypes DEF IndexInv
    <3>5. Cardinality(Stored) >= (17 * Capacity + 19) \div 20
      BY <2>1, <3>4, CapacityAssumption DEF OverLoaded
    <3> HIDE DEF pair
    <3>6. {pair} \in {{x} : x \in Stored}
      BY <3>3
    <3>7. Cache!Cardinality(Stored) = Cardinality(Stored)
      BY DEF Cardinality, Cache!Cardinality
    <3>8. {pair} \in Cache!MayGiveUp
      BY <3>5, <3>6, <3>7 DEF Cache!MayGiveUp
    <3> QED
      BY <3>3, <3>8
  <2>2. CASE ~OverLoaded
    <3>1. es = entries
      BY <2>2 DEF MakeRoom, Uncut, es
    <3>2. StoreOf(es) = Stored \ {}
      BY <3>1, StoredEntries
    <3> QED
      BY Zenon, <3>2
  <2> QED
    BY Zenon, <2>1, <2>2
<1>5. result' \notin Cache!BlocksIn(Stored \ cut)
  <2> SUFFICES ASSUME NEW x \in StoreOf(es), x[2] = result' PROVE FALSE
    BY <1>4 DEF Cache!BlocksIn
  <2>1. PICK i \in UsedIn(es) : x = <<es[i].hash, es[i].slot>>
    BY DEF StoreOf
  <2>2. result' \in HeldBy(es)
    BY <2>1 DEF HeldBy
  <2> QED
    BY <1>1, <2>2 DEF es
<1>6. result' \in Blocks
  BY <1>1, SlotsAreBlocks
<1>7. op' = Cache!Call("insert", k)
  BY DEF InsertStores, Call, Cache!Call
<1> QED
  BY Zenon, <1>3, <1>4, <1>5, <1>6, <1>7 DEF Cache!InsertStores

LEMMA EvictImplements ==
    ASSUME FiniteSetFacts, IndexInv, NEW k \in Keys, EvictHit(k) \/ EvictMiss(k)
    PROVE  Cache!Evict(k)
<1>1. CASE EvictHit(k)
  <2>1. PICK v \in UsedIn(entries) :
            entries[v].hash = k /\ entries' = [entries EXCEPT ![v] = EMPTY]
    BY <1>1, EvictHitFacts
  <2> DEFINE b == entries[v].slot
  <2>2. StoreOf(entries') = StoreOf(entries) \ {<<k, b>>}
    BY Zenon, <2>1, StoreWithout DEF IndexInv
  <2>3. Stored' = Stored \ {<<k, b>>} /\ <<k, b>> \in Stored
    BY Zenon, <2>1, <2>2, StoredEntries, StoredAfter DEF StoreOf
  <2>4. b \in Blocks
    BY <2>1, SlotsAreBlocks
  <2>5. op' = Cache!Call("evict", k) /\ result' = 1
    BY <1>1 DEF EvictHit, Call, Cache!Call
  <2> HIDE DEF b
  <2> QED
    BY <2>3, <2>4, <2>5 DEF Cache!Evict
<1>2. CASE EvictMiss(k)
  <2>1. entries' = entries /\ op' = Call("evict", k) /\ result' = 0
    BY <1>2 DEF EvictMiss, index
  <2>2. Stored' = Stored
    BY <2>1 DEF Stored, Used, Empty
  <2> QED
    BY <2>1, <2>2 DEF Cache!Evict, Cache!Call, Call
<1> QED
  BY <1>1, <1>2

-----------------------------------------------------------------------------
(* The theorems.                                                           *)

INSTANCE FiniteSetTheorems
INSTANCE WellFoundedInduction

LEMMA FactsHold == FiniteSetFacts
<1>1. IsFiniteSet({}) /\ Cardinality({}) = 0
  BY FS_EmptySet
<1>2. ASSUME NEW S, IsFiniteSet(S)
      PROVE  /\ Cardinality(S) \in Nat
             /\ \A T \in SUBSET S : /\ IsFiniteSet(T) /\ Cardinality(T) <= Cardinality(S)
                                    /\ Cardinality(T) = Cardinality(S) => T = S
  BY <1>2, FS_CardinalityType, FS_Subset
<1>3. ASSUME NEW S, NEW x, IsFiniteSet(S)
      PROVE  /\ x \notin S => Cardinality(S \cup {x}) = Cardinality(S) + 1
             /\ x \in S => Cardinality(S \ {x}) = Cardinality(S) - 1
  BY <1>3, FS_AddElement, FS_RemoveElement
<1>4. ASSUME NEW n \in Nat
      PROVE  IsFiniteSet(0 .. n - 1) /\ Cardinality(0 .. n - 1) = n
  <2>1. 0 \in Int /\ n - 1 \in Int
    OBVIOUS
  <2>2. IsFiniteSet(0 .. n - 1)
        /\ Cardinality(0 .. n - 1) = IF 0 > n - 1 THEN 0 ELSE (n - 1) - 0 + 1
    BY <2>1, FS_Interval
  <2> QED
    BY <2>2
<1>5. ASSUME NEW S, NEW T, NEW f \in [S -> T], IsFiniteSet(S),
             \A x, y \in S : f[x] = f[y] => x = y,
             \A z \in T : \E x \in S : f[x] = z
      PROVE  Cardinality(T) = Cardinality(S)
  <2>1. f \in Bijection(S, T)
    BY <1>5 DEF Bijection, Injection, Surjection, IsInjective
  <2>2. ExistsBijection(S, T)
    BY <2>1 DEF ExistsBijection
  <2> QED
    BY <1>5, <2>2, FS_Bijection
<1>6. ASSUME NEW S \in SUBSET Nat, S # {}
      PROVE  \E m \in S : \A n \in S : m <= n
  <2>1. \E x \in S : \A y \in S : ~(<<y, x>> \in OpToRel(<, Nat))
    BY <1>6, NatLessThanWellFounded, WFMin, Zenon
  <2>2. \A x, y \in Nat : y < x => <<y, x>> \in OpToRel(<, Nat)
    BY DEF OpToRel
  <2>3. \A x, y \in S : x \in Nat /\ y \in Nat /\ (~(y < x) => x <= y)
    OBVIOUS
  <2> QED
    BY <2>1, <2>2, <2>3, Zenon
<1>7. EmptySetFact /\ SubsetFact
  BY Zenon, <1>1, <1>2 DEF EmptySetFact, SubsetFact
<1>8. ElementFact
  BY Zenon, <1>3 DEF ElementFact
<1>9. IntervalFact
  BY Zenon, <1>4 DEF IntervalFact
<1>10. BijectionFact
  BY Zenon, <1>5 DEF BijectionFact
<1>11. LeastFact
  BY Zenon, <1>6 DEF LeastFact
<1> QED
  BY <1>7, <1>8, <1>9, <1>10, <1>11 DEF FiniteSetFacts

USE FactsHold

LEMMA ArenaAlwaysSound == ArenaSpec => []ArenaInv
<1>1. ArenaInit => ArenaInv
  BY FreshSound DEF ArenaInit, ArenaInv
<1> QED
  BY <1>1, NextArenaInv, PTL DEF ArenaSpec

(* The hint of kllm_arena_alloc stays inside the bitmap and no bit beyond  *)
(* total_slots is ever set, whatever is allocated and freed.               *)
THEOREM ArenaTypeCorrect == ArenaSpec => []ArenaTypeOK
<1>1. ArenaInv => ArenaTypeOK
  BY DEF ArenaInv, Sound, ArenaTypeOK
<1> QED
  BY <1>1, ArenaAlwaysSound, PTL

(* kllm_arena_alloc and kllm_arena_free lose no slot: the bitmap is the    *)
(* complement of what clients hold and used_slots counts it.               *)
THEOREM NoSlotLost == ArenaSpec => []BitmapMatchesLive
<1>1. ArenaInv => BitmapMatchesLive
  <2> SUFFICES ASSUME ArenaInv PROVE BitmapMatchesLive
    OBVIOUS
  <2>1. FreeSlots(arena) = Slots(arena) \ live
    BY SlotHasBit DEF FreeSlots, ArenaInv
  <2> QED
    BY <2>1 DEF ArenaInv, Sound, BitmapMatchesLive
<1> QED
  BY <1>1, ArenaAlwaysSound, PTL

(* kllm_arena_alloc never hands out a slot that is held, and returns NULL  *)
(* only when all are held: its scan from the hint misses nothing.          *)
THEOREM AllocSound == ArenaSpec => []AllocIsFresh
<1>1. ArenaInv => AllocIsFresh
  <2> SUFFICES ASSUME ArenaInv PROVE AllocIsFresh
    OBVIOUS
  <2>1. NoSlot \notin Slots(arena) /\ live \subseteq Slots(arena)
    BY SoundTypes DEF NoSlot, ArenaInv, Sound
  <2>2. CASE ArenaAlloc(arena) = [arena |-> arena, slot |-> NoSlot] /\ live = Slots(arena)
    BY <2>1, <2>2 DEF AllocIsFresh
  <2>3. CASE ArenaAlloc(arena).slot \in Slots(arena) \ live
    BY <2>1, <2>3 DEF AllocIsFresh
  <2> QED
    BY Zenon, <2>2, <2>3, AllocKeeps DEF ArenaInv
<1> QED
  BY <1>1, ArenaAlwaysSound, PTL

(* No free bit lies below the hint, so kllm_arena_alloc takes the lowest   *)
(* free slot of the arena.                                                 *)
THEOREM HintSound == ArenaSpec => []NothingFreeBelowHint
<1>1. ArenaInv => NothingFreeBelowHint
  <2> SUFFICES ASSUME ArenaInv PROVE NothingFreeBelowHint
    OBVIOUS
  <2>1. NonZero(arena, 0, arena.hint) = {}
    BY DEF NonZero, ArenaInv, Sound
  <2>2. ASSUME live # Slots(arena)
        PROVE  ArenaAlloc(arena).slot = Lowest(Slots(arena) \ live)
    <3>1. /\ ArenaAlloc(arena).slot \in Slots(arena) \ live
          /\ \A slot \in Slots(arena) \ live : ArenaAlloc(arena).slot <= slot
      BY Zenon, <2>2, AllocKeeps DEF ArenaInv
    <3>2. Slots(arena) \ live \in SUBSET Nat
      BY SoundTypes DEF ArenaInv
    <3> QED
      BY <3>1, <3>2, LowestUnique
  <2> QED
    BY <2>1, <2>2 DEF NothingFreeBelowHint
<1> QED
  BY <1>1, ArenaAlwaysSound, PTL

LEMMA IndexAlwaysSound == Spec => []IndexInv
<1>1. Init => IndexInv
  <2> SUFFICES ASSUME NEW n \in ArenaSizes, arena = FreshArena(n),
                      entries = [i \in Positions |-> EMPTY], occupied = 0
               PROVE  IndexInv
    BY DEF Init
  <2>1. UsedIn(entries) = {} /\ HeldBy(entries) = {}
    BY DEF UsedIn, HeldBy
  <2>2. Sound(arena, {})
    BY FreshSound
  <2> QED
    BY <2>1, <2>2 DEF IndexInv, TableInv, FiniteSetFacts, EmptySetFact
<1> QED
  BY <1>1, NextIndexInv, PTL DEF Spec

(* Entries and arena agree after any sequence of kllm_index_lookup,        *)
(* kllm_index_insert and kllm_index_evict: no block is leaked, shared or   *)
(* both free and in the table, and both counters are right.                *)
THEOREM IndexOwnsItsBlocks == Spec => []EntriesOwnSlots
<1>1. IndexInv => EntriesOwnSlots
  <2> SUFFICES ASSUME IndexInv PROVE EntriesOwnSlots
    OBVIOUS
  <2>1. Sound(arena, SlotsHeld) /\ SlotsHeld \in SUBSET Slots(arena)
    BY UsedEntries DEF IndexInv, TableInv, Sound
  <2>2. FreeSlots(arena) = Slots(arena) \ SlotsHeld
    BY <2>1, SlotHasBit DEF FreeSlots
  <2>3. SlotsHeld = Slots(arena) \ FreeSlots(arena)
    BY <2>1, <2>2
  <2>4. arena.used = occupied
    BY HeldCount DEF IndexInv
  <2> QED
    BY <2>3, <2>4, UsedEntries DEF EntriesOwnSlots, IndexInv, TableInv
<1> QED
  BY <1>1, IndexAlwaysSound, PTL

(* The end of kllm_index_insert, "Shouldn't reach here after eviction", is *)
(* not reached: the load test leaves an empty position, and a linear probe *)
(* visits every position.                                                  *)
THEOREM InsertAlwaysFindsRoom == Spec => []InsertFindsRoom
<1>1. IndexInv => InsertFindsRoom
  BY RoomFound DEF InsertFindsRoom
<1> QED
  BY <1>1, IndexAlwaysSound, PTL

(* A key is found right after kllm_index_insert stored it: no position     *)
(* before the one it took is empty, even when the insert evicted an entry. *)
THEOREM InsertedKeyIsFound == Spec => []InsertedIsFound
<1>1. Init => InsertedIsFound
  BY DEF Init, InsertedIsFound
<1>2. IndexInv /\ InsertedIsFound /\ [Next]_vars => InsertedIsFound'
  <2> SUFFICES ASSUME IndexInv, InsertedIsFound, [Next]_vars PROVE InsertedIsFound'
    OBVIOUS
  <2>2. ASSUME NEW k \in Keys, NEW t \in Times, InsertStores(k, t) PROVE InsertedIsFound'
    <3>1. op' = [name |-> "insert", key |-> k] /\ Hit(k)'
      BY <2>2, StoredIsFound DEF InsertStores, Call
    <3> QED
      BY <3>1 DEF InsertedIsFound
  <2>3. ASSUME NEW k \in Keys,
               \/ \E t \in Times : LookupHit(k, t)
               \/ LookupMiss(k) \/ EvictHit(k) \/ EvictMiss(k)
        PROVE  InsertedIsFound'
    <3>1. op'.name # "insert"
      BY <2>3 DEF LookupHit, LookupMiss, EvictHit, EvictMiss, Call
    <3> QED
      BY <3>1 DEF InsertedIsFound
  <2>4. ASSUME NEW k \in Keys, InsertFails(k) PROVE InsertedIsFound'
    BY <2>4 DEF InsertFails, InsertedIsFound
  <2>5. CASE UNCHANGED vars
    BY <2>5 DEF vars, index, InsertedIsFound, Hit, Steps, StopsAt, Empty, Probe
  <2> QED
    BY <2>2, <2>3, <2>4, <2>5 DEF Next
<1> QED
  BY <1>1, <1>2, IndexAlwaysSound, PTL DEF Spec

\* The time of an entry is the time its block was last given to a caller.
UseInv ==
    \A i \in UsedIn(entries) :
        /\ entries[i].slot \in Blocks
        /\ used_at[entries[i].slot] = entries[i].last_access_ns

LEMMA HeldAreBlocks ==
    ASSUME IndexInv
    PROVE  Slots(arena) \subseteq Blocks /\ NoSlot \notin Blocks
<1>1. arena.total_slots \in ArenaSizes
  BY DEF IndexInv, TableInv, Sound, ArenaShape
<1>2. Slots(arena) \in {0 .. n - 1 : n \in ArenaSizes}
  BY Zenon, <1>1 DEF Slots
<1>3. Slots(arena) \subseteq Blocks
  BY Zenon, <1>2 DEF Blocks
<1>4. ASSUME NoSlot \in Blocks PROVE FALSE
  <2>1. PICK n \in ArenaSizes : NoSlot \in 0 .. n - 1
    BY Zenon, <1>4 DEF Blocks
  <2> QED
    BY <2>1 DEF NoSlot
<1> QED
  BY <1>3, <1>4

\* A step that gives no block and leaves the entries it keeps as they are.
LEMMA UnusedKeeps ==
    ASSUME UseInv, RecordUse, \A s \in Blocks : ~Given(s),
           \A i \in UsedIn(entries') : i \in UsedIn(entries) /\ entries'[i] = entries[i]
    PROVE  UseInv'
<1>1. \A s \in Blocks : used_at'[s] = used_at[s]
  BY Zenon DEF RecordUse
<1> SUFFICES ASSUME NEW i \in UsedIn(entries')
             PROVE  /\ entries'[i].slot \in Blocks
                    /\ used_at'[entries'[i].slot] = entries'[i].last_access_ns
  BY Zenon DEF UseInv, UsedIn
<1> QED
  BY Zenon, <1>1 DEF UseInv

\* A step that gives the block of position p at time t, and leaves the others.
LEMMA UseKeeps ==
    ASSUME UseInv, RecordUse, NEW p, NEW t, clock' = t,
           op'.name \in {"lookup", "insert"},
           p \in UsedIn(entries'), entries'[p].slot = result', result' \in Blocks,
           entries'[p].last_access_ns = t,
           \A i, j \in UsedIn(entries') : entries'[i].slot = entries'[j].slot => i = j,
           \A i \in UsedIn(entries') : i # p => i \in UsedIn(entries) /\ entries'[i] = entries[i]
    PROVE  UseInv'
<1> SUFFICES ASSUME NEW i \in UsedIn(entries')
             PROVE  /\ entries'[i].slot \in Blocks
                    /\ used_at'[entries'[i].slot] = entries'[i].last_access_ns
  BY Zenon DEF UseInv, UsedIn
<1>1. CASE i = p
  BY Zenon, <1>1 DEF RecordUse, Given
<1>2. CASE i # p
  <2>1. entries'[i].slot \in Blocks /\ used_at[entries'[i].slot] = entries'[i].last_access_ns
    BY Zenon, <1>2 DEF UseInv
  <2>2. ~Given(entries'[i].slot)
    BY Zenon, <1>2 DEF Given
  <2> QED
    BY Zenon, <2>1, <2>2 DEF RecordUse
<1> QED
  BY <1>1, <1>2

LEMMA NextUseInv ==
    ASSUME FiniteSetFacts, IndexInv, UseInv, [Next]_vars
    PROVE  UseInv'
<1>1. ASSUME RecordUse, NEW k \in Keys, NEW t \in Times, LookupHit(k, t)
      PROVE  UseInv'
  <2> DEFINE h == HitPosition(k)
  <2>1. /\ entries' \in [Positions -> {EMPTY} \cup Entry]
        /\ UsedIn(entries') = UsedIn(entries)
        /\ h \in UsedIn(entries)
        /\ result' = entries[h].slot /\ entries'[h].slot = entries[h].slot
        /\ \A i \in UsedIn(entries) : entries'[i].slot = entries[i].slot
    BY <1>1, LookupHitFacts
  <2>2. clock' = t /\ op'.name = "lookup"
        /\ entries' = [entries EXCEPT ![h].last_access_ns = t]
    BY <1>1 DEF LookupHit, NowNs, Call
  <2> HIDE DEF h
  <2>3. entries \in [Positions -> {EMPTY} \cup Entry]
        /\ \A i, j \in UsedIn(entries) : entries[i].slot = entries[j].slot => i = j
    BY DEF IndexInv, TableInv
  <2>4. h \in Positions /\ entries[h] \in Entry
    BY <2>1, <2>3 DEF UsedIn
  <2>5. entries'[h].last_access_ns = t
        /\ \A i \in UsedIn(entries) : i # h => entries'[i] = entries[i]
    BY <2>2, <2>3, <2>4 DEF Entry, UsedIn
  <2>6. \A i, j \in UsedIn(entries') : entries'[i].slot = entries'[j].slot => i = j
    BY Zenon, <2>1, <2>3
  <2>7. result' \in Blocks
    BY Zenon, <2>1 DEF UseInv
  <2> QED
    BY Zenon, <1>1, <2>1, <2>2, <2>5, <2>6, <2>7, UseKeeps
<1>2. ASSUME RecordUse, NEW k \in Keys, NEW t \in Times, InsertStores(k, t)
      PROVE  UseInv'
  <2>1. PICK p \in Positions, e \in Entry :
            /\ e = [hash |-> k, slot |-> result', last_access_ns |-> t]
            /\ entries' = [MakeRoom.entries EXCEPT ![p] = e]
            /\ result' \in Slots(arena)
            /\ TableInv(arena', entries', occupied')
    BY <1>2, InsertFacts
  <2>2. clock' = t /\ op'.name = "insert"
    BY <1>2 DEF InsertStores, NowNs, Call
  <2>3. MakeRoom.entries \in [Positions -> {EMPTY} \cup Entry]
    BY RoomMade DEF TableInv
  <2>4. entries'[p] = e /\ \A i \in Positions : i # p => entries'[i] = MakeRoom.entries[i]
    BY <2>1, <2>3
  <2>5. p \in UsedIn(entries')
    BY <2>4, EntryNotEmpty DEF UsedIn
  <2>6. e.slot = result' /\ e.last_access_ns = t
    BY <2>1
  <2>7. result' \in Blocks
    BY Zenon, <2>1, HeldAreBlocks
  <2>8. \A i, j \in UsedIn(entries') : entries'[i].slot = entries'[j].slot => i = j
    BY Zenon, <2>1 DEF TableInv
  <2>9. ASSUME NEW i \in UsedIn(entries'), i # p
        PROVE  i \in UsedIn(entries) /\ entries'[i] = entries[i]
    <3>1. i \in Positions /\ entries'[i] # EMPTY /\ entries'[i] = MakeRoom.entries[i]
      BY Zenon, <2>4, <2>9 DEF UsedIn
    <3>2. MakeRoom.entries[i] = entries[i]
      BY Zenon, <3>1, RoomKept
    <3> QED
      BY Zenon, <3>1, <3>2 DEF UsedIn
  <2> QED
    BY Zenon, <1>2, <2>2, <2>4, <2>5, <2>6, <2>7, <2>8, <2>9, UseKeeps
<1>3. ASSUME RecordUse, NEW k \in Keys, InsertFails(k) PROVE UseInv'
  <2>1. entries' = entries /\ result' = NoSlot
    BY <1>3, InsertFailsFacts DEF InsertFails
  <2> QED
    BY Zenon, <1>3, <2>1, HeldAreBlocks, UnusedKeeps DEF Given
<1>4. ASSUME RecordUse, NEW k \in Keys, EvictHit(k) PROVE UseInv'
  <2>1. PICK v \in UsedIn(entries) : entries' = [entries EXCEPT ![v] = EMPTY]
    BY <1>4, EvictHitFacts
  <2>2. entries \in [Positions -> {EMPTY} \cup Entry]
    BY DEF IndexInv, TableInv
  <2>3. \A i \in UsedIn(entries') : i \in UsedIn(entries) /\ entries'[i] = entries[i]
    BY <2>1, <2>2 DEF UsedIn
  <2>4. op'.name = "evict"
    BY <1>4 DEF EvictHit, Call
  <2>5. \A s \in Blocks : ~Given(s)
    BY <2>4 DEF Given
  <2> QED
    BY Zenon, <1>4, <2>3, <2>5, UnusedKeeps
<1>5. ASSUME RecordUse, NEW k \in Keys, LookupMiss(k) \/ EvictMiss(k) PROVE UseInv'
  <2>1. entries' = entries /\ (result' = NoSlot \/ op'.name = "evict")
    BY <1>5 DEF LookupMiss, EvictMiss, index, Call
  <2>2. \A s \in Blocks : ~Given(s)
    BY <2>1, HeldAreBlocks DEF Given
  <2> QED
    BY Zenon, <1>5, <2>1, <2>2, UnusedKeeps
<1>6. CASE UNCHANGED vars
  BY <1>6 DEF vars, index, UseInv, UsedIn
<1> QED
  BY <1>1, <1>2, <1>3, <1>4, <1>5, <1>6 DEF Next

(* kllm_index_insert gives up no block but one that was given to a caller  *)
(* no later than any other in the table, whatever the order of lookups and *)
(* inserts was: every hit refreshes the time find_lru_entry compares.      *)
THEOREM OldestGoesFirst == Spec => LruGoesFirst
<1> DEFINE A == \A i \in Used :
                   op'.name = "insert" /\ entries'[i] # entries[i] =>
                       \A j \in Used :
                           used_at[entries[i].slot] <= used_at[entries[j].slot]
<1>1. Init => UseInv
  BY DEF Init, UseInv, UsedIn
<1>2. IndexInv /\ UseInv /\ [Next]_vars => UseInv'
  BY NextUseInv
<1>3. IndexInv /\ UseInv /\ [Next]_vars => [A]_vars
  <2> SUFFICES ASSUME IndexInv, UseInv, Next PROVE A
    OBVIOUS
  <2> SUFFICES ASSUME NEW i \in Used, op'.name = "insert", entries'[i] # entries[i],
                      NEW j \in Used
               PROVE  used_at[entries[i].slot] <= used_at[entries[j].slot]
    OBVIOUS
  <2> SUFFICES OverLoaded /\ i = find_lru_entry
    <3>1. used_at[entries[i].slot] = entries[i].last_access_ns
          /\ used_at[entries[j].slot] = entries[j].last_access_ns
      BY Zenon, UsedEntries DEF UseInv
    <3> QED
      BY <3>1, OldestFound
  <2>0. i \in Positions /\ entries[i] # EMPTY
    BY DEF Used, Empty
  <2>1. ASSUME NEW k \in Keys, NEW t \in Times, InsertStores(k, t)
        PROVE  OverLoaded /\ i = find_lru_entry
    <3>1. PICK p \in Positions, e \in Entry :
              /\ MakeRoom.entries[p] = EMPTY
              /\ entries' = [MakeRoom.entries EXCEPT ![p] = e]
      BY <2>1, InsertFacts
    <3>2. MakeRoom.entries \in [Positions -> {EMPTY} \cup Entry]
      BY RoomMade DEF TableInv
    <3>3. MakeRoom.entries[i] # entries[i]
      BY <2>0, <3>1, <3>2
    <3> QED
      BY Zenon, <2>0, <3>3, RoomEntries
  <2>2. ASSUME NEW k \in Keys, InsertFails(k) PROVE FALSE
    BY <2>2, InsertFailsFacts
  <2>3. ASSUME NEW k \in Keys,
               \/ \E t \in Times : LookupHit(k, t)
               \/ LookupMiss(k) \/ EvictHit(k) \/ EvictMiss(k)
        PROVE  FALSE
    BY <2>3 DEF LookupHit, LookupMiss, EvictHit, EvictMiss, Call
  <2> QED
    BY <2>1, <2>2, <2>3 DEF Next
<1> QED
  BY <1>1, <1>2, <1>3, IndexAlwaysSound, PTL DEF Spec, LruGoesFirst

(* The index implements the lossy cache: kllm_index_lookup returns a block *)
(* that was inserted for its key and not given up since, or none; at most  *)
(* one entry goes per insert and only above the load limit; a failed       *)
(* insert costs nothing.                                                   *)
THEOREM IndexIsLossyCache == Spec => RefinesLossyCache
<1>1. Init => Cache!Init
  <2> SUFFICES ASSUME Init PROVE Cache!Init
    OBVIOUS
  <2>1. Stored = {}
    BY DEF Init, Stored, Used, Empty
  <2> QED
    BY <2>1 DEF Init, Cache!Init
<1>2. IndexInv /\ [Next]_vars => [Cache!Next]_CacheVars
  <2> SUFFICES ASSUME IndexInv, [Next]_vars PROVE Cache!Next \/ UNCHANGED CacheVars
    OBVIOUS
  <2>1. ASSUME NEW k \in Keys, NEW t \in Times, LookupHit(k, t) \/ LookupMiss(k)
        PROVE  Cache!Next
    BY <2>1, LookupImplements DEF Cache!Next
  <2>2. ASSUME NEW k \in Keys, NEW t \in Times, InsertStores(k, t) PROVE Cache!Next
    BY <2>2, InsertImplements DEF Cache!Next
  <2>3. ASSUME NEW k \in Keys, InsertFails(k) PROVE Cache!Next
    <3>1. entries' = entries /\ op' = Call("insert", k) /\ result' = NoSlot
      BY <2>3, InsertFailsFacts DEF InsertFails
    <3>2. Stored' = Stored
      BY <3>1 DEF Stored, Used, Empty
    <3>3. Cache!InsertFails(k)
      BY <3>1, <3>2 DEF Cache!InsertFails, Cache!Call, Call
    <3> QED
      BY <3>3 DEF Cache!Next
  <2>4. ASSUME NEW k \in Keys, EvictHit(k) \/ EvictMiss(k) PROVE Cache!Next
    BY <2>4, EvictImplements DEF Cache!Next
  <2>5. CASE UNCHANGED vars
    BY <2>5 DEF vars, index, CacheVars, Stored, Used, Empty
  <2>6. 0 \in Times
    BY MaxClockAssumption DEF Times
  <2> QED
    BY <2>1, <2>2, <2>3, <2>4, <2>5, <2>6 DEF Next
<1> QED
  BY <1>1, <1>2, IndexAlwaysSound, PTL DEF Spec, RefinesLossyCache, Cache!Spec, CacheVars
=============================================================================
