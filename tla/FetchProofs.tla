----------------------------- MODULE FetchProofs -----------------------------
(***************************************************************************)
(* Proofs about the fetch of KV blocks (fetch_kv_blocks): that the wait    *)
(* loop waits for the right blocks, for every engine, sequence length,     *)
(* size of a wavefront and interleaving with the weight loader.            *)
(*                                                                         *)
(* The argument is one of counting: CountInv says that the completions     *)
(* counted so far are no more than the blocks that were asked for, are no  *)
(* longer on their way and have landed.  When the count reaches the number *)
(* asked for, nothing can be on its way and nothing can have failed.       *)
(***************************************************************************)
EXTENDS GpuPathProofs

\* The limit of every SMT step, in seconds.
USE SMTT(60)

\* What the proofs use of finite sets.  FiniteSetTheorems, which has it all, is
\* brought in where the theorems begin: the provers carry a library along in
\* every step that follows it.
FiniteSetFacts ==
    /\ IsFiniteSet({}) /\ Cardinality({}) = 0
    /\ \A x : IsFiniteSet({x}) /\ Cardinality({x}) = 1
    /\ \A S : IsFiniteSet(S) =>
          /\ Cardinality(S) \in Nat
          /\ \A T \in SUBSET S : /\ IsFiniteSet(T) /\ Cardinality(T) <= Cardinality(S)
                                 /\ Cardinality(T) = Cardinality(S) => T = S
    /\ \A S, T : IsFiniteSet(S) /\ IsFiniteSet(T) =>
          Cardinality(S \cup T) = Cardinality(S) + Cardinality(T) - Cardinality(S \cap T)
    /\ \A n \in Nat : \A S : \A f \in [0..(n - 1) -> S] :
          /\ \A b, c \in 0..(n - 1) : f[b] = f[c] => b = c
          /\ \A x \in S : \E b \in 0..(n - 1) : f[b] = x
          => IsFiniteSet(S) /\ Cardinality(S) = n

\* Two disjoint sets of counted elements.
LEMMA UnionCount ==
    ASSUME FiniteSetFacts, NEW F, IsFiniteSet(F), NEW B \in SUBSET F, NEW A \in SUBSET B, NEW L \in SUBSET B,
           A \cap L = {}, NEW n \in Nat, NEW m \in Nat, n <= Cardinality(A), m <= Cardinality(L)
    PROVE  n + m <= Cardinality(B)
<1>1. IsFiniteSet(A) /\ IsFiniteSet(B) /\ IsFiniteSet(L)
  BY DEF FiniteSetFacts
<1>2. Cardinality(A \cup L) = Cardinality(A) + Cardinality(L) - Cardinality(A \cap L)
  BY <1>1 DEF FiniteSetFacts
<1>3. Cardinality(A \cap L) = 0
  BY DEF FiniteSetFacts
<1>4. Cardinality(A \cup L) <= Cardinality(B)
  <2>1. A \cup L \in SUBSET B
    OBVIOUS
  <2> QED
    BY Zenon, <1>1, <2>1 DEF FiniteSetFacts
<1>5. Cardinality(A) \in Nat /\ Cardinality(B) \in Nat /\ Cardinality(L) \in Nat
  BY <1>1 DEF FiniteSetFacts
<1> QED
  BY <1>2, <1>3, <1>4, <1>5

LEMMA MoreCount ==
    ASSUME FiniteSetFacts, NEW F, IsFiniteSet(F), NEW B \in SUBSET F, NEW A \in SUBSET B,
           NEW n \in Nat, n <= Cardinality(A)
    PROVE  n <= Cardinality(B)
<1>1. 0 <= Cardinality({})
  BY DEF FiniteSetFacts
<1>2. n + 0 <= Cardinality(B)
  BY <1>1, UnionCount
<1> QED
  BY <1>2

LEMMA OneMoreCount ==
    ASSUME FiniteSetFacts, NEW F, IsFiniteSet(F), NEW B \in SUBSET F, NEW A \in SUBSET B,
           NEW x \in B, x \notin A, NEW n \in Nat, n <= Cardinality(A)
    PROVE  n + 1 <= Cardinality(B)
<1>0. Cardinality({x}) = 1
  BY Zenon DEF FiniteSetFacts
<1>1. 1 <= Cardinality({x})
  BY <1>0
<1>2. {x} \in SUBSET B /\ A \cap {x} = {}
  OBVIOUS
<1> QED
  BY <1>1, <1>2, UnionCount

\* The blocks of a sequence are as many as their numbers.
LEMMA BlocksCount ==
    ASSUME FiniteSetFacts, NEW n \in Nat
    PROVE  IsFiniteSet(Blocks(n)) /\ Cardinality(Blocks(n)) = n
<1> DEFINE f == [b \in 0..(n - 1) |-> BlockDesc(seq, seq_len, b)]
<1>1. \A b, c \in 0..(n - 1) : f[b] = f[c] => b = c
  <2> SUFFICES ASSUME NEW b \in 0..(n - 1), NEW c \in 0..(n - 1), f[b] = f[c] PROVE b = c
    OBVIOUS
  <2>1. BlockDesc(seq, seq_len, b) = BlockDesc(seq, seq_len, c)
    OBVIOUS
  <2>2. <<"kv", b>> = <<"kv", c>>
    BY <2>1, DescDest
  <2> QED
    BY <2>2
<1>2. f \in [0..(n - 1) -> Blocks(n)] /\ \A x \in Blocks(n) : \E b \in 0..(n - 1) : f[b] = x
  BY DEF Blocks
<1> HIDE DEF f
<1> QED
  BY <1>1, <1>2 DEF FiniteSetFacts

LEMMA AskedFinite ==
    ASSUME FiniteSetFacts, LoopInv, InFetch
    PROVE  IsFiniteSet(asked) /\ Cardinality(asked) = next_block /\ next_block \in Nat
<1>1. seq_len \in Nat /\ next_block \in 0..NumBlocks(seq_len) /\ asked = Blocks(next_block)
  BY Zenon, InferenceAssumption DEF LoopInv
<1>2. next_block \in Nat
  BY <1>1, NumBlocksNat
<1> QED
  BY <1>1, <1>2, BlocksCount

\* The completions of a wavefront stay within what has landed of it.
LEMMA CompletedLanded ==
    ASSUME FiniteSetFacts, EngineInv, NEW i \in DOMAIN wfs, NEW new \in wfs[i].todo,
           BlockLands(i, new) \/ BlockFails(i, new),
           NEW j \in DOMAIN wfs, wfs[j].completed <= Cardinality(LandedOf(j)),
           \A block \in wfs[j].blocks : Landed(block) => Landed(block)'
    PROVE  wfs'[j].completed <= Cardinality(LandedOf(j)')
<1>1. /\ IsFiniteSet(wfs[j].blocks) /\ wfs[j] \in Wavefronts /\ new \in wfs[i].blocks
      /\ wfs \in Seq(Wavefronts)
  BY DEF EngineInv
<1>2. wfs[j].completed \in Nat
  BY Zenon, <1>1 DEF Wavefronts
<1>3. wfs'[j].blocks = wfs[j].blocks /\ wfs'[j].todo \subseteq wfs[j].todo
      /\ wfs'[i].todo = wfs[i].todo \ {new} /\ (j # i => wfs'[j] = wfs[j])
  BY EngineChange
<1>4. LandedOf(j)' \in SUBSET wfs[j].blocks /\ LandedOf(j) \in SUBSET LandedOf(j)'
  BY <1>3 DEF LandedOf
<1>5. CASE wfs'[j].completed = wfs[j].completed
  BY Zenon, <1>1, <1>2, <1>4, <1>5, MoreCount
<1>6. CASE j = i /\ BlockLands(i, new)
  <2>1. wfs'[j].completed = wfs[j].completed + 1 /\ Landed(new)'
    <3>1. wfs'[j].completed = wfs[j].completed + 1
      BY Zenon, <1>1, <1>6 DEF BlockLands, Wavefronts
    <3> QED
      BY <1>6, <3>1 DEF BlockLands, Landed
  <2>2. new \in LandedOf(j)' /\ new \notin LandedOf(j)
    BY <1>1, <1>3, <1>6, <2>1 DEF LandedOf
  <2> QED
    BY Zenon, <1>1, <1>2, <1>4, <2>1, <2>2, OneMoreCount
<1>7. CASE j = i /\ BlockFails(i, new)
  <2>1. wfs'[j].completed = wfs[j].completed
    BY <1>1, <1>7 DEF BlockFails, Wavefronts
  <2> QED
    BY <1>5, <2>1
<1> QED
  BY <1>3, <1>5, <1>6, <1>7

\* A read that lands or fails keeps the count.
LEMMA EngineCount ==
    ASSUME FiniteSetFacts, EngineInv, LoopInv, CountInv, EngineStep, UNCHANGED inference
    PROVE  CountInv'
<1> SUFFICES ASSUME InFetch, ~stray PROVE CountInv'
  BY DEF CountInv, InFetch, inference
<1>0. UNCHANGED <<ipc, stray, asked, completed>>
  BY DEF inference, fetch
<1>a. PICK i \in DOMAIN wfs : \E new \in wfs[i].todo : BlockLands(i, new) \/ BlockFails(i, new)
  BY DEF EngineStep
<1>1. PICK new \in wfs[i].todo : BlockLands(i, new) \/ BlockFails(i, new)
  BY <1>a
<1>2. /\ Outstanding' = Outstanding /\ OnTheWay' = OnTheWay
      /\ \A j \in DOMAIN wfs : wfs'[j].blocks = wfs[j].blocks
  BY <1>1, EngineChange
<1>3. \A block \in asked : Landed(block) => Landed(block)'
  <2>1. CASE BlockLands(i, new)
    BY <2>1, LandedStays
  <2>2. CASE BlockFails(i, new)
    BY <2>2 DEF BlockFails, Landed
  <2> QED
    BY <1>1, <2>1, <2>2
<1>4. completed <= Cardinality(Arrived')
  <2>1. Arrived' \in SUBSET asked /\ Arrived \in SUBSET Arrived'
    BY <1>0, <1>2, <1>3 DEF Arrived
  <2>2. completed \in Nat /\ completed <= Cardinality(Arrived)
    BY DEF CountInv, LoopInv
  <2> QED
    BY Zenon, <2>1, <2>2, AskedFinite, MoreCount
<1>5. \A j \in Outstanding :
          j \in DOMAIN wfs /\ wfs[j].blocks \subseteq asked
          /\ wfs[j].completed <= Cardinality(LandedOf(j))
  BY DEF CountInv, Outstanding
<1>6. \A j \in Outstanding : wfs'[j].completed <= Cardinality(LandedOf(j)')
  BY <1>1, <1>3, <1>5, CompletedLanded
<1> QED
  BY <1>0, <1>2, <1>3, <1>4, <1>5, <1>6 DEF CountInv, InFetch

\* The blocks of the next wavefront of a fetch.
LEMMA ChunkFacts ==
    ASSUME FiniteSetFacts, LoopInv, ipc = "fetch", next_block < NumBlocks(seq_len)
    PROVE  /\ next_block \in Nat /\ ChunkEnd \in (next_block + 1)..NumBlocks(seq_len)
           /\ Chunk \subseteq KvBlocks /\ IsFiniteSet(Chunk)
           /\ Cardinality(Chunk) = ChunkEnd - next_block
           /\ Blocks(ChunkEnd) = Blocks(next_block) \cup Chunk
           /\ Blocks(next_block) \cap Chunk = {}
<1>1. /\ seq \in SeqIds /\ seq_len \in SeqLens /\ seq_len \in Nat
      /\ next_block \in 0..NumBlocks(seq_len) /\ NumBlocks(seq_len) \in Nat
  BY Zenon, InferenceAssumption, NumBlocksNat DEF LoopInv, InFetch
<1>2. next_block \in Nat /\ ChunkEnd \in (next_block + 1)..NumBlocks(seq_len) /\ ChunkEnd \in Nat
  BY <1>1, WavefrontAssumption DEF ChunkEnd
<1>3. Chunk \subseteq KvBlocks
  BY <1>1, <1>2 DEF Chunk, KvBlocks
<1>4. Blocks(ChunkEnd) = Blocks(next_block) \cup Chunk
  <2> HIDE DEF BlockDesc
  <2>1. 0..(ChunkEnd - 1) = 0..(next_block - 1) \cup next_block..(ChunkEnd - 1)
    BY <1>2
  <2> QED
    BY <2>1 DEF Blocks, Chunk
<1>5. Blocks(next_block) \cap Chunk = {}
  <2> SUFFICES ASSUME NEW x \in Blocks(next_block), x \in Chunk PROVE FALSE
    OBVIOUS
  <2>1. PICK b \in 0..(next_block - 1) : x = BlockDesc(seq, seq_len, b)
    BY DEF Blocks
  <2>2. PICK c \in next_block..(ChunkEnd - 1) : x = BlockDesc(seq, seq_len, c)
    BY DEF Chunk
  <2>3. <<"kv", b>> = <<"kv", c>>
    BY Zenon, <2>1, <2>2, DescDest
  <2>4. b = c
    BY <2>3
  <2> QED
    BY <1>2, <2>4
<1>6. IsFiniteSet(Chunk) /\ Cardinality(Chunk) = ChunkEnd - next_block
  <2>1. /\ IsFiniteSet(Blocks(ChunkEnd)) /\ Cardinality(Blocks(ChunkEnd)) = ChunkEnd
        /\ IsFiniteSet(Blocks(next_block)) /\ Cardinality(Blocks(next_block)) = next_block
    BY <1>2, BlocksCount
  <2>2. IsFiniteSet(Chunk) /\ Cardinality(Chunk) \in Nat
    BY <1>4, <2>1 DEF FiniteSetFacts
  <2>3. Cardinality(Blocks(next_block) \cup Chunk)
            = Cardinality(Blocks(next_block)) + Cardinality(Chunk)
              - Cardinality(Blocks(next_block) \cap Chunk)
    BY Zenon, <2>1, <2>2 DEF FiniteSetFacts
  <2>4. Cardinality(Blocks(next_block) \cap Chunk) = 0
    BY Zenon, <1>5 DEF FiniteSetFacts
  <2> QED
    BY <1>2, <1>4, <2>1, <2>2, <2>3, <2>4
<1> QED
  BY <1>2, <1>3, <1>4, <1>5, <1>6

LEMMA SubmitChunkStep ==
    ASSUME FiniteSetFacts, FetchInv, SubmitChunk, UNCHANGED loading
    PROVE  FetchInv'
<1>1. /\ ipc = "fetch" /\ next_block < NumBlocks(seq_len) /\ Submit("infer", Chunk)
      /\ submitted' = submitted + Cardinality(Chunk) /\ asked' = asked \cup Chunk
      /\ next_block' = ChunkEnd
      /\ UNCHANGED <<ipc, seq, seq_len, completed, stray, abandoned>>
  BY DEF SubmitChunk
<1>2. EngineInv /\ LoopInv /\ CountInv /\ StrayInv /\ InFetch /\ InFetch'
  BY <1>1 DEF FetchInv, InFetch
<1>3. /\ next_block \in Nat /\ ChunkEnd \in (next_block + 1)..NumBlocks(seq_len)
      /\ Chunk \subseteq KvBlocks /\ IsFiniteSet(Chunk)
      /\ Cardinality(Chunk) = ChunkEnd - next_block
      /\ Blocks(ChunkEnd) = Blocks(next_block) \cup Chunk
      /\ Blocks(next_block) \cap Chunk = {}
  BY <1>1, <1>2, ChunkFacts
<1> DEFINE k == Len(wfs) + 1
<1>4. /\ EngineInv' /\ \A i \in DOMAIN wfs : i \in DOMAIN wfs' /\ wfs'[i] = wfs[i]
      /\ Outstanding' = Outstanding \cup {k} /\ k \notin DOMAIN wfs
      /\ wfs'[k] = NewWavefront("infer", Chunk) /\ vram' = vram
  BY <1>1, <1>2, <1>3, SubmitEngine
<1> HIDE DEF k
<1>5. LoopInv'
  <2>1. asked = Blocks(next_block) /\ submitted = next_block
    BY <1>2 DEF LoopInv
  <2>3. asked' = {BlockDesc(seq, seq_len, b) : b \in 0..(ChunkEnd - 1)}
    BY <1>1, <1>3, <2>1 DEF Blocks
  <2>4. asked' = Blocks(next_block)'
    BY <1>1, <2>3 DEF Blocks
  <2>5. submitted' = next_block'
    BY <1>1, <1>3, <2>1
  <2>6. NumBlocks(seq_len)' = NumBlocks(seq_len) /\ NumBlocks(seq_len) \in Nat
    BY Zenon, <1>1, <1>2, InferenceAssumption, NumBlocksNat DEF LoopInv, NumBlocks
  <2>7. next_block' \in 0..NumBlocks(seq_len)
    BY <1>1, <1>3, <2>6
  <2> QED
    BY <1>1, <1>2, <2>4, <2>5, <2>6, <2>7 DEF LoopInv
<1>6. CountInv'
  <2> SUFFICES ASSUME ~stray PROVE CountInv'
    BY <1>1 DEF CountInv
  <2>1. \A i \in Outstanding : i \in DOMAIN wfs /\ wfs'[i] = wfs[i] /\ i # k
    BY <1>4 DEF Outstanding
  <2>2. /\ wfs'[k].blocks = Chunk /\ wfs'[k].todo = Chunk /\ wfs'[k].completed = 0
    BY <1>4 DEF NewWavefront
  <2>3. \A i \in Outstanding : wfs[i].blocks \subseteq asked /\ wfs[i].blocks \cap Chunk = {}
    BY <1>2, <1>3 DEF CountInv, LoopInv
  <2>4. \A i \in Outstanding' : wfs'[i].blocks \subseteq asked'
    BY <1>1, <1>4, <2>1, <2>2, <2>3
  <2>5. \A i, j \in Outstanding' : i # j => wfs'[i].blocks \cap wfs'[j].blocks = {}
    BY <1>2, <1>4, <2>1, <2>2, <2>3 DEF CountInv
  <2>6. \A block : Landed(block)' <=> Landed(block)
    BY <1>4 DEF Landed
  <2>7. ASSUME NEW i \in Outstanding' PROVE wfs'[i].completed <= Cardinality(LandedOf(i)')
    <3>1. CASE i \in Outstanding
      <4>1. LandedOf(i)' = LandedOf(i)
        BY <2>1, <2>6, <3>1 DEF LandedOf
      <4> QED
        BY <1>2, <2>1, <3>1, <4>1 DEF CountInv
    <3>2. CASE i = k
      <4>1. LandedOf(i)' = {}
        BY <2>2, <3>2 DEF LandedOf
      <4> QED
        BY <2>2, <3>2, <4>1 DEF FiniteSetFacts
    <3> QED
      BY <1>4, <3>1, <3>2
  <2>8. OnTheWay' = OnTheWay \cup Chunk
    BY <1>4, <2>1, <2>2 DEF OnTheWay
  <2>9. Arrived' = Arrived
    <3>1. asked \cap Chunk = {}
      BY <1>2, <1>3 DEF LoopInv
    <3>2. asked' \ OnTheWay' = asked \ OnTheWay
      BY <1>1, <2>8, <3>1
    <3> QED
      BY <2>6, <3>2 DEF Arrived
  <2> QED
    BY <1>1, <1>2, <2>4, <2>5, <2>7, <2>9 DEF CountInv
<1>7. StrayInv'
  BY <1>1, <1>2 DEF StrayInv, SharedContext, loading
<1> QED
  BY <1>4, <1>5, <1>6, <1>7 DEF FetchInv

LEMMA PollStep ==
    ASSUME FiniteSetFacts, FetchInv, PollCompletion, UNCHANGED loading
    PROVE  FetchInv'
<1>1. /\ ipc = "fetch"
      /\ UNCHANGED <<ipc, seq, seq_len, next_block, submitted, asked, stray, abandoned>>
  BY DEF PollCompletion
<1>2. PICK i \in DOMAIN wfs : Reap("infer", i) /\ completed' = completed + wfs[i].completed
  BY DEF PollCompletion
<1>3. EngineInv /\ LoopInv /\ CountInv /\ StrayInv /\ InFetch /\ InFetch'
  BY <1>1 DEF FetchInv, InFetch
<1>4. /\ EngineInv' /\ vram' = vram /\ i \in Outstanding /\ wfs[i].todo = {}
      /\ \A j \in DOMAIN wfs' : \E k \in DOMAIN wfs : k # i /\ wfs'[j] = wfs[k]
      /\ \A j, l \in DOMAIN wfs' : j # l =>
            \E k, m \in DOMAIN wfs : /\ k # m /\ k # i /\ m # i
                                     /\ wfs'[j] = wfs[k] /\ wfs'[l] = wfs[m]
  BY <1>2, <1>3, ReapEngine
<1>5. wfs[i].completed \in Nat
  <2>1. wfs[i] \in Wavefronts
    BY <1>3 DEF EngineInv
  <2> QED
    BY <2>1 DEF Wavefronts
<1>6. LoopInv'
  BY <1>1, <1>2, <1>3, <1>5 DEF LoopInv, InFetch, Blocks
<1>7. CountInv'
  <2> SUFFICES ASSUME ~stray PROVE CountInv'
    BY <1>1 DEF CountInv
  <2>1. \A j \in Outstanding' : \E k \in Outstanding : k # i /\ wfs'[j] = wfs[k]
    BY <1>4 DEF Outstanding
  <2>2. \A j, l \in Outstanding' : j # l =>
            \E k, m \in Outstanding : /\ k # m /\ wfs'[j] = wfs[k] /\ wfs'[l] = wfs[m]
    BY <1>4 DEF Outstanding
  <2>3. \A j \in Outstanding' : wfs'[j].blocks \subseteq asked
    BY <1>3, <2>1 DEF CountInv
  <2>4. \A j, l \in Outstanding' : j # l => wfs'[j].blocks \cap wfs'[l].blocks = {}
    BY <1>3, <2>2 DEF CountInv
  <2>5. \A block : Landed(block)' <=> Landed(block)
    BY <1>4 DEF Landed
  <2>6. ASSUME NEW j \in Outstanding' PROVE wfs'[j].completed <= Cardinality(LandedOf(j)')
    <3>1. PICK k \in Outstanding : wfs'[j] = wfs[k]
      BY <2>1
    <3>2. LandedOf(j)' = LandedOf(k)
      BY <2>5, <3>1 DEF LandedOf
    <3> QED
      BY <1>3, <3>1, <3>2 DEF CountInv
  <2>7. OnTheWay' \subseteq OnTheWay /\ OnTheWay' \cap wfs[i].blocks = {}
    <3>1. \A j \in Outstanding' : wfs'[j].blocks \subseteq OnTheWay
      BY <2>1 DEF OnTheWay
    <3>2. \A j \in Outstanding' : wfs'[j].blocks \cap wfs[i].blocks = {}
      BY <1>3, <1>4, <2>1 DEF CountInv
    <3> QED
      BY <3>1, <3>2 DEF OnTheWay
  <2>8. completed' <= Cardinality(Arrived')
    <3> DEFINE L == LandedOf(i)
    <3>1. L \subseteq wfs[i].blocks /\ wfs[i].blocks \subseteq asked
          /\ wfs[i].blocks \subseteq OnTheWay /\ \A block \in L : Landed(block)
      BY <1>3, <1>4 DEF LandedOf, CountInv, OnTheWay
    <3>2. /\ Arrived \in SUBSET Arrived' /\ L \in SUBSET Arrived' /\ Arrived \cap L = {}
          /\ Arrived' \in SUBSET asked
      BY <1>1, <2>5, <2>7, <3>1 DEF Arrived
    <3>3. completed <= Cardinality(Arrived) /\ wfs[i].completed <= Cardinality(L)
      BY <1>3, <1>4 DEF CountInv
    <3>4. completed \in Nat /\ IsFiniteSet(asked)
      BY <1>3, AskedFinite DEF LoopInv
    <3> HIDE DEF L
    <3>5. completed + wfs[i].completed <= Cardinality(Arrived')
      BY Zenon, <1>5, <3>2, <3>3, <3>4, UnionCount
    <3> QED
      BY <1>2, <3>5
  <2> QED
    BY <1>1, <2>3, <2>4, <2>6, <2>8 DEF CountInv
<1>8. StrayInv'
  BY <1>1, <1>3 DEF StrayInv, SharedContext, loading
<1> QED
  BY <1>4, <1>6, <1>7, <1>8 DEF FetchInv

\* The wait loop ends only when every block that was asked for has landed.
LEMMA WaitOverAll ==
    ASSUME FiniteSetFacts, FetchInv, WaitOver, ~stray
    PROVE  Outstanding = {} /\ \A block \in asked : Landed(block)
<1>1. EngineInv /\ LoopInv /\ CountInv /\ InFetch
  BY DEF FetchInv, WaitOver, InFetch
<1>2. IsFiniteSet(asked) /\ Cardinality(asked) = next_block /\ next_block \in Nat
  BY <1>1, AskedFinite
<1>3. /\ Arrived \in SUBSET asked /\ completed <= Cardinality(Arrived) /\ completed \in Nat
      /\ completed >= next_block
  BY <1>1 DEF Arrived, CountInv, LoopInv, WaitOver
<1>4. Cardinality(Arrived) <= Cardinality(asked) /\ Cardinality(Arrived) \in Nat
  BY Zenon, <1>2, <1>3 DEF FiniteSetFacts
<1>5. Cardinality(asked) = Cardinality(Arrived)
  BY <1>2, <1>3, <1>4
<1>6. asked = Arrived
  BY Zenon, <1>2, <1>3, <1>5 DEF FiniteSetFacts
<1>7. \A block \in asked : Landed(block) /\ block \notin OnTheWay
  BY <1>6 DEF Arrived
<1>8. ASSUME NEW i \in Outstanding PROVE FALSE
  <2>1. i \in DOMAIN wfs
    BY Zenon DEF Outstanding
  <2>2. wfs[i].blocks # {}
    BY Zenon, <1>1, <2>1 DEF EngineInv
  <2>3. wfs[i].blocks \subseteq asked
    BY Zenon, <1>1 DEF CountInv
  <2>4. wfs[i].blocks \subseteq OnTheWay
    BY Zenon DEF OnTheWay
  <2> QED
    BY Zenon, <1>7, <2>2, <2>3, <2>4
<1> QED
  BY <1>7, <1>8

\* The other steps of kllm_infer_gpu.
LEMMA GpuCallFetch ==
    ASSUME FiniteSetFacts, FetchInv, GpuCall, UNCHANGED loading
    PROVE  FetchInv'
<1>0. EngineInv /\ LoopInv /\ CountInv /\ StrayInv
  BY DEF FetchInv
<1>1. CASE SubmitChunkFails
  <2>1. /\ ipc = "fetch" /\ ipc' = "idle" /\ UNCHANGED <<wfs, stray, submitted>>
        /\ abandoned' = (abandoned \/ submitted > 0)
    BY <1>1 DEF SubmitChunkFails, SubmitFails, fetch
  <2>2. EngineInv'
    BY <1>0, <2>1, SameEngine
  <2>3. LoopInv' /\ CountInv'
    BY <2>1 DEF LoopInv, CountInv, InFetch
  <2>4. StrayInv'
    <3> SUFFICES ASSUME ~abandoned', ~SharedContext' PROVE Outstanding' = {}
      BY <2>1 DEF StrayInv, InFetch
    <3>1. ~abandoned /\ submitted = 0 /\ ~SharedContext /\ ~stray
      <4>1. submitted \in Nat
        BY <1>0, <2>1, AskedFinite DEF LoopInv, InFetch
      <4>2. ~SharedContext
        BY DEF SharedContext, loading
      <4>3. ~abandoned /\ ~(submitted > 0)
        BY <2>1, Zenon
      <4> QED
        BY <1>0, <2>1, <4>1, <4>2, <4>3 DEF StrayInv, InFetch
    <3>2. asked = {}
      BY <1>0, <2>1, <3>1 DEF LoopInv, InFetch, Blocks
    <3>3. \A i \in Outstanding : wfs[i].blocks \subseteq {} /\ wfs[i].blocks # {}
      BY <1>0, <2>1, <3>1, <3>2 DEF CountInv, InFetch, EngineInv, Outstanding
    <3> QED
      BY <2>1, <3>3 DEF Outstanding
  <2> QED
    BY <2>2, <2>3, <2>4 DEF FetchInv
<1>2. CASE GpuMalloc \/ GpuMallocFails
  <2>1. /\ WaitOver /\ UNCHANGED <<wfs, vram, seq, seq_len, next_block, submitted, completed,
                                    asked, stray, abandoned>>
        /\ ipc' \in {"attend", "idle"} /\ ipc = "fetch" /\ next_block = NumBlocks(seq_len)
    BY <1>2 DEF GpuMalloc, GpuMallocFails, WaitOver, wavefronts, fetch
  <2>2. ~stray => Outstanding = {} /\ \A block \in asked : Landed(block)
    BY <2>1, WaitOverAll
  <2>3. EngineInv' /\ Outstanding' = Outstanding
    BY <1>0, <2>1, SameEngine
  <2>4. LoopInv'
    BY <1>0, <2>1 DEF LoopInv, InFetch, Blocks
  <2>5. InFetch
    BY <2>1 DEF InFetch
  <2>6. CountInv'
    BY <1>0, <2>1, <2>2, <2>5, SameCount
  <2>7. StrayInv'
    BY <1>0, <2>1, <2>2, <2>3 DEF StrayInv, InFetch, SharedContext, loading
  <2> QED
    BY <2>3, <2>4, <2>6, <2>7 DEF FetchInv
<1>3. CASE AttentionReturns \/ AttentionFails
  <2>1. ipc = "attend" /\ ipc' = "idle" /\ UNCHANGED <<wfs, stray, abandoned>>
    BY <1>3 DEF AttentionReturns, AttentionFails, wavefronts
  <2>2. EngineInv'
    BY <1>0, <2>1, SameEngine
  <2>3. LoopInv' /\ CountInv'
    BY <2>1 DEF LoopInv, CountInv, InFetch
  <2>4. StrayInv'
    BY <1>0, <2>1 DEF StrayInv, CountInv, InFetch, SharedContext, loading, Outstanding
  <2> QED
    BY <2>2, <2>3, <2>4 DEF FetchInv
<1> QED
  BY <1>1, <1>2, <1>3, SubmitChunkStep, PollStep DEF GpuCall

\* A step outside kllm_infer_gpu that submits nothing.
LEMMA QuietStep ==
    ASSUME FetchInv, UNCHANGED <<wfs, settings, sent>>, ~InFetch, ~InFetch',
           abandoned' = abandoned
    PROVE  FetchInv'
<1>1. EngineInv' /\ Outstanding' = Outstanding
  BY SameEngine DEF FetchInv
<1> QED
  BY <1>1 DEF FetchInv, LoopInv, CountInv, StrayInv, SharedContext

LEMMA InferenceFetch ==
    ASSUME FiniteSetFacts, FetchInv, InferenceNext, UNCHANGED loading
    PROVE  FetchInv'
<1>0. UNCHANGED <<settings, sent>>
  BY DEF loading
<1>1. CASE LifeCycle
  <2>1. UNCHANGED <<wfs, abandoned>>
    BY <1>1 DEF LifeCycle, wavefronts
  <2>2. ~InFetch /\ ~InFetch'
    BY <1>1 DEF LifeCycle, InFetch, CreateCtx, CreateCtxFails, AllocKvRegion, KvRegionFails,
                AllocLogitsRegion, LogitsRegionFails, AllocTables, TablesFail, DestroyCtx
  <2> QED
    BY <1>0, <2>1, <2>2, QuietStep
<1>2. ASSUME NEW s \in SeqIds, NEW len \in SeqLens, InferGpu(s, len) PROVE FetchInv'
  <2>1. /\ ipc = "idle" /\ ipc' = "fetch" /\ seq' = s /\ seq_len' = len /\ next_block' = 0
        /\ submitted' = 0 /\ completed' = 0 /\ asked' = {} /\ stray' = (Outstanding # {})
        /\ UNCHANGED <<wfs, abandoned>>
    BY <1>2 DEF InferGpu, wavefronts
  <2>2. EngineInv'
    BY <2>1, SameEngine DEF FetchInv
  <2>3. LoopInv'
    <3>1. NumBlocks(len) \in Nat
      BY InferenceAssumption, NumBlocksNat
    <3>2. NumBlocks(seq_len)' = NumBlocks(len) /\ Blocks(next_block)' = {}
      BY <2>1 DEF NumBlocks, Blocks
    <3> QED
      BY <2>1, <3>1, <3>2 DEF LoopInv
  <2>4. CountInv'
    <3> SUFFICES ASSUME Outstanding = {} PROVE CountInv'
      BY <2>1, Zenon DEF CountInv
    <3>1. Outstanding' = {}
      BY <2>1 DEF Outstanding
    <3>2. Arrived' = {}
      BY <2>1 DEF Arrived
    <3> QED
      BY <2>1, <3>1, <3>2 DEF CountInv, FiniteSetFacts
  <2>5. StrayInv'
    BY Zenon, <1>0, <2>1 DEF FetchInv, StrayInv, InFetch, SharedContext
  <2> QED
    BY <2>2, <2>3, <2>4, <2>5 DEF FetchInv
<1>3. CASE GpuCall
  BY <1>3, GpuCallFetch
<1>4. CASE InferCpu \/ InferCpuFails \/ FreeLogits
  <2>1. ipc = "idle" /\ UNCHANGED <<ipc, wfs, abandoned>>
    BY <1>4 DEF InferCpu, InferCpuFails, FreeLogits, wavefronts
  <2> QED
    BY <1>0, <2>1, QuietStep DEF InFetch
<1> QED
  BY <1>1, <1>2, <1>3, <1>4 DEF InferenceNext

\* The loader, between calls of inference.
LEMMA WeightFetch ==
    ASSUME FiniteSetFacts, FetchInv, WeightInv, WeightNext, UNCHANGED inference, ~InCall
    PROVE  FetchInv'
<1>0. ~InFetch /\ ~InFetch' /\ abandoned' = abandoned
  BY DEF InFetch, InCall, inference
<1>1. CASE LoadComponent
  <2>1. /\ wpc = "layers" /\ Submit(settings.wf_ctx, {ComponentBlock}) /\ settings' = settings
        /\ sent' = [sent EXCEPT ![<<layer, component>>] = @ + 1]
    BY <1>1 DEF LoadComponent
  <2>2. layer \in Layers /\ component \in DOMAIN Components /\ sent \in [LayerParts -> Nat]
        /\ settings.wf_ctx \in {"infer", "weights"} /\ layer \in Nat /\ component \in Nat
    BY <2>1, WeightAssumption DEF WeightInv, WeightTypes, Layers
  <2>3. /\ <<layer, component>> \in LayerParts
        /\ sent'[<<layer, component>>] > 0
    BY <2>1, <2>2 DEF LayerParts
  <2>4. {ComponentBlock} \subseteq WeightBlocks /\ IsFiniteSet({ComponentBlock})
    <3>1. ComponentBlock \in WeightBlocks
      BY <2>2 DEF ComponentBlock, WeightBlocks
    <3> QED
      BY Zenon, <3>1 DEF FiniteSetFacts
  <2>5. EngineInv' /\ (settings.wf_ctx # "infer" => Outstanding' = Outstanding)
    BY <2>1, <2>2, <2>4, SubmitEngine DEF FetchInv
  <2>6. \A p \in LayerParts : sent[p] > 0 => sent'[p] > 0
    BY <2>1, <2>2
  <2>7. StrayInv'
    <3>1. CASE settings.wf_ctx = "infer"
      BY <2>1, <2>3, <3>1 DEF StrayInv, SharedContext, LayerParts, Layers
    <3>2. CASE settings.wf_ctx # "infer"
      BY <1>0, <2>1, <2>5, <3>2 DEF FetchInv, StrayInv, SharedContext
    <3> QED
      BY <3>1, <3>2
  <2>8. LoopInv' /\ CountInv'
    BY Zenon, <1>0 DEF LoopInv, CountInv
  <2> QED
    BY Zenon, <2>5, <2>7, <2>8 DEF FetchInv
<1>2. CASE ~LoadComponent
  <2>1. UNCHANGED <<wfs, settings, sent>>
    BY Zenon, <1>2 DEF WeightNext, WeightCreate, LoadAll, WeightCall, LoadEmbedding,
          LoadComponentFails, SubmitFails, LoadLmHead, NoMemory, AllocWeightFails,
          WeightDestroy, wavefronts
  <2> QED
    BY <1>0, <2>1, QuietStep
<1> QED
  BY <1>1, <1>2

PathInv == WeightInv /\ FetchInv

LEMMA InitPathInv == Init => PathInv
<1> SUFFICES ASSUME Init PROVE PathInv
  OBVIOUS
<1>1. WeightInv
  BY InitWeightInv DEF Init
<1>2. ipc = "idle" /\ wfs = <<>>
  BY DEF Init, InferenceInit, WavefrontInit
<1>3. EngineInv /\ Outstanding = {}
  BY <1>2 DEF EngineInv, Outstanding
<1> QED
  BY <1>1, <1>2, <1>3 DEF PathInv, FetchInv, LoopInv, CountInv, StrayInv, InFetch

LEMMA StepPathInv ==
    ASSUME FiniteSetFacts, PathInv, [Next]_vars
    PROVE  PathInv'
<1>0. WeightInv /\ FetchInv
  BY DEF PathInv
<1>1. CASE InferenceNext /\ UNCHANGED loading
  BY <1>0, <1>1, InferenceFetch, KeepWeightInv DEF PathInv
<1>2. CASE ~InCall /\ WeightNext /\ UNCHANGED inference
  BY <1>0, <1>2, WeightFetch, NextWeightInv DEF PathInv
<1>3. CASE EngineStep /\ UNCHANGED <<inference, loading>>
  <2>1. WeightInv'
    BY <1>0, <1>3, KeepWeightInv
  <2>2. CountInv'
    BY <1>0, <1>3, EngineCount DEF FetchInv
  <2>3. EngineInv' /\ Outstanding' = Outstanding
    BY <1>0, <1>3, EngineChange DEF FetchInv, EngineStep
  <2>4. LoopInv' /\ StrayInv'
    BY <1>0, <1>3, <2>3 DEF FetchInv, LoopInv, StrayInv, SharedContext, InFetch, Blocks,
          inference, fetch, loading
  <2> QED
    BY <1>0, <2>1, <2>2, <2>3, <2>4 DEF PathInv, FetchInv
<1>4. CASE UNCHANGED vars
  <2>1. WeightInv'
    BY <1>0, <1>4, KeepWeightInv DEF vars
  <2>2. UNCHANGED <<wfs, vram, ipc, seq, seq_len, next_block, submitted, completed, asked,
                    stray, abandoned, settings, sent>>
    BY <1>4 DEF vars, wavefronts, inference, fetch, loading
  <2>3. EngineInv' /\ Outstanding' = Outstanding
    BY <1>0, <2>2, SameEngine DEF FetchInv
  <2>4. LoopInv'
    BY Zenon, <1>0, <2>2 DEF FetchInv, LoopInv, InFetch, Blocks
  <2>5. StrayInv'
    BY Zenon, <1>0, <2>2, <2>3 DEF FetchInv, StrayInv, SharedContext, InFetch
  <2>6. CountInv'
    <3>1. CountInv
      BY Zenon, <1>0 DEF FetchInv
    <3>2. InFetch' => InFetch
      BY Zenon, <2>2 DEF InFetch
    <3>3. ipc = "attend" => InFetch
      BY DEF InFetch
    <3>4. ipc' = "attend" /\ ~stray => Outstanding = {} /\ \A block \in asked : Landed(block)
      BY Zenon, <2>2, <3>1, <3>3 DEF CountInv
    <3> QED
      BY <2>2, <3>1, <3>2, <3>4, SameCount
  <2> QED
    BY <1>0, <2>1, <2>3, <2>4, <2>5, <2>6 DEF PathInv, FetchInv
<1> QED
  BY <1>1, <1>2, <1>3, <1>4 DEF Next, WeightNext

-----------------------------------------------------------------------------

INSTANCE FiniteSetTheorems

LEMMA FactsHold == FiniteSetFacts
<1>1. IsFiniteSet({}) /\ Cardinality({}) = 0
  BY FS_EmptySet
<1>2. \A x : IsFiniteSet({x}) /\ Cardinality({x}) = 1
  BY Zenon, FS_Singleton
<1>3. ASSUME NEW S, IsFiniteSet(S)
      PROVE  /\ Cardinality(S) \in Nat
             /\ \A T \in SUBSET S : /\ IsFiniteSet(T) /\ Cardinality(T) <= Cardinality(S)
                                    /\ Cardinality(T) = Cardinality(S) => T = S
  BY <1>3, FS_CardinalityType, FS_Subset
<1>4. \A S, T : IsFiniteSet(S) /\ IsFiniteSet(T) =>
          Cardinality(S \cup T) = Cardinality(S) + Cardinality(T) - Cardinality(S \cap T)
  BY FS_Union
<1>5. ASSUME NEW n \in Nat, NEW S, NEW f \in [0..(n - 1) -> S],
             \A b, c \in 0..(n - 1) : f[b] = f[c] => b = c,
             \A x \in S : \E b \in 0..(n - 1) : f[b] = x
      PROVE  IsFiniteSet(S) /\ Cardinality(S) = n
  <2>1. f \in Bijection(0..(n - 1), S)
    BY <1>5 DEF Bijection, Injection, Surjection, IsInjective
  <2>2. ExistsBijection(0..(n - 1), S)
    BY <2>1 DEF ExistsBijection
  <2>3. 0 \in Int /\ n - 1 \in Int
    OBVIOUS
  <2>4. IsFiniteSet(0..(n - 1))
        /\ Cardinality(0..(n - 1)) = IF 0 > n - 1 THEN 0 ELSE (n - 1) - 0 + 1
    BY <2>3, FS_Interval
  <2>5. Cardinality(0..(n - 1)) = n
    BY <2>4
  <2> QED
    BY <2>2, <2>4, <2>5, FS_Bijection
<1>6. \A S : IsFiniteSet(S) =>
          /\ Cardinality(S) \in Nat
          /\ \A T \in SUBSET S : /\ IsFiniteSet(T) /\ Cardinality(T) <= Cardinality(S)
                                 /\ Cardinality(T) = Cardinality(S) => T = S
  BY Zenon, <1>3
<1>7. \A n \in Nat : \A S : \A f \in [0..(n - 1) -> S] :
          /\ \A b, c \in 0..(n - 1) : f[b] = f[c] => b = c
          /\ \A x \in S : \E b \in 0..(n - 1) : f[b] = x
          => IsFiniteSet(S) /\ Cardinality(S) = n
  BY Zenon, <1>5
<1> QED
  BY Zenon, <1>1, <1>2, <1>4, <1>6, <1>7 DEF FiniteSetFacts

LEMMA NextPathInv == PathInv /\ [Next]_vars => PathInv'
BY FactsHold, StepPathInv

(* When the attention kernel starts, every KV block of the sequence is in  *)
(* VRAM, whatever order reads land in and whichever of them fail, if the   *)
(* context was quiet when fetch_kv_blocks began: then completions can only *)
(* add up to the blocks submitted when all of these have landed.           *)
THEOREM BlocksBeforeAttention == Spec => []AttentionSeesItsBlocks
<1>1. PathInv => AttentionSeesItsBlocks
  <2> SUFFICES ASSUME PathInv, ipc = "attend", ~stray, NEW b \in NeededBlocks(seq_len)
               PROVE  /\ <<"kv", b>> \in DOMAIN vram
                      /\ vram[<<"kv", b>>] = <<seq, MinOf((b + 1) * TokensPerBlock, seq_len)>>
    BY Zenon DEF AttentionSeesItsBlocks
  <2>1. /\ seq_len \in Nat /\ asked = Blocks(NumBlocks(seq_len))
        /\ \A block \in asked : Landed(block)
    BY Zenon, InferenceAssumption DEF PathInv, FetchInv, LoopInv, CountInv, InFetch
  <2>2. b \in Nat /\ b < NumBlocks(seq_len) /\ NumBlocks(seq_len) \in Nat
    BY <2>1, NumBlocksNat DEF NeededBlocks
  <2>3. BlockDesc(seq, seq_len, b) \in asked
    BY <2>1, <2>2 DEF Blocks
  <2>4. Landed(BlockDesc(seq, seq_len, b))
    BY <2>1, <2>3
  <2>5. BlockDesc(seq, seq_len, b).key = <<seq, MinOf((b + 1) * TokensPerBlock, seq_len)>>
    <3>1. (b + 1) * TokensPerBlock \in Nat
      BY <2>2, InferenceAssumption
    <3> QED
      BY <2>1, <3>1 DEF BlockDesc, MinOf
  <2> QED
    BY <2>4, <2>5, DescDest DEF Landed
<1> QED
  BY <1>1, InitPathInv, NextPathInv, PTL DEF Spec

(* A call of kllm_infer_gpu that finds the context quiet leaves it quiet,  *)
(* unless a submission fails in the middle of its fetch.                   *)
THEOREM QuietBetweenCalls == Spec => []CallLeavesNoReads
<1>1. PathInv => CallLeavesNoReads
  BY DEF PathInv, FetchInv, StrayInv, SharedContext, InFetch, CallLeavesNoReads
<1> QED
  BY <1>1, InitPathInv, NextPathInv, PTL DEF Spec

-----------------------------------------------------------------------------

SizeInv == \A i \in DOMAIN wfs : Cardinality(wfs[i].blocks) \in 1..MaxBlocks

LEMMA SubmitSize ==
    ASSUME PathInv, SizeInv, NEW ctx \in {"infer", "weights"},
           NEW blocks \in SUBSET (KvBlocks \cup WeightBlocks), IsFiniteSet(blocks),
           ctx # "infer" => blocks \subseteq WeightBlocks, Submit(ctx, blocks),
           Cardinality(blocks) \in 1..MaxBlocks
    PROVE  SizeInv'
<1>1. wfs \in Seq(Wavefronts) /\ wfs' = Append(wfs, NewWavefront(ctx, blocks))
  BY DEF PathInv, FetchInv, EngineInv, Submit
<1>2. NewWavefront(ctx, blocks).blocks = blocks
  BY DEF NewWavefront
<1>3. DOMAIN wfs' = DOMAIN wfs \cup {Len(wfs) + 1}
      /\ (\A i \in DOMAIN wfs : wfs'[i] = wfs[i])
      /\ wfs'[Len(wfs) + 1] = NewWavefront(ctx, blocks)
  <2>1. NewWavefront(ctx, blocks) \in Wavefronts
    BY DEF NewWavefront, Wavefronts
  <2> QED
    BY <1>1, <2>1
<1> QED
  BY <1>2, <1>3 DEF SizeInv

LEMMA NextSize ==
    ASSUME PathInv, SizeInv, [Next]_vars
    PROVE  SizeInv'
<1>0. EngineInv /\ LoopInv /\ WeightInv /\ MaxBlocks \in Nat /\ MaxBlocks >= 1
  BY WavefrontAssumption DEF PathInv, FetchInv
<1>1. CASE wfs' = wfs
  BY <1>1 DEF SizeInv
<1>2. CASE SubmitChunk
  <2>1. ipc = "fetch" /\ next_block < NumBlocks(seq_len) /\ Submit("infer", Chunk)
    BY <1>2 DEF SubmitChunk
  <2>2. /\ next_block \in Nat /\ ChunkEnd \in (next_block + 1)..NumBlocks(seq_len)
        /\ Chunk \subseteq KvBlocks /\ IsFiniteSet(Chunk)
        /\ Cardinality(Chunk) = ChunkEnd - next_block
    BY <1>0, <2>1, FactsHold, ChunkFacts
  <2>3. NumBlocks(seq_len) \in Nat
    BY Zenon, <1>0, <2>1, InferenceAssumption, NumBlocksNat DEF LoopInv, InFetch
  <2>4. ChunkEnd - next_block \in 1..MaxBlocks
    BY <1>0, <2>2, <2>3 DEF ChunkEnd
  <2> QED
    BY <2>1, <2>2, <2>4, SubmitSize
<1>3. CASE LoadComponent
  <2>1. /\ wpc = "layers" /\ Submit(settings.wf_ctx, {ComponentBlock})
    BY <1>3 DEF LoadComponent
  <2>2. /\ settings.wf_ctx \in {"infer", "weights"} /\ layer \in Nat /\ component \in Nat
    BY <1>0, <2>1, WeightAssumption DEF WeightInv, WeightTypes, Layers
  <2>3. ComponentBlock \in WeightBlocks
    BY <2>2 DEF ComponentBlock, WeightBlocks
  <2>4. IsFiniteSet({ComponentBlock}) /\ Cardinality({ComponentBlock}) = 1
    BY Zenon, FactsHold DEF FiniteSetFacts
  <2>5. Cardinality({ComponentBlock}) \in 1..MaxBlocks /\ {ComponentBlock} \subseteq WeightBlocks
    BY <1>0, <2>3, <2>4
  <2> QED
    BY <2>1, <2>2, <2>4, <2>5, SubmitSize
<1>4. CASE EngineStep
  <2>1. DOMAIN wfs' = DOMAIN wfs /\ \A j \in DOMAIN wfs : wfs'[j].blocks = wfs[j].blocks
    BY <1>0, <1>4, EngineChange DEF EngineStep
  <2> QED
    BY <2>1 DEF SizeInv
<1>5. CASE PollCompletion
  <2>1. PICK i \in DOMAIN wfs : Reap("infer", i)
    BY <1>5 DEF PollCompletion
  <2>2. \A j \in DOMAIN wfs' : \E k \in DOMAIN wfs : k # i /\ wfs'[j] = wfs[k]
    BY <1>0, <2>1, ReapEngine
  <2> QED
    BY <2>2 DEF SizeInv
<1>6. SubmitChunk \/ LoadComponent \/ EngineStep \/ PollCompletion \/ wfs' = wfs
  <2>1. InferenceNext => SubmitChunk \/ PollCompletion \/ wfs' = wfs
    BY Zenon DEF InferenceNext, LifeCycle, InferGpu, GpuCall, SubmitChunkFails, SubmitFails,
          GpuMalloc, GpuMallocFails, AttentionReturns, AttentionFails, InferCpu, InferCpuFails,
          FreeLogits, wavefronts
  <2>2. WeightNext => LoadComponent \/ wfs' = wfs
    BY Zenon DEF WeightNext, WeightCreate, LoadAll, WeightCall, LoadEmbedding,
          LoadComponentFails, SubmitFails, LoadLmHead, NoMemory, AllocWeightFails,
          WeightDestroy, wavefronts
  <2>3. UNCHANGED vars => wfs' = wfs
    BY Zenon DEF vars, wavefronts
  <2> QED
    BY Zenon, <2>1, <2>2, <2>3 DEF Next, WeightNext
<1> QED
  BY <1>1, <1>2, <1>3, <1>4, <1>5, <1>6

(* The loop of fetch_kv_blocks puts every block of every sequence into     *)
(* exactly one wavefront, and none overflows or is empty, for every size   *)
(* of a block and of a wavefront.                                          *)
THEOREM FetchAsksOnce == Spec => []BlocksAskedOnce
<1>1. Init => SizeInv
  BY DEF Init, WavefrontInit, SizeInv
<1>2. PathInv /\ SizeInv /\ [Next]_vars => SizeInv'
  BY NextSize
<1>3. PathInv /\ SizeInv => BlocksAskedOnce
  <2> SUFFICES ASSUME PathInv, ipc = "attend"
               PROVE  /\ {block.dest : block \in asked}
                             = {<<"kv", b>> : b \in NeededBlocks(seq_len)}
                      /\ submitted = Cardinality(asked)
    BY Zenon DEF BlocksAskedOnce, SizeInv
  <2> DEFINE n == NumBlocks(seq_len)
  <2>1. /\ seq_len \in Nat /\ asked = Blocks(n) /\ submitted = n /\ n \in Nat
    BY Zenon, InferenceAssumption, NumBlocksNat DEF PathInv, FetchInv, LoopInv, InFetch
  <2>2. n <= seq_len
    <3>1. TokensPerBlock \in Nat /\ TokensPerBlock >= 1 /\ seq_len * TokensPerBlock >= seq_len
      BY <2>1, InferenceAssumption
    <3>2. seq_len * TokensPerBlock < seq_len <=> seq_len < n
      BY <2>1, NumBlocksNat
    <3> QED
      BY <2>1, <3>1, <3>2
  <2>3. \A b \in Nat : b * TokensPerBlock < seq_len <=> b < n
    BY <2>1, NumBlocksNat
  <2> HIDE DEF n
  <2>4. NeededBlocks(seq_len) = 0..(n - 1)
    BY <2>1, <2>2, <2>3 DEF NeededBlocks
  <2>5. asked = {BlockDesc(seq, seq_len, b) : b \in 0..(n - 1)}
    BY <2>1 DEF Blocks
  <2>6. {block.dest : block \in asked} = {<<"kv", b>> : b \in 0..(n - 1)}
    <3>1. \A b : BlockDesc(seq, seq_len, b).dest = <<"kv", b>>
      BY DescDest
    <3> QED
      BY Zenon, <2>5, <3>1
  <2>7. Cardinality(Blocks(n)) = n
    BY <2>1, FactsHold, BlocksCount
  <2> QED
    BY <2>1, <2>4, <2>6, <2>7
<1> QED
  BY <1>1, <1>2, <1>3, InitPathInv, NextPathInv, PTL DEF Spec
=============================================================================
