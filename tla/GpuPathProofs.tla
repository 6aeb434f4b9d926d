---------------------------- MODULE GpuPathProofs ----------------------------
(***************************************************************************)
(* Proofs about GPU inference and the weight loader, for every engine,     *)
(* sequence, model, size of a wavefront and number of calls.               *)
(*                                                                         *)
(* ResourcesBalanced speaks of the moments between calls; ContextInv adds  *)
(* what is mapped at each step of kllm_infer_gpu_create, on which its      *)
(* error paths rely.  WeightsReleased speaks of a destroyed loader;        *)
(* FirstLoad adds that load_all sets each pointer once.  The last part     *)
(* holds the invariant of the fetch and the lemmas on blocks and on the    *)
(* engine from which FetchProofs goes on.                                  *)
(***************************************************************************)
EXTENDS GpuPath, TLAPS

\* The limit of every SMT step, in seconds.
USE SMTT(60)

Nothing == held = {} /\ kv_region = "zero" /\ logits_region = "zero"
Everything ==
    "block_table" \in held /\ kv_region = "mapped" /\ logits_region = "mapped"

ContextInv ==
    /\ ipc \in {"idle", "kv", "logits", "tables", "fetch", "attend"}
    /\ stdin_open = TRUE
    /\ ipc = "idle" => Nothing \/ Everything
    /\ ipc = "kv" => kv_region = "zero" /\ logits_region = "zero"
    /\ ipc = "logits" => kv_region = "mapped" /\ logits_region = "zero"
    /\ ipc = "tables" => kv_region = "mapped" /\ logits_region = "mapped"
    /\ ipc \in {"fetch", "attend"} => Everything
    /\ ipc # "attend" => gpu_mem = {}

USE DEF Nothing, Everything

LEMMA InitContextInv == Init => ContextInv
BY DEF Init, InferenceInit, ContextInv

\* Create, destroy, and the error paths of create.
LEMMA LifeCycleStep == ContextInv /\ LifeCycle => ContextInv'
<1> SUFFICES ASSUME ContextInv, LifeCycle PROVE ContextInv'
  OBVIOUS
<1>0. UNCHANGED gpu_mem
  BY DEF LifeCycle
<1> USE DEF ContextInv
<1>2. CASE CreateCtx
  BY <1>0, <1>2 DEF CreateCtx
<1>3. CASE CreateCtxFails
  BY <1>0, <1>3 DEF CreateCtxFails
<1>4. CASE AllocKvRegion
  BY <1>0, <1>4 DEF AllocKvRegion
<1>5. CASE KvRegionFails
  BY <1>0, <1>5 DEF KvRegionFails
<1>6. CASE AllocLogitsRegion
  BY <1>0, <1>6 DEF AllocLogitsRegion
<1>7. CASE LogitsRegionFails
  BY <1>0, <1>7 DEF LogitsRegionFails, FreeRegions
<1>8. CASE AllocTables
  BY <1>0, <1>8 DEF AllocTables
<1>9. CASE TablesFail
  BY <1>0, <1>9 DEF TablesFail, Destroy, FreeRegions
<1>10. CASE DestroyCtx
  BY <1>0, <1>10 DEF DestroyCtx, Destroy, FreeRegions
<1> QED
  BY Zenon, <1>2, <1>3, <1>4, <1>5, <1>6, <1>7, <1>8, <1>9, <1>10 DEF LifeCycle

\* The steps of kllm_infer_gpu.
LEMMA GpuCallStep == ContextInv /\ GpuCall => ContextInv'
<1> SUFFICES ASSUME ContextInv, GpuCall PROVE ContextInv'
  OBVIOUS
<1> USE DEF ContextInv, context
<1>1. CASE SubmitChunk
  BY <1>1 DEF SubmitChunk
<1>2. CASE SubmitChunkFails
  BY <1>2 DEF SubmitChunkFails
<1>3. CASE PollCompletion
  BY <1>3 DEF PollCompletion
<1>4. CASE GpuMalloc
  BY <1>4 DEF GpuMalloc, WaitOver
<1>5. CASE GpuMallocFails
  BY <1>5 DEF GpuMallocFails, WaitOver
<1>6. CASE AttentionReturns
  BY <1>6 DEF AttentionReturns
<1>7. CASE AttentionFails
  BY <1>7 DEF AttentionFails
<1> QED
  BY Zenon, <1>1, <1>2, <1>3, <1>4, <1>5, <1>6, <1>7 DEF GpuCall

LEMMA InferenceStep == ContextInv /\ InferenceNext => ContextInv'
<1> SUFFICES ASSUME ContextInv, InferenceNext PROVE ContextInv'
  OBVIOUS
<1>1. CASE LifeCycle
  BY <1>1, LifeCycleStep
<1>2. ASSUME NEW s \in SeqIds, NEW len \in SeqLens, InferGpu(s, len) PROVE ContextInv'
  BY <1>2 DEF InferGpu, ContextInv, context
<1>3. CASE GpuCall
  BY <1>3, GpuCallStep
<1>4. CASE InferCpu \/ InferCpuFails
  BY Zenon, <1>4 DEF InferCpu, InferCpuFails, ContextInv, context
<1>5. CASE FreeLogits
  BY <1>5 DEF FreeLogits, ContextInv, context
<1> QED
  BY <1>1, <1>2, <1>3, <1>4, <1>5 DEF InferenceNext

LEMMA NextContextInv == ContextInv /\ [Next]_vars => ContextInv'
<1> SUFFICES ASSUME ContextInv, [Next]_vars PROVE ContextInv'
  OBVIOUS
<1>1. CASE InferenceNext
  BY <1>1, InferenceStep
<1>2. CASE UNCHANGED inference
  BY <1>2 DEF inference, context, ContextInv
<1> QED
  BY <1>1, <1>2 DEF Next, vars

-----------------------------------------------------------------------------

(* Whatever fails in kllm_infer_gpu_create or kllm_infer_gpu, everything   *)
(* taken is given back once and kllm_p2p_free_region is never applied to a *)
(* region with cleared fields, which would close descriptor 0.             *)
THEOREM NothingLeaks == Spec => []ResourcesBalanced
<1>1. ContextInv => ResourcesBalanced
  BY DEF ContextInv, ResourcesBalanced
<1> QED
  BY <1>1, InitContextInv, NextContextInv, PTL DEF Spec

-----------------------------------------------------------------------------
(* The weight loader.                                                      *)

\* The parts load_all has not come to yet.
Ahead ==
    CASE wpc = "embedding" -> Parts
      [] wpc = "layers" -> {LmHead} \cup {p \in LayerParts :
                              p[1] > layer \/ (p[1] = layer /\ p[2] >= component)}
      [] wpc = "lm_head" -> {LmHead}
      [] OTHER -> {}

WeightTypes ==
    /\ settings \in Settings
    /\ wpc \in {"none", "idle", "embedding", "layers", "lm_head", "destroyed"}
    /\ wpc = "embedding" => layer = 0 /\ component = 1
    /\ wpc = "layers" => layer \in Layers /\ component \in DOMAIN Components
    /\ InLoad => loads > 0
    /\ ptrs \subseteq Parts /\ owned \in [Parts -> Int]
    /\ sent \in [LayerParts -> Nat] /\ loads \in Nat

\* In the first load_all a pointer is set exactly when its part is allocated,
\* and none is set that is still to come.
FirstLoad ==
    loads <= 1 /\ wpc # "destroyed" =>
        /\ \A p \in Parts : owned[p] = IF p \in ptrs THEN 1 ELSE 0
        /\ loads = 0 => ptrs = {}
        /\ ptrs \cap Ahead = {}

WeightInv == WeightTypes /\ FirstLoad /\ WeightsReleased

LEMMA PartsDiffer ==
    /\ Embedding \in Parts /\ LmHead \in Parts /\ LayerParts \subseteq Parts
    /\ Embedding # LmHead /\ Embedding \notin LayerParts /\ LmHead \notin LayerParts
<1>1. NumLayers \in Nat
  BY WeightAssumption
<1>2. \A p \in LayerParts : p[2] \in DOMAIN Components /\ p[2] \in 1..Len(Components)
  BY WeightAssumption DEF LayerParts
<1>3. \A p \in LayerParts : p[2] # 0
  BY <1>2
<1> QED
  BY <1>1, <1>3 DEF Embedding, LmHead, Parts

LEMMA InitWeightInv == WeightInit => WeightInv
<1> SUFFICES ASSUME WeightInit PROVE WeightInv
  OBVIOUS
<1>1. WeightTypes
  BY DEF WeightInit, WeightTypes, InLoad
<1>2. FirstLoad
  BY DEF WeightInit, FirstLoad
<1> QED
  BY <1>1, <1>2 DEF WeightInit, WeightInv, WeightsReleased

\* A part that is still to come is allocated, and the loop goes on.
LEMMA AllocStep ==
    ASSUME WeightInv, NEW p \in Ahead, AllocWeight(p), Ahead' \subseteq Ahead \ {p},
           wpc # "destroyed", wpc' # "destroyed", WeightTypes', loads > 0,
           UNCHANGED loads
    PROVE  WeightInv'
<1>1. p \in Parts
  BY PartsDiffer DEF Ahead
<1>2. owned' = [owned EXCEPT ![p] = @ + 1] /\ ptrs' = ptrs \cup {p}
  BY DEF AllocWeight
<1>3. loads <= 1 => p \notin ptrs /\ owned[p] = 0
  BY <1>1 DEF WeightInv, FirstLoad
<1>4. \A q \in Parts : owned'[q] = IF q = p THEN owned[p] + 1 ELSE owned[q]
  BY <1>2 DEF WeightInv, WeightTypes
<1>5. loads <= 1 => \A q \in Parts : owned'[q] = IF q \in ptrs' THEN 1 ELSE 0
  BY <1>2, <1>3, <1>4 DEF WeightInv, FirstLoad
<1>6. FirstLoad'
  BY <1>2, <1>5 DEF WeightInv, WeightTypes, FirstLoad
<1> QED
  BY <1>6 DEF WeightInv, WeightsReleased

LEMMA LoadEmbeddingStep == WeightInv /\ LoadEmbedding => WeightInv'
<1> SUFFICES ASSUME WeightInv, LoadEmbedding PROVE WeightInv'
  OBVIOUS
<1>1. Embedding \in Ahead /\ Ahead' \subseteq Ahead \ {Embedding}
  BY PartsDiffer, WeightAssumption DEF LoadEmbedding, Ahead, LmHead, LayerParts, Parts, Layers
<1>2. layer' = 0 /\ component' = 1 /\ 1 \in DOMAIN Components
  BY WeightAssumption DEF LoadEmbedding, WeightInv, WeightTypes
<1>3. wpc' = "layers" => 0 \in Layers
  BY WeightAssumption DEF LoadEmbedding, Layers
<1>4. WeightTypes'
  BY <1>2, <1>3, PartsDiffer DEF LoadEmbedding, AllocWeight, WeightInv, WeightTypes, InLoad
<1> QED
  BY <1>1, <1>4, AllocStep DEF LoadEmbedding, WeightInv, WeightTypes, InLoad

LEMMA LoadComponentStep ==
    ASSUME WeightInv, LoadComponent \/ LoadComponentFails
    PROVE  WeightInv'
<1> DEFINE p == <<layer, component>>
<1>1. wpc = "layers" /\ layer \in Layers /\ component \in DOMAIN Components
  BY DEF LoadComponent, LoadComponentFails, WeightInv, WeightTypes
<1>2. /\ NumLayers \in Nat /\ Len(Components) \in Nat /\ DOMAIN Components = 1..Len(Components)
      /\ layer \in Nat /\ layer < NumLayers /\ component \in Nat
  BY <1>1, WeightAssumption DEF Layers
<1>3. p \in Ahead /\ p \in LayerParts /\ p \in Parts
  BY <1>1, <1>2, PartsDiffer DEF Ahead, LayerParts
<1>4. \A q \in LayerParts : q[1] \in Nat /\ q[2] \in 1..Len(Components) /\ q = <<q[1], q[2]>>
  BY <1>2 DEF LayerParts, Layers
<1>5. AllocWeight(p)
  BY DEF LoadComponent, LoadComponentFails
<1>6. CASE LoadComponentFails
  <2>1. Ahead' = {}
    BY <1>6 DEF LoadComponentFails, Ahead
  <2>2. WeightTypes'
    BY <1>3, <1>5, <1>6 DEF LoadComponentFails, AllocWeight, WeightInv, WeightTypes, InLoad
  <2> QED
    BY <1>1, <1>3, <1>5, <1>6, <2>1, <2>2, AllocStep
       DEF LoadComponentFails, WeightInv, WeightTypes, InLoad
<1>7. CASE LoadComponent
  <2>1. /\ component' = IF component = Len(Components) THEN 1 ELSE component + 1
        /\ layer' = IF component = Len(Components) THEN layer + 1 ELSE layer
        /\ wpc' = IF layer' = NumLayers THEN "lm_head" ELSE "layers"
    BY <1>7 DEF LoadComponent
  <2>2. Ahead' \subseteq Ahead \ {p}
    <3>1. CASE wpc' = "lm_head"
      BY <1>1, <1>3, <3>1, PartsDiffer DEF Ahead, LmHead
    <3>2. CASE wpc' = "layers"
      <4>1. Ahead' = {LmHead} \cup {q \in LayerParts :
                        q[1] > layer' \/ (q[1] = layer' /\ q[2] >= component')}
        BY <3>2 DEF Ahead, LmHead, LayerParts, Layers
      <4>2. Ahead = {LmHead} \cup {q \in LayerParts :
                        q[1] > layer \/ (q[1] = layer /\ q[2] >= component)}
        BY <1>1 DEF Ahead
      <4>3. ASSUME NEW q \in LayerParts,
                   q[1] > layer' \/ (q[1] = layer' /\ q[2] >= component')
            PROVE  q[1] > layer \/ (q[1] = layer /\ q[2] > component)
        BY <1>2, <1>4, <2>1, <4>3
      <4>4. \A q \in LayerParts :
                q[1] > layer \/ (q[1] = layer /\ q[2] > component)
                    => q # p /\ (q[1] > layer \/ (q[1] = layer /\ q[2] >= component))
        BY <1>2, <1>4
      <4>5. LmHead # p
        BY <1>3, PartsDiffer
      <4> QED
        BY <4>1, <4>2, <4>3, <4>4, <4>5
    <3> QED
      BY <2>1, <3>1, <3>2
  <2>3. wpc' = "layers" => layer' \in Layers /\ component' \in DOMAIN Components
    BY <1>1, <1>2, <2>1 DEF Layers
  <2>4. sent' = [sent EXCEPT ![p] = @ + 1]
    BY <1>7 DEF LoadComponent
  <2>5. sent' \in [LayerParts -> Nat] /\ owned' \in [Parts -> Int] /\ ptrs' \subseteq Parts
    BY <1>3, <1>5, <2>4 DEF AllocWeight, WeightInv, WeightTypes
  <2>6. WeightTypes'
    BY <1>1, <1>7, <2>1, <2>3, <2>5 DEF LoadComponent, WeightInv, WeightTypes, InLoad
  <2> QED
    BY Zenon, <1>1, <1>3, <1>5, <1>7, <2>1, <2>2, <2>6, AllocStep
       DEF LoadComponent, WeightInv, WeightTypes, InLoad
<1> QED
  BY <1>6, <1>7

LEMMA LoadLmHeadStep == WeightInv /\ LoadLmHead => WeightInv'
<1> SUFFICES ASSUME WeightInv, LoadLmHead PROVE WeightInv'
  OBVIOUS
<1>1. LmHead \in Ahead /\ Ahead' = {}
  BY DEF LoadLmHead, Ahead
<1>2. WeightTypes'
  BY PartsDiffer DEF LoadLmHead, AllocWeight, WeightInv, WeightTypes, InLoad
<1> QED
  BY <1>1, <1>2, AllocStep DEF LoadLmHead, WeightInv, WeightTypes, InLoad

\* alloc_weight fails: the pointer was not set before either.
LEMMA NoMemoryStep == WeightInv /\ NoMemory => WeightInv'
<1> SUFFICES ASSUME WeightInv, NoMemory PROVE WeightInv'
  OBVIOUS
<1>0. PICK p \in Ahead : AllocWeightFails(p) /\ InLoad
  <2>1. wpc = "embedding" => Embedding \in Ahead
    BY PartsDiffer DEF Ahead
  <2>2. wpc = "layers" => <<layer, component>> \in Ahead
    <3> SUFFICES ASSUME wpc = "layers" PROVE <<layer, component>> \in Ahead
      OBVIOUS
    <3>1. layer \in Layers /\ component \in DOMAIN Components
      BY DEF WeightInv, WeightTypes
    <3>2. component \in Nat
      BY <3>1, WeightAssumption
    <3> QED
      BY <3>1, <3>2 DEF Ahead, LayerParts
  <2>3. wpc = "lm_head" => LmHead \in Ahead
    BY DEF Ahead
  <2> QED
    BY <2>1, <2>2, <2>3 DEF NoMemory, InLoad
<1>1. Ahead' = {} /\ ptrs' = ptrs \ {p} /\ wpc' = "idle"
  BY <1>0 DEF AllocWeightFails, Ahead
<1>2. WeightTypes'
  BY <1>0, <1>1 DEF AllocWeightFails, WeightInv, WeightTypes, InLoad
<1>3. FirstLoad'
  <2> SUFFICES ASSUME loads <= 1
               PROVE  /\ \A q \in Parts : owned'[q] = IF q \in ptrs' THEN 1 ELSE 0
                      /\ loads' = 0 => ptrs' = {}
    BY <1>0, <1>1 DEF FirstLoad, AllocWeightFails
  <2>1. wpc # "destroyed"
    BY <1>0 DEF InLoad
  <2>2. ptrs' = ptrs /\ owned' = owned /\ loads' = loads
    BY <1>0, <2>1 DEF WeightInv, FirstLoad, AllocWeightFails
  <2> QED
    BY <2>1, <2>2 DEF WeightInv, FirstLoad
<1> QED
  BY <1>1, <1>2, <1>3 DEF WeightInv, WeightsReleased

LEMMA NextWeightInv == WeightInv /\ WeightNext => WeightInv'
<1> SUFFICES ASSUME WeightInv, WeightNext PROVE WeightInv'
  OBVIOUS
<1>1. CASE WeightCreate
  BY <1>1 DEF WeightCreate, WeightInv, WeightTypes, FirstLoad, Ahead, WeightsReleased, InLoad
<1>2. CASE LoadAll
  <2>1. loads' = loads + 1 /\ UNCHANGED <<ptrs, owned>> /\ wpc = "idle" /\ wpc' = "embedding"
    BY <1>2 DEF LoadAll
  <2>2. WeightTypes'
    BY <1>2 DEF LoadAll, WeightInv, WeightTypes, InLoad
  <2>3. FirstLoad'
    <3>1. loads \in Nat
      BY DEF WeightInv, WeightTypes
    <3>2. loads' <= 1 => loads = 0 /\ loads' # 0
      BY <2>1, <3>1
    <3> QED
      BY <2>1, <3>2 DEF WeightInv, FirstLoad
  <2> QED
    BY <2>1, <2>2, <2>3 DEF WeightInv, WeightsReleased
<1>3. CASE WeightDestroy
  <2>1. wpc = "idle" /\ wpc' = "destroyed" /\ UNCHANGED <<settings, loads>>
    BY <1>3 DEF WeightDestroy
  <2>2. /\ owned' = [p \in Parts |-> IF p \in ptrs /\ FromGpu = ToGpu
                                    THEN owned[p] - 1 ELSE owned[p]]
        /\ wrong_free' = (ptrs # {} /\ FromGpu # ToGpu)
        /\ ptrs' = {}
    BY <1>3 DEF WeightDestroy, Freed
  <2>3. owned' \in [Parts -> Int]
    BY <2>2 DEF WeightInv, WeightTypes
  <2>4. WeightTypes'
    BY <1>3, <2>1, <2>2, <2>3 DEF WeightDestroy, WeightInv, WeightTypes, InLoad
  <2>5. wrong_free' => settings.gpu_ctx /\ ~settings.load_to_gpu
    BY Zenon, <2>2, WeightAssumption DEF FromGpu, ToGpu, WeightInv, WeightTypes
  <2>6. loads <= 1 /\ ~wrong_free' => \A p \in Parts : owned'[p] = 0
    <3> SUFFICES ASSUME loads <= 1, ~wrong_free', NEW p \in Parts PROVE owned'[p] = 0
      OBVIOUS
    <3>1. owned[p] = IF p \in ptrs THEN 1 ELSE 0
      BY <2>1 DEF WeightInv, FirstLoad
    <3>2. CASE FromGpu = ToGpu
      <4>1. owned'[p] = IF p \in ptrs THEN owned[p] - 1 ELSE owned[p]
        BY <2>2, <3>2
      <4> QED
        BY <3>1, <4>1
    <3>3. CASE FromGpu # ToGpu
      <4>1. ptrs = {}
        BY <2>2, <3>3, Zenon
      <4>2. owned'[p] = owned[p]
        BY <2>2, <3>3
      <4> QED
        BY <3>1, <4>1, <4>2
    <3> QED
      BY <3>2, <3>3
  <2> QED
    BY <2>1, <2>4, <2>5, <2>6 DEF WeightInv, FirstLoad, WeightsReleased, Parts, LayerParts
<1> QED
  BY <1>1, <1>2, <1>3, LoadEmbeddingStep, LoadComponentStep, LoadLmHeadStep, NoMemoryStep
     DEF WeightNext, WeightCall

LEMMA KeepWeightInv == WeightInv /\ UNCHANGED loading => WeightInv'
BY DEF loading, WeightInv, WeightTypes, FirstLoad, Ahead, WeightsReleased, InLoad

(* kllm_weight_loader_destroy gives back all that load_all allocated, to   *)
(* the allocator it came from, wherever load_all failed; the two           *)
(* exceptions are a repeated load_all and a GPU without load_to_gpu.       *)
THEOREM WeightMemoryReturned == Spec => []WeightsReleased
<1>1. Init => WeightInv
  BY InitWeightInv DEF Init
<1>2. WeightInv /\ [Next]_vars => WeightInv'
  <2>1. WeightNext \/ WeightDestroy => WeightNext
    BY DEF WeightNext
  <2> QED
    BY Zenon, <2>1, NextWeightInv, KeepWeightInv DEF Next, vars
<1>3. WeightInv => WeightsReleased
  BY DEF WeightInv
<1> QED
  BY <1>1, <1>2, <1>3, PTL DEF Spec

-----------------------------------------------------------------------------
(* The fetch of KV blocks.                                                 *)

\* The blocks that inference and the loader ask for.
KvBlocks == {BlockDesc(s, len, b) : s \in SeqIds, len \in SeqLens, b \in Nat}
WeightBlocks == [key : Nat \X Nat, dest : {"weight"} \X Nat \X Nat]

Wavefronts ==
    [ctx : {"infer", "weights"}, blocks : SUBSET (KvBlocks \cup WeightBlocks),
     todo : SUBSET (KvBlocks \cup WeightBlocks), completed : Nat]

\* What the engine holds at any time.
EngineInv ==
    /\ wfs \in Seq(Wavefronts)
    /\ \A i \in DOMAIN wfs :
          /\ wfs[i].blocks # {} /\ IsFiniteSet(wfs[i].blocks)
          /\ wfs[i].todo \subseteq wfs[i].blocks
          /\ wfs[i].ctx # "infer" => wfs[i].blocks \subseteq WeightBlocks

InFetch == ipc \in {"fetch", "attend"}

Blocks(n) == {BlockDesc(seq, seq_len, b) : b \in 0..(n - 1)}

\* The loop of fetch_kv_blocks has come to next_block.
LoopInv ==
    InFetch =>
        /\ seq \in SeqIds /\ seq_len \in SeqLens
        /\ next_block \in 0..NumBlocks(seq_len)
        /\ asked = Blocks(next_block) /\ submitted = next_block
        /\ completed \in Nat
        /\ ipc = "attend" => next_block = NumBlocks(seq_len)

Landed(block) == block.dest \in DOMAIN vram /\ vram[block.dest] = block.key
LandedOf(i) == {block \in wfs[i].blocks \ wfs[i].todo : Landed(block)}
OnTheWay == UNION {wfs[i].blocks : i \in Outstanding}
Arrived == {block \in asked \ OnTheWay : Landed(block)}

\* The reads of a fetch that found the context quiet: what is counted has
\* landed, and what is on its way is not counted yet.
CountInv ==
    InFetch /\ ~stray =>
        /\ \A i \in Outstanding : wfs[i].blocks \subseteq asked
        /\ \A i, j \in Outstanding : i # j => wfs[i].blocks \cap wfs[j].blocks = {}
        /\ \A i \in Outstanding : wfs[i].completed <= Cardinality(LandedOf(i))
        /\ completed <= Cardinality(Arrived)
        /\ ipc = "attend" => Outstanding = {} /\ \A block \in asked : Landed(block)

SharedContext == settings.wf_ctx = "infer" /\ \E p \in LayerParts : sent[p] > 0

\* Where stray reads come from.
StrayInv ==
    \/ abandoned \/ SharedContext
    \/ IF InFetch THEN ~stray ELSE Outstanding = {}

FetchInv == EngineInv /\ LoopInv /\ CountInv /\ StrayInv

-----------------------------------------------------------------------------

LEMMA NumBlocksNat ==
    ASSUME NEW len \in Nat
    PROVE  /\ NumBlocks(len) \in Nat
           /\ \A b \in Nat : b * TokensPerBlock < len <=> b < NumBlocks(len)
<1> DEFINE T == TokensPerBlock
           x == len + T - 1
           n == x \div T
<1>1. T \in Nat /\ T > 0 /\ x \in Nat
  BY InferenceAssumption
<1> HIDE DEF T
<1>2. n \in Int /\ x % T \in 0..(T - 1) /\ x = T * n + (x % T)
  BY <1>1
<1> HIDE DEF x
<1>3. n >= 0
  BY <1>1
<1>4. ASSUME NEW b \in Nat PROVE b * T < len <=> b < n
  <2>1. T * n <= x /\ x < T * n + T
    BY <1>1, <1>2
  <2>2. CASE b < n
    <3>1. n - b - 1 \in Nat /\ T * (n - b - 1) \in Nat
      BY <1>1, <1>2, <2>2
    <3>2. T * (n - b - 1) = T * n - T * b - T
      BY <1>1, <1>2
    <3>3. T * n \in Int /\ T * b \in Int /\ b * T = T * b
      BY <1>1, <1>2
    <3> QED
      BY <1>1, <2>1, <2>2, <3>1, <3>2, <3>3 DEF x
  <2>3. CASE ~(b < n)
    <3>1. b - n \in Nat /\ T * (b - n) \in Nat
      BY <1>1, <1>2, <2>3
    <3>2. T * (b - n) = T * b - T * n
      BY <1>1, <1>2
    <3>3. T * n \in Int /\ T * b \in Int /\ b * T = T * b
      BY <1>1, <1>2
    <3> QED
      BY <1>1, <2>1, <2>3, <3>1, <3>2, <3>3 DEF x
  <2> QED
    BY <2>2, <2>3
<1> QED
  BY <1>1, <1>2, <1>3, <1>4 DEF NumBlocks, T, x

LEMMA DescDest ==
    ASSUME NEW s, NEW len, NEW b
    PROVE  BlockDesc(s, len, b).dest = <<"kv", b>>
BY DEF BlockDesc

LEMMA WeightDest ==
    ASSUME NEW w \in WeightBlocks, NEW s, NEW len, NEW b
    PROVE  w.dest # BlockDesc(s, len, b).dest
<1>1. w.dest \in {"weight"} \X Nat \X Nat
  BY DEF WeightBlocks
<1>2. w.dest[1] = "weight" /\ <<"kv", b>>[1] = "kv"
  BY <1>1
<1> QED
  BY <1>2, DescDest

\* The sequence s without its i-th element, as Reap leaves it.
RemoveAt(s, i) == SubSeq(s, 1, i - 1) \o SubSeq(s, i + 1, Len(s))

LEMMA RemoveAtFacts ==
    ASSUME NEW S, NEW s \in Seq(S), NEW i \in DOMAIN s
    PROVE  /\ RemoveAt(s, i) \in Seq(S)
           /\ Len(RemoveAt(s, i)) = Len(s) - 1
           /\ \A j \in 1..(Len(s) - 1) : RemoveAt(s, i)[j] = s[IF j < i THEN j ELSE j + 1]
<1> DEFINE a == SubSeq(s, 1, i - 1)
           b == SubSeq(s, i + 1, Len(s))
<1>1. i \in 1..Len(s) /\ Len(s) \in Nat
  OBVIOUS
<1>2. a \in Seq(S) /\ Len(a) = i - 1 /\ \A j \in 1..(i - 1) : a[j] = s[j]
  BY <1>1
<1>3. /\ b \in Seq(S) /\ Len(b) = Len(s) - i
      /\ \A j \in 1..(Len(s) - i) : b[j] = s[i + j]
  BY <1>1
<1> HIDE DEF a, b
<1>4. /\ a \o b \in Seq(S) /\ Len(a \o b) = Len(s) - 1
      /\ \A j \in 1..(Len(s) - 1) :
            (a \o b)[j] = IF j <= i - 1 THEN a[j] ELSE b[j - (i - 1)]
  <2>1. Len(a) + Len(b) = Len(s) - 1
    BY <1>1, <1>2, <1>3
  <2>2. /\ a \o b \in Seq(S) /\ Len(a \o b) = Len(a) + Len(b)
        /\ \A j \in 1..(Len(a) + Len(b)) :
              (a \o b)[j] = IF j <= Len(a) THEN a[j] ELSE b[j - Len(a)]
    BY <1>2, <1>3
  <2> QED
    BY Zenon, <1>2, <2>1, <2>2
<1>5. ASSUME NEW j \in 1..(Len(s) - 1)
      PROVE  (a \o b)[j] = s[IF j < i THEN j ELSE j + 1]
  <2>1. CASE j < i
    <3>1. j \in 1..(i - 1) /\ j <= i - 1
      BY <1>1, <2>1
    <3> QED
      BY <1>2, <1>4, <2>1, <3>1
  <2>2. CASE ~(j < i)
    <3>1. j - (i - 1) \in 1..(Len(s) - i) /\ i + (j - (i - 1)) = j + 1 /\ ~(j <= i - 1)
      BY <1>1, <2>2
    <3>2. (a \o b)[j] = b[j - (i - 1)]
      BY <1>4, <3>1
    <3>3. b[j - (i - 1)] = s[i + (j - (i - 1))]
      BY <1>3, <3>1
    <3> QED
      BY <2>2, <3>1, <3>2, <3>3
  <2> QED
    BY Zenon, <2>1, <2>2
<1>6. RemoveAt(s, i) = a \o b
  BY DEF RemoveAt, a, b
<1> QED
  BY Zenon, <1>4, <1>5, <1>6

\* A block of the i-th wavefront lands or fails.
LEMMA EngineChange ==
    ASSUME EngineInv, NEW i \in DOMAIN wfs, NEW block \in wfs[i].todo,
           BlockLands(i, block) \/ BlockFails(i, block)
    PROVE  /\ EngineInv'
           /\ DOMAIN wfs' = DOMAIN wfs /\ Outstanding' = Outstanding /\ OnTheWay' = OnTheWay
           /\ \A j \in DOMAIN wfs : wfs'[j].blocks = wfs[j].blocks
           /\ \A j \in DOMAIN wfs : j # i => wfs'[j] = wfs[j]
           /\ wfs'[i].todo = wfs[i].todo \ {block}
<1>1. wfs[i] \in Wavefronts
  BY DEF EngineInv
<1>2. wfs[i].completed \in Nat /\ wfs[i].todo \subseteq KvBlocks \cup WeightBlocks
  BY <1>1 DEF Wavefronts
<1>3. PICK w \in Wavefronts :
         /\ w.ctx = wfs[i].ctx /\ w.blocks = wfs[i].blocks /\ w.todo = wfs[i].todo \ {block}
         /\ wfs' = [wfs EXCEPT ![i] = w]
  <2> DEFINE w(c) == [wfs[i] EXCEPT !.todo = wfs[i].todo \ {block}, !.completed = c]
  <2>1. \A c \in Nat : /\ w(c) \in Wavefronts /\ w(c).ctx = wfs[i].ctx
                       /\ w(c).blocks = wfs[i].blocks /\ w(c).todo = wfs[i].todo \ {block}
    BY Zenon, <1>1, <1>2 DEF Wavefronts
  <2>2. CASE BlockLands(i, block)
    <3>1. wfs' = [wfs EXCEPT ![i] = w(wfs[i].completed + 1)]
      BY Zenon, <2>2 DEF BlockLands
    <3>2. wfs[i].completed + 1 \in Nat
      BY <1>2
    <3> HIDE DEF w
    <3> QED
      BY Zenon, <2>1, <3>1, <3>2
  <2>3. CASE BlockFails(i, block)
    <3>1. wfs' = [wfs EXCEPT ![i] = w(wfs[i].completed)]
      BY Zenon, <1>1, <2>3 DEF BlockFails, Wavefronts
    <3> QED
      BY Zenon, <1>2, <2>1, <3>1
  <2> QED
    BY <2>2, <2>3
<1>4. /\ wfs' \in Seq(Wavefronts) /\ DOMAIN wfs' = DOMAIN wfs /\ wfs'[i] = w
      /\ \A j \in DOMAIN wfs : j # i => wfs'[j] = wfs[j]
  BY <1>3 DEF EngineInv
<1>5. \A j \in DOMAIN wfs : wfs'[j].blocks = wfs[j].blocks /\ wfs'[j].ctx = wfs[j].ctx
  BY <1>3, <1>4
<1>6. \A j \in DOMAIN wfs : wfs'[j].todo \subseteq wfs[j].todo
  BY <1>3, <1>4
<1>7. EngineInv'
  BY <1>4, <1>5, <1>6 DEF EngineInv, WeightBlocks
<1>8. Outstanding' = Outstanding
  BY <1>4, <1>5 DEF Outstanding
<1>9. OnTheWay' = OnTheWay
  <2>1. \A j \in Outstanding : wfs'[j].blocks = wfs[j].blocks
    BY <1>5 DEF Outstanding
  <2> QED
    BY <1>8, <2>1 DEF OnTheWay
<1> QED
  BY <1>3, <1>4, <1>5, <1>7, <1>8, <1>9

\* What has landed of the fetch stays: no other read has its destination.
LEMMA LandedStays ==
    ASSUME EngineInv, LoopInv, CountInv, InFetch, ~stray,
           NEW i \in DOMAIN wfs, NEW new \in wfs[i].todo, BlockLands(i, new),
           NEW block \in asked, Landed(block)
    PROVE  Landed(block)'
<1>1. /\ vram' = [d \in DOMAIN vram \cup {new.dest} |->
                     IF d = new.dest THEN new.key ELSE vram[d]]
      /\ block.dest \in DOMAIN vram /\ vram[block.dest] = block.key
  BY DEF BlockLands, Landed
<1>2. PICK b \in 0..(next_block - 1) : block = BlockDesc(seq, seq_len, b)
  BY DEF LoopInv, Blocks
<1>3. new \in wfs[i].blocks
  BY DEF EngineInv
<1>4. new.dest = block.dest => new = block
  <2>1. CASE i \in Outstanding
    <3>1. new \in asked
      BY <1>3, <2>1 DEF CountInv
    <3>2. PICK c \in 0..(next_block - 1) : new = BlockDesc(seq, seq_len, c)
      BY <3>1 DEF LoopInv, Blocks
    <3>3. new.dest = block.dest => <<"kv", c>> = <<"kv", b>>
      BY <1>2, <3>2, DescDest
    <3>4. <<"kv", c>> = <<"kv", b>> => b = c
      OBVIOUS
    <3> QED
      BY <1>2, <3>2, <3>3, <3>4
  <2>2. CASE i \notin Outstanding
    <3>1. new \in WeightBlocks
      BY <1>3, <2>2 DEF EngineInv, Outstanding
    <3> QED
      BY <1>2, <3>1, WeightDest
  <2> QED
    BY <2>1, <2>2
<1>5. block.dest \in DOMAIN vram' /\ vram'[block.dest] = block.key
  BY <1>1, <1>4
<1> QED
  BY <1>5 DEF Landed

\* A wavefront is appended.
LEMMA SubmitEngine ==
    ASSUME EngineInv, NEW ctx \in {"infer", "weights"},
           NEW blocks \in SUBSET (KvBlocks \cup WeightBlocks), IsFiniteSet(blocks),
           ctx # "infer" => blocks \subseteq WeightBlocks, Submit(ctx, blocks)
    PROVE  /\ EngineInv'
           /\ \A i \in DOMAIN wfs : i \in DOMAIN wfs' /\ wfs'[i] = wfs[i]
           /\ Outstanding' = Outstanding \cup (IF ctx = "infer" THEN {Len(wfs) + 1} ELSE {})
           /\ Len(wfs) + 1 \notin DOMAIN wfs
           /\ wfs'[Len(wfs) + 1] = NewWavefront(ctx, blocks)
           /\ vram' = vram
<1>1. wfs' = Append(wfs, NewWavefront(ctx, blocks)) /\ vram' = vram /\ blocks # {}
  BY DEF Submit
<1>2. NewWavefront(ctx, blocks) \in Wavefronts
  BY DEF NewWavefront, Wavefronts
<1>3. /\ wfs \in Seq(Wavefronts) /\ Len(wfs) \in Nat /\ DOMAIN wfs = 1..Len(wfs)
      /\ wfs' \in Seq(Wavefronts) /\ DOMAIN wfs' = 1..(Len(wfs) + 1)
      /\ wfs'[Len(wfs) + 1] = NewWavefront(ctx, blocks)
      /\ \A i \in DOMAIN wfs : wfs'[i] = wfs[i]
  BY <1>1, <1>2 DEF EngineInv
<1>4. DOMAIN wfs' = DOMAIN wfs \cup {Len(wfs) + 1} /\ Len(wfs) + 1 \notin DOMAIN wfs
  BY <1>3
<1>5. /\ NewWavefront(ctx, blocks).blocks = blocks /\ NewWavefront(ctx, blocks).todo = blocks
      /\ NewWavefront(ctx, blocks).ctx = ctx
  BY DEF NewWavefront
<1>6. ASSUME NEW i \in DOMAIN wfs'
      PROVE  /\ wfs'[i].blocks # {} /\ IsFiniteSet(wfs'[i].blocks)
             /\ wfs'[i].todo \subseteq wfs'[i].blocks
             /\ wfs'[i].ctx # "infer" => wfs'[i].blocks \subseteq WeightBlocks
  <2>1. CASE i \in DOMAIN wfs
    BY <1>3, <2>1 DEF EngineInv
  <2>2. CASE i = Len(wfs) + 1
    BY <1>1, <1>3, <1>5, <2>2
  <2> QED
    BY <1>4, <2>1, <2>2
<1>7. EngineInv'
  BY <1>3, <1>6 DEF EngineInv, WeightBlocks
<1>8. Outstanding' = Outstanding \cup (IF ctx = "infer" THEN {Len(wfs) + 1} ELSE {})
  BY <1>3, <1>4, <1>5 DEF Outstanding
<1> QED
  BY <1>1, <1>3, <1>4, <1>7, <1>8

\* The i-th wavefront, which is complete, leaves the context.
LEMMA ReapEngine ==
    ASSUME EngineInv, NEW i \in DOMAIN wfs, Reap("infer", i)
    PROVE  /\ EngineInv' /\ vram' = vram /\ i \in Outstanding /\ wfs[i].todo = {}
           /\ \A j \in DOMAIN wfs' : \E k \in DOMAIN wfs : k # i /\ wfs'[j] = wfs[k]
           /\ \A j, l \in DOMAIN wfs' : j # l =>
                 \E k, m \in DOMAIN wfs : /\ k # m /\ k # i /\ m # i
                                          /\ wfs'[j] = wfs[k] /\ wfs'[l] = wfs[m]
<1> DEFINE at(j) == IF j < i THEN j ELSE j + 1
<1>1. wfs' = RemoveAt(wfs, i) /\ vram' = vram /\ wfs[i].ctx = "infer" /\ wfs[i].todo = {}
  BY DEF Reap, RemoveAt
<1>2. wfs \in Seq(Wavefronts) /\ Len(wfs) \in Nat /\ DOMAIN wfs = 1..Len(wfs)
  BY DEF EngineInv
<1>3. /\ wfs' \in Seq(Wavefronts) /\ DOMAIN wfs' = 1..(Len(wfs) - 1)
      /\ \A j \in DOMAIN wfs' : wfs'[j] = wfs[at(j)]
  <2>1. /\ RemoveAt(wfs, i) \in Seq(Wavefronts) /\ Len(RemoveAt(wfs, i)) = Len(wfs) - 1
        /\ \A j \in 1..(Len(wfs) - 1) : RemoveAt(wfs, i)[j] = wfs[at(j)]
    BY Zenon, <1>2, RemoveAtFacts
  <2>2. DOMAIN RemoveAt(wfs, i) = 1..(Len(wfs) - 1)
    BY <2>1
  <2> QED
    BY <1>1, <2>1, <2>2
<1>4. \A j \in DOMAIN wfs' : at(j) \in DOMAIN wfs /\ at(j) # i
  BY <1>2, <1>3
<1>5. \A j, l \in DOMAIN wfs' : j # l => at(j) # at(l)
  BY <1>2, <1>3
<1> HIDE DEF at
<1>6. EngineInv'
  BY <1>3, <1>4 DEF EngineInv, WeightBlocks
<1> QED
  BY <1>1, <1>3, <1>4, <1>5, <1>6 DEF Outstanding

\* Steps that leave the engine alone.
LEMMA SameEngine ==
    ASSUME EngineInv, wfs' = wfs
    PROVE  EngineInv' /\ Outstanding' = Outstanding
BY DEF EngineInv, WeightBlocks, Outstanding

LEMMA SameFetch ==
    ASSUME UNCHANGED <<wfs, vram, asked>>
    PROVE  /\ Arrived' = Arrived
           /\ \A i : LandedOf(i)' = LandedOf(i)
           /\ \A block : Landed(block)' <=> Landed(block)
<1>1. \A block : Landed(block)' <=> Landed(block)
  BY DEF Landed
<1>2. OnTheWay' = OnTheWay
  BY DEF OnTheWay, Outstanding
<1> QED
  BY <1>1, <1>2 DEF Arrived, LandedOf

LEMMA SameCount ==
    ASSUME CountInv, UNCHANGED <<wfs, vram, asked, completed, stray>>, InFetch' => InFetch,
           ipc' = "attend" /\ ~stray => Outstanding = {} /\ \A block \in asked : Landed(block)
    PROVE  CountInv'
<1>1. Outstanding' = Outstanding
  BY DEF Outstanding
<1> QED
  BY <1>1, SameFetch DEF CountInv
=============================================================================
