------------------------------ MODULE Inference ------------------------------
(***************************************************************************)
(* Inference for one sequence at a time: on the CPU from the KV cache      *)
(* (userspace/compute/infer_cpu.c), or on the GPU, which fetches every KV  *)
(* block of the sequence by wavefronts and runs paged attention on them    *)
(* (userspace/compute/infer_gpu.c, userspace/gpu/gpu_attention.c) in       *)
(* buffers of userspace/gpu/p2p_dma.c.                                     *)
(*                                                                         *)
(* A sequence is a model value and a length.  The key of a KV block is the *)
(* prefix it is the hash of.  All sequences use the same VRAM blocks, the  *)
(* entries of block_table.                                                 *)
(***************************************************************************)
EXTENDS Wavefront

CONSTANTS
    SeqIds,            \* the sequences that occur
    SeqLens,           \* bound: their lengths
    TokensPerBlock,    \* model.tokens_per_block
    MaxCreates,        \* bound: contexts in a behaviour
    MaxInfers          \* bound: inference calls in a behaviour

ASSUME InferenceAssumption ==
    /\ TokensPerBlock \in Nat \ {0} /\ SeqLens \subseteq Nat \ {0}
    /\ MaxCreates \in Nat /\ MaxInfers \in Nat

VARIABLES
    held,              \* memory and descriptors of the kllm_infer_gpu_ctx
    kv_region,         \* "mapped", or "zero" when its fields are zero
    logits_region,
    stdin_open,        \* descriptor 0, which is not the context's
    ipc,               \* where kllm_infer_gpu is
    seq, seq_len,      \* its arguments
    next_block,        \* blocks already in a wavefront
    submitted, completed,
    gpu_mem,           \* its device buffers
    logits,            \* result->logits: the call that computed them
    last_turn,         \* history: the last call that returned 0 in this decode run
    creates, infers,   \* calls (bounded)
    asked,             \* history: the blocks this fetch has submitted
    stray,             \* history: reads were on their way when the call began
    abandoned          \* history: a fetch gave up with reads on their way

context == <<held, kv_region, logits_region, stdin_open, creates>>
fetch == <<seq, seq_len, next_block, submitted, completed, asked>>
inference == <<context, ipc, fetch, gpu_mem, logits, last_turn, infers, stray, abandoned>>

NULL == <<"NULL", 0>>
Zeros == <<"zeros", 0>>

InferenceInit ==
    /\ held = {} /\ kv_region = "zero" /\ logits_region = "zero"
    /\ stdin_open = TRUE
    /\ ipc = "idle" /\ seq = NULL /\ seq_len = 0
    /\ next_block = 0 /\ submitted = 0 /\ completed = 0 /\ asked = {}
    /\ gpu_mem = {} /\ logits = NULL /\ last_turn = NULL /\ creates = 0 /\ infers = 0
    /\ stray = FALSE /\ abandoned = FALSE

-----------------------------------------------------------------------------
(* kllm_infer_gpu_create and kllm_infer_gpu_destroy.                       *)

\* kllm_p2p_free_region: a mapped region is unmapped.  One whose fields are
\* zero has dma_buf_fd 0 and no UMA flag, so descriptor 0 is closed.
FreeRegions(regions) ==
    /\ kv_region' = IF "kv" \in regions THEN "zero" ELSE kv_region
    /\ logits_region' = IF "logits" \in regions THEN "zero" ELSE logits_region
    /\ stdin_open' = (/\ stdin_open
                      /\ "kv" \in regions => kv_region = "mapped"
                      /\ "logits" \in regions => logits_region = "mapped")

\* kllm_p2p_create: memory shared with the GPU, or the DRM descriptor of a
\* discrete GPU.
P2pKinds == {"uma", "drm_fd"}

\* kllm_p2p_alloc_region may succeed for shared memory only.
RegionsAllocate == "uma" \in held

\* The steps of create in their order.
CreateCtx ==
    /\ ipc = "idle" /\ held = {} /\ creates < MaxCreates
    /\ creates' = creates + 1
    /\ ipc' = "kv"
    /\ \E p2p \in P2pKinds : held' = {"ctx", p2p}
    /\ UNCHANGED <<kv_region, logits_region, stdin_open>>

\* calloc or kllm_p2p_create fails.
CreateCtxFails ==
    /\ ipc = "idle" /\ held = {} /\ creates < MaxCreates
    /\ creates' = creates + 1
    /\ UNCHANGED <<ipc, held, kv_region, logits_region, stdin_open>>

AllocKvRegion ==
    /\ ipc = "kv" /\ RegionsAllocate
    /\ kv_region' = "mapped" /\ ipc' = "logits"
    /\ UNCHANGED <<held, logits_region, stdin_open, creates>>

\* Mutant of KvRegionFails: the error path goes through destroy.
KvRegionFailsDestroys ==
    /\ ipc = "kv"
    /\ held' = {} /\ ipc' = "idle"
    /\ FreeRegions({"kv", "logits"})
    /\ UNCHANGED creates

KvRegionFails ==
    /\ ipc = "kv"
    /\ held' = {} /\ ipc' = "idle"
    /\ UNCHANGED <<kv_region, logits_region, stdin_open, creates>>

AllocLogitsRegion ==
    /\ ipc = "logits"
    /\ logits_region' = "mapped" /\ ipc' = "tables"
    /\ UNCHANGED <<held, kv_region, stdin_open, creates>>

LogitsRegionFails ==
    /\ ipc = "logits"
    /\ held' = {} /\ ipc' = "idle"
    /\ FreeRegions({"kv"})
    /\ UNCHANGED creates

Destroy ==
    /\ held' = {}
    /\ FreeRegions({"logits", "kv"})
    /\ UNCHANGED creates

AllocTables ==
    /\ ipc = "tables"
    /\ held' = held \cup {"host_logits", "block_table"} /\ ipc' = "idle"
    /\ UNCHANGED <<kv_region, logits_region, stdin_open, creates>>

TablesFail ==
    /\ ipc = "tables"
    /\ ipc' = "idle"
    /\ Destroy

DestroyCtx ==
    /\ ipc = "idle" /\ held # {}
    /\ Destroy
    /\ UNCHANGED ipc

LifeCycle ==
    /\ \/ CreateCtx \/ CreateCtxFails \/ AllocKvRegion \/ KvRegionFails
       \/ AllocLogitsRegion \/ LogitsRegionFails \/ AllocTables \/ TablesFail
       \/ DestroyCtx
    /\ UNCHANGED <<fetch, gpu_mem, logits, last_turn, infers, stray, abandoned, wavefronts>>

-----------------------------------------------------------------------------
(* kllm_infer_gpu.                                                         *)

Outstanding == {i \in DOMAIN wfs : wfs[i].ctx = "infer"}

\* A call with a context and a sequence; without, it returns -1 at once.
InferGpu(s, len) ==
    /\ ipc = "idle" /\ held # {} /\ infers < MaxInfers
    /\ ipc' = "fetch"
    /\ seq' = s /\ seq_len' = len
    /\ next_block' = 0 /\ submitted' = 0 /\ completed' = 0 /\ asked' = {}
    /\ infers' = infers + 1
    /\ stray' = (Outstanding # {})
    /\ UNCHANGED <<context, gpu_mem, logits, last_turn, abandoned, wavefronts>>

NumBlocks(len) == (len + TokensPerBlock - 1) \div TokensPerBlock

\* The descriptor of block b: the hash of the prefix up to its end, and its
\* entry of block_table.
BlockDesc(s, len, b) ==
    LET prefix_len == (b + 1) * TokensPerBlock
    IN  [key |-> <<s, IF prefix_len > len THEN len ELSE prefix_len>>,
         dest |-> <<"kv", b>>]

\* Mutant of ChunkEnd: the wavefront is tested before the block is added.
ChunkEndLate ==
    LET n == NumBlocks(seq_len)
    IN  IF next_block + MaxBlocks + 1 <= n THEN next_block + MaxBlocks + 1 ELSE n

\* A wavefront is submitted when it is full, and at the end of the loop when
\* something is left.
ChunkEnd ==
    LET n == NumBlocks(seq_len)
    IN  IF next_block + MaxBlocks <= n THEN next_block + MaxBlocks ELSE n

Chunk == {BlockDesc(seq, seq_len, b) : b \in next_block..(ChunkEnd - 1)}

SubmitChunk ==
    /\ ipc = "fetch" /\ next_block < NumBlocks(seq_len)
    /\ Submit("infer", Chunk)
    /\ submitted' = submitted + Cardinality(Chunk)
    /\ asked' = asked \cup Chunk
    /\ next_block' = ChunkEnd
    /\ UNCHANGED <<context, ipc, seq, seq_len, completed, gpu_mem, logits, last_turn, infers,
                   stray, abandoned>>

\* fetch_kv_blocks returns -1 and waits for nothing.
SubmitChunkFails ==
    /\ ipc = "fetch" /\ next_block < NumBlocks(seq_len)
    /\ SubmitFails
    /\ ipc' = "idle"
    /\ abandoned' = (abandoned \/ submitted > 0)
    /\ UNCHANGED <<context, fetch, gpu_mem, logits, last_turn, infers, stray>>

\* Mutant of WaitOver: one block is not waited for.
WaitOverEarly ==
    /\ ipc = "fetch" /\ next_block = NumBlocks(seq_len)
    /\ completed + 1 >= submitted

\* Mutant of WaitOver: one completion too many is waited for.
WaitOverLate ==
    /\ ipc = "fetch" /\ next_block = NumBlocks(seq_len)
    /\ completed > submitted

WaitOver ==
    /\ ipc = "fetch" /\ next_block = NumBlocks(seq_len)
    /\ completed >= submitted

\* The wait loop: any completion of the context counts, failed blocks do not.
PollCompletion ==
    /\ ipc = "fetch" /\ next_block = NumBlocks(seq_len)
    /\ ~WaitOver
    /\ \E i \in DOMAIN wfs :
          /\ Reap("infer", i)
          /\ completed' = completed + wfs[i].completed
    /\ UNCHANGED <<context, ipc, seq, seq_len, next_block, submitted, asked, gpu_mem,
                   logits, last_turn, infers, stray, abandoned>>

GpuMalloc ==
    /\ WaitOver
    /\ gpu_mem' = {"query", "output"} /\ ipc' = "attend"
    /\ UNCHANGED <<context, fetch, logits, last_turn, infers, stray, abandoned, wavefronts>>

\* One of the two buffers or both are missing; the other one is freed.
GpuMallocFails ==
    /\ WaitOver
    /\ \E got \in {{}, {"query"}, {"output"}} : gpu_mem' = got \ {"query", "output"}
    /\ ipc' = "idle"
    /\ UNCHANGED <<context, fetch, logits, last_turn, infers, stray, abandoned, wavefronts>>

\* Logits are allocated when there are none, and never written.
LogitsAfterGpu == IF logits = NULL THEN Zeros ELSE logits

AttentionReturns ==
    /\ ipc = "attend"
    /\ gpu_mem' = {} /\ ipc' = "idle"
    /\ logits' = LogitsAfterGpu
    /\ last_turn' = <<"gpu", infers>>
    /\ UNCHANGED <<context, fetch, infers, stray, abandoned, wavefronts>>

\* No backend, a kernel that fails, or no memory for logits.
AttentionFails ==
    /\ ipc = "attend"
    /\ gpu_mem' = {} /\ ipc' = "idle"
    /\ UNCHANGED <<context, fetch, logits, last_turn, infers, stray, abandoned, wavefronts>>

-----------------------------------------------------------------------------
(* kllm_infer_cpu, on the result of the same decode run.                   *)

\* Every layer finds the block; logits are allocated if need be and written.
InferCpu ==
    /\ ipc = "idle" /\ infers < MaxInfers
    /\ infers' = infers + 1
    /\ logits' = <<"cpu", infers>> /\ last_turn' = <<"cpu", infers>>
    /\ UNCHANGED <<context, ipc, fetch, gpu_mem, stray, abandoned, wavefronts>>

\* A miss, or no memory, in some layer or for the logits: return -1.  The
\* caller goes on with kllm_infer_gpu or kllm_infer_gpu_escalate.
InferCpuFails ==
    /\ ipc = "idle" /\ infers < MaxInfers
    /\ infers' = infers + 1
    /\ UNCHANGED <<context, ipc, fetch, gpu_mem, logits, last_turn, stray, abandoned,
                   wavefronts>>

\* The decode run ends and frees the logits; the next has none.
FreeLogits ==
    /\ ipc = "idle" /\ logits # NULL
    /\ logits' = NULL /\ last_turn' = NULL
    /\ UNCHANGED <<context, ipc, fetch, gpu_mem, infers, stray, abandoned, wavefronts>>

GpuCall ==
    \/ SubmitChunk \/ SubmitChunkFails
    \/ PollCompletion
    \/ GpuMalloc \/ GpuMallocFails
    \/ AttentionReturns \/ AttentionFails

InferenceNext ==
    \/ LifeCycle
    \/ \E s \in SeqIds, len \in SeqLens : InferGpu(s, len)
    \/ GpuCall
    \/ InferCpu \/ InferCpuFails
    \/ FreeLogits
=============================================================================
