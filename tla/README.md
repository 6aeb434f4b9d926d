# Verification of xpu-kllm

TLA+ models of the prompt-to-token pipeline of xpu-kllm, the TLC runs that check
them on small instances, and TLAPS proofs of the properties that matter most for
every size. Paths below are relative to the root of the repository.

## The system

A client writes a prompt to a character device. An eBPF program tokenizes it
into a ring in a hugepage; an SPDK reactor polls the ring, looks the prompt up
in a content-addressed cache of KV blocks, decides between CPU and GPU, decodes
token by token, and pushes each token back through `ioctl()` into a second ring
that clients `read()`.

| Part | Source | State | Operations |
|---|---|---|---|
| token ring | `kernel/chardev/kllm_ring.h`, `userspace/include/kllm_ring_user.h` | slots, head, tail, seq_id | produce (in the tokenizer), consume_batch |
| tokenizer | `bpf/tokenizer.bpf.c` | per-CPU scratch | bytes to tokens, merges, ring write |
| prompt device | `kernel/chardev/llm_prompt.c` | both rings' memory, response ring, wait queue | load, unload, open, write, read, poll, mmap, ioctl |
| response path | `userspace/reactor/kllm_response.c` | a file descriptor | emit in chunks, eos |
| KV arena | `userspace/kvcache/arena_alloc.c` | bitmap, hint, count | alloc, free |
| cache index | `userspace/kvcache/cache_index.c` | open-addressing table, count | lookup, insert (LRU eviction), evict |
| dispatch policy | `userspace/compute/dispatch_policy.c` | GPU queue depth | decide, gpu_complete |
| batch scheduler | `userspace/reactor/batch_scheduler.c` | request pool | submit, step |
| decode loop | `userspace/decode/decode_loop.c` | sequence, logits | run |
| inference | `userspace/compute/`, `userspace/gpu/` | device regions, wavefronts in flight, logits | CPU attention, wavefront fetch, GPU attention |
| weight loader | `userspace/weights/weight_loader.c` | weight buffers, progress | create, load all, destroy |
| reactor | `userspace/reactor/kllm_reactor.c` | ring mapping, arena, index, dispatch policy | start, poll, shut down |
| tracing | `bpf/kllm_trace.bpf.c`, `userspace/tools/kllm_trace.c` | maps keyed by pid | probes |

What makes it hard: the two rings are shared without a common lock (the token
ring has none at all, `kllm_read` copies with the lock dropped); tests are made
before a lock is taken; both rings drop what does not fit; probe chains, bitmap
and counters of the cache must agree through evictions and failed inserts; a
request may end by end of sequence, by a limit or by a failure of inference in
the middle of a batch; wavefront reads complete at any time, in any order and
for whoever asks first; every start-up sequence can fail at every step; tracing
probes of all threads share maps without a lock.

## Modules

| Module | Models |
|---|---|
| `RingIndex` | index arithmetic of both rings: `(i + 1) & mask`, `(head - tail) & mask`, and the contents between two indices |
| `Tokenizer` | `kllm_tokenize` up to the ring: bytes to tokens, one merge per pass of `bpf_loop` |
| `TokenRing` | `kllm_tokenize`'s ring write against `kllm_ring_consume_batch`, one step per load or store |
| `TokenFifo` | abstract: a bounded FIFO with batched Put and Take |
| `Reactor` | composition: the kernel module's life, clients, the token FIFO, and the reactor's process from start to exit |
| `ResponseRing` | `kllm_ioctl`, `kllm_resp_produce`, `kllm_read` and its wait queue |
| `ArenaOps` | the allocator's operations as functions of its state |
| `KVArena` | the allocator with a client that frees only what it holds |
| `CacheIndex` | the index composed with the arena (`EXTENDS ArenaOps`) |
| `LossyCache` | abstract: a cache that may miss but never lies |
| `DispatchOps` | `kllm_dispatch_decide` and what may be behind the GPU, shared by `Reactor`, `BatchScheduler` and `DecodeLoop` |
| `BatchScheduler` | `kllm_batch_submit`, `kllm_batch_step` |
| `Sampling` | the sampling strategies as the set of tokens each may return |
| `DecodeLoop` | `kllm_decode_run` |
| `Wavefront` | submit and poll, with an engine that completes blocks at its own pace |
| `Inference` | `kllm_infer_gpu_create`, `_destroy`, `kllm_infer_gpu`, and `kllm_infer_cpu` on the same result |
| `WeightLoader` | `kllm_weight_loader_create`, `_load_all`, `_destroy` |
| `GpuPath` | composition: weight loader and inference on one engine |
| `Trace` | the tracing probes on their shared maps, the event buffer and the tool |
| `OperatorProofs` | lemmas about `RingIndex` and `Sampling` |
| `TokenRingProofs`, `ResponseRingProofs` | theorems about the rings |
| `KVCacheProofs` | about `KVArena` and `CacheIndex` |
| `RequestProofs` | about `DecodeLoop` and `Trace` |
| `ReactorProofs` | about `Reactor` and `BatchScheduler` |
| `GpuPathProofs`, `FetchProofs` | about `GpuPath`: create, destroy and weights; the fetch of KV blocks |
| `MC*` | the instances TLC checks; `MCServing` holds reactor, scheduler and decode loop, `MCBpf` tokenizer and tracing |

How state and actions correspond to the code:

- **Tokenizer.** A byte is its own first token. `Convert` is phase 1, cut at
  `MAX_SEQ_LEN`; `MergePass` is one `do_merge_pass` (leftmost pair of the lowest
  priority, merged in place); `Return` is the end of `bpf_loop`, when no pair is
  left or the passes are used up. `BytePairEncode` is the reference: rule by
  rule, in the order of their ranks, each applied from left to right.
- **TokenRing.** `slots`, `head`, `tail`, `seq_id` are the ring header and its
  array. `lhead`, `seq`, `copied` are locals of `kllm_tokenize`: `Tokenize`
  reads head, `CopyToken` is one turn of the copy loop, `EndCopy` leaves it
  (all copied, or ring full), `Publish` stores head, `Bump` increments seq_id
  and returns. `LoadHead`, `ReadSlot`, `AdvanceTail` are
  `kllm_ring_consume_batch`. The writer's test of tail and the store it allows
  are one step: between them the reactor can only make more room.
- **Reactor.** `kpc` and `kmem` are how far `kllm_init` has come and what it has
  allocated. `fds`, `live` and `ptrs` tell the process's descriptors, the
  objects that exist and the pointers in `g_ctx` apart: after a failed
  `kllm_init_kvcache` a pointer may lead to nothing. `kllm_ring_poll` is
  `PollLoad` (how many), `PollTake` (copy, store tail) and `PollDispatch`, so a
  kill can fall between them. `module_refs` is who keeps the module from being
  unloaded: `open` takes a reference through the owner in `kllm_fops`, and the
  file, whose last user may be a mapping that outlives the descriptor, drops it.
  `kllm_reactor_shutdown` is three steps, as its process still owns ring and
  descriptor while it destroys the rest. The hook of `kllm_write` is a TODO in the source;
  behaviours with it unfilled and with the tokenizer attached are both covered.
  A token is the number of its prompt, which is all the properties ask of it.
- **ResponseRing.** `RespProduce` is the critical section of
  `kllm_resp_produce`, `WakeReaders` its wake-up after the unlock. A read goes
  through the unlocked test (`ReadCall`), `Sleep`/`Woken` on the wait queue, the
  first critical section (`Snapshot`), the address computation and the
  word-by-word copy without the lock (`StartCopy`, `CopyWord`, `Fault`), and the
  second critical section (`Advance`). A word read beyond the array is
  `Garbage`, which is outside the type invariant.
- **ArenaOps.** A bitmap word is the set of its 1 bits. Words have `WordBits`
  bits where the code has 64; `total_slots` is a field of the arena, chosen at
  the start.
- **CacheIndex.** A key is the number that the first four bytes of a hash spell.
  An `EMPTY` position keeps no hash and no time, because every loop of the code
  tests `slot_index` first. `0.85` is the fraction 17/20. Time is a bounded
  counter that may stand still between calls.
- **BatchScheduler.** Calls run on one thread, so a call is one step. Inference
  answers with a token, the end of sequence or an error, chosen freely, or
  never: see GPU below. `serial`, `responses` and `failed` record history.
  `FreshPhase` is the phase of an unused slot: the code leaves `PREFILL` (0,
  from `calloc`).
- **Sampling.** Logits are integers, the exponential is a weight that grows with
  the logit, and `rand()` is any draw. A strategy is the set of tokens it may
  return, its two edges included: a draw of 0, and rounding that leaves the sum
  below the draw.
- **DecodeLoop.** One turn of the loop is one step: dispatch, inference,
  sampling, emit. `Reject` is the return of -1 before the loop.
- **Wavefront.** A wavefront is its context and the blocks it has still to read.
  `BlockLands` and `BlockFails` are the engine's, external to the source; `Reap`
  is one completion of `kllm_wavefront_poll`.
- **Inference.** `ipc` is where the thread is in create or in a call. A block's
  key is the prefix it hashes, its destination the entry of `block_table`. A
  region is `"mapped"` or has all its fields zero. `logits` is the call that
  computed what `result->logits` holds, `last_turn` the last call that returned
  0. `kllm_infer_gpu_escalate` does nothing but call `kllm_infer_gpu`. `asked`,
  `stray` and `abandoned` record which blocks a fetch submitted and that reads
  were on their way when a call began or gave up.
- **WeightLoader.** `ptrs` are the weights with a pointer that is not NULL,
  `owned` counts allocations not freed, `sent` submissions. The settings choose
  the wavefront context (the loader's own, or the one inference uses), whether
  there is a GPU, and `load_to_gpu`.
- **Trace.** One step per access to a shared map: reading the clock, reading the
  state and computing the delta, storing the state, reserving and submitting the
  event, loading a total and storing the sum. A lookup returns a pointer, so the
  store goes to the map's element, whichever process holds it by then
  (`Elements`). A probe stays on its CPU and may be preempted there. `pid`
  assigns threads to processes. Of the stages a run has the first, the last two
  and those in `ReactorStages`, which only differ in their number.
- **GPU.** `kllm_wavefront_poll` is a placeholder that returns 0, so
  `fetch_kv_blocks` waits for ever. Modules that reach the engine start in one
  of several worlds: no GPU context (`none`), the source as it is
  (`placeholder`), and an engine that completes (`device`), which the rest of
  the code is written for.

## Runs

| Run | Result | What it shows |
|---|---|---|
| `token_ring` | holds | FIFO order, stability of readable slots, refinement of `TokenFifo`, delivery of every token; one writer |
| `response_ring` | holds | type (no copy outside the array), order, no lost wakeup; one reader |
| `response_eof` | violated | `EosReadAsEof`: the client reads the end of sequence as a word, not as end of file |
| `arena` | holds | bitmap, count and clients agree; a slot is handed out once; nothing is free below the hint |
| `cache_index` | holds | table and arena agree; insert finds room; what is given up was used least recently; refinement of `LossyCache` |
| `serving` | holds | Reactor: the poller follows live pointers only, the module outlives its users, shutdown after every partial start, tokens taken once and in order over kills and restarts, where batches split prompts. Scheduler: accounting, one end of sequence per request also when slots are reused, every request ends once submits stop. Decode loop: exactly one end of sequence, at the end; a sampled token is one its strategy may draw; every call that does not reach the placeholder returns |
| `batch_fresh_pool` | violated | `PoolNotFullHasSlot`: a new scheduler accepts nothing |
| `gpu_path` | holds | attention sees the blocks of its own sequence, and when it may not; every block is in one wavefront; error paths balance; the memory of weights is returned after one `load_all`, wherever it failed; a fetch ends |
| `gpu_logits` | violated | `LogitsOfLastTurn`: after a GPU turn the logits are those of an earlier turn |
| `weights_complete` | violated | `LoadedWhenComplete`: `load_all` has returned and the weights have not arrived |
| `bpf` | holds | Tokenizer: no byte is lost by merging; the result is byte-pair encoding by rank unless the passes run out. Tracing: deltas wrap only in a race inside one process; totals are the sum of the delivered events unless two additions overlap on a CPU |
| `trace_eos` | violated | `EosEndsRequest`: the reactor's end probe does not find the client's request |

`serving` and `bpf` put several components that do not call each other into one
run: the variable `part` says, from the initial state on, which one a behaviour
is about.

Each violated run checks one sentence of the repository's headers, comments or
README against the code; PROJECT.json quotes it under "findings".

**Bounds.** Rings have four slots (three usable), so two prompts of two tokens
meet a full ring and indices wrap; four writes go around twice. A poll takes at
most two tokens, so a prompt is split over polls. The response ring gets up to
six words and one fault. Arenas have one to eight slots in words of three bits:
one to three words, the last full or not. The table has four positions, keys 3
and 7 share a bucket and probe across its end; arenas of three slots run out
before the load factor is met, arenas of four never do. The pool has three slots
and a batch of two, prompts at and below the length limit, three requests, so a
slot is reused while others are in flight; its slots start `DONE`, as if each had
been used once, because from the pool as `calloc` leaves it nothing is accepted
(`batch_fresh_pool`). The decode buffer has five places and
prompts leave room, fill it and exceed it; logits include ties and minus
infinity. Tokenizer: every table of three rules over two letters, nested and
competing, every prompt of up to seven bytes, so that prompts are rejected, cut
at five tokens, and stopped after three passes. Reactor: two loads of the module
and two starts of the reactor, a client that may keep a mapping after it has
closed the device, three prompts, a GPU queue of two, so that the ring survives
a restart and the depth sticks. GPU path: sequences of two and of three blocks
with wavefronts of two, so that a fetch ends with a full or with a partial
wavefront and the second call overlaps reads of the first; one failure; weights
of one layer with two components and one call of `load_all`. Trace: two client
threads and the reactor, with both clients in one process or one of them in the
reactor's; two CPUs, a table with room for one request and one element more,
a buffer for one event, three probes, so that map and buffer are full, elements
change hands and probes overlap.

**Fairness.** Weak fairness of a call's steps once it was entered: the kernel
and the reactor's thread run it to its end. Weak fairness of polling: SPDK calls
pollers for ever. In `ResponseRing` also of calling `read()`: the property is
about a client that keeps reading. In `BatchScheduler` of `kllm_batch_step`,
which its caller repeats; `RequestsEnd` is about submits that stop
(`SubmitsStop`) and says nothing of behaviours where they go on for ever. In
`Wavefront` of landing blocks: a device that was given reads finishes them;
`FetchEnds` excepts behaviours with a failed block and the placeholder. Nothing
forces a writer, an emitter or a submitter to act, and inference need never
answer the end of sequence. `Reactor`, `Tokenizer` and `Trace` state safety
only.

**Deadlock** is checked for the arena and the index, which can always take a
call. The others may stop when the bounded number of calls is used up, and
scheduler, decode loop and fetch when they hang in the placeholder.

## Proofs

All for every value of the constants, from the assumptions named in the modules.
The type invariants of `TokenRing`, `KVArena` and `DecodeLoop`, and
`WithinMaxTokens`, have no run of their own: they are conjuncts of the inductive
invariants and proved.

| Theorem | States | Module |
|---|---|---|
| `TypeCorrect`, `SingleProducerFifo`, `ReadableSlotsStable`, `RingImplementsFifo` | `TypeOK`, `FifoOrder`, `PublishedSlotsStable`, `RefinesFifo` | `TokenRingProofs` |
| `RespTypeCorrect`, `SingleReaderInOrder` | `TypeOK`, `InOrder` | `ResponseRingProofs` |
| `ArenaTypeCorrect`, `NoSlotLost`, `AllocSound`, `HintSound` | `ArenaTypeOK`, `BitmapMatchesLive`, `AllocIsFresh`, `NothingFreeBelowHint` | `KVCacheProofs` |
| `IndexOwnsItsBlocks`, `InsertAlwaysFindsRoom`, `InsertedKeyIsFound`, `OldestGoesFirst`, `IndexIsLossyCache` | `EntriesOwnSlots`, `InsertFindsRoom`, `InsertedIsFound`, `LruGoesFirst`, `RefinesLossyCache` | `KVCacheProofs` |
| `ActiveCountIsExact`, `RequestsEndOnce`, `DonePoolHasSlot` | `ActiveIsExact`, `EndIsSignalled`, `PoolNotFullHasSlot` | `ReactorProofs` |
| `DecodeTypeCorrect`, `DecodeWithinLimit`, `DecodeEndsOnce`, `SampledTokensAreLikely` | `TypeOK`, `WithinMaxTokens`, `OneEosAtTheEnd`, `DrawnIsLikely` | `RequestProofs` |
| `DeltasWrapOnlyInRaces` | `DeltaWrapsOnlyInRace` | `RequestProofs` |
| `ModuleOutlivesUsers`, `PollerSafe`, `ShutdownComplete`, `RingOutlivesReactor`, `ShortBatchesArePrompts` | `DeviceOutlivesUsers`, `PollerUsesLiveObjects`, `ShutdownReleasesOnce`, `TakenOnceInOrder`, `ShortBatchEndsPrompt` | `ReactorProofs` |
| `NothingLeaks`, `WeightMemoryReturned` | `ResourcesBalanced`, `WeightsReleased` | `GpuPathProofs` |
| `BlocksBeforeAttention`, `QuietBetweenCalls`, `FetchAsksOnce` | `AttentionSeesItsBlocks`, `CallLeavesNoReads`, `BlocksAskedOnce` | `FetchProofs` |

Hypotheses beyond the modules' assumptions:

- The ring theorems other than `TypeCorrect` are about one writer
  (`Producers = {p}`) or one reader (`Readers = {r}`); with two they are false
  (see below).
- The scheduler's are about fewer submits than there are request ids
  (`MaxSubmits < IdLimit`, with `IdLimit` 2^32 in the code), and
  `DonePoolHasSlot` about a pool whose slots start `DONE`: it says that the
  phase `calloc` leaves is all that is wrong in `batch_fresh_pool`.

The arguments:

- **Token ring.** `FifoOrder` says nothing of what lies between head and the
  writer's private head, nor of the reactor's half-copied batch. The inductive
  invariant adds that the slots from `head` to `lhead` hold the tokens copied so
  far, that `lhead` never reaches `tail` from behind, and that `batch` is a
  prefix of the ring's contents. Refinement follows from it: `Publish` appends
  the copied tokens, which fit, and is a Put; `AdvanceTail` drops a prefix and
  is a Take; all other steps leave the contents alone. `OperatorProofs` has the
  lemmas about modular indices and `Contents`.
- **Response ring.** Between the two critical sections of a read the snapshot
  must stay true although producers run: the invariant says that `to_copy` words
  from `resp_tail` on are in the ring, that `todo` and `buf` together are those
  words in order, and that both pieces of a wrapped copy lie inside the array.
  Only the reader moves `resp_tail`, which is where one reader is needed.
- **Arena.** The invariant, `Sound(a, held)`, is that a bit is 1 exactly when
  its slot is free and that no word below the hint has a 1 bit. An allocation
  takes the lowest bit of the first word with one from the hint on; that the
  scan finds it is the minimum of a non-empty set of naturals.
- **Cache index.** An insert may free the slot of the oldest entry and allocate
  one in the same call, so the invariant `TableInv` speaks of an arena and a
  table, not of the variables, and is kept by each half: the table's entries own
  the slots the arena has handed out, one each. Room is a counting argument
  (entries are at most 85 per cent, so some position is free, and probing visits
  them all); that the key is found again is the least free position of its probe
  sequence. Each call then maps to a step of `LossyCache` or to a stutter. For
  `LruGoesFirst`, `UseInv` says that an entry's time is the time its block was
  last given to a caller.
- **Batch scheduler.** A slot counts as taken when its id is not 0, so the
  invariant has the ids (`PoolInv`), and that a `DONE` request is retired by the
  call that finds it so, unless that call hangs. A request ends once because no
  two slots hold the same one (`SerialInv`) and nothing that is not `DONE` has
  sent an end (`OutputInv`); a step is then taken apart into prefill, decode and
  retirement, for a batch of any size answered in any way.
- **Decode loop.** While a call runs, its output is `generated` tokens and
  `seq_len` is within the buffer; the three ways out of the loop add one end of
  sequence each. A sampled token is likely because of what `Sampling` computes
  for all logits (`OperatorProofs`): its loops are recursive functions over
  positions, and induction over an interval is derived from the least element of
  a set of naturals (`UpTo`).
- **Trace.** Of a process that never ran two probes at a time the probe that
  runs has, until it computes its delta, read the clock after the last stage was
  stored and after every probe, of whatever process, that may still store
  through a pointer to the element (`ClockInv`).
- **Reactor.** The invariant relates `phase` to what exists and what is pointed
  to (`PhaseInv`), says which pointers are stale after which failure
  (`FailedInv`), and that whoever has the device open or mapped holds a
  reference that keeps the module registered with both of its allocations
  (`DeviceInv`). `OrderInv`
  says that what was taken, followed by the ring, is all that was written, and
  that a batch that was not full ended at the end of what was there.
- **GPU path.** `ContextInv` says what is mapped after each step of create. The
  fetch counts completions and never compares them with what it asked for: its
  invariant says that in a context that was quiet when the fetch began, blocks
  counted, completed and still to be read are together the blocks submitted, so
  that the count can only be reached when all have landed. That every block is
  asked for once is the invariant of its loop (`LoopInv`): the blocks asked for
  are the first `next_block` ones, however they were cut into wavefronts.
- **Weights.** What a first `load_all` allocated, and by which allocator, is
  told by how far it came.

Only model-checked:

- liveness and everything that rests on fairness (`EveryTokenDelivered`,
  `AcceptedTokensRead`, `RequestsEnd`, `CallsReturn`, `FetchEnds`);
- `Lossless` and `MatchesReference`, about folds over sequences of any length,
  and `TotalsMatchEvents`, about a sum over threads: what a fold computes for
  every input takes the library's induction theorems, which these provers cannot
  instantiate.

The violated runs have no theorem: a counterexample needs none.

## Deviations

What was met while modelling. Five have a run that shows them, named below; the
properties of the other runs are stated so that they hold of the code as it is,
and the rest of this list are the cases they leave out.

- **Two writers.** Two `kllm_tokenize` calls that read the same head overwrite
  each other (`bpf/tokenizer.bpf.c:192`), although several clients may write
  (`userspace/reactor/batch_scheduler.h:16`): `TokenRing` with two `Producers`
  violates `FifoOrder`.
- **Two readers.** `kllm_read` may return 0 words, hand out a token twice and
  skip another (`kernel/chardev/llm_prompt.c:168-206`): `ResponseRing` with two
  `Readers` violates `InOrder`. The run and the theorems have one reader.
- **End of sequence and end of file.** `userspace/reactor/kllm_response.h:30`
  says that the client sees EOF on read. It reads the word `0xFFFFFFFF`
  (`response_eof`), and a read after it blocks. A full response ring drops the
  sentinel like any token (`kernel/chardev/llm_prompt.c:83`), and then the client
  sees neither.
- **Cut probe chains.** Eviction empties a position and lookup stops at an empty
  one (`userspace/kvcache/cache_index.c:96`), so a stored key may be missed and
  inserted again. A key inserted twice has two entries and `kllm_index_evict`
  removes one; an insert into an exhausted arena evicts nothing. `InsertedIsFound`
  is about the key inserted last, and `LossyCache` may lose any key.
- **Oversized prompts.** A prompt longer than the prefill budget never runs and
  blocks those behind it (`userspace/reactor/batch_scheduler.c:249`):
  `RequestsEnd` fails with such a prompt length.
- **Starvation.** `rebuild_queues` goes by slot number and `find_free_slot`
  takes the lowest free slot (`userspace/reactor/batch_scheduler.c:91`, `:142`):
  while submits go on, a request in a high slot may be left out of every batch.
  No document promises fairness; `RequestsEnd` is about submits that stop.
- **Joined prompts.** The ring has no mark between prompts, and
  `kllm_ring_poll` takes what there is, up to its limit, as one
  (`userspace/reactor/kllm_reactor.c:73`, a TODO). `ShortBatchEndsPrompt` says
  where a batch may end, not where it begins.
- **Request ids.** `request_id` wraps to 0, which means error to the caller and
  free to the loops (`userspace/reactor/batch_scheduler.c:125`): the theorems
  about the scheduler are for fewer submits than there are ids, and with
  `MaxSubmits = IdLimit` `ActiveIsExact` fails.
- **Return values.** `kllm_tokenize` returns the prompt's length when the ring
  was full (`bpf/tokenizer.bpf.c:210`; line 148 says the number of tokens
  produced). A failed inference ends `kllm_decode_run` with the number of tokens
  so far, not -1 (`userspace/decode/decode_loop.c:280`), and a failed request of
  the scheduler gets no end of sequence.
- **Sizes.** `kllm_write` accepts up to 64 KiB, the tokenizer rejects more than
  4096 bytes and cuts at `MAX_SEQ_LEN`.
- **Shutdown after a failed start.** After a failed `kllm_init_kvcache`, the
  objects destroyed at `userspace/reactor/kllm_reactor.c:158` and `:171-172` are
  still pointed to and destroyed again at `:232-238`; after a failed
  `kllm_map_token_ring`, `chardev_fd` is 0 and line 245 closes standard input.
  `ShutdownReleasesOnce` names both.
- **GPU depth.** `kllm_dispatch_gpu_complete` has no caller, so the depth only
  grows, until it stays at `gpu_queue_max`.
- **Unmatched completions.** `fetch_kv_blocks` compares no `sequence_id`
  (`userspace/compute/infer_gpu.c:147-150`). After a fetch that gave up at line
  131, or with a weight loader on the same context, completions of others end
  the wait and attention reads blocks that are not there
  (`AttentionSeesItsBlocks` excepts these calls, `CallLeavesNoReads` says when
  they occur). A failed block is never counted and the wait does not end; nor
  does it with the placeholder, where `kllm_decode_run` does not return.
- **GPU logits.** `kllm_infer_gpu` never writes logits
  (`userspace/compute/infer_gpu.c:213`): a sample is drawn from those of an
  earlier turn or from zeros (`gpu_logits`).
- **GPU buffers.** `block_table` is indexed up to the sequence's length, which
  nothing compares with `max_seq_len`; the lengths of the runs are within it.
  Regions for a discrete GPU cannot be allocated
  (`userspace/gpu/p2p_dma.c:109`). Destroying a context or a loader does not wait
  for reads on their way into its memory.
- **Weights.** `userspace/weights/weight_loader.h:53` says that `load_all` blocks
  until complete; it returns after submitting (`weights_complete`), and never
  reads embedding and lm_head. A second call overwrites pointers, so the first
  buffers are lost, and counts bytes twice: `WeightsReleased` is about one call.
  With a GPU and without `load_to_gpu`, memory from `malloc` goes to
  `kllm_gpu_free` (`userspace/weights/weight_loader.c:103`, `:126`).
- **Tracing.** The probes are attached to `llm_prompt_write`, the function is
  `kllm_write`. Requests are keyed by process, not by request
  (`bpf/kllm_trace.bpf.c:65`), so a reactor in a process of its own never ends a
  client's (`trace_eos`). Two threads of one process inside probes can make a
  delta wrap below zero (`bpf/kllm_trace.bpf.c:99`), and two probes of one stage
  that overlap on a CPU lose one's time (`bpf/kllm_trace.bpf.c:126`). The summary
  reads a per-CPU map as one record.
- **CPU attention** reads `seq_len` positions of a block of `tokens_per_block`
  tokens (`userspace/compute/infer_cpu.c`).

## Not modelled

- The numeric kernels (`ace_attention.c`, `mx_dequant.h`, the attention of
  `infer_cpu.c`, `paged_attention_xe.cpp`): floating-point computation without
  shared state. Their callers see success or failure.
- `kllm_poll`, getters and printed statistics change nothing the properties see.
- Hugepage mapping, `dlopen` of GPU backends, loading and attaching BPF
  programs, RDMA registration: I/O whose outcome is the success or failure of
  the step that contains it, or which has no caller.
- `kllm_wavefront_build_kv_fetch`, `kllm_wavefront_build_weight_load`,
  `kllm_ring_produce` and the single-token consumers have no caller.
- Whether a tokenizer invocation can be preempted by another on its CPU, which
  shares its scratch buffer: decided by an attachment the repository does not
  contain.
