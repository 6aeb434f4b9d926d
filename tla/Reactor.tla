------------------------------- MODULE Reactor -------------------------------
(***************************************************************************)
(* The life of the prompt device's kernel module                           *)
(* (kernel/chardev/llm_prompt.c) together with the SPDK reactor that maps  *)
(* its token ring (userspace/reactor/kllm_reactor.c): loading and          *)
(* unloading the module, starting, polling, shutting down and restarting   *)
(* the reactor, with every allocation that can fail.                       *)
(*                                                                         *)
(* The token ring is the FIFO that TokenRing implements (TokenFifo); it    *)
(* lives in the module's page and outlasts the reactor's process.  A token *)
(* is the number of the prompt it belongs to.  The callbacks of the        *)
(* reactor run on one SPDK thread, so only the kernel and the clients      *)
(* interleave with their steps.                                            *)
(***************************************************************************)
EXTENDS DispatchOps, Sequences

CONSTANTS
    RingBytes,         \* KLLM_RING_BYTES
    RingHdrSize,       \* KLLM_RING_HDR_SIZE
    PollBatch,         \* KLLM_POLL_BATCH
    MaxPromptSize,     \* KLLM_MAX_PROMPT_SIZE
    Clients,           \* processes that open the device to write prompts
    Hooks,             \* whether kllm_write calls the tokenizer
    WriteSizes,        \* bound: sizes of the writes that occur
    MaxPrompts,        \* bound: writes in a behaviour
    MaxLoads,          \* bound: times the module is loaded
    MaxLaunches        \* bound: times the reactor is started

ASSUME ReactorAssumption ==
    /\ {RingBytes, RingHdrSize, MaxPromptSize, MaxPrompts} \subseteq Nat
    /\ RingBytes >= RingHdrSize + 8
    /\ PollBatch \in 1..CpuSeqThreshold
    /\ Hooks \subseteq {"todo", "attached"}
    /\ WriteSizes \subseteq Nat
    /\ {MaxLoads, MaxLaunches} \subseteq Nat
    /\ "reactor" \notin Clients

VARIABLES
    hook,              \* the hook point of kllm_write: still a TODO, or filled
    kpc,               \* how far kllm_init has come
    kmem,              \* the memory kllm_dev holds
    clients,           \* clients with the device open
    mappers,           \* clients with the token ring mapped
    module_refs,       \* who holds the module through a file of it
    queue,             \* the token ring
    phase,             \* where the reactor's process is
    fds,               \* descriptors its process has open
    live,              \* its objects that exist
    ptrs,              \* pointers of g_ctx that are not NULL
    chardev_fd, poller,                \* the other fields of g_ctx
    count, batch,      \* locals of kllm_ring_poll
    tokens_consumed, prompts_dispatched,
    cpu_dispatches, gpu_dispatches,
    loads, launches,   \* bounded
    written, taken,    \* history: tokens put, tokens taken
    short_ends,        \* history: where in taken a batch not full ended
    lost, killed,      \* history: tokens and processes that died in a poll
    twice,             \* history: objects destroyed that did not exist
    failed_at          \* history: the step of kllm_reactor_start that failed

kernel == <<kpc, kmem, loads>>
users == <<clients, mappers, module_refs>>
g_ctx == <<ptrs, chardev_fd, poller>>
process == <<phase, fds, live, g_ctx, count, batch, launches, twice, failed_at>>
stats == <<tokens_consumed, prompts_dispatched,
           gpu_queue_depth, cpu_dispatches, gpu_dispatches>>
history == <<written, taken, short_ends, lost, killed>>
vars == <<hook, kernel, users, queue, process, stats, history>>

CacheObjects == {"arena", "cache_idx", "dispatch"}
Objects == CacheObjects \cup {"ring"}

-----------------------------------------------------------------------------
(* The kernel module.                                                      *)

rounddown_pow_of_two(n) == CHOOSE p \in {2^k : k \in 0..29} : p <= n /\ n < 2 * p

\* kllm_alloc_token_ring: slots of four bytes behind the header; one stays
\* free to tell a full ring from an empty one.
RingSlots == rounddown_pow_of_two((RingBytes - RingHdrSize) \div 4)
Capacity == RingSlots - 1

ASSUME RingSlotsAssumption == RingSlots \in Nat \ {0}

Init ==
    /\ hook \in Hooks
    /\ kpc = "absent" /\ kmem = {} /\ queue = <<>>
    /\ clients = {} /\ mappers = {} /\ module_refs = {}
    /\ phase = "off" /\ fds = {} /\ live = {}
    /\ ptrs = {} /\ chardev_fd = "stdin" /\ poller = FALSE
    /\ count = 0 /\ batch = <<>>
    /\ tokens_consumed = 0 /\ prompts_dispatched = 0
    /\ gpu_queue_depth = 0 /\ cpu_dispatches = 0 /\ gpu_dispatches = 0
    /\ loads = 0 /\ launches = 0
    /\ written = <<>> /\ taken = <<>> /\ short_ends = {} /\ lost = 0 /\ killed = 0
    /\ twice = {} /\ failed_at = "none"

\* kllm_init up to kllm_alloc_token_ring: a zeroed page with an empty ring.
\* If there is no page, kllm_init returns as if it had not been called.
AllocTokenRing ==
    /\ kpc = "absent"
    /\ loads < MaxLoads
    /\ loads' = loads + 1
    /\ kpc' = "ring"
    /\ kmem' = kmem \cup {"ring_page"}
    /\ queue' = <<>>
    /\ UNCHANGED <<hook, users, process, stats, history>>

AllocRespRing ==
    /\ kpc = "ring"
    /\ kpc' = "resp"
    /\ kmem' = kmem \cup {"resp_ring"}
    /\ UNCHANGED <<hook, users, queue, loads, process, stats, history>>

NoRespRing ==
    /\ kpc = "ring"
    /\ kpc' = "absent"
    /\ kmem' = kmem \ {"ring_page"}
    /\ UNCHANGED <<hook, users, queue, loads, process, stats, history>>

\* misc_register: from here on the device can be opened.
MiscRegister ==
    /\ kpc = "resp"
    /\ kpc' = "registered"
    /\ UNCHANGED <<hook, kmem, users, queue, loads, process, stats, history>>

MiscRegisterFails ==
    /\ kpc = "resp"
    /\ kpc' = "absent"
    /\ kmem' = kmem \ {"resp_ring", "ring_page"}
    /\ UNCHANGED <<hook, users, queue, loads, process, stats, history>>

\* Mutant of KllmOpen: the file_operations have no owner.
OpenUnowned(user) == UNCHANGED module_refs

\* An open of the device: with .owner = THIS_MODULE in kllm_fops the new file
\* holds the module.
KllmOpen(user) == module_refs' = module_refs \cup {user}

\* A close or an munmap: the kernel gives the file up, and the module with it,
\* when neither a descriptor nor a mapping of it is left.
FilePut(user, used) == module_refs' = IF used THEN module_refs ELSE module_refs \ {user}

\* kllm_exit: tokens nobody has taken go with the page.
KllmExit ==
    /\ kpc = "registered"
    /\ module_refs = {}
    /\ kpc' = "absent"
    /\ kmem' = kmem \ {"resp_ring", "ring_page"}
    /\ queue' = <<>>
    /\ written' = taken
    /\ UNCHANGED <<hook, users, loads, process, stats, taken, short_ends, lost,
                   killed>>

\* open, mmap, munmap and close by a client, which may keep the mapping when
\* it closes the descriptor (kllm_open, kllm_mmap, kllm_release).
ClientOpens(c) ==
    /\ kpc = "registered"
    /\ clients' = clients \cup {c}
    /\ KllmOpen(c)
    /\ UNCHANGED <<hook, kernel, mappers, queue, process, stats, history>>

ClientMaps(c) ==
    /\ c \in clients
    /\ mappers' = mappers \cup {c}
    /\ UNCHANGED <<hook, kernel, clients, module_refs, queue, process, stats, history>>

ClientCloses(c) ==
    /\ c \in clients
    /\ clients' = clients \ {c}
    /\ FilePut(c, c \in mappers)
    /\ UNCHANGED <<hook, kernel, mappers, queue, process, stats, history>>

ClientUnmaps(c) ==
    /\ c \in mappers
    /\ mappers' = mappers \ {c}
    /\ FilePut(c, c \in clients)
    /\ UNCHANGED <<hook, kernel, clients, queue, process, stats, history>>

\* The prompts written so far; a write that reaches the tokenizer is one.
Prompts == IF written = <<>> THEN 0 ELSE written[Len(written)]

\* kllm_write accepts size bytes: not 0, not above the limit, and copied in.
\* The tokenizer at the hook point puts one token or more into the ring, as
\* many as fit.
KllmWrite(c, size) ==
    /\ c \in clients
    /\ size \in 1..MaxPromptSize
    /\ hook = "attached"
    /\ Prompts < MaxPrompts
    /\ \E n \in 1..size :
          LET room == Capacity - Len(queue)
              put == [i \in 1..(IF n < room THEN n ELSE room) |-> Prompts + 1]
          IN /\ put # <<>>
             /\ queue' = queue \o put
             /\ written' = written \o put
    /\ UNCHANGED <<hook, kernel, users, process, stats, taken, short_ends, lost,
                   killed>>

-----------------------------------------------------------------------------
(* kllm_reactor_start.                                                     *)

\* main: a fresh process, g_ctx all zero (so that chardev_fd names stdin).
Launch ==
    /\ phase = "off"
    /\ launches < MaxLaunches
    /\ launches' = launches + 1
    /\ phase' = "start"
    /\ fds' = {"stdin"}
    /\ UNCHANGED <<hook, kernel, users, queue, live, g_ctx, count, batch,
                   twice, failed_at, stats, history>>

\* kllm_map_token_ring opens the device; fd is a local still.
OpenDevice ==
    /\ phase = "start"
    /\ kpc = "registered"
    /\ phase' = "opened"
    /\ fds' = fds \cup {"dev"}
    /\ KllmOpen("reactor")
    /\ UNCHANGED <<hook, kernel, clients, mappers, queue, live, g_ctx, count, batch,
                   launches, twice, failed_at, stats, history>>

\* No device, or no descriptor: g_ctx is left alone; spdk_app_stop(-1).
OpenDeviceFails ==
    /\ phase = "start"
    /\ phase' = "failed" /\ failed_at' = "map"
    /\ UNCHANGED <<hook, kernel, users, queue, fds, live, g_ctx, count, batch,
                   launches, twice, stats, history>>

\* The ring is mapped; kllm_init has set the magic before it registered.
MapTokenRing ==
    /\ phase = "opened"
    /\ phase' = "mapped"
    /\ chardev_fd' = "dev"
    /\ live' = live \cup {"ring"}
    /\ ptrs' = ptrs \cup {"ring"}
    /\ UNCHANGED <<hook, kernel, users, queue, fds, poller, count, batch, launches,
                   twice, failed_at, stats, history>>

\* MAP_FAILED: the descriptor is closed; spdk_app_stop(-1).
MapTokenRingFails ==
    /\ phase = "opened"
    /\ phase' = "failed" /\ failed_at' = "map"
    /\ fds' = fds \ {"dev"}
    /\ FilePut("reactor", FALSE)
    /\ UNCHANGED <<hook, kernel, clients, mappers, queue, live, g_ctx, count, batch,
                   launches, twice, stats, history>>

\* kllm_init_kvcache, one create fails: what was made before is destroyed,
\* but the pointers to it stay in g_ctx.
MadeBefore(failing) ==
    CASE failing = "arena" -> {}
      [] failing = "cache_idx" -> {"arena"}
      [] failing = "dispatch" -> {"arena", "cache_idx"}

InitKvcacheFails(failing) ==
    /\ phase = "mapped"
    /\ phase' = "failed" /\ failed_at' = "cache"
    /\ ptrs' = ptrs \cup MadeBefore(failing)
    /\ UNCHANGED <<hook, kernel, users, queue, fds, live, chardev_fd, poller,
                   count, batch, launches, twice, stats, history>>

InitKvcache ==
    /\ phase = "mapped"
    /\ phase' = "cached"
    /\ live' = live \cup CacheObjects
    /\ ptrs' = ptrs \cup CacheObjects
    /\ UNCHANGED <<hook, kernel, users, queue, fds, chardev_fd, poller, count,
                   batch, launches, twice, failed_at, stats, history>>

RegisterPoller ==
    /\ phase = "cached"
    /\ phase' = "polling"
    /\ poller' = TRUE
    /\ UNCHANGED <<hook, kernel, users, queue, fds, live, ptrs, chardev_fd, count,
                   batch, launches, twice, failed_at, stats, history>>

RegisterPollerFails ==
    /\ phase = "cached"
    /\ phase' = "failed" /\ failed_at' = "poller"
    /\ UNCHANGED <<hook, kernel, users, queue, fds, live, g_ctx, count, batch,
                   launches, twice, stats, history>>
-----------------------------------------------------------------------------
(* kllm_ring_poll, while the poller is registered.                         *)

\* Mutant of BatchCount: the last token stays behind.
BatchCountLessOne(avail) == IF avail <= PollBatch THEN avail - 1 ELSE PollBatch

BatchCount(avail) == IF avail < PollBatch THEN avail ELSE PollBatch

\* kllm_ring_consume_batch decides how many; an empty ring is an idle poll.
PollLoad ==
    /\ poller
    /\ count = 0
    /\ count' = BatchCount(Len(queue))
    /\ count' > 0
    /\ UNCHANGED <<hook, kernel, users, queue, phase, fds, live, g_ctx, batch,
                   launches, twice, failed_at, stats, history>>

\* Mutant of PollTake: tail is not stored.
PollPeek ==
    /\ count > 0 /\ batch = <<>>
    /\ batch' = SubSeq(queue, 1, count)
    /\ taken' = taken \o batch'
    /\ short_ends' = IF count < PollBatch THEN short_ends \cup {Len(taken')}
                                          ELSE short_ends
    /\ tokens_consumed' = tokens_consumed + count
    /\ UNCHANGED <<hook, kernel, users, queue, phase, fds, live, g_ctx, count,
                   launches, twice, failed_at, prompts_dispatched, gpu_queue_depth,
                   cpu_dispatches, gpu_dispatches, written, lost, killed>>

\* It has copied the batch and stores tail.
PollTake ==
    /\ count > 0 /\ batch = <<>>
    /\ batch' = SubSeq(queue, 1, count)
    /\ queue' = SubSeq(queue, count + 1, Len(queue))
    /\ taken' = taken \o batch'
    /\ short_ends' = IF count < PollBatch THEN short_ends \cup {Len(taken')}
                                          ELSE short_ends
    /\ tokens_consumed' = tokens_consumed + count
    /\ UNCHANGED <<hook, kernel, users, phase, fds, live, g_ctx, count, launches,
                   twice, failed_at, prompts_dispatched, gpu_queue_depth,
                   cpu_dispatches, gpu_dispatches, written, lost, killed>>

\* The hash is all zero and nothing is ever inserted into the index.
CacheHit == FALSE

Target == Decide(gpu_queue_depth, count, CacheHit)

\* The batch is dispatched as if it were one prompt.
PollDispatch ==
    /\ batch # <<>>
    /\ IF Target = "CPU"
       THEN /\ cpu_dispatches' = cpu_dispatches + 1
            /\ UNCHANGED <<gpu_dispatches, gpu_queue_depth>>
       ELSE /\ gpu_dispatches' = gpu_dispatches + 1
            /\ gpu_queue_depth' = gpu_queue_depth + 1
            /\ UNCHANGED cpu_dispatches
    /\ prompts_dispatched' = prompts_dispatched + 1
    /\ count' = 0 /\ batch' = <<>>
    /\ UNCHANGED <<hook, kernel, users, queue, phase, fds, live, g_ctx, launches,
                   twice, failed_at, tokens_consumed, history>>

-----------------------------------------------------------------------------
(* The end of the process.                                                 *)

\* Mutant of Shutdown: the poller stays registered.
ShutdownKeepsPoller ==
    /\ phase \in {"polling", "failed"}
    /\ count = 0
    /\ phase' = "unmapping"
    /\ twice' = twice \cup ((ptrs \cap CacheObjects) \ live)
    /\ live' = live \ (ptrs \cap CacheObjects)
    /\ UNCHANGED <<hook, kernel, users, queue, fds, g_ctx, count, batch, launches,
                   failed_at, stats, history>>

\* kllm_reactor_shutdown: a signal, between two polls, or while the app stops
\* after a failed start.  The poller goes first; then every object of the
\* cache that a pointer leads to is destroyed.
Shutdown ==
    /\ phase \in {"polling", "failed"}
    /\ count = 0
    /\ phase' = "unmapping"
    /\ poller' = FALSE
    /\ twice' = twice \cup ((ptrs \cap CacheObjects) \ live)
    /\ live' = live \ (ptrs \cap CacheObjects)
    /\ UNCHANGED <<hook, kernel, users, queue, fds, ptrs, chardev_fd, count, batch,
                   launches, failed_at, stats, history>>

\* munmap of the ring, if it was mapped.
ShutdownUnmap ==
    /\ phase = "unmapping"
    /\ phase' = "closing"
    /\ live' = live \ (ptrs \cap {"ring"})
    /\ ptrs' = ptrs \ {"ring"}
    /\ FilePut("reactor", "dev" \in fds)
    /\ UNCHANGED <<hook, kernel, clients, mappers, queue, fds, chardev_fd, poller,
                   count, batch, launches, twice, failed_at, stats, history>>

\* Mutant of ShutdownClose: the descriptor is forgotten.
ShutdownKeepsFd ==
    /\ phase = "closing"
    /\ phase' = "stopped"
    /\ UNCHANGED <<hook, kernel, users, queue, fds, live, g_ctx, count, batch,
                   launches, twice, failed_at, stats, history>>

\* close of chardev_fd, whatever that names by now; spdk_app_stop(0).
ShutdownClose ==
    /\ phase = "closing"
    /\ phase' = "stopped"
    /\ fds' = fds \ {chardev_fd}
    /\ chardev_fd' = "none"
    /\ FilePut("reactor", "dev" \in fds' \/ "ring" \in live)
    /\ UNCHANGED <<hook, kernel, clients, mappers, queue, live, ptrs, poller, count,
                   batch, launches, twice, failed_at, stats, history>>

\* The kernel takes back what a process leaves; g_ctx is gone.
ProcessGone ==
    /\ phase' = "off"
    /\ fds' = {} /\ live' = {} /\ ptrs' = {}
    /\ chardev_fd' = "stdin" /\ poller' = FALSE
    /\ count' = 0 /\ batch' = <<>> /\ twice' = {} /\ failed_at' = "none"
    /\ tokens_consumed' = 0 /\ prompts_dispatched' = 0
    /\ gpu_queue_depth' = 0 /\ cpu_dispatches' = 0 /\ gpu_dispatches' = 0
    /\ FilePut("reactor", FALSE)
    /\ UNCHANGED <<hook, kernel, clients, mappers, queue, launches, written, taken,
                   short_ends>>

\* spdk_app_start returns and main ends.
Exit ==
    /\ phase \in {"failed", "stopped"}
    /\ ProcessGone
    /\ UNCHANGED <<lost, killed>>

\* The process dies anywhere; a batch already taken from the ring dies too.
Kill ==
    /\ phase # "off"
    /\ killed' = killed + 1
    /\ lost' = lost + Len(batch)
    /\ ProcessGone

-----------------------------------------------------------------------------

Poll == PollLoad \/ PollTake \/ PollDispatch

Next ==
    \/ AllocTokenRing
    \/ AllocRespRing
    \/ NoRespRing
    \/ MiscRegister
    \/ MiscRegisterFails
    \/ KllmExit
    \/ \E c \in Clients : ClientOpens(c) \/ ClientMaps(c) \/ ClientCloses(c)
                             \/ ClientUnmaps(c)
    \/ \E c \in Clients, size \in WriteSizes : KllmWrite(c, size)
    \/ Launch
    \/ OpenDevice
    \/ OpenDeviceFails
    \/ MapTokenRing
    \/ MapTokenRingFails
    \/ InitKvcache
    \/ \E failing \in CacheObjects : InitKvcacheFails(failing)
    \/ RegisterPoller
    \/ RegisterPollerFails
    \/ PollLoad
    \/ PollTake
    \/ PollDispatch
    \/ Shutdown
    \/ ShutdownUnmap
    \/ ShutdownClose
    \/ Exit
    \/ Kill

Spec == Init /\ [][Next]_vars

-----------------------------------------------------------------------------
(* Properties.                                                             *)

(* kllm_ring_poll follows ctx->ring, ctx->cache_idx and ctx->dispatch      *)
(* without a test: while the poller is registered, or in a poll, all of    *)
(* them exist, and so does the page behind the mapping.                    *)
PollerUsesLiveObjects ==
    poller \/ count > 0 => Objects \subseteq live /\ "ring_page" \in kmem

(* The owner in kllm_fops is all that keeps the page: nothing in kllm_exit *)
(* looks for users.  The module cannot go away, and take its page, under a *)
(* client or a reactor that has the device open, or has closed it and kept *)
(* the mapping, wherever in its start, shutdown or death that process is;  *)
(* and a failed or undone kllm_init keeps nothing.                         *)
DeviceOutlivesUsers ==
    /\ clients \cup mappers # {} \/ "ring" \in live \/ "dev" \in fds =>
           kpc = "registered" /\ kmem = {"ring_page", "resp_ring"}
    /\ kpc = "absent" => kmem = {}

(* kllm_reactor_shutdown after any start, complete or not, leaves no       *)
(* mapping, object or descriptor of the device behind; it destroys nothing *)
(* twice unless kllm_init_kvcache had failed, whose stale pointers it      *)
(* follows, and closes no foreign descriptor unless kllm_map_token_ring    *)
(* had failed, which leaves chardev_fd at 0.                               *)
ShutdownReleasesOnce ==
    phase = "stopped" =>
        /\ live = {} /\ "dev" \notin fds
        /\ failed_at # "cache" => twice = {}
        /\ failed_at # "map" => "stdin" \in fds

(* Across polls, shutdowns, kills and restarts of the reactor a token is   *)
(* taken from the ring once and in order, because tail lives in the        *)
(* module's page; what is taken and not dispatched is at most the batch of *)
(* each process that was killed.                                           *)
TakenOnceInOrder ==
    /\ taken \o queue = written
    /\ lost <= killed * PollBatch

(* A batch shorter than KLLM_POLL_BATCH ends where a prompt ends, although *)
(* a write may land between the two halves of kllm_ring_consume_batch: a   *)
(* prompt is split only behind a full batch.                               *)
ShortBatchEndsPrompt ==
    \A i \in short_ends : i < Len(taken) => taken[i] # taken[i + 1]
=============================================================================
