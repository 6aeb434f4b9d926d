----------------------------- MODULE DispatchOps -----------------------------
(***************************************************************************)
(* The CPU/GPU dispatch policy (userspace/compute/dispatch_policy.c) as    *)
(* operators, with its only state that decides anything.  The other fields *)
(* of the state are counters nothing reads.  And what may be behind the    *)
(* target GPU.                                                             *)
(***************************************************************************)
EXTENDS Integers

CONSTANTS
    CpuSeqThreshold,   \* cpu_seq_threshold, 512 by default
    GpuQueueMax        \* gpu_queue_max, 64 by default

ASSUME DispatchAssumption == {CpuSeqThreshold, GpuQueueMax} \subseteq Nat \ {0}

VARIABLE gpu_queue_depth   \* struct kllm_dispatch_state

Targets == {"CPU", "GPU"}

\* kllm_dispatch_decide: short prefixes with a hit stay on the CPU; when the
\* GPU's queue is full, short ones without a hit stay there too.  A request
\* sent to the GPU adds one to the depth.
Decide(depth, seq_len, cache_hit) ==
    IF seq_len <= CpuSeqThreshold /\ (cache_hit \/ depth >= GpuQueueMax)
    THEN "CPU"
    ELSE "GPU"

\* No GPU context; the wavefront engine of the source, whose
\* kllm_wavefront_poll is a placeholder that never reports a completion, so
\* that the wait in fetch_kv_blocks never ends; or an engine that completes.
GpuKinds == {"none", "placeholder", "device"}
=============================================================================
