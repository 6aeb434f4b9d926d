------------------------------ MODULE Wavefront ------------------------------
(***************************************************************************)
(* The wavefront interface (userspace/gpu/nvme_ep_wavefront.h): batches of *)
(* block reads from NVMe into VRAM, submitted without waiting and reaped   *)
(* by polling.                                                             *)
(*                                                                         *)
(* kllm_wavefront_submit and kllm_wavefront_poll are placeholders in the   *)
(* source: submit accepts and poll reports nothing.  The engine "device"   *)
(* is what the callers and the header are written for: the blocks of a     *)
(* wavefront land, or fail, in any order, and a completion counts them.    *)
(* No caller sets or compares sequence_id.                                 *)
(***************************************************************************)
EXTENDS Integers, Sequences, FiniteSets

CONSTANTS
    MaxBlocks,         \* KLLM_WAVEFRONT_MAX_BLOCKS
    Engines,           \* engines that may be behind a context
    MaxFailures        \* bound: blocks and submissions that fail

ASSUME WavefrontAssumption ==
    /\ MaxBlocks \in Nat \ {0} /\ MaxFailures \in Nat
    /\ Engines \subseteq {"placeholder", "device"}

VARIABLES
    engine,            \* what is behind the contexts
    wfs,               \* wavefronts submitted and not yet reaped
    vram,              \* what is at each VRAM destination that was written
    failures           \* blocks and submissions that failed (bounded)

wavefronts == <<engine, wfs, vram, failures>>

WavefrontInit ==
    /\ engine \in Engines
    /\ wfs = <<>> /\ vram = <<>> /\ failures = 0

\* struct kllm_wavefront on a context: its blocks, those of them that are
\* neither completed nor failed, and blocks_completed.
NewWavefront(ctx, blocks) ==
    [ctx |-> ctx, blocks |-> blocks, todo |-> blocks, completed |-> 0]

\* kllm_wavefront_submit returns 0.  An empty wavefront is refused.
Submit(ctx, blocks) ==
    /\ blocks # {}
    /\ wfs' = Append(wfs, NewWavefront(ctx, blocks))
    /\ UNCHANGED <<engine, vram, failures>>

\* kllm_wavefront_submit returns -1 and takes nothing.
SubmitFails ==
    /\ failures < MaxFailures
    /\ failures' = failures + 1
    /\ UNCHANGED <<engine, wfs, vram>>

\* A block arrives in VRAM.
BlockLands(i, block) ==
    /\ engine = "device"
    /\ block \in wfs[i].todo
    /\ wfs' = [wfs EXCEPT ![i].todo = @ \ {block}, ![i].completed = @ + 1]
    /\ vram' = [d \in DOMAIN vram \cup {block.dest} |->
                   IF d = block.dest THEN block.key ELSE vram[d]]
    /\ UNCHANGED <<engine, failures>>

\* A block cannot be read; it counts as blocks_failed.
BlockFails(i, block) ==
    /\ engine = "device"
    /\ block \in wfs[i].todo
    /\ failures < MaxFailures
    /\ failures' = failures + 1
    /\ wfs' = [wfs EXCEPT ![i].todo = @ \ {block}]
    /\ UNCHANGED <<engine, vram>>

EngineStep ==
    \E i \in DOMAIN wfs : \E block \in wfs[i].todo :
        BlockLands(i, block) \/ BlockFails(i, block)

EngineLands == \E i \in DOMAIN wfs : \E block \in wfs[i].todo : BlockLands(i, block)

\* kllm_wavefront_poll on a context: the i-th wavefront has completed.
Reap(ctx, i) ==
    /\ wfs[i].ctx = ctx
    /\ wfs[i].todo = {}
    /\ wfs' = SubSeq(wfs, 1, i - 1) \o SubSeq(wfs, i + 1, Len(wfs))
    /\ UNCHANGED <<engine, vram, failures>>
=============================================================================
