------------------------------- MODULE GpuPath -------------------------------
(***************************************************************************)
(* The two users of the wavefront engine together: the weight loader at    *)
(* start-up and inference afterwards, on one thread, each with its own     *)
(* wavefront context or both with the same one.  The engine moves blocks   *)
(* at its own pace between any two of their steps.                         *)
(***************************************************************************)
EXTENDS Inference, WeightLoader

vars == <<wavefronts, inference, loading>>

Init == WavefrontInit /\ InferenceInit /\ WeightInit

\* A call runs to its end before the thread makes the next; weights are
\* loaded at start-up, before the first inference.
InCall == ipc # "idle"
InLoad == wpc \in {"embedding", "layers", "lm_head"}

Next ==
    \/ ~InLoad /\ InferenceNext /\ UNCHANGED loading
    \/ infers = 0 /\ ~InCall /\ WeightNext /\ UNCHANGED inference
    \/ ~InCall /\ WeightDestroy /\ UNCHANGED inference
    \/ EngineStep /\ UNCHANGED <<inference, loading>>

Spec == Init /\ [][Next]_vars

(* The thread goes on with a call it has entered; a device that was given  *)
(* blocks finishes them.                                                   *)
FairSpec ==
    /\ Spec
    /\ WF_vars(GpuCall /\ UNCHANGED loading)
    /\ WF_vars(WeightCall /\ UNCHANGED inference)
    /\ WF_vars(EngineLands /\ UNCHANGED <<inference, loading>>)

-----------------------------------------------------------------------------
(* Properties.                                                             *)

MinOf(a, b) == IF a < b THEN a ELSE b

NeededBlocks(len) == {b \in 0..len : b * TokensPerBlock < len}

(* When paged attention runs, every block of the sequence lies at its      *)
(* place in VRAM with the content of its prefix, unless reads of somebody  *)
(* else were on their way on this context when the call began: the wait    *)
(* loop of fetch_kv_blocks counts completions and does not match them.     *)
AttentionSeesItsBlocks ==
    ipc = "attend" /\ ~stray =>
        \A b \in NeededBlocks(seq_len) :
            /\ <<"kv", b>> \in DOMAIN vram
            /\ vram[<<"kv", b>>] = <<seq, MinOf((b + 1) * TokensPerBlock, seq_len)>>

(* Between calls no read of this context is on its way, so the exception   *)
(* above takes a submission that failed in the middle of an earlier fetch, *)
(* or a weight loader on the same context.                                 *)
CallLeavesNoReads ==
    ipc = "idle" /\ Outstanding # {} =>
        \/ abandoned
        \/ settings.wf_ctx = "infer" /\ \E p \in LayerParts : sent[p] > 0

(* fetch_kv_blocks puts every block of the sequence into exactly one       *)
(* wavefront, however the length falls between multiples of a block and of *)
(* a wavefront: when the last one is just full nothing is left to submit,  *)
(* and no wavefront has more blocks than its array or none.                *)
BlocksAskedOnce ==
    /\ \A i \in DOMAIN wfs : Cardinality(wfs[i].blocks) \in 1..MaxBlocks
    /\ ipc = "attend" =>
          /\ {block.dest : block \in asked} = {<<"kv", b>> : b \in NeededBlocks(seq_len)}
          /\ submitted = Cardinality(asked)

(* Every way out of create, destroy and kllm_infer_gpu gives back exactly  *)
(* what was taken: without a context nothing is mapped, outside a call no  *)
(* device buffer is held, and descriptor 0, which freeing a region with    *)
(* cleared fields would close, stays open.                                 *)
ResourcesBalanced ==
    /\ stdin_open
    /\ ipc = "idle" => gpu_mem = {}
    /\ ipc = "idle" /\ held = {} => kv_region = "zero" /\ logits_region = "zero"
    /\ ipc \in {"fetch", "attend"} => /\ kv_region = "mapped" /\ "block_table" \in held

(* The logits a decode run samples from are those of its last turn that    *)
(* returned 0, on the CPU or on the GPU: infer_gpu.h says that             *)
(* kllm_infer_gpu copies logits back to the host.                          *)
LogitsOfLastTurn == last_turn = NULL \/ logits = last_turn

(* A fetch ends when the device reads every block it is given.  A block    *)
(* that fails is never counted, and the placeholder completes nothing.     *)
FetchEnds ==
    ipc = "fetch" ~> (ipc # "fetch" \/ failures > 0 \/ engine = "placeholder")
=============================================================================
