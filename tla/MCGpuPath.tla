------------------------------ MODULE MCGpuPath ------------------------------
(* Instance for TLC: two sequences, of two blocks, which fill a wavefront   *)
(* exactly, and of three; a model of one layer with two components.         *)
EXTENDS GpuPath

MCComponents == <<"wk", "ffn_up">>

\* A context of its own or inference's; memory freed as it was allocated,
\* and not.
MCSettings ==
    {[wf_ctx |-> "infer", gpu_ctx |-> FALSE, load_to_gpu |-> FALSE],
     [wf_ctx |-> "weights", gpu_ctx |-> TRUE, load_to_gpu |-> FALSE]}
=============================================================================
