---------------------------- MODULE MCWeightLoader ----------------------------
(* Instance for TLC: two layers of two components; every setting that       *)
(* matters to the loader alone.                                             *)
EXTENDS WeightLoader

MCComponents == <<"wk", "ffn_up">>

MCSettings ==
    {[wf_ctx |-> "weights", gpu_ctx |-> g, load_to_gpu |-> l] : g, l \in BOOLEAN}
=============================================================================
