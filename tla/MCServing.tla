------------------------------ MODULE MCServing ------------------------------
(***************************************************************************)
(* The serving side of user space on small instances: the reactor with the *)
(* kernel module, the batch scheduler and the decode loop.  In the source  *)
(* none of the three calls another (kllm_ring_poll dispatches to nobody    *)
(* yet); what they share is the dispatch policy.  A behaviour is therefore *)
(* one of the reactor, of the scheduler or of the decode loop, each with a *)
(* policy of its own.                                                      *)
(*                                                                         *)
(* A ring of four slots in a page of six words behind the header, polls of *)
(* two tokens, the module loaded and the reactor started twice.  A pool of *)
(* three slots and batches of two, prompts on both sides of the CPU        *)
(* threshold.  A decode buffer of five tokens, prompts that leave room,    *)
(* fill it and exceed it.                                                  *)
(***************************************************************************)
EXTENDS Reactor, BatchScheduler, DecodeLoop

VARIABLE part

MCStrategies ==
    {[sampling |-> "GREEDY", temperature |-> 0, top_k |-> 0],
     [sampling |-> "TEMPERATURE", temperature |-> 1, top_k |-> 0],
     [sampling |-> "TOP_K", temperature |-> 1, top_k |-> 3],
     [sampling |-> "TOP_P", temperature |-> 0, top_k |-> 0]}

\* Minus infinity is 0.  Logits in rising, falling and mixed order, with
\* ties, and with one finite logit only.
MCLogits ==
    {<<0, 1, 2, 3>>, <<3, 2, 1, 0>>, <<2, 3, 1, 0>>, <<1, 3, 1, 3>>, <<2, 2, 2, 2>>,
     <<0, 3, 0, 0>>}

\* The variables of each part but the policy's.
reactor_vars == <<hook, kernel, users, queue, process, tokens_consumed,
                  prompts_dispatched, cpu_dispatches, gpu_dispatches, history>>
pool_vars == <<sched_gpu, hung, requests, active_count, next_request_id, returned,
               batch_history>>
loop_vars == <<gpu, running, waiting, call, ret, runs, output, drawn>>
serving_vars == <<part, gpu_queue_depth, reactor_vars, pool_vars, loop_vars>>

\* A part that does not run has one initial state.
ServingInit ==
    /\ part \in {"reactor", "batch", "decode"}
    /\ Init /\ BatchInit /\ DecodeInit
    /\ part # "reactor" => hook = "todo"
    /\ part # "batch" => sched_gpu = "none"
    /\ part # "decode" => gpu = "none" /\ params.sampling = "GREEDY"

OfReactor(A) == part = "reactor" /\ A /\ UNCHANGED <<part, pool_vars, loop_vars>>
OfBatch(A) == part = "batch" /\ A /\ UNCHANGED <<part, reactor_vars, loop_vars>>
OfDecode(A) == part = "decode" /\ A /\ UNCHANGED <<part, reactor_vars, pool_vars>>

ServingNext == OfReactor(Next) \/ OfBatch(BatchNext) \/ OfDecode(DecodeNext)

(* The fairness of BatchFairSpec and of DecodeFairSpec.                    *)
ServingSpec ==
    /\ ServingInit /\ [][ServingNext]_serving_vars
    /\ WF_serving_vars(OfBatch(BatchStep))
    /\ WF_serving_vars(OfDecode(running /\ DecodeNext))
=============================================================================
