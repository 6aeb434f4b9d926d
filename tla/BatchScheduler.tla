---------------------------- MODULE BatchScheduler ----------------------------
(***************************************************************************)
(* The continuous batching scheduler (userspace/reactor/                   *)
(* batch_scheduler.c).                                                     *)
(*                                                                         *)
(* A fixed pool of request slots.  kllm_batch_submit fills one;            *)
(* kllm_batch_step prefills as many waiting prompts as the budget allows,  *)
(* runs one decode iteration of up to max_batch_size requests, and retires *)
(* the finished ones.  Both run on the reactor's thread, so a call is one  *)
(* step.  What inference answers is a choice of the environment; a call    *)
(* that reaches the placeholder wavefront engine never returns.            *)
(*                                                                         *)
(* FreshPhase is the phase kllm_batch_create leaves a slot in.  calloc     *)
(* makes it PREFILL, and find_free_slot looks for DONE: see                *)
(* PoolNotFullHasSlot.  The rest of the scheduler is studied with a pool   *)
(* whose slots start as find_free_slot expects them, DONE.                 *)
(***************************************************************************)
EXTENDS DispatchOps, FiniteSets, Sequences, Functions

CONSTANTS
    MaxRequests, MaxBatchSize, PrefillBudget,   \* struct kllm_batch_config
    MaxSeqLen,         \* KLLM_MAX_SEQ_LEN
    SchedGpus,         \* what may be behind sched->gpu
    FreshPhase,        \* the phase of a slot no request has used
    IdLimit,           \* request_id counts modulo this (2^32)
    SubmitLens,        \* bound: the prompt lengths that occur
    MaxSubmits         \* bound: accepted submits in a behaviour

Phases == {"PREFILL", "DECODE", "DONE"}

ASSUME PoolAssumption == {MaxRequests, MaxBatchSize, PrefillBudget} \subseteq Nat \ {0}
ASSUME LengthAssumption == MaxSeqLen \in Nat \ {0} /\ SubmitLens \subseteq 0..MaxSeqLen
ASSUME KindAssumption == SchedGpus \subseteq GpuKinds /\ FreshPhase \in Phases
ASSUME BoundAssumption == IdLimit \in Nat \ {0, 1} /\ MaxSubmits \in Nat

Slots == 0 .. MaxRequests - 1

\* struct kllm_request; the tokens themselves, times and priority are left out.
Request == [request_id : 0 .. IdLimit - 1, phase : Phases, target : Targets,
            prompt_len : SubmitLens \cup {0}, seq_len : 0..MaxSeqLen]

VARIABLES
    sched_gpu,         \* what is behind sched->gpu
    hung,              \* kllm_batch_step waits for the GPU, for good
    requests,          \* slot -> struct kllm_request
    active_count, next_request_id,
    returned,          \* what the last kllm_batch_submit returned
    serial,            \* history: the number of the request last put in a slot
    accepted,          \* history: how many requests were put in a slot
    responses,         \* history: what each request sent to its response path
    failed             \* history: requests that inference failed

sched == <<sched_gpu, hung, requests, active_count, next_request_id, gpu_queue_depth>>
batch_history == <<serial, accepted, responses, failed>>
batch_vars == <<sched, returned, batch_history>>

Serials == 1 .. MaxSubmits

BatchInit ==
    /\ sched_gpu \in SchedGpus /\ hung = FALSE
    /\ requests = [i \in Slots |-> [request_id |-> 0, phase |-> FreshPhase,
                                    target |-> "CPU", prompt_len |-> 0,
                                    seq_len |-> 0]]
    /\ active_count = 0 /\ next_request_id = 1 /\ gpu_queue_depth = 0
    /\ returned = 0
    /\ serial = [i \in Slots |-> 0] /\ accepted = 0
    /\ responses = [n \in Serials |-> <<>>] /\ failed = {}

-----------------------------------------------------------------------------
(* kllm_batch_submit                                                       *)

\* find_free_slot.  The second pass, for a DONE slot with an id, finds none:
\* kllm_batch_step retires every DONE request before it returns.
FreeSlots == {i \in Slots : requests[i].phase = "DONE"}
FirstFree == CHOOSE i \in FreeSlots : \A j \in FreeSlots : i <= j

SubmitAccepted(len) ==
    LET i == FirstFree
    IN /\ ~hung
       /\ accepted < MaxSubmits
       /\ active_count < MaxRequests
       /\ FreeSlots # {}
       /\ requests' = [requests EXCEPT ![i] =
                         [request_id |-> next_request_id, phase |-> "PREFILL",
                          target |-> @.target, prompt_len |-> len,
                          seq_len |-> len]]
       /\ next_request_id' = (next_request_id + 1) % IdLimit
       /\ active_count' = active_count + 1
       /\ returned' = next_request_id
       /\ accepted' = accepted + 1
       /\ serial' = [serial EXCEPT ![i] = accepted + 1]
       /\ UNCHANGED <<sched_gpu, hung, gpu_queue_depth, responses, failed>>

\* The pool is full, or calloc of the token buffer failed.
SubmitRejected ==
    /\ ~hung
    /\ returned' = 0
    /\ UNCHANGED <<sched, batch_history>>

-----------------------------------------------------------------------------
(* kllm_batch_step                                                         *)

\* rebuild_queues: the slots in a phase, in slot order.
InPhase(reqs, phase) ==
    {i \in Slots : reqs[i].request_id # 0 /\ reqs[i].phase = phase}

\* The prompt tokens spent once the prefill loop is through with slot i.
SpentBy(queue, i) ==
    SumFunctionOnSet([j \in queue |-> requests[j].prompt_len], {j \in queue : j <= i})

\* Mutant of Prefilled: a prompt as long as the budget does not fit.
PrefilledStrict ==
    LET queue == InPhase(requests, "PREFILL")
    IN {i \in queue : SpentBy(queue, i) < PrefillBudget}

\* The prefill loop stops at the first prompt that exceeds the budget.
Prefilled ==
    LET queue == InPhase(requests, "PREFILL")
    IN {i \in queue : SpentBy(queue, i) <= PrefillBudget}

\* run_prefill: "assume hit for dispatch decision", so that the depth, which
\* grows with each GPU request of the loop, does not matter.
TargetOf(i) == Decide(gpu_queue_depth, requests[i].seq_len, TRUE)

AfterPrefill ==
    [i \in Slots |->
        IF i \in Prefilled
        THEN [requests[i] EXCEPT !.phase = "DECODE", !.target = TargetOf(i)]
        ELSE requests[i]]

\* The requests one iteration decodes: the first of the queue.
Batch(reqs) ==
    LET queue == InPhase(reqs, "DECODE")
    IN {i \in queue : Cardinality({j \in queue : j < i}) < MaxBatchSize}

\* What inference may answer: a failure, the end of sequence, a token, or
\* nothing ever, on the request's own target or, after a failure of the CPU,
\* on the GPU.
Answers == [kind : {"error", "eos", "token", "never"}, escalated : BOOLEAN]

CanAnswer(req, answer) ==
    LET onGpu == req.target = "GPU" \/ answer.escalated
    IN /\ answer.escalated => req.target = "CPU" /\ sched_gpu # "none"
       /\ answer.kind = "never" <=> onGpu /\ sched_gpu = "placeholder"
       /\ onGpu /\ sched_gpu = "none" => answer.kind = "error"
       /\ ~onGpu /\ sched_gpu # "none" => answer.kind # "error"

\* run_decode_step on one request: the request, and what it emits.
AtLimit(req) == req.seq_len >= MaxSeqLen

Decoded(req, answer) ==
    [req EXCEPT
        !.target = IF answer.escalated THEN "GPU" ELSE @,
        !.seq_len = IF answer.kind = "token" /\ ~AtLimit(req) THEN @ + 1 ELSE @,
        !.phase = IF answer.kind = "token" /\ ~AtLimit(req) THEN @ ELSE "DONE"]

\* Mutant of Emitted: the length limit sends no end of sequence.
EmittedNoEosAtLimit(req, answer) ==
    CASE answer.kind = "error" -> <<>>
      [] answer.kind = "eos"   -> <<"eos">>
      [] answer.kind = "token" -> <<"token">>

Emitted(req, answer) ==
    CASE answer.kind = "error" -> <<>>
      [] answer.kind = "eos"   -> <<"eos">>
      [] answer.kind = "token" /\ AtLimit(req) -> <<"token", "eos">>
      [] OTHER -> <<"token">>

\* "Retire completed requests": free the slot's tokens and its id.
Retire(reqs) ==
    [i \in Slots |-> IF reqs[i].phase = "DONE"
                     THEN [reqs[i] EXCEPT !.request_id = 0]
                     ELSE reqs[i]]

\* Mutant of Finished: active_count is not decremented.
FinishedNone(reqs) == {}

Finished(reqs) == InPhase(reqs, "DONE")

\* The decode loop: what inference may answer to the batch, the requests the
\* loop gets through with, and the pool once they have had their step.
AnswersTo(ready) ==
    {f \in [Batch(ready) -> Answers] :
        \A i \in DOMAIN f : CanAnswer(ready[i], f[i])}

Through(answer) ==
    {i \in DOMAIN answer :
        \A j \in DOMAIN answer : j <= i => answer[j].kind # "never"}

AfterDecode(ready, answer) ==
    [i \in Slots |->
        IF i \in Through(answer) THEN Decoded(ready[i], answer[i]) ELSE ready[i]]

\* What the two loops of a call do beside the pool.
Effects(ready, answer) ==
    LET sent == {i \in InPhase(requests, "PREFILL") :
                    ready[i].phase = "DECODE" /\ ready[i].target = "GPU"}
        owner(n) == {i \in Through(answer) : serial[i] = n}
    IN /\ gpu_queue_depth' = gpu_queue_depth + Cardinality(sent)
       /\ responses' = [n \in Serials |->
                       IF owner(n) = {} THEN responses[n]
                       ELSE LET i == CHOOSE i \in owner(n) : TRUE
                            IN responses[n] \o Emitted(ready[i], answer[i])]
       /\ failed' = failed \cup {serial[i] : i \in
                       {j \in Through(answer) : answer[j].kind = "error"}}
       /\ UNCHANGED <<sched_gpu, next_request_id, returned, serial, accepted>>

\* The call gets through the batch and retires what is DONE, or stays in
\* fetch_kv_blocks with the first request that gets there.
Iteration(answer, after) ==
    IF Through(answer) = DOMAIN answer
    THEN /\ requests' = Retire(after)
         /\ active_count' = active_count - Cardinality(Finished(after))
         /\ hung' = FALSE
    ELSE /\ requests' = after
         /\ active_count' = active_count
         /\ hung' = TRUE

BatchStep ==
    /\ ~hung
    /\ \E ready \in {AfterPrefill} : \E answer \in AnswersTo(ready) :
          \E after \in {AfterDecode(ready, answer)} :
              Effects(ready, answer) /\ Iteration(answer, after)

-----------------------------------------------------------------------------

BatchNext ==
    \/ \E len \in SubmitLens : SubmitAccepted(len)
    \/ SubmitRejected
    \/ BatchStep

BatchSpec == BatchInit /\ [][BatchNext]_batch_vars

(* The reactor polls the scheduler for ever; a model that is asked for the *)
(* next token often enough need never answer the end of sequence.          *)
BatchFairSpec == BatchSpec /\ WF_batch_vars(BatchStep)

-----------------------------------------------------------------------------
(* Properties.                                                             *)

Busy == {i \in Slots : requests[i].request_id # 0}

(* active_count, which kllm_batch_idle and the submit guard rely on, is    *)
(* the number of requests in the pool, whatever finishes in whichever      *)
(* iteration.                                                              *)
ActiveIsExact == active_count = Cardinality(Busy)

(* "Returns request_id, or 0 on error (queue full)": as long as fewer than *)
(* max_requests requests are in flight, find_free_slot finds a slot.       *)
PoolNotFullHasSlot == active_count < MaxRequests => FreeSlots # {}

Ended(n) == n <= accepted /\ \A i \in Busy : serial[i] # n

(* A client sees at most one end of sequence, and nothing after it, even   *)
(* when its slot is reused; and a request leaves the pool without one only *)
(* after inference has failed it (the end the error path does not signal). *)
EndIsSignalled ==
    \A n \in Serials :
        /\ \A k \in DOMAIN responses[n] : responses[n][k] = "eos" => k = Len(responses[n])
        /\ Ended(n) => n \in failed \/ \E k \in DOMAIN responses[n] : responses[n][k] = "eos"

SubmitsStop == <>[][accepted' = accepted]_batch_vars

(* Once no more requests are submitted, every accepted one whose prompt    *)
(* fits the budget ends, unless some request gets to the placeholder       *)
(* engine: the batch limit and the prefill budget delay it, but not for    *)
(* ever.  While submits go on nothing bounds the wait: rebuild_queues goes *)
(* by slot number and find_free_slot refills the lowest slot first, so a   *)
(* request in a high slot may be passed over in every iteration.           *)
RequestsEnd ==
    SubmitsStop => \A n \in Serials : (accepted >= n) ~> (Ended(n) \/ hung)
=============================================================================
