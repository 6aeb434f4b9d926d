------------------------------ MODULE DecodeLoop ------------------------------
(***************************************************************************)
(* The autoregressive decode loop (userspace/decode/decode_loop.c): one    *)
(* call of kllm_decode_run after the other, each for one request, all of   *)
(* them on the same dispatch policy and the same response path.            *)
(*                                                                         *)
(* A turn of the loop is one step: dispatch, inference, sampling, emit.    *)
(* Whether inference succeeds and what the logits are is up to the         *)
(* environment; a turn that reaches the placeholder wavefront engine waits *)
(* for ever.                                                               *)
(***************************************************************************)
EXTENDS DispatchOps, Sampling

CONSTANTS
    MaxSequenceLen,    \* MAX_SEQUENCE_LEN
    Gpus,              \* what may be behind ctx->infer_gpu
    PromptLens,        \* bound: the prompt lengths that occur
    MaxTokens,         \* bound: the values of params->max_tokens that occur
    Strategies,        \* bound: the rest of the params that occur
    EosToken,          \* params->eos_token_id
    Logits,            \* bound: the logits that inference may leave
    MaxRuns            \* bound: calls in a behaviour

ASSUME DecodeAssumption ==
    /\ MaxSequenceLen \in Nat \ {0} /\ Gpus \subseteq GpuKinds
    /\ PromptLens \subseteq Nat \ {0} /\ MaxTokens \subseteq Nat
    /\ MaxRuns \in Nat
    /\ \A s \in Strategies : s.temperature \in Nat /\ s.top_k \in Nat
    /\ Logits \subseteq Seq(Int)
    /\ \A l \in Logits : l # <<>> /\ \A i \in DOMAIN l : l[i] >= NegInf

VARIABLES
    gpu,               \* what is behind ctx->infer_gpu
    running,           \* a call is inside its loop
    waiting,           \* it is inside the wait loop of fetch_kv_blocks, for good
    seq_len, generated, max_tokens,    \* its locals and parameter
    params,            \* its sampling strategy
    ret,               \* what the last call returned
    runs,              \* calls started (bounded)
    output,            \* history: what this call sent to the response path
    drawn              \* history: the logits of the last turn and its token

NotDrawn == <<<<>>, 0>>
call == <<seq_len, generated, max_tokens, params>>
decode_vars == <<gpu, running, waiting, call, gpu_queue_depth, ret, runs, output, drawn>>

DecodeInit ==
    /\ gpu \in Gpus
    /\ running = FALSE /\ waiting = FALSE
    /\ seq_len = 0 /\ generated = 0 /\ max_tokens = 0
    /\ gpu_queue_depth = 0 /\ ret = 0 /\ runs = 0
    /\ output = <<>> /\ drawn = NotDrawn
    /\ params \in Strategies

\* Up to the loop: the prompt is copied, cut at MAX_SEQUENCE_LEN.
CopyLen(prompt_len) ==
    IF prompt_len < MaxSequenceLen THEN prompt_len ELSE MaxSequenceLen

Start(prompt_len, max, strategy) ==
    /\ ~running
    /\ runs < MaxRuns
    /\ running' = TRUE
    /\ seq_len' = CopyLen(prompt_len)
    /\ generated' = 0 /\ max_tokens' = max /\ params' = strategy
    /\ runs' = runs + 1
    /\ output' = <<>> /\ drawn' = NotDrawn
    /\ UNCHANGED <<gpu, waiting, gpu_queue_depth, ret>>

\* An empty prompt, or no memory for the sequence: return -1, nothing is sent.
Reject ==
    /\ ~running
    /\ runs < MaxRuns
    /\ ret' = -1
    /\ runs' = runs + 1
    /\ output' = <<>> /\ drawn' = NotDrawn
    /\ UNCHANGED <<gpu, running, waiting, call, gpu_queue_depth>>

LoopCondition == generated < max_tokens /\ seq_len < MaxSequenceLen

\* Mutant of Leave: the end of sequence is always signalled.
LeaveAlwaysEos(emitted, stopped_eos) ==
    /\ running' = FALSE
    /\ output' = Append(emitted, "eos")
    /\ ret' = generated
    /\ UNCHANGED <<gpu, waiting, call, runs>>

\* From the end of the loop to the return: the end of sequence is signalled
\* here unless a sampled one has been.
Leave(emitted, stopped_eos) ==
    /\ running' = FALSE
    /\ output' = emitted \o (IF stopped_eos THEN <<>> ELSE <<"eos">>)
    /\ ret' = generated
    /\ UNCHANGED <<gpu, waiting, call, runs>>

\* Mutant of LoopEnds: a full buffer does not end the loop.
LoopEndsAtMaxTokens ==
    /\ running
    /\ generated = max_tokens
    /\ Leave(output, FALSE)
    /\ UNCHANGED <<gpu_queue_depth, drawn>>

LoopEnds ==
    /\ running
    /\ ~LoopCondition
    /\ Leave(output, FALSE)
    /\ UNCHANGED <<gpu_queue_depth, drawn>>

\* "optimistic; infer_cpu returns -1 on miss"
TurnTarget == Decide(gpu_queue_depth, seq_len, TRUE)

DepthAfterTurn ==
    IF TurnTarget = "GPU" THEN gpu_queue_depth + 1 ELSE gpu_queue_depth

\* The turn reaches inference; and where inference may succeed: on the
\* chosen target, or, after a failure of the CPU, on the GPU.
Turn ==
    /\ running /\ ~waiting
    /\ LoopCondition
    /\ gpu_queue_depth' = DepthAfterTurn

CanSucceed == TurnTarget = "CPU" \/ gpu = "device"

\* sample_token, on whatever logits inference left in the result.
Sample(logits, token) ==
    /\ Turn
    /\ CanSucceed
    /\ token \in sample_token(logits, params)
    /\ drawn' = <<logits, token>>

SampleToken(logits, token) ==
    /\ token # EosToken
    /\ Sample(logits, token)
    /\ output' = Append(output, "token")
    /\ seq_len' = seq_len + 1
    /\ generated' = generated + 1
    /\ UNCHANGED <<gpu, running, waiting, max_tokens, params, ret, runs>>

SampleEos(logits) ==
    /\ Sample(logits, EosToken)
    /\ Leave(Append(output, "eos"), TRUE)

\* Every target fails, or the GPU is chosen and there is none.
InferenceFails ==
    /\ Turn
    /\ gpu # "placeholder"
    /\ Leave(output, FALSE)
    /\ UNCHANGED drawn

\* The GPU is chosen, or the CPU failed: while (completed < submitted).
FetchWaits ==
    /\ Turn
    /\ gpu = "placeholder"
    /\ waiting' = TRUE
    /\ UNCHANGED <<gpu, running, call, ret, runs, output, drawn>>

DecodeNext ==
    \/ \E prompt_len \in PromptLens, max \in MaxTokens, strategy \in Strategies :
          Start(prompt_len, max, strategy)
    \/ Reject
    \/ LoopEnds
    \/ \E logits \in Logits :
          \/ \E token \in DOMAIN logits : SampleToken(logits, token)
          \/ SampleEos(logits)
    \/ InferenceFails
    \/ FetchWaits

DecodeSpec == DecodeInit /\ [][DecodeNext]_decode_vars

(* The reactor's thread runs a call it has entered to its end.             *)
DecodeFairSpec == DecodeSpec /\ WF_decode_vars(running /\ DecodeNext)

-----------------------------------------------------------------------------
(* Properties.                                                             *)

(* Every local stays in its range; the sequence never outgrows its buffer. *)
TypeOK ==
    /\ gpu \in Gpus
    /\ running \in BOOLEAN /\ waiting \in BOOLEAN
    /\ seq_len \in 0..MaxSequenceLen
    /\ generated \in Nat /\ max_tokens \in MaxTokens \cup {0}
    /\ gpu_queue_depth \in Nat
    /\ ret \in Nat \cup {-1} /\ runs \in 0..MaxRuns
    /\ output \in Seq({"token", "eos"})

TokensSent(n) == [i \in 1..n |-> "token"]

(* A call that has ended has sent exactly one end of sequence, after all   *)
(* its tokens, and returns how many those were: whether it ended by a      *)
(* sampled end, by a limit or by a failure of inference.  Only a rejected  *)
(* call sends nothing.                                                     *)
OneEosAtTheEnd ==
    ~running /\ runs > 0 =>
        \/ ret = -1 /\ output = <<>>
        \/ ret \in Nat /\ output = Append(TokensSent(ret), "eos")

(* While a call runs it has sent one token per turn and never more than    *)
(* the caller asked for.                                                   *)
WithinMaxTokens ==
    /\ running => output = TokensSent(generated)
    /\ runs > 0 => generated <= max_tokens

(* Every call returns, unless it gets to the placeholder engine: each turn *)
(* brings one of the limits nearer.                                        *)
CallsReturn == running ~> (~running \/ waiting)

(* A sampled token was among the best: greedy takes the first of the       *)
(* largest logits; top-k one of the k largest, ties going to the lower     *)
(* token; the others one that has a chance at all, or one of the two ends: *)
(* rand() may be 0, and rounding may leave the total below 1.              *)
DrawnIsLikely ==
    LET logits == drawn[1]
        token == drawn[2]
        Better == {i \in DOMAIN logits :
                      \/ logits[i] > logits[token]
                      \/ logits[i] = logits[token] /\ i < token}
    IN  drawn # NotDrawn =>
            /\ params.sampling = "GREEDY" \/ params.temperature = 0 => Better = {}
            /\ params.sampling = "TOP_K" /\ params.top_k # 0 =>
                   Cardinality(Better) < params.top_k
            /\ logits[token] > NegInf \/ token \in {1, Len(logits)}
                   \/ params.sampling = "TOP_K"
=============================================================================
