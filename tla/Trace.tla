-------------------------------- MODULE Trace --------------------------------
(***************************************************************************)
(* Request tracing: the probes of bpf/kllm_trace.bpf.c, which run on the   *)
(* threads of clients and of the reactor, and the tool that reads their    *)
(* events (userspace/tools/kllm_trace.c).                                  *)
(*                                                                         *)
(* A probe runs concurrently with the probes of other threads, one step    *)
(* per helper call or group of accesses to a shared element; on one CPU    *)
(* that is preemption, which a probe does not prevent (it only stays on    *)
(* its CPU).  The state of a request is keyed by the process that runs the *)
(* probe.  A lookup returns a pointer to the element itself: the map may   *)
(* drop the element, and give it to another process, while the pointer is  *)
(* held.                                                                   *)
(***************************************************************************)
EXTENDS Integers, Sequences, FiniteSets, Functions

CONSTANTS
    Clients,           \* threads that write prompts
    Reactor,           \* the reactor's thread
    Processes,         \* bound: how threads may belong to processes
    Cpus,
    Elements,          \* the map's elements, preallocated
    ReactorStages,     \* stages of the probes that only emit
    MaxTracked,        \* KLLM_MAX_TRACKED
    RingEvents,        \* events the ring buffer holds
    MaxProbes,         \* bound: probes in a behaviour
    MaxTime            \* bound: of the clock

Threads == Clients \cup {Reactor}
Stages == ReactorStages \cup {"CHARDEV_WRITE", "TOKENIZE_END", "RESPONSE_EMIT", "EOS"}

\* A NULL pointer.
NoElement == 0

ASSUME TraceAssumption ==
    /\ {MaxTracked, RingEvents, MaxProbes, MaxTime} \subseteq Nat
    /\ Reactor \notin Clients
    /\ NoElement \notin Elements
    /\ MaxTracked < Cardinality(Elements)

VARIABLES
    pid,               \* the process of each thread
    clock,             \* bpf_ktime_get_ns
    request_state,     \* per process: element, time of the write and last stage
    probe,             \* each thread's probe: next step, stage, CPU and locals
    inside,            \* client threads inside kllm_write
    trace_events,      \* the ring buffer
    stats,             \* global_stats: the counters of all CPUs together
    stage_totals,      \* global_stats: per CPU and stage
    tool_running,      \* the tool has not been interrupted
    probes,            \* probes run by each thread (bounded)
    emitted,           \* history: per CPU and stage, sum of the deltas submitted
    clashed,           \* history: where an addition began inside another
    lowest,            \* history: per process, the lowest delta it emitted
    raced              \* history: processes that ran two probes at a time

local == <<probe, inside, probes>>
totals == <<stats, stage_totals>>
trace_history == <<emitted, clashed, lowest, raced>>
trace_vars == <<pid, clock, request_state, local, trace_events, totals, tool_running,
                trace_history>>

Idle == [at |-> "idle", stage |-> "none", cpu |-> "none", now |-> 0,
         rt |-> NoElement, delta |-> 0, old |-> 0]

TraceInit ==
    /\ pid \in Processes
    /\ clock = 0 /\ request_state = <<>>
    /\ probe = [t \in Threads |-> Idle] /\ inside = {}
    /\ trace_events = <<>> /\ tool_running = TRUE
    /\ stats = [requests |-> 0, tokens |-> 0, latency |-> 0, longest |-> 0]
    /\ stage_totals = [e \in Cpus \X Stages |-> 0]
    /\ probes = [t \in Threads |-> 0]
    /\ emitted = stage_totals /\ clashed = {}
    /\ lowest = [p \in {pid[t] : t \in Threads} |-> 0]
    /\ raced = {}

Tick ==
    /\ clock < MaxTime
    /\ clock' = clock + 1
    /\ UNCHANGED <<pid, request_state, local, trace_events, totals, tool_running,
                   trace_history>>

\* The probe goes on; locals it does not read again are dropped.
Continue(t, at, now, rt, delta, old) ==
    probe' = [probe EXCEPT ![t] = [at |-> at, stage |-> @.stage, cpu |-> @.cpu,
                                   now |-> now, rt |-> rt, delta |-> delta, old |-> old]]

Proceed(t, at) == Continue(t, at, 0, NoElement, probe[t].delta, 0)

ReturnFromProbe(t) == probe' = [probe EXCEPT ![t] = Idle]

-----------------------------------------------------------------------------
(* Entering a probe: the first helper it calls reads the clock.            *)

\* The bound on probes has not been reached.
ProbesLeft == SumFunction(probes) < MaxProbes

Enter(t, stage, at) ==
    /\ probe[t].at = "idle" /\ ProbesLeft
    /\ probes' = [probes EXCEPT ![t] = @ + 1]
    /\ \E c \in Cpus :
          probe' = [probe EXCEPT ![t] = [at |-> at, stage |-> stage, cpu |-> c,
                                         now |-> clock, rt |-> NoElement, delta |-> 0,
                                         old |-> 0]]
    /\ raced' = raced \cup
           {pid[u] : u \in {u \in Threads \ {t} : pid[u] = pid[t] /\ probe[u].at # "idle"}}
    /\ UNCHANGED <<pid, clock, request_state, trace_events, stage_totals, tool_running,
                   emitted, clashed, lowest>>

TraceChardevWrite(t) ==
    /\ t \in Clients \ inside
    /\ Enter(t, "CHARDEV_WRITE", "start")
    /\ inside' = inside \cup {t}
    /\ UNCHANGED stats

TraceChardevWriteExit(t) ==
    /\ t \in inside
    /\ Enter(t, "TOKENIZE_END", "delta")
    /\ inside' = inside \ {t}
    /\ UNCHANGED stats

\* trace_reactor_consume, trace_dispatch_decide, trace_attention_start and
\* trace_attention_end differ in the stage only.
TraceReactor(stage) ==
    /\ Enter(Reactor, stage, "delta")
    /\ UNCHANGED <<inside, stats>>

TraceResponseEmit ==
    /\ Enter(Reactor, "RESPONSE_EMIT", "delta")
    /\ stats' = [stats EXCEPT !.tokens = @ + 1]
    /\ UNCHANGED inside

TraceEos ==
    /\ Enter(Reactor, "EOS", "delta")
    /\ UNCHANGED <<inside, stats>>

-----------------------------------------------------------------------------
(* start_request, emit_trace and end_request.                              *)

Tracked(t) == pid[t] \in DOMAIN request_state

HasRoom(t) == Tracked(t) \/ Cardinality(DOMAIN request_state) < MaxTracked

\* The elements that are not in the table; a new state takes one of them,
\* also when it replaces the state of its process.
FreeElements == Elements \ {request_state[p].elem : p \in DOMAIN request_state}

\* bpf_map_update_elem with BPF_ANY: replaces, adds, or fails when full;
\* then emit_trace reads the clock.
StartRequest(t) ==
    /\ probe[t].at = "start"
    /\ \/ /\ HasRoom(t)
          /\ \E e \in FreeElements :
                request_state' =
                    [p \in DOMAIN request_state \cup {pid[t]} |->
                        IF p = pid[t] THEN [elem |-> e, write |-> probe[t].now,
                                            last |-> probe[t].now]
                                      ELSE request_state[p]]
       \/ ~HasRoom(t) /\ UNCHANGED request_state
    /\ stats' = [stats EXCEPT !.requests = @ + 1]
    /\ Continue(t, "delta", clock, NoElement, 0, 0)
    /\ UNCHANGED <<pid, clock, inside, probes, trace_events, stage_totals, tool_running,
                   trace_history>>

\* Mutant of Delta: the operands are exchanged.
DeltaExchanged(t) ==
    IF Tracked(t) THEN request_state[pid[t]].last - probe[t].now ELSE 0

\* now - rt->stage_ts[rt->last_stage], when there is a state.
Delta(t) == IF Tracked(t) THEN probe[t].now - request_state[pid[t]].last ELSE 0

\* bpf_map_lookup_elem
LookedUp(t) == IF Tracked(t) THEN request_state[pid[t]].elem ELSE NoElement

ReadDelta(t) ==
    /\ probe[t].at = "delta"
    /\ Continue(t, "store", probe[t].now, LookedUp(t), Delta(t), 0)
    /\ UNCHANGED <<pid, clock, request_state, inside, probes, trace_events, totals,
                   tool_running, trace_history>>

\* rt->stage_ts[stage] = now, rt->last_stage = stage, in the state rt that
\* the element now is part of.
StoreStage(t, rt) ==
    [elem |-> rt.elem, last |-> probe[t].now,
     write |-> IF probe[t].stage = "CHARDEV_WRITE" THEN probe[t].now ELSE rt.write]

\* Through the pointer of the lookup, whoever's state the element holds by
\* now.  An element that is out of the table is written in vain: a state
\* that takes it later is copied over it.
StoreState(t) ==
    /\ probe[t].at = "store"
    /\ request_state' = [p \in DOMAIN request_state |->
                            IF request_state[p].elem = probe[t].rt
                            THEN StoreStage(t, request_state[p])
                            ELSE request_state[p]]
    /\ Proceed(t, "reserve")
    /\ UNCHANGED <<pid, clock, inside, probes, trace_events, totals, tool_running,
                   trace_history>>

\* After emit_trace: trace_eos goes on with end_request.
AfterEmit(t) == IF probe[t].stage = "EOS" THEN Proceed(t, "end") ELSE ReturnFromProbe(t)

\* The element of global_stats.stage_totals a probe adds to.
TotalOf(t) == <<probe[t].cpu, probe[t].stage>>

\* bpf_ringbuf_reserve and bpf_ringbuf_submit.
SubmitEvent(t) ==
    /\ probe[t].at = "reserve" /\ Len(trace_events) < RingEvents
    /\ trace_events' = Append(trace_events, probe[t].stage)
    /\ emitted' = [emitted EXCEPT ![TotalOf(t)] = @ + probe[t].delta]
    /\ lowest' = [lowest EXCEPT ![pid[t]] = IF probe[t].delta < @ THEN probe[t].delta ELSE @]
    /\ Proceed(t, "stats")
    /\ UNCHANGED <<pid, clock, request_state, inside, probes, totals, tool_running, clashed,
                   raced>>

\* Mutant of NoRoom: the time is counted although no event is sent.
NoRoomCounted(t) ==
    /\ probe[t].at = "reserve" /\ Len(trace_events) = RingEvents
    /\ Proceed(t, "stats")

\* The ring buffer is full: emit_trace returns.
NoRoom(t) ==
    /\ probe[t].at = "reserve" /\ Len(trace_events) = RingEvents
    /\ AfterEmit(t)

DropEvent(t) ==
    /\ NoRoom(t)
    /\ UNCHANGED <<pid, clock, request_state, inside, probes, trace_events, totals,
                   tool_running, trace_history>>

\* stats->stage_totals[stage] += delta, a plain addition: the old value is
\* loaded ...
LoadTotal(t) ==
    /\ probe[t].at = "stats"
    /\ Continue(t, "add", 0, NoElement, probe[t].delta, stage_totals[TotalOf(t)])
    /\ clashed' = IF \E u \in Threads : probe[u].at = "add" /\ TotalOf(u) = TotalOf(t)
                  THEN clashed \cup {TotalOf(t)} ELSE clashed
    /\ UNCHANGED <<pid, clock, request_state, inside, probes, trace_events, totals,
                   tool_running, emitted, lowest, raced>>

\* ... and the sum is stored.
UpdateStats(t) ==
    /\ probe[t].at = "add"
    /\ stage_totals' = [stage_totals EXCEPT ![TotalOf(t)] = probe[t].old + probe[t].delta]
    /\ AfterEmit(t)
    /\ UNCHANGED <<pid, clock, request_state, inside, probes, trace_events, stats,
                   tool_running, trace_history>>

\* end_request: the total of the state it finds, ...
EndRequest(t) ==
    /\ probe[t].at = "end"
    /\ LET total == clock - request_state[pid[t]].write
       IN  stats' = IF Tracked(t)
                    THEN [stats EXCEPT !.latency = @ + total,
                                       !.longest = IF total > @ THEN total ELSE @]
                    ELSE stats
    /\ Proceed(t, "delete")
    /\ UNCHANGED <<pid, clock, request_state, inside, probes, trace_events, stage_totals,
                   tool_running, trace_history>>

\* ... and bpf_map_delete_elem.
DeleteState(t) ==
    /\ probe[t].at = "delete"
    /\ request_state' = [p \in DOMAIN request_state \ {pid[t]} |-> request_state[p]]
    /\ ReturnFromProbe(t)
    /\ UNCHANGED <<pid, clock, inside, probes, trace_events, totals, tool_running,
                   trace_history>>

-----------------------------------------------------------------------------
(* The tool.                                                               *)

\* ring_buffer__poll calls handle_event for what there is.
HandleEvents == <<>>

Poll ==
    /\ tool_running /\ trace_events # <<>>
    /\ trace_events' = HandleEvents
    /\ UNCHANGED <<pid, clock, request_state, local, totals, tool_running, trace_history>>

\* sig_handler; the loop ends, the summary is printed, the rest is not read.
Interrupt ==
    /\ tool_running
    /\ tool_running' = FALSE
    /\ UNCHANGED <<pid, clock, request_state, local, trace_events, totals, trace_history>>

-----------------------------------------------------------------------------
Step(t) ==
    \/ StartRequest(t) \/ ReadDelta(t) \/ StoreState(t)
    \/ SubmitEvent(t) \/ DropEvent(t) \/ LoadTotal(t) \/ UpdateStats(t)
    \/ EndRequest(t) \/ DeleteState(t)

TraceNext ==
    \/ Tick
    \/ \E t \in Clients : TraceChardevWrite(t) \/ TraceChardevWriteExit(t)
    \/ \E stage \in ReactorStages : TraceReactor(stage)
    \/ TraceResponseEmit
    \/ TraceEos
    \/ \E t \in Threads : Step(t)
    \/ Poll
    \/ Interrupt

TraceSpec == TraceInit /\ [][TraceNext]_trace_vars

-----------------------------------------------------------------------------
(* Properties.                                                             *)

(* latency_ns, "delta from previous stage", does not wrap below zero       *)
(* unless two threads of one process were inside probes at the same time:  *)
(* the clock is read before the shared state of the process is.  Threads   *)
(* of other processes never cause it, although one that was overtaken may  *)
(* store an old time in an element that has become this process's.         *)
DeltaWrapsOnlyInRace == \A p \in DOMAIN lowest : lowest[p] < 0 => p \in raced

(* Where no probe was preempted in the middle of its addition by one that  *)
(* adds to the same stage on the same CPU, a stage total is the sum of the *)
(* deltas of the events that were submitted there: what a full buffer      *)
(* drops is in neither, and additions on other CPUs or to other stages do  *)
(* no harm.                                                                *)
TotalsMatchEvents ==
    \A c \in Cpus, s \in Stages :
        LET adding == {t \in Threads : TotalOf(t) = <<c, s>> /\ probe[t].at \in {"stats", "add"}}
        IN  <<c, s>> \notin clashed =>
                stage_totals[c, s] + SumFunctionOnSet([t \in Threads |-> probe[t].delta], adding)
                    = emitted[c, s]

(* "per-request latency breakdown", from chardev_write to response_emit    *)
(* (kllm_trace.bpf.c:3): when the reactor ends a request while requests    *)
(* are tracked, the state of one of them is ended.                         *)
EosEndsRequest ==
    [][DeleteState(Reactor) /\ request_state # <<>> =>
          DOMAIN request_state' # DOMAIN request_state]_trace_vars
=============================================================================
