---------------------------- MODULE RequestProofs ----------------------------
(***************************************************************************)
(* Proofs about the life of a request outside the rings: its trace, for    *)
(* every set of threads and processes, and the call of kllm_decode_run that*)
(* answers it, for every prompt, limit, strategy and whatever inference    *)
(* leaves in the logits.                                                   *)
(*                                                                         *)
(* Trace.  DeltaWrapsOnlyInRace speaks of deltas that were emitted; to     *)
(* keep it one has to know where each probe stands between its read of the *)
(* clock and its read of the shared state, and which probes of any process *)
(* may still store through a pointer to the element: ClockInv.             *)
(*                                                                         *)
(* Decode loop.  OneEosAtTheEnd speaks of calls that have ended; to keep   *)
(* it one has to know what a call still in its loop has sent, which is     *)
(* WithinMaxTokens.  That a token was a likely one goes back to what       *)
(* kllm_sample computes, which OperatorProofs has: DrawnInv.               *)
(***************************************************************************)
EXTENDS DecodeLoop, Trace, OperatorProofs

\* The limit of every SMT step, in seconds.
USE SMTT(60)

-----------------------------------------------------------------------------
(* Tracing.                                                                *)

Pointers == Elements \cup {NoElement}

\* The locals of the probes, and the states in the table: an element each.
LocalTypes ==
    /\ probe = [t \in Threads |-> probe[t]]
    /\ \A t \in Threads : /\ probe[t].now \in Nat /\ probe[t].now <= clock
                          /\ probe[t].rt \in Pointers /\ probe[t].delta \in Int

States(rs) ==
    /\ \A p \in DOMAIN rs : /\ rs[p].elem \in Elements
                            /\ rs[p].last \in Nat /\ rs[p].last <= clock
    /\ \A p, q \in DOMAIN rs : rs[p].elem = rs[q].elem => p = q

ProbeTypes ==
    /\ LocalTypes /\ States(request_state)
    /\ clock \in Nat
    /\ lowest \in [{pid[t] : t \in Threads} -> Int]

\* Of a process that has not run two probes at a time, the probe that runs has
\* read the clock after the last stage, and after every probe, of whatever
\* process, that may still store a time in the element.
ClockOrder(t) ==
    /\ lowest[pid[t]] >= 0 /\ probe[t].delta >= 0
    /\ probe[t].at \in {"start", "delta"} /\ Tracked(t) =>
          /\ request_state[pid[t]].last <= probe[t].now
          /\ \A u \in Threads : probe[u].at = "store" /\ probe[u].rt = request_state[pid[t]].elem
                                    => probe[u].now <= probe[t].now
    /\ \A u \in Threads : pid[u] = pid[t] /\ u # t =>
          probe[t].at = "idle" \/ probe[u].at = "idle"

ClockInv == \A t \in Threads : pid[t] \notin raced => ClockOrder(t)

LEMMA InitTrace == TraceInit => ProbeTypes /\ ClockInv
<1> SUFFICES ASSUME TraceInit PROVE ProbeTypes /\ ClockInv
  OBVIOUS
<1>1. /\ Idle.at = "idle" /\ Idle.now = 0 /\ Idle.delta = 0 /\ Idle.rt = NoElement
      /\ clock = 0 /\ DOMAIN request_state = {}
  BY DEF Idle, TraceInit
<1>2. \A t \in Threads : probe[t] = Idle /\ lowest[pid[t]] = 0
  BY DEF TraceInit
<1>3. probe = [t \in Threads |-> probe[t]]
  BY DEF TraceInit
<1>4. lowest \in [{pid[t] : t \in Threads} -> Int]
  BY DEF TraceInit
<1>5. ProbeTypes
  BY <1>1, <1>2, <1>3, <1>4 DEF ProbeTypes, LocalTypes, States, Pointers
<1>6. ClockInv
  BY <1>1, <1>2 DEF ClockInv, ClockOrder
<1> QED
  BY <1>5, <1>6

\* A probe goes from its record to a new one.
Moves(t, new) ==
    /\ probe' = [probe EXCEPT ![t] = new]
    /\ new.now \in Nat /\ new.now <= clock /\ new.rt \in Pointers /\ new.delta \in Int

LEMMA MovesTypes ==
    ASSUME ProbeTypes, NEW t \in Threads, NEW new, Moves(t, new), UNCHANGED clock
    PROVE  LocalTypes' /\ \A u \in Threads : probe'[u] = IF u = t THEN new ELSE probe[u]
<1>1. \A u \in Threads : probe'[u] = IF u = t THEN new ELSE probe[u]
  BY DEF Moves, ProbeTypes, LocalTypes
<1>2. probe' = [u \in Threads |-> probe'[u]]
  BY DEF Moves, ProbeTypes, LocalTypes
<1> QED
  BY <1>1, <1>2 DEF LocalTypes, ProbeTypes, Moves

\* A probe begins: it has just read the clock.
LEMMA EnterKeeps ==
    ASSUME ProbeTypes, ClockInv, NEW t \in Threads, NEW stage,
           NEW at \in {"start", "delta"}, Enter(t, stage, at)
    PROVE  ProbeTypes' /\ ClockInv'
<1>1. PICK c \in Cpus :
          probe' = [probe EXCEPT ![t] = [at |-> at, stage |-> stage, cpu |-> c, now |-> clock,
                                         rt |-> NoElement, delta |-> 0, old |-> 0]]
  BY Zenon DEF Enter
<1> DEFINE new == [at |-> at, stage |-> stage, cpu |-> c, now |-> clock, rt |-> NoElement,
                   delta |-> 0, old |-> 0]
<1>2. new.at = at /\ new.now = clock /\ new.delta = 0 /\ Moves(t, new)
  BY <1>1 DEF Moves, ProbeTypes, Pointers
<1> HIDE DEF new
<1>3. UNCHANGED <<pid, clock, request_state, lowest>> /\ probe[t].at = "idle"
      /\ raced' = raced \cup
            {pid[u] : u \in {u \in Threads \ {t} : pid[u] = pid[t] /\ probe[u].at # "idle"}}
  BY Zenon DEF Enter
<1>4. LocalTypes' /\ \A u \in Threads : probe'[u] = IF u = t THEN new ELSE probe[u]
  BY <1>2, <1>3, MovesTypes
<1>5. ProbeTypes'
  BY <1>3, <1>4 DEF ProbeTypes, States
<1>6. /\ raced \subseteq raced'
      /\ \A u \in Threads : u # t /\ pid[u] = pid[t] /\ pid[t] \notin raced' => probe[u].at = "idle"
  BY <1>3
<1>7. ASSUME NEW u \in Threads, pid[u] \notin raced' PROVE ClockOrder(u)'
  <2>1. ClockOrder(u)
    BY <1>6, <1>7 DEF ClockInv
  <2>2. CASE u = t
    <3>1. Tracked(t) => request_state[pid[t]].last <= clock
      BY DEF ProbeTypes, States, Tracked
    <3>2. \A v \in Threads : v # t => probe[v].now <= clock
      BY DEF ProbeTypes, LocalTypes
    <3> QED
      BY <1>2, <1>3, <1>4, <1>6, <1>7, <2>1, <2>2, <3>1, <3>2 DEF ClockOrder, Tracked
  <2>3. CASE u # t
    BY <1>2, <1>3, <1>4, <1>6, <1>7, <2>1, <2>3 DEF ClockOrder, Tracked
  <2> QED
    BY <2>2, <2>3
<1> QED
  BY <1>3, <1>5, <1>7 DEF ClockInv

\* What a step of a probe may change in the states of other processes: the
\* last time of the one that holds the element it stores to.
OthersStored(t) ==
    \A p \in DOMAIN request_state' : p # pid[t] =>
        /\ p \in DOMAIN request_state
        /\ request_state'[p].elem = request_state[p].elem
        /\ \/ request_state'[p].last = request_state[p].last
           \/ /\ probe[t].at = "store" /\ probe[t].rt = request_state[p].elem
              /\ request_state'[p].last = probe[t].now

\* Nobody else of its process runs meanwhile, unless the process has raced.
LEMMA StepKeeps ==
    ASSUME ProbeTypes, ClockInv, NEW t \in Threads, probe[t].at # "idle",
           NEW new, Moves(t, new), UNCHANGED <<pid, clock, raced>>,
           States(request_state'), OthersStored(t),
           lowest' \in [{pid[u] : u \in Threads} -> Int],
           \A u \in Threads : pid[u] # pid[t] => lowest'[pid[u]] = lowest[pid[u]],
           new.at = "store" =>
               \A p \in DOMAIN request_state' : p # pid[t] => request_state'[p].elem # new.rt,
           pid[t] \notin raced /\ ClockOrder(t) =>
               /\ lowest'[pid[t]] >= 0 /\ new.delta >= 0
               /\ new.at \in {"start", "delta"} => new.now = clock /\ new.at # "store"
    PROVE  ProbeTypes' /\ ClockInv'
<1>1. LocalTypes' /\ \A u \in Threads : probe'[u] = IF u = t THEN new ELSE probe[u]
  BY MovesTypes
<1>2. ProbeTypes'
  BY <1>1 DEF ProbeTypes, States
<1>3. ASSUME NEW u \in Threads, pid[u] \notin raced PROVE ClockOrder(u)'
  <2>1. ClockOrder(u)
    BY <1>3 DEF ClockInv
  <2>2. CASE u = t
    <3>1. Tracked(t)' => request_state'[pid[t]].last <= clock
      BY DEF States, Tracked
    <3>2. \A v \in Threads : v # t => probe[v].now <= clock
      BY DEF ProbeTypes, LocalTypes
    <3> QED
      BY <1>1, <1>3, <2>1, <2>2, <3>1, <3>2 DEF ClockOrder, Tracked
  <2>3. CASE u # t /\ pid[u] = pid[t]
    <3>1. probe[u].at = "idle" /\ ClockOrder(t)
      BY <1>3, <2>1, <2>3 DEF ClockOrder, ClockInv
    <3>2. probe'[u] = probe[u] /\ lowest'[pid[u]] >= 0
      BY <1>1, <1>3, <2>3, <3>1
    <3> QED
      BY <2>1, <3>1, <3>2 DEF ClockOrder
  <2>4. CASE pid[u] # pid[t]
    <3>1. u # t /\ probe'[u] = probe[u] /\ lowest'[pid[u]] = lowest[pid[u]]
      BY <1>1, <2>4
    <3>2. ASSUME probe[u].at \in {"start", "delta"}, Tracked(u)'
          PROVE  /\ request_state'[pid[u]].last <= probe[u].now
                 /\ \A v \in Threads :
                       probe'[v].at = "store" /\ probe'[v].rt = request_state'[pid[u]].elem
                           => probe'[v].now <= probe[u].now
      <4>1. /\ Tracked(u) /\ request_state'[pid[u]].elem = request_state[pid[u]].elem
            /\ \/ request_state'[pid[u]].last = request_state[pid[u]].last
               \/ /\ probe[t].at = "store" /\ probe[t].rt = request_state[pid[u]].elem
                  /\ request_state'[pid[u]].last = probe[t].now
        BY <2>4, <3>2 DEF OthersStored, Tracked
      <4>2. request_state'[pid[u]].last <= probe[u].now
        BY <2>1, <3>2, <4>1 DEF ClockOrder
      <4>3. ASSUME NEW v \in Threads, probe'[v].at = "store",
                   probe'[v].rt = request_state'[pid[u]].elem
            PROVE  v # t
        BY <1>1, <2>4, <3>2, <4>3 DEF Tracked
      <4> QED
        BY <1>1, <2>1, <3>2, <4>1, <4>2, <4>3 DEF ClockOrder
    <3>3. \A v \in Threads : pid[v] = pid[u] /\ v # u => probe[u].at = "idle" \/ probe'[v].at = "idle"
      BY <1>1, <2>1, <2>4 DEF ClockOrder
    <3> QED
      BY <2>1, <3>1, <3>2, <3>3 DEF ClockOrder, Tracked
  <2> QED
    BY <2>2, <2>3, <2>4
<1> QED
  BY <1>2, <1>3 DEF ClockInv

\* A step that no probe takes.
LEMMA QuietKeeps ==
    ASSUME ProbeTypes, ClockInv, clock' \in {clock, clock + 1},
           UNCHANGED <<pid, request_state, probe, lowest, raced>>
    PROVE  ProbeTypes' /\ ClockInv'
<1>1. clock \in Nat /\ clock' \in Nat /\ clock <= clock'
  BY DEF ProbeTypes
<1>2. LocalTypes' /\ States(request_state)'
  BY <1>1 DEF ProbeTypes, LocalTypes, States
<1>3. ClockInv'
  BY DEF ClockInv, ClockOrder, Tracked
<1> QED
  BY <1>1, <1>2, <1>3 DEF ProbeTypes

\* What Continue and ReturnFromProbe do to a probe.
LEMMA ContinueMoves ==
    ASSUME ProbeTypes, NEW t \in Threads, NEW at, NEW now \in Nat, now <= clock,
           NEW rt \in Pointers, NEW delta \in Int, NEW old,
           Continue(t, at, now, rt, delta, old)
    PROVE  \E new : /\ Moves(t, new)
                    /\ new.at = at /\ new.now = now /\ new.rt = rt /\ new.delta = delta
<1> DEFINE new == [at |-> at, stage |-> probe[t].stage, cpu |-> probe[t].cpu, now |-> now,
                   rt |-> rt, delta |-> delta, old |-> old]
<1>1. probe' = [probe EXCEPT ![t] = new]
  BY DEF Continue, ProbeTypes, LocalTypes
<1>2. new.at = at /\ new.now = now /\ new.rt = rt /\ new.delta = delta
  OBVIOUS
<1> HIDE DEF new
<1>3. Moves(t, new)
  BY <1>1, <1>2 DEF Moves
<1> QED
  BY Zenon, <1>2, <1>3

LEMMA ProceedMoves ==
    ASSUME ProbeTypes, NEW t \in Threads, NEW at, Proceed(t, at)
    PROVE  \E new : Moves(t, new) /\ new.at = at /\ new.delta = probe[t].delta
<1>1. NoElement \in Pointers /\ 0 \in Nat /\ 0 <= clock /\ probe[t].delta \in Int
  BY DEF Pointers, ProbeTypes, LocalTypes
<1> QED
  BY <1>1, ContinueMoves DEF Proceed

LEMMA LeaveMoves ==
    ASSUME ProbeTypes, NEW t \in Threads, ReturnFromProbe(t)
    PROVE  \E new : Moves(t, new) /\ new.at = "idle" /\ new.delta = 0
<1>1. /\ Idle.at = "idle" /\ Idle.now = 0 /\ Idle.delta = 0 /\ Idle.rt \in Pointers
      /\ 0 <= clock
  BY DEF Idle, Pointers, ProbeTypes
<1>2. Moves(t, Idle)
  BY <1>1 DEF ReturnFromProbe, Moves
<1> QED
  BY Zenon, <1>1, <1>2

\* A step that leaves the table alone and does not look anything up.
LEMMA PlainKeeps ==
    ASSUME ProbeTypes, ClockInv, NEW t \in Threads, probe[t].at # "idle",
           NEW new, Moves(t, new), UNCHANGED <<pid, clock, raced, lowest>>,
           new.at \notin {"start", "delta", "store"}, new.delta \in {0, probe[t].delta},
           \A p \in DOMAIN request_state' :
               p \in DOMAIN request_state /\ request_state'[p] = request_state[p]
    PROVE  ProbeTypes' /\ ClockInv'
<1>1. States(request_state') /\ OthersStored(t)
  BY DEF ProbeTypes, States, OthersStored
<1>2. lowest' \in [{pid[u] : u \in Threads} -> Int]
  BY DEF ProbeTypes
<1>3. ClockOrder(t) => lowest'[pid[t]] >= 0 /\ new.delta >= 0
  BY DEF ClockOrder
<1> QED
  BY <1>1, <1>2, <1>3, StepKeeps

LEMMA StartKeeps ==
    ASSUME ProbeTypes, ClockInv, NEW t \in Threads, StartRequest(t)
    PROVE  ProbeTypes' /\ ClockInv'
<1>1. /\ probe[t].at = "start" /\ UNCHANGED <<pid, clock, raced, lowest>>
      /\ Continue(t, "delta", clock, NoElement, 0, 0)
  BY Zenon DEF StartRequest, trace_history
<1>2. PICK new : Moves(t, new) /\ new.at = "delta" /\ new.now = clock /\ new.delta = 0
  <2>1. clock \in Nat /\ clock <= clock /\ NoElement \in Pointers /\ 0 \in Int
    BY DEF ProbeTypes, Pointers
  <2> QED
    BY <1>1, <2>1, ContinueMoves
<1>3. States(request_state') /\ OthersStored(t)
  <2>1. CASE UNCHANGED request_state
    BY <2>1 DEF ProbeTypes, States, OthersStored
  <2>2. CASE ~UNCHANGED request_state
    <3>1. PICK e \in FreeElements :
              request_state' =
                    [p \in DOMAIN request_state \cup {pid[t]} |->
                        IF p = pid[t] THEN [elem |-> e, write |-> probe[t].now,
                                            last |-> probe[t].now]
                                      ELSE request_state[p]]
      BY <2>2 DEF StartRequest
    <3> DEFINE rs == request_state'
    <3>2. /\ DOMAIN rs = DOMAIN request_state \cup {pid[t]}
          /\ rs[pid[t]].elem = e /\ rs[pid[t]].last = probe[t].now
          /\ \A p \in DOMAIN rs : p # pid[t] => p \in DOMAIN request_state /\ rs[p] = request_state[p]
      BY <3>1
    <3> HIDE DEF rs
    <3>3. e \in Elements /\ \A p \in DOMAIN request_state : request_state[p].elem # e
      BY DEF FreeElements
    <3>4. probe[t].now \in Nat /\ probe[t].now <= clock
      BY DEF ProbeTypes, LocalTypes
    <3>5. States(rs)
      BY <3>2, <3>3, <3>4 DEF ProbeTypes, States
    <3>6. OthersStored(t)
      BY <3>2 DEF OthersStored, rs
    <3> QED
      BY <3>5, <3>6 DEF rs
  <2> QED
    BY <2>1, <2>2
<1>4. lowest' \in [{pid[u] : u \in Threads} -> Int]
  BY <1>1 DEF ProbeTypes
<1>5. ClockOrder(t) => lowest'[pid[t]] >= 0
  BY <1>1 DEF ClockOrder
<1> QED
  BY <1>1, <1>2, <1>3, <1>4, <1>5, StepKeeps

LEMMA ReadKeeps ==
    ASSUME ProbeTypes, ClockInv, NEW t \in Threads, ReadDelta(t)
    PROVE  ProbeTypes' /\ ClockInv'
<1>1. /\ probe[t].at = "delta" /\ UNCHANGED <<pid, clock, raced, lowest, request_state>>
      /\ Continue(t, "store", probe[t].now, LookedUp(t), Delta(t), 0)
  BY Zenon DEF ReadDelta, trace_history
<1>2. probe[t].now \in Nat /\ probe[t].now <= clock
  BY DEF ProbeTypes, LocalTypes
<1>3. Delta(t) \in Int /\ (ClockOrder(t) => Delta(t) >= 0)
  BY <1>1, <1>2 DEF Delta, Tracked, ProbeTypes, States, ClockOrder
<1>4. /\ LookedUp(t) \in Pointers
      /\ \A p \in DOMAIN request_state : p # pid[t] => request_state[p].elem # LookedUp(t)
  BY TraceAssumption DEF LookedUp, Tracked, ProbeTypes, States, Pointers
<1>5. PICK new : Moves(t, new) /\ new.at = "store" /\ new.rt = LookedUp(t) /\ new.delta = Delta(t)
  BY <1>1, <1>2, <1>3, <1>4, ContinueMoves
<1>6. States(request_state') /\ OthersStored(t)
  BY <1>1 DEF ProbeTypes, States, OthersStored
<1>7. lowest' \in [{pid[u] : u \in Threads} -> Int]
  BY <1>1 DEF ProbeTypes
<1>8. ClockOrder(t) => lowest'[pid[t]] >= 0 /\ new.delta >= 0
  BY <1>1, <1>3, <1>5 DEF ClockOrder
<1> QED
  BY <1>1, <1>4, <1>5, <1>6, <1>7, <1>8, StepKeeps

LEMMA StoreStateKeeps ==
    ASSUME ProbeTypes, ClockInv, NEW t \in Threads, StoreState(t)
    PROVE  ProbeTypes' /\ ClockInv'
<1>1. /\ probe[t].at = "store" /\ UNCHANGED <<pid, clock, raced, lowest>> /\ Proceed(t, "reserve")
  BY Zenon DEF StoreState, trace_history
<1>2. PICK new : Moves(t, new) /\ new.at = "reserve" /\ new.delta = probe[t].delta
  BY <1>1, ProceedMoves
<1>3. probe[t].now \in Nat /\ probe[t].now <= clock
  BY DEF ProbeTypes, LocalTypes
<1>4. DOMAIN request_state' = DOMAIN request_state
      /\ \A p \in DOMAIN request_state :
            request_state'[p] = IF request_state[p].elem = probe[t].rt
                                THEN StoreStage(t, request_state[p]) ELSE request_state[p]
  BY DEF StoreState
<1>5. \A p \in DOMAIN request_state :
          /\ request_state'[p].elem = request_state[p].elem
          /\ \/ request_state'[p].last = request_state[p].last
             \/ request_state[p].elem = probe[t].rt /\ request_state'[p].last = probe[t].now
  BY <1>4 DEF StoreStage
<1>6. States(request_state') /\ OthersStored(t)
  BY <1>1, <1>3, <1>4, <1>5 DEF ProbeTypes, States, OthersStored
<1>7. lowest' \in [{pid[u] : u \in Threads} -> Int]
  BY <1>1 DEF ProbeTypes
<1>8. ClockOrder(t) => lowest'[pid[t]] >= 0 /\ new.delta >= 0
  BY <1>1, <1>2 DEF ClockOrder
<1> QED
  BY <1>1, <1>2, <1>6, <1>7, <1>8, StepKeeps

LEMMA SubmitKeeps ==
    ASSUME ProbeTypes, ClockInv, NEW t \in Threads, SubmitEvent(t)
    PROVE  ProbeTypes' /\ ClockInv'
<1>1. /\ probe[t].at = "reserve" /\ UNCHANGED <<pid, clock, raced, request_state>>
      /\ Proceed(t, "stats") /\ probe[t].delta \in Int
      /\ lowest' = [lowest EXCEPT ![pid[t]] = IF probe[t].delta < @ THEN probe[t].delta ELSE @]
  BY DEF SubmitEvent, ProbeTypes, LocalTypes
<1>2. PICK new : Moves(t, new) /\ new.at = "stats" /\ new.delta = probe[t].delta
  BY <1>1, ProceedMoves
<1>3. /\ lowest' \in [{pid[u] : u \in Threads} -> Int]
      /\ \A u \in Threads : pid[u] # pid[t] => lowest'[pid[u]] = lowest[pid[u]]
      /\ lowest'[pid[t]] \in {lowest[pid[t]], probe[t].delta}
  BY <1>1 DEF ProbeTypes
<1>4. States(request_state') /\ OthersStored(t)
  BY <1>1 DEF ProbeTypes, States, OthersStored
<1>5. ClockOrder(t) => lowest'[pid[t]] >= 0 /\ new.delta >= 0
  BY <1>2, <1>3 DEF ClockOrder
<1> QED
  BY <1>1, <1>2, <1>3, <1>4, <1>5, StepKeeps

\* The addition, the way out of emit_trace, and end_request.
LEMMA EndKeeps ==
    ASSUME ProbeTypes, ClockInv, NEW t \in Threads,
           DropEvent(t) \/ LoadTotal(t) \/ UpdateStats(t) \/ EndRequest(t) \/ DeleteState(t)
    PROVE  ProbeTypes' /\ ClockInv'
<1>1. /\ probe[t].at # "idle" /\ UNCHANGED <<pid, clock, raced, lowest>>
      /\ \A p \in DOMAIN request_state' :
            p \in DOMAIN request_state /\ request_state'[p] = request_state[p]
  BY DEF DropEvent, NoRoom, LoadTotal, UpdateStats, EndRequest, DeleteState, trace_history
<1>2. ASSUME ReturnFromProbe(t) \/ Proceed(t, "end") \/ Proceed(t, "delete")
      PROVE  ProbeTypes' /\ ClockInv'
  <2>1. PICK new : Moves(t, new) /\ new.at \in {"idle", "end", "delete"}
                   /\ new.delta \in {0, probe[t].delta}
    BY <1>2, LeaveMoves, ProceedMoves
  <2> QED
    BY <1>1, <2>1, PlainKeeps
<1>3. CASE LoadTotal(t)
  <2>1. probe[t].delta \in Int /\ NoElement \in Pointers /\ 0 \in Nat /\ 0 <= clock
    BY DEF ProbeTypes, LocalTypes, Pointers
  <2>2. PICK new : Moves(t, new) /\ new.at = "add" /\ new.delta = probe[t].delta
    BY <1>3, <2>1, ContinueMoves DEF LoadTotal
  <2> QED
    BY <1>1, <2>2, PlainKeeps
<1> QED
  BY <1>2, <1>3 DEF DropEvent, NoRoom, UpdateStats, AfterEmit, EndRequest, DeleteState

LEMMA NextTrace ==
    ASSUME ProbeTypes, ClockInv, [TraceNext]_trace_vars
    PROVE  ProbeTypes' /\ ClockInv'
<1>1. CASE Tick \/ Poll \/ Interrupt \/ UNCHANGED trace_vars
  <2>1. clock' \in {clock, clock + 1} /\ UNCHANGED <<pid, request_state, probe, lowest, raced>>
    BY <1>1 DEF Tick, Poll, Interrupt, trace_vars, local, trace_history
  <2> QED
    BY <2>1, QuietKeeps
<1>2. ASSUME NEW t \in Clients, TraceChardevWrite(t) \/ TraceChardevWriteExit(t)
      PROVE  ProbeTypes' /\ ClockInv'
  <2>1. t \in Threads
    BY DEF Threads
  <2> QED
    BY <1>2, <2>1, EnterKeeps DEF TraceChardevWrite, TraceChardevWriteExit
<1>3. ASSUME (\E stage \in ReactorStages : TraceReactor(stage)) \/ TraceResponseEmit \/ TraceEos
      PROVE  ProbeTypes' /\ ClockInv'
  <2>1. Reactor \in Threads
    BY DEF Threads
  <2>2. \E stage : Enter(Reactor, stage, "delta")
    BY Zenon, <1>3 DEF TraceReactor, TraceResponseEmit, TraceEos
  <2> QED
    BY <2>1, <2>2, EnterKeeps
<1>4. ASSUME NEW t \in Threads, Step(t) PROVE ProbeTypes' /\ ClockInv'
  BY Zenon, <1>4, StartKeeps, ReadKeeps, StoreStateKeeps, SubmitKeeps, EndKeeps DEF Step
<1> QED
  BY Zenon, <1>1, <1>2, <1>3, <1>4 DEF TraceNext

(* A stage's delta, computed from a clock that was read before the shared  *)
(* state of the process, wraps below zero only when two threads of that    *)
(* process were inside probes at the same time; a probe of another process *)
(* that stores through a stale pointer stores no time later than that.     *)
THEOREM DeltasWrapOnlyInRaces == TraceSpec => []DeltaWrapsOnlyInRace
<1>1. ProbeTypes /\ ClockInv /\ [TraceNext]_trace_vars => (ProbeTypes /\ ClockInv)'
  <2> SUFFICES ASSUME ProbeTypes, ClockInv, [TraceNext]_trace_vars
               PROVE  (ProbeTypes /\ ClockInv)'
    OBVIOUS
  <2> QED
    BY NextTrace
<1>2. ProbeTypes /\ ClockInv => DeltaWrapsOnlyInRace
  BY DEF ProbeTypes, ClockInv, ClockOrder, DeltaWrapsOnlyInRace
<1> QED
  BY <1>1, <1>2, InitTrace, PTL DEF TraceSpec

-----------------------------------------------------------------------------
(* Facts on numbers.                                                       *)

INSTANCE FiniteSetTheorems
INSTANCE SequenceTheorems
INSTANCE WellFoundedInduction

LEMMA LeastFactHolds == LeastFact
<1> SUFFICES ASSUME NEW S \in SUBSET Nat, S # {} PROVE \E m \in S : \A n \in S : m <= n
  BY DEF LeastFact
<1>1. \E x \in S : \A y \in S : ~(<<y, x>> \in OpToRel(<, Nat))
  BY Zenon, NatLessThanWellFounded, WFMin
<1>2. \A x, y \in Nat : y < x => <<y, x>> \in OpToRel(<, Nat)
  BY DEF OpToRel
<1>3. \A x, y \in S : x \in Nat /\ y \in Nat /\ (~(y < x) => x <= y)
  OBVIOUS
<1> QED
  BY Zenon, <1>1, <1>2, <1>3

LEMMA CountFactHolds == CountFact /\ \A n \in Nat : IsFiniteSet(1..n)
<1> SUFFICES ASSUME NEW n \in Nat PROVE Cardinality(1..n) = n /\ IsFiniteSet(1..n)
  BY Zenon DEF CountFact
<1>1. CASE n = 0
  <2>1. 1..n = {}
    BY <1>1
  <2> QED
    BY <1>1, <2>1, FS_EmptySet
<1>2. CASE n # 0
  <2>1. 1 \in Int /\ n \in Int /\ ~(1 > n) /\ n - 1 + 1 = n
    BY <1>2
  <2>2. IsFiniteSet(1..n) /\ Cardinality(1..n) = n - 1 + 1
    BY <2>1, FS_Interval
  <2> QED
    BY <2>1, <2>2
<1> QED
  BY <1>1, <1>2

LEMMA ImageFactHolds == ImageFact
<1> SUFFICES ASSUME NEW n \in Nat, NEW f \in [1..n -> Nat], NEW S \in SUBSET {f[p] : p \in 1..n}
             PROVE  Cardinality(S) \in Nat /\ Cardinality(S) <= n
  BY DEF ImageFact
<1> DEFINE I == {f[p] : p \in 1..n}
<1>1. f \in Surjection(1..n, I)
  BY DEF Surjection
<1>2. IsFiniteSet(1..n) /\ Cardinality(1..n) = n
  BY CountFactHolds DEF CountFact
<1>3. IsFiniteSet(I) /\ Cardinality(I) <= n
  <2> HIDE DEF I
  <2> QED
    BY <1>1, <1>2, FS_Surjection
<1>4. IsFiniteSet(S) /\ Cardinality(S) <= Cardinality(I)
  <2> HIDE DEF I
  <2>1. S \in SUBSET I
    BY DEF I
  <2> QED
    BY <1>3, <2>1, FS_Subset
<1>5. Cardinality(S) \in Nat /\ Cardinality(I) \in Nat
  BY <1>3, <1>4, FS_CardinalityType
<1> QED
  BY <1>3, <1>4, <1>5

-----------------------------------------------------------------------------
(* The decode loop.                                                        *)

Words == {"token", "eos"}

CallInv ==
    /\ TypeOK
    /\ generated <= max_tokens
    /\ running => output = TokensSent(generated)
    /\ OneEosAtTheEnd

LEMMA TokensType == \A n \in Nat : TokensSent(n) \in Seq(Words) /\ Len(TokensSent(n)) = n
BY DEF TokensSent, Words

LEMMA TokensNext == \A n \in Nat : Append(TokensSent(n), "token") = TokensSent(n + 1)
<1> TAKE n \in Nat
<1>1. TokensSent(n) \in Seq(Words) /\ TokensSent(n + 1) \in Seq(Words)
      /\ Len(TokensSent(n)) = n /\ Len(TokensSent(n + 1)) = n + 1
  BY TokensType
<1>2. /\ Append(TokensSent(n), "token") \in Seq(Words)
      /\ Len(Append(TokensSent(n), "token")) = n + 1
      /\ \A i \in 1..n : Append(TokensSent(n), "token")[i] = TokensSent(n)[i]
      /\ Append(TokensSent(n), "token")[n + 1] = "token"
  BY <1>1, AppendProperties DEF Words
<1>3. \A i \in 1..(n + 1) : Append(TokensSent(n), "token")[i] = TokensSent(n + 1)[i]
  BY <1>2 DEF TokensSent
<1> QED
  BY <1>1, <1>2, <1>3, SeqEqual

LEMMA InitCallInv == DecodeInit => CallInv
<1> SUFFICES ASSUME DecodeInit PROVE CallInv
  OBVIOUS
<1>1. 0 \in 0..MaxSequenceLen /\ 0 \in 0..MaxRuns
  BY DecodeAssumption
<1>2. TypeOK
  <2>1. gpu \in Gpus /\ running \in BOOLEAN /\ waiting \in BOOLEAN
    BY Zenon DEF DecodeInit
  <2>3. output \in Seq({"token", "eos"})
    BY DEF DecodeInit
  <2>2. /\ seq_len \in 0..MaxSequenceLen /\ generated \in Nat
        /\ max_tokens \in MaxTokens \cup {0} /\ gpu_queue_depth \in Nat
        /\ ret \in Nat \cup {-1} /\ runs \in 0..MaxRuns
    BY <1>1 DEF DecodeInit
  <2> QED
    BY <2>1, <2>2, <2>3 DEF TypeOK
<1> QED
  BY <1>2 DEF DecodeInit, CallInv, OneEosAtTheEnd

\* From the end of the loop to the return, with one end of sequence to send.
LEMMA LeaveStep ==
    ASSUME CallInv, running, Leave(output, FALSE), gpu_queue_depth' \in Nat
    PROVE  CallInv'
<1>1. output = TokensSent(generated) /\ generated \in Nat
  BY DEF CallInv, TypeOK
<1>2. output \o <<"eos">> = Append(TokensSent(generated), "eos")
      /\ Append(TokensSent(generated), "eos") \in Seq(Words)
  BY <1>1, TokensType, AppendIsConcat DEF Words
<1>3. output' = Append(TokensSent(generated), "eos") /\ ret' = generated /\ running' = FALSE
      /\ UNCHANGED <<gpu, waiting, call, runs>>
  BY <1>2 DEF Leave
<1>4. OneEosAtTheEnd'
  BY <1>1, <1>3 DEF OneEosAtTheEnd
<1>5. TypeOK'
  BY Zenon, <1>1, <1>2, <1>3 DEF CallInv, TypeOK, call, Words
<1> QED
  BY <1>3, <1>4, <1>5 DEF CallInv, call

LEMMA NextCallInv == CallInv /\ [DecodeNext]_decode_vars => CallInv'
<1> SUFFICES ASSUME CallInv, [DecodeNext]_decode_vars PROVE CallInv'
  OBVIOUS
<1>0. gpu_queue_depth \in Nat /\ DepthAfterTurn \in Nat
  BY DEF CallInv, TypeOK, DepthAfterTurn
<1>1. ASSUME NEW prompt_len \in PromptLens, NEW max \in MaxTokens,
             NEW strategy \in Strategies, Start(prompt_len, max, strategy)
      PROVE  CallInv'
  <2>1. CopyLen(prompt_len) \in 0..MaxSequenceLen /\ max \in Nat
    BY DecodeAssumption DEF CopyLen
  <2>2. <<>> = TokensSent(0) /\ runs + 1 \in 0..MaxRuns
    BY <1>1, DecodeAssumption DEF Start, CallInv, TypeOK, TokensSent
  <2> QED
    BY <1>1, <2>1, <2>2 DEF Start, CallInv, TypeOK, OneEosAtTheEnd
<1>2. CASE Reject
  <2>1. runs + 1 \in 0..MaxRuns
    BY <1>2, DecodeAssumption DEF Reject, CallInv, TypeOK
  <2> QED
    BY <1>2, <2>1 DEF Reject, CallInv, TypeOK, OneEosAtTheEnd, call
<1>3. CASE LoopEnds
  BY <1>0, <1>3, LeaveStep DEF LoopEnds
<1>4. ASSUME NEW logits \in Logits, NEW token \in DOMAIN logits, SampleToken(logits, token)
      PROVE  CallInv'
  <2>1. running /\ generated < max_tokens /\ seq_len < MaxSequenceLen
    BY <1>4 DEF SampleToken, Sample, Turn, LoopCondition
  <2>2. output = TokensSent(generated) /\ generated \in Nat /\ max_tokens \in Nat
        /\ seq_len \in 0..MaxSequenceLen
    BY <2>1, DecodeAssumption DEF CallInv, TypeOK
  <2>3. output' = TokensSent(generated + 1) /\ TokensSent(generated + 1) \in Seq(Words)
    <3>1. output' = Append(TokensSent(generated), "token")
      BY <1>4, <2>2 DEF SampleToken
    <3>2. generated \in Nat /\ generated + 1 \in Nat
      BY <2>2
    <3> QED
      BY <3>1, <3>2, TokensNext, TokensType
  <2>4. seq_len' \in 0..MaxSequenceLen /\ generated' \in Nat /\ generated' <= max_tokens
    BY <1>4, <2>1, <2>2, DecodeAssumption DEF SampleToken
  <2>5. gpu_queue_depth' \in Nat
    BY <1>0, <1>4 DEF SampleToken, Sample, Turn
  <2> QED
    BY <1>4, <2>1, <2>3, <2>4, <2>5
       DEF SampleToken, CallInv, TypeOK, OneEosAtTheEnd, Words
<1>5. ASSUME NEW logits \in Logits, SampleEos(logits) PROVE CallInv'
  <2>1. output = TokensSent(generated) /\ generated \in Nat
    BY <1>5 DEF SampleEos, Sample, Turn, CallInv, TypeOK
  <2>2. Append(output, "eos") \o <<>> = Append(TokensSent(generated), "eos")
        /\ Append(TokensSent(generated), "eos") \in Seq(Words)
    BY <2>1, TokensType, ConcatEmptySeq DEF Words
  <2>3. output' = Append(TokensSent(generated), "eos") /\ ret' = generated
        /\ running' = FALSE /\ UNCHANGED <<gpu, waiting, call, runs>>
    BY <1>5, <2>2 DEF SampleEos, Leave
  <2>4. gpu_queue_depth' \in Nat
    BY <1>0, <1>5 DEF SampleEos, Sample, Turn
  <2>5. OneEosAtTheEnd'
    BY <2>1, <2>3 DEF OneEosAtTheEnd
  <2> QED
    BY Zenon, <2>1, <2>2, <2>3, <2>4, <2>5 DEF CallInv, TypeOK, call, Words
<1>6. CASE InferenceFails
  BY <1>0, <1>6, LeaveStep DEF InferenceFails, Turn
<1>7. CASE FetchWaits
  BY <1>0, <1>7 DEF FetchWaits, Turn, CallInv, TypeOK, OneEosAtTheEnd, call
<1>8. CASE UNCHANGED decode_vars
  BY <1>8 DEF decode_vars, call, CallInv, TypeOK, OneEosAtTheEnd
<1> QED
  BY <1>1, <1>2, <1>3, <1>4, <1>5, <1>6, <1>7, <1>8 DEF DecodeNext

(* The sequence of kllm_decode_run never outgrows its buffer of            *)
(* MAX_SEQUENCE_LEN tokens.                                                *)
THEOREM DecodeTypeCorrect == DecodeSpec => []TypeOK
<1>1. CallInv => TypeOK
  BY DEF CallInv
<1> QED
  BY <1>1, InitCallInv, NextCallInv, PTL DEF DecodeSpec

(* kllm_decode_run sends one token per turn and never more than            *)
(* params->max_tokens.                                                     *)
THEOREM DecodeWithinLimit == DecodeSpec => []WithinMaxTokens
<1>1. CallInv => WithinMaxTokens
  BY DEF CallInv, WithinMaxTokens
<1> QED
  BY <1>1, InitCallInv, NextCallInv, PTL DEF DecodeSpec

(* Every call that returns has sent exactly one end of sequence, after all *)
(* its tokens, by whichever of the four ways it left the loop, and returns *)
(* their number.                                                           *)
THEOREM DecodeEndsOnce == DecodeSpec => []OneEosAtTheEnd
<1>1. CallInv => OneEosAtTheEnd
  BY DEF CallInv
<1> QED
  BY <1>1, InitCallInv, NextCallInv, PTL DEF DecodeSpec

\* DrawnIsLikely, with the strategy a call was started with.
DrawnInv ==
    /\ params \in Strategies
    /\ drawn # NotDrawn => Likely(params, drawn[1], drawn[2])

LEMMA SampleIsLikely ==
    ASSUME DrawnInv, NEW logits \in Logits, NEW token, Sample(logits, token), params' = params
    PROVE  DrawnInv'
<1>1. IsLogits(logits) /\ params.temperature \in Nat /\ params.top_k \in Nat
  BY DecodeAssumption DEF DrawnInv, IsLogits
<1>2. token \in sample_token(logits, params) /\ drawn' = <<logits, token>>
  BY Zenon DEF Sample
<1>3. Likely(params, logits, token)
  BY Zenon, <1>1, <1>2, LeastFactHolds, CountFactHolds, ImageFactHolds, TokensAreLikely
<1>4. drawn'[1] = logits /\ drawn'[2] = token
  BY <1>2
<1> QED
  BY Zenon, <1>3, <1>4 DEF DrawnInv

LEMMA NextDrawnInv == DrawnInv /\ [DecodeNext]_decode_vars => DrawnInv'
<1> SUFFICES ASSUME DrawnInv, [DecodeNext]_decode_vars PROVE DrawnInv'
  OBVIOUS
<1>1. ASSUME NEW prompt_len \in PromptLens, NEW max \in MaxTokens,
             NEW strategy \in Strategies, Start(prompt_len, max, strategy)
      PROVE  DrawnInv'
  BY Zenon, <1>1 DEF Start, DrawnInv, NotDrawn
<1>2. ASSUME params' = params, drawn' = drawn \/ drawn' = NotDrawn PROVE DrawnInv'
  BY Zenon, <1>2 DEF DrawnInv, NotDrawn
<1>3. CASE Reject
  BY <1>2, <1>3 DEF Reject, call
<1>4. CASE LoopEnds
  BY <1>2, <1>4 DEF LoopEnds, Leave, call
<1>5. ASSUME NEW logits \in Logits, NEW token \in DOMAIN logits, SampleToken(logits, token)
      PROVE  DrawnInv'
  BY <1>5, SampleIsLikely DEF SampleToken
<1>6. ASSUME NEW logits \in Logits, SampleEos(logits) PROVE DrawnInv'
  BY <1>6, SampleIsLikely DEF SampleEos, Leave, call
<1>7. CASE InferenceFails
  BY <1>2, <1>7 DEF InferenceFails, Leave, call
<1>8. CASE FetchWaits
  BY <1>2, <1>8 DEF FetchWaits, call
<1>9. CASE UNCHANGED decode_vars
  BY <1>2, <1>9 DEF decode_vars, call
<1> QED
  BY <1>1, <1>3, <1>4, <1>5, <1>6, <1>7, <1>8, <1>9 DEF DecodeNext

(* Whatever inference leaves in the logits and rand() returns, the token   *)
(* of a turn is one its strategy allows: the first of the largest for      *)
(* greedy and for temperature 0, one of the k largest for top-k, one with  *)
(* a chance, the first or the last for the others.                         *)
THEOREM SampledTokensAreLikely == DecodeSpec => []DrawnIsLikely
<1>1. DecodeInit => DrawnInv
  BY Zenon DEF DecodeInit, DrawnInv, NotDrawn
<1>2. DrawnInv => DrawnIsLikely
  BY Zenon DEF DrawnInv, DrawnIsLikely, Likely, BetterThan
<1> QED
  BY <1>1, <1>2, NextDrawnInv, PTL DEF DecodeSpec
=============================================================================
