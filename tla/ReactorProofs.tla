----------------------------- MODULE ReactorProofs -----------------------------
(***************************************************************************)
(* Proofs about the batch scheduler, for every size of the pool, batch and *)
(* budget, and about the life cycle of the prompt device and the reactor,  *)
(* for every ring, batch and prompt size and every number of clients,      *)
(* writes, loads and launches.                                             *)
(*                                                                         *)
(* Batch scheduler.  ActiveIsExact and EndIsSignalled need each other's    *)
(* strengthening: a slot is counted because its id is not 0, a response    *)
(* ends once because a slot has one request at a time (SerialInv) and a    *)
(* DONE request is retired by the call that finds it (PoolInv).            *)
(*                                                                         *)
(* Reactor.  What may exist depends on how far start or shutdown has come: *)
(* LifeInv says so phase by phase.  The order of the tokens needs what     *)
(* kllm_ring_consume_batch has seen of a ring that grows meanwhile:        *)
(* OrderInv, on top of LifeInv.                                            *)
(***************************************************************************)
EXTENDS Reactor, BatchScheduler, TLAPS

\* The limit of every SMT step, in seconds.
USE SMTT(60)

LEMMA SameSeq ==
    ASSUME NEW S, NEW a \in Seq(S), NEW b \in Seq(S), Len(a) = Len(b),
           \A k \in 1..Len(a) : a[k] = b[k]
    PROVE  a = b
OBVIOUS

\* w is f with r behind it.
Joined(f, r, w) ==
    /\ f \in Seq(Nat) /\ r \in Seq(Nat) /\ w \in Seq(Nat)
    /\ Len(f) \in Nat /\ Len(r) \in Nat /\ Len(w) = Len(f) + Len(r)
    /\ \A i \in 1..Len(w) : w[i] = IF i <= Len(f) THEN f[i] ELSE r[i - Len(f)]

LEMMA JoinIs ==
    ASSUME NEW f \in Seq(Nat), NEW r \in Seq(Nat), NEW w, w = f \o r
    PROVE  Joined(f, r, w)
BY DEF Joined

LEMMA JoinedIs ==
    ASSUME NEW f, NEW r, NEW w, Joined(f, r, w)
    PROVE  f \o r = w
<1>1. f \in Seq(Nat) /\ r \in Seq(Nat)
  BY DEF Joined
<1> DEFINE j == f \o r
<1>2. Joined(f, r, j)
  BY Zenon, <1>1, JoinIs
<1> HIDE DEF j
<1>3. j \in Seq(Nat) /\ w \in Seq(Nat) /\ Len(j) = Len(w)
  BY Zenon, <1>2 DEF Joined
<1>4. \A i \in 1..Len(j) : j[i] = w[i]
  BY Zenon, <1>2, <1>3 DEF Joined
<1>5. j = w
  BY Zenon, <1>3, <1>4, SameSeq
<1> QED
  BY <1>5 DEF j

\* What is where in it.
LEMMA JoinedAt ==
    ASSUME NEW f, NEW r, NEW w, Joined(f, r, w), NEW i \in 1..Len(w)
    PROVE  w[i] = IF i <= Len(f) THEN f[i] ELSE r[i - Len(f)]
BY Zenon DEF Joined

LEMMA JoinedLengths ==
    ASSUME NEW f, NEW r, NEW w, Joined(f, r, w)
    PROVE  Len(f) \in Nat /\ Len(r) \in Nat /\ Len(w) = Len(f) + Len(r)
BY Zenon DEF Joined

\* What is next to what in it.
LEMMA JoinedNext ==
    ASSUME NEW f, NEW r, NEW w, Joined(f, r, w), NEW i \in 1..Len(f)
    PROVE  /\ w[i] = f[i] /\ i <= Len(w)
           /\ i < Len(f) => i < Len(w) /\ w[i + 1] = f[i + 1]
           /\ i = Len(f) /\ i < Len(w) => 1 \in 1..Len(r) /\ w[i + 1] = r[1]
<1>1. Len(f) \in Nat /\ Len(r) \in Nat /\ Len(w) = Len(f) + Len(r)
  BY Zenon, JoinedLengths
<1>2. i \in 1..Len(w) /\ i <= Len(f)
  BY <1>1
<1>3. w[i] = f[i]
  BY Zenon, <1>2, JoinedAt
<1>4. ASSUME i < Len(f) PROVE i < Len(w) /\ w[i + 1] = f[i + 1]
  <2>1. i < Len(w) /\ i + 1 \in 1..Len(w) /\ i + 1 <= Len(f)
    BY <1>1, <1>2, <1>4
  <2> QED
    BY Zenon, <2>1, JoinedAt
<1>5. ASSUME i = Len(f), i < Len(w) PROVE 1 \in 1..Len(r) /\ w[i + 1] = r[1]
  <2>1. /\ 1 \in 1..Len(r) /\ i + 1 \in 1..Len(w) /\ ~(i + 1 <= Len(f))
        /\ i + 1 - Len(f) = 1
    BY <1>1, <1>2, <1>5
  <2>2. w[i + 1] = IF i + 1 <= Len(f) THEN f[i + 1] ELSE r[i + 1 - Len(f)]
    BY <2>1, JoinedAt
  <2> QED
    BY Zenon, <2>1, <2>2
<1> QED
  BY <1>2, <1>3, <1>4, <1>5

LEMMA JoinedRest ==
    ASSUME NEW f, NEW r, NEW w, Joined(f, r, w), NEW k \in 1..Len(r)
    PROVE  w[Len(f) + k] = r[k]
<1>1. Len(f) \in Nat /\ Len(r) \in Nat /\ Len(w) = Len(f) + Len(r)
  BY Zenon, JoinedLengths
<1>2. /\ Len(f) + k \in 1..Len(w) /\ ~(Len(f) + k <= Len(f))
      /\ Len(f) + k - Len(f) = k
  BY <1>1
<1>3. w[Len(f) + k] = IF Len(f) + k <= Len(f) THEN f[Len(f) + k] ELSE r[Len(f) + k - Len(f)]
  BY <1>2, JoinedAt
<1> QED
  BY Zenon, <1>2, <1>3

LEMMA JoinedLast ==
    ASSUME NEW f, NEW r, NEW w, Joined(f, r, w), Len(r) > 0
    PROVE  w[Len(w)] = r[Len(r)]
<1>1. Len(r) \in 1..Len(r) /\ Len(w) = Len(f) + Len(r)
  BY DEF Joined
<1> QED
  BY <1>1, JoinedRest

LEMMA JoinTwice ==
    ASSUME NEW s \in Seq(Nat), NEW q \in Seq(Nat), NEW put \in Seq(Nat)
    PROVE  s \o (q \o put) = (s \o q) \o put
OBVIOUS

\* A sequence is its first n elements and the rest.
LEMMA CutIs ==
    ASSUME NEW q \in Seq(Nat), NEW n \in 0..Len(q),
           NEW front, front = SubSeq(q, 1, n), NEW rest, rest = SubSeq(q, n + 1, Len(q))
    PROVE  Joined(front, rest, q) /\ Len(front) = n
<1>1. front \in Seq(Nat) /\ Len(front) = n /\ n \in Nat
  OBVIOUS
<1>2. rest \in Seq(Nat) /\ Len(rest) = Len(q) - n /\ Len(rest) \in Nat
  OBVIOUS
<1>3. \A i \in 1..n : front[i] = q[i]
  OBVIOUS
<1>4. \A i \in 1..(Len(q) - n) : rest[i] = q[n + i]
  OBVIOUS
<1>5. ASSUME NEW i \in 1..Len(q)
      PROVE  q[i] = IF i <= n THEN front[i] ELSE rest[i - n]
  <2>1. CASE i <= n
    BY <1>3, <2>1
  <2>2. CASE i > n
    <3>1. i - n \in 1..(Len(q) - n) /\ n + (i - n) = i
      BY <2>2
    <3>2. rest[i - n] = q[n + (i - n)]
      BY <1>4, <3>1, Zenon
    <3> QED
      BY <2>2, <3>1, <3>2
  <2> QED
    BY <2>1, <2>2
<1>6. Len(q) = n + Len(rest)
  BY <1>2
<1> QED
  BY <1>1, <1>2, <1>5, <1>6, Zenon DEF Joined

-----------------------------------------------------------------------------
(* The batch scheduler.                                                    *)

Words == {"token", "eos"}

\* What is used of finite sets: sets of slots, their number and their least.
SlotCounts ==
    /\ Cardinality({}) = 0
    /\ \A S \in SUBSET Slots :
          /\ Cardinality(S) \in Nat
          /\ \A i \in Slots \ S : Cardinality(S \cup {i}) = Cardinality(S) + 1
          /\ \A T \in SUBSET S : Cardinality(S \ T) = Cardinality(S) - Cardinality(T)
          /\ S # {} => \E i \in S : \A j \in S : i <= j

NoEos(s) == \A k \in DOMAIN s : s[k] # "eos"

EosLast(s) == \A k \in DOMAIN s : s[k] = "eos" => k = Len(s)

\* Every id handed out is not 0, which means a free slot, so that the pool
\* holds the requests that active_count counts; and a request that is DONE is
\* retired by the call that finds it so, unless that call does not return.
PoolInv ==
    /\ requests \in [Slots -> Request]
    /\ hung \in BOOLEAN /\ accepted \in 0..MaxSubmits
    /\ accepted < MaxSubmits => next_request_id = accepted + 1
    /\ active_count = Cardinality(Busy)
    /\ ~hung => \A i \in Busy : requests[i].phase # "DONE"

SerialInv ==
    /\ serial \in [Slots -> 0..accepted]
    /\ \A i \in Busy : serial[i] # 0
    /\ \A i, j \in Busy : serial[i] = serial[j] => i = j

\* A request in the pool has sent no end of sequence before it is DONE; and
\* one that left the pool has, or was failed.
OutputInv ==
    /\ responses \in [Serials -> Seq(Words)]
    /\ \A n \in Serials : EosLast(responses[n]) /\ (n > accepted => responses[n] = <<>>)
    /\ \A i \in Busy : requests[i].phase # "DONE" => NoEos(responses[serial[i]])
    /\ \A n \in Serials : Ended(n) => n \in failed \/ ~NoEos(responses[n])

BatchInv == PoolInv /\ SerialInv /\ OutputInv

LEMMA InitBatchInv ==
    ASSUME SlotCounts, BatchInit
    PROVE  BatchInv
<1>1. Busy = {} /\ Cardinality({}) = 0
  BY DEF BatchInit, Busy, SlotCounts
<1>2. requests \in [Slots -> Request]
  BY BoundAssumption, KindAssumption, LengthAssumption DEF BatchInit, Request, Targets
<1>3. PoolInv
  <2>1. hung \in BOOLEAN /\ (~hung => \A i \in Busy : requests[i].phase # "DONE")
    BY Zenon, <1>1 DEF BatchInit
  <2>2. accepted \in 0..MaxSubmits /\ next_request_id = accepted + 1 /\ active_count = 0
    BY BoundAssumption DEF BatchInit
  <2> QED
    BY <1>1, <1>2, <2>1, <2>2 DEF PoolInv
<1>4. SerialInv
  BY <1>1 DEF BatchInit, SerialInv
<1>5. OutputInv
  <2>1. \A n \in Serials : responses[n] = <<>> /\ ~Ended(n)
    BY DEF BatchInit, Ended, Serials
  <2>2. responses \in [Serials -> Seq(Words)]
    BY DEF BatchInit
  <2> QED
    BY <1>1, <2>1, <2>2 DEF OutputInv, EosLast
<1> QED
  BY <1>3, <1>4, <1>5 DEF BatchInv

\* kllm_batch_submit takes a slot that no request has, and gives it an id.
LEMMA SubmitTakesFree ==
    ASSUME SlotCounts, BatchInv, NEW len \in SubmitLens, SubmitAccepted(len),
           MaxSubmits < IdLimit
    PROVE  \E i \in Slots \ Busy :
              /\ requests' = [requests EXCEPT ![i] =
                    [request_id |-> accepted + 1, phase |-> "PREFILL",
                     target |-> requests[i].target, prompt_len |-> len, seq_len |-> len]]
              /\ serial' = [serial EXCEPT ![i] = accepted + 1]
              /\ Busy' = Busy \cup {i}
<1> DEFINE i == FirstFree
<1>1. i \in FreeSlots
  <2>1. FreeSlots \in SUBSET Slots /\ FreeSlots # {}
    BY DEF SubmitAccepted, FreeSlots
  <2> QED
    BY Zenon, <2>1 DEF SlotCounts, FirstFree
<1>2. i \in Slots \ Busy
  BY <1>1 DEF SubmitAccepted, BatchInv, PoolInv, FreeSlots, Busy
<1>3. next_request_id = accepted + 1 /\ accepted \in Nat
  BY BoundAssumption DEF SubmitAccepted, BatchInv, PoolInv
<1>4. /\ requests' = [requests EXCEPT ![i] =
            [request_id |-> accepted + 1, phase |-> "PREFILL",
             target |-> requests[i].target, prompt_len |-> len, seq_len |-> len]]
      /\ serial' = [serial EXCEPT ![i] = accepted + 1]
  BY <1>2, <1>3 DEF SubmitAccepted, BatchInv, PoolInv
<1> HIDE DEF i
<1>5. \A j \in Slots : /\ j = i => requests'[j].request_id = accepted + 1
                       /\ j # i => requests'[j] = requests[j]
  BY <1>2, <1>4 DEF BatchInv, PoolInv
<1>6. Busy' = Busy \cup {i}
  BY <1>2, <1>3, <1>5 DEF Busy
<1> QED
  BY Zenon, <1>2, <1>4, <1>6

LEMMA SubmitKeepsBatch ==
    ASSUME SlotCounts, BatchInv, NEW len \in SubmitLens, SubmitAccepted(len),
           MaxSubmits < IdLimit
    PROVE  BatchInv'
<1>1. PICK i \in Slots \ Busy :
              /\ requests' = [requests EXCEPT ![i] =
                    [request_id |-> accepted + 1, phase |-> "PREFILL",
                     target |-> requests[i].target, prompt_len |-> len, seq_len |-> len]]
              /\ serial' = [serial EXCEPT ![i] = accepted + 1]
              /\ Busy' = Busy \cup {i}
  BY SubmitTakesFree
<1>2. /\ accepted \in Nat /\ accepted < MaxSubmits /\ accepted' = accepted + 1
      /\ next_request_id = accepted + 1 /\ next_request_id' = (accepted + 2) % IdLimit
      /\ active_count' = active_count + 1 /\ ~hung
      /\ UNCHANGED <<hung, responses, failed>>
  BY BoundAssumption DEF SubmitAccepted, BatchInv, PoolInv
<1>3. accepted + 1 < MaxSubmits => next_request_id' = accepted + 2
  <2>1. \A x \in Nat : x < IdLimit => x % IdLimit = x
    BY BoundAssumption
  <2> QED
    BY <1>2, <2>1, BoundAssumption
<1> DEFINE new == [request_id |-> accepted + 1, phase |-> "PREFILL",
                   target |-> requests[i].target, prompt_len |-> len, seq_len |-> len]
<1>4. new \in Request
  <2>1. requests[i].target \in Targets /\ len \in 0..MaxSeqLen
    BY LengthAssumption DEF BatchInv, PoolInv, Request
  <2>2. accepted + 1 \in 0 .. IdLimit - 1
    BY <1>2, BoundAssumption
  <2> QED
    BY <2>1, <2>2 DEF Request, Phases
<1>5. \A j \in Slots : /\ j = i => requests'[j] = new /\ serial'[j] = accepted + 1
                       /\ j # i => requests'[j] = requests[j] /\ serial'[j] = serial[j]
  BY <1>1 DEF BatchInv, PoolInv, SerialInv
<1>6. new.phase = "PREFILL"
  OBVIOUS
<1>7. requests' \in [Slots -> Request]
  BY <1>1, <1>4 DEF BatchInv, PoolInv
<1> HIDE DEF new
<1>8. Busy \subseteq Slots /\ i \notin Busy
  BY DEF Busy
<1>9. PoolInv'
  <2>1. active_count' = Cardinality(Busy')
    BY <1>1, <1>2, <1>8 DEF BatchInv, PoolInv, SlotCounts
  <2>2. \A j \in Busy' : requests'[j].phase # "DONE"
    BY <1>1, <1>2, <1>5, <1>6, <1>8 DEF BatchInv, PoolInv
  <2>3. accepted' \in 0..MaxSubmits /\ hung' \in BOOLEAN
    BY <1>2, BoundAssumption DEF BatchInv, PoolInv
  <2> QED
    BY <1>2, <1>3, <1>7, <2>1, <2>2, <2>3 DEF PoolInv
<1>10. SerialInv'
  <2>1. serial' \in [Slots -> 0..accepted']
    BY <1>1, <1>2 DEF BatchInv, SerialInv
  <2>2. \A j \in Busy : serial[j] \in 0..accepted /\ serial[j] # 0 /\ serial[j] # accepted + 1
    BY <1>2, <1>8 DEF BatchInv, SerialInv
  <2>3. \A j \in Busy' : serial'[j] # 0
    BY <1>1, <1>2, <1>5, <1>8, <2>2
  <2>4. \A j, k \in Busy' : serial'[j] = serial'[k] => j = k
    BY <1>1, <1>5, <1>8, <2>2 DEF BatchInv, SerialInv
  <2> QED
    BY <2>1, <2>3, <2>4 DEF SerialInv
<1>11. OutputInv'
  <2>1. ASSUME NEW j \in Busy', requests'[j].phase # "DONE"
        PROVE  NoEos(responses[serial'[j]])
    <3>1. CASE j = i
      <4>1. responses[accepted + 1] = <<>>
        BY <1>2, BoundAssumption DEF BatchInv, OutputInv, Serials
      <4>2. NoEos(<<>>)
        BY DEF NoEos
      <4>3. serial'[j] = accepted + 1
        BY <1>5, <3>1
      <4> QED
        BY Zenon, <4>1, <4>2, <4>3
    <3>2. CASE j # i
      BY <1>1, <1>5, <1>8, <2>1, <3>2 DEF BatchInv, OutputInv
    <3> QED
      BY <3>1, <3>2
  <2>2. ASSUME NEW n \in Serials, Ended(n)' PROVE Ended(n)
    <3>1. n \in Nat /\ n # accepted + 1
      BY <1>1, <1>5, <2>2 DEF Ended, Serials
    <3> QED
      BY <1>1, <1>2, <1>5, <1>8, <2>2, <3>1 DEF Ended
  <2>3. \A n \in Serials : n > accepted' => responses[n] = <<>>
    BY <1>2 DEF BatchInv, OutputInv, Serials
  <2> QED
    BY <1>2, <2>1, <2>2, <2>3 DEF BatchInv, OutputInv
<1> QED
  BY <1>9, <1>10, <1>11 DEF BatchInv

\* Assignments to the fields of a request.
LEMMA RequestFields ==
    ASSUME NEW req \in Request
    PROVE  /\ \A ph \in Phases :
                 [req EXCEPT !.phase = ph] \in
                    {r \in Request : /\ r.request_id = req.request_id /\ r.phase = ph
                                     /\ r.target = req.target /\ r.seq_len = req.seq_len}
           /\ \A target \in Targets :
                 [req EXCEPT !.target = target] \in
                    {r \in Request : /\ r.request_id = req.request_id /\ r.phase = req.phase
                                     /\ r.target = target /\ r.seq_len = req.seq_len}
           /\ \A len \in 0..MaxSeqLen :
                 [req EXCEPT !.seq_len = len] \in
                    {r \in Request : /\ r.request_id = req.request_id /\ r.phase = req.phase
                                     /\ r.target = req.target /\ r.seq_len = len}
<1>1. ASSUME NEW ph \in Phases
      PROVE  [req EXCEPT !.phase = ph] \in
                    {r \in Request : /\ r.request_id = req.request_id /\ r.phase = ph
                                     /\ r.target = req.target /\ r.seq_len = req.seq_len}
  BY DEF Request
<1>2. ASSUME NEW target \in Targets
      PROVE  [req EXCEPT !.target = target] \in
                    {r \in Request : /\ r.request_id = req.request_id /\ r.phase = req.phase
                                     /\ r.target = target /\ r.seq_len = req.seq_len}
  BY DEF Request
<1>3. ASSUME NEW len \in 0..MaxSeqLen
      PROVE  [req EXCEPT !.seq_len = len] \in
                    {r \in Request : /\ r.request_id = req.request_id /\ r.phase = req.phase
                                     /\ r.target = req.target /\ r.seq_len = len}
  BY DEF Request
<1> QED
  BY <1>1, <1>2, <1>3

\* What kllm_batch_step makes of the pool before it decodes: prompts that fit
\* become requests to decode.
LEMMA PrefillMakesReady ==
    ASSUME PoolInv
    PROVE  /\ AfterPrefill \in [Slots -> Request]
           /\ \A i \in Slots :
                 /\ AfterPrefill[i].request_id = requests[i].request_id
                 /\ AfterPrefill[i].phase = "DONE" <=> requests[i].phase = "DONE"
<1>1. Prefilled \subseteq {i \in Slots : requests[i].phase = "PREFILL"}
  BY DEF Prefilled, InPhase
<1>2. \A i \in Slots : TargetOf(i) \in Targets
  BY DEF TargetOf, Decide, Targets
<1>3. ASSUME NEW i \in Slots
      PROVE  /\ AfterPrefill[i] \in Request
             /\ AfterPrefill[i].request_id = requests[i].request_id
             /\ AfterPrefill[i].phase = "DONE" <=> requests[i].phase = "DONE"
  <2>1. requests[i] \in Request
    BY DEF PoolInv
  <2>2. CASE i \notin Prefilled
    BY <2>1, <2>2 DEF AfterPrefill
  <2>3. CASE i \in Prefilled
    <3>1. AfterPrefill[i] = [requests[i] EXCEPT !.phase = "DECODE", !.target = TargetOf(i)]
      BY <2>3 DEF AfterPrefill
    <3>2. /\ AfterPrefill[i] \in Request /\ AfterPrefill[i].phase = "DECODE"
          /\ AfterPrefill[i].request_id = requests[i].request_id
      <4> DEFINE r == [requests[i] EXCEPT !.phase = "DECODE"]
      <4>1. AfterPrefill[i] = [r EXCEPT !.target = TargetOf(i)]
        BY <2>1, <3>1 DEF Request
      <4>2. r \in Request /\ r.phase = "DECODE" /\ r.request_id = requests[i].request_id
        <5>1. "DECODE" \in Phases
          BY DEF Phases
        <5> QED
          BY <2>1, <5>1, RequestFields
      <4> HIDE DEF r
      <4> QED
        BY <1>2, <4>1, <4>2, RequestFields
    <3> QED
      BY <1>1, <2>3, <3>2
  <2> QED
    BY <2>2, <2>3
<1>4. AfterPrefill \in [Slots -> Request]
  <2>1. AfterPrefill = [i \in Slots |-> AfterPrefill[i]]
    BY DEF AfterPrefill
  <2> QED
    BY <1>3, <2>1
<1> QED
  BY <1>3, <1>4

\* The decode step that is the last of a request.
Stops(req, answer) == answer.kind # "token" \/ AtLimit(req)

LEMMA DecodedRequest ==
    ASSUME NEW req \in Request, NEW answer \in Answers
    PROVE  /\ Decoded(req, answer) \in Request
           /\ Decoded(req, answer).request_id = req.request_id
           /\ Decoded(req, answer).phase = IF Stops(req, answer) THEN "DONE" ELSE req.phase
<1> DEFINE target == IF answer.escalated THEN "GPU" ELSE req.target
           len == IF answer.kind = "token" /\ ~AtLimit(req) THEN req.seq_len + 1 ELSE req.seq_len
           ph == IF answer.kind = "token" /\ ~AtLimit(req) THEN req.phase ELSE "DONE"
<1>1. target \in Targets /\ ph \in Phases
  BY DEF Request, Targets, Phases
<1>2. len \in 0..MaxSeqLen
  BY LengthAssumption DEF Request, Stops, AtLimit
<1> DEFINE r == [req EXCEPT !.target = target]
           q == [r EXCEPT !.seq_len = len]
<1>3. Decoded(req, answer) = [q EXCEPT !.phase = ph]
  BY DEF Decoded, Request
<1>4. r \in Request /\ r.request_id = req.request_id
  BY <1>1, RequestFields
<1> HIDE DEF r, ph, target, len
<1>5. q \in Request /\ q.request_id = req.request_id
  BY <1>2, <1>4, RequestFields
<1> HIDE DEF q
<1>6. Decoded(req, answer) \in Request /\ Decoded(req, answer).request_id = req.request_id
      /\ Decoded(req, answer).phase = ph
  BY <1>1, <1>3, <1>5, RequestFields
<1> QED
  BY <1>6 DEF ph, Stops

LEMMA ThroughRequests ==
    ASSUME NEW ready \in [Slots -> Request], NEW answer \in AnswersTo(ready)
    PROVE  /\ Through(answer) \subseteq {i \in Slots : ready[i].request_id # 0 /\ ready[i].phase = "DECODE"}
           /\ \A i \in Through(answer) : answer[i] \in Answers /\ answer[i].kind # "never"
<1>1. answer \in [Batch(ready) -> Answers]
  BY DEF AnswersTo
<1>2. Batch(ready) \subseteq {i \in Slots : ready[i].request_id # 0 /\ ready[i].phase = "DECODE"}
  BY DEF Batch, InPhase
<1>3. \A i \in Slots : i <= i
  BY PoolAssumption DEF Slots
<1> QED
  BY <1>1, <1>2, <1>3 DEF Through

LEMMA AfterDecodeRequests ==
    ASSUME NEW ready \in [Slots -> Request], NEW answer \in AnswersTo(ready)
    PROVE  /\ AfterDecode(ready, answer) \in [Slots -> Request]
           /\ \A i \in Slots :
                 /\ AfterDecode(ready, answer)[i].request_id = ready[i].request_id
                 /\ AfterDecode(ready, answer)[i].phase =
                       IF i \in Through(answer) /\ Stops(ready[i], answer[i])
                       THEN "DONE" ELSE ready[i].phase
<1>1. ASSUME NEW i \in Slots
      PROVE  /\ AfterDecode(ready, answer)[i] \in Request
             /\ AfterDecode(ready, answer)[i].request_id = ready[i].request_id
             /\ AfterDecode(ready, answer)[i].phase =
                       IF i \in Through(answer) /\ Stops(ready[i], answer[i])
                       THEN "DONE" ELSE ready[i].phase
  <2>1. CASE i \in Through(answer)
    <3>1. AfterDecode(ready, answer)[i] = Decoded(ready[i], answer[i])
      BY <2>1 DEF AfterDecode
    <3>2. answer[i] \in Answers /\ ready[i] \in Request
      BY <2>1, ThroughRequests
    <3> QED
      BY <2>1, <3>1, <3>2, DecodedRequest
  <2>2. CASE i \notin Through(answer)
    BY <2>2 DEF AfterDecode
  <2> QED
    BY <2>1, <2>2
<1>2. AfterDecode(ready, answer) \in [Slots -> Request]
  BY <1>1 DEF AfterDecode
<1> QED
  BY <1>1, <1>2

\* What kllm_batch_step does to the pool, whether it returns or not: the
\* requests that stop, and only those, become DONE, and leave it if the call
\* returns.
LEMMA IterationPool ==
    ASSUME SlotCounts, PoolInv, ~hung, NEW answer \in AnswersTo(AfterPrefill),
           Iteration(answer, AfterDecode(AfterPrefill, answer)),
           UNCHANGED <<accepted, next_request_id>>
    PROVE  /\ PoolInv' /\ Busy' \subseteq Busy
           /\ \A i \in Busy : i \notin Busy' \/ requests'[i].phase = "DONE" =>
                 i \in Through(answer) /\ Stops(AfterPrefill[i], answer[i])
           /\ \A i \in Busy' : i \in Through(answer) /\ Stops(AfterPrefill[i], answer[i])
                 => requests'[i].phase = "DONE"
           /\ \A i \in Slots \ Busy' : i \in Busy \/ requests[i].phase = "DONE"
                 => requests'[i].phase = "DONE"
<1> DEFINE ready == AfterPrefill
           after == AfterDecode(ready, answer)
           stopped == {i \in Through(answer) : Stops(ready[i], answer[i])}
<1>1. ready \in [Slots -> Request]
      /\ \A i \in Slots : /\ ready[i].request_id = requests[i].request_id
                          /\ ready[i].phase = "DONE" <=> requests[i].phase = "DONE"
  BY PrefillMakesReady
<1>2. after \in [Slots -> Request]
      /\ \A i \in Slots : /\ after[i].request_id = requests[i].request_id
                          /\ i \in stopped => after[i].phase = "DONE"
                          /\ i \notin stopped => after[i].phase = ready[i].phase
  BY <1>1, AfterDecodeRequests
<1>3. /\ Busy \subseteq Slots
      /\ \A i \in Busy : ready[i].phase # "DONE"
      /\ \A i \in Slots : i \in Busy <=> requests[i].request_id # 0
  BY <1>1 DEF PoolInv, Busy
<1>4. hung' \in BOOLEAN
  BY Zenon DEF Iteration
<1> HIDE DEF ready, after
<1>5. CASE Through(answer) = DOMAIN answer
  <2>1. requests' = Retire(after) /\ hung' = FALSE
        /\ active_count' = active_count - Cardinality(Finished(after))
    BY <1>5 DEF Iteration, after, ready
  <2>2. \A i \in Slots :
           /\ requests'[i] \in Request /\ requests'[i].phase = after[i].phase
           /\ requests'[i].request_id = IF after[i].phase = "DONE" THEN 0 ELSE after[i].request_id
    BY <1>2, <2>1, BoundAssumption DEF Retire, Request
  <2>3. requests' \in [Slots -> Request]
    BY <2>1, <2>2 DEF Retire
  <2>4. Finished(after) = {i \in Busy : after[i].phase = "DONE"}
    BY <1>2, <1>3 DEF Finished, InPhase
  <2>5. Busy' = Busy \ Finished(after)
    BY <1>2, <1>3, <2>2, <2>4 DEF Busy
  <2>6. active_count' = Cardinality(Busy')
    BY <1>3, <2>1, <2>4, <2>5 DEF PoolInv, SlotCounts
  <2>7. \A i \in Busy' : requests'[i].phase # "DONE" /\ i \notin stopped
    BY <1>2, <1>3, <2>2, <2>4, <2>5
  <2>8. \A i \in Busy : i \notin Busy' => i \in stopped
    BY <1>2, <1>3, <2>4, <2>5
  <2>9. PoolInv'
    BY <1>4, <2>3, <2>6, <2>7 DEF PoolInv
  <2>10. \A i \in Slots \ Busy' : i \in Busy \/ requests[i].phase = "DONE"
            => requests'[i].phase = "DONE"
    BY <1>1, <1>2, <2>2, <2>4, <2>5
  <2> QED
    BY <2>5, <2>7, <2>8, <2>9, <2>10 DEF ready
<1>6. CASE Through(answer) # DOMAIN answer
  <2>1. requests' = after /\ hung' = TRUE /\ active_count' = active_count
    BY <1>6 DEF Iteration, after, ready
  <2>2. Busy' = Busy
    BY <1>2, <2>1 DEF Busy
  <2>3. PoolInv'
    BY <1>2, <1>4, <2>1, <2>2 DEF PoolInv
  <2> QED
    BY <1>1, <1>2, <1>3, <2>1, <2>2, <2>3 DEF ready
<1> QED
  BY <1>5, <1>6

LEMMA EmittedEnds ==
    ASSUME NEW req, NEW answer \in Answers, answer.kind # "never"
    PROVE  /\ Emitted(req, answer) \in Seq(Words) /\ EosLast(Emitted(req, answer))
           /\ ~Stops(req, answer) => NoEos(Emitted(req, answer))
           /\ Stops(req, answer) /\ answer.kind # "error" => ~NoEos(Emitted(req, answer))
<1>1. answer.kind \in {"error", "eos", "token"}
  BY DEF Answers
<1>2. CASE answer.kind = "error"
  <2>1. Emitted(req, answer) = <<>>
    BY <1>2 DEF Emitted
  <2> QED
    BY <1>2, <2>1 DEF Stops, EosLast, Words
<1>3. CASE answer.kind = "eos"
  <2>1. Emitted(req, answer) = <<"eos">>
    BY <1>3 DEF Emitted
  <2> QED
    BY <1>3, <2>1 DEF Stops, EosLast, NoEos, Words
<1>4. CASE answer.kind = "token" /\ AtLimit(req)
  <2>1. Emitted(req, answer) = <<"token", "eos">>
    BY <1>4 DEF Emitted
  <2> QED
    BY <1>4, <2>1 DEF Stops, EosLast, NoEos, Words
<1>5. CASE answer.kind = "token" /\ ~AtLimit(req)
  <2>1. Emitted(req, answer) = <<"token">>
    BY <1>5 DEF Emitted
  <2> QED
    BY <1>5, <2>1 DEF Stops, EosLast, NoEos, Words
<1> QED
  BY <1>1, <1>2, <1>3, <1>4, <1>5

\* What follows an answer that has no end of sequence.
LEMMA EosAfter ==
    ASSUME NEW s \in Seq(Words), NEW e \in Seq(Words), NoEos(s)
    PROVE  /\ s \o e \in Seq(Words)
           /\ EosLast(e) => EosLast(s \o e)
           /\ NoEos(e) <=> NoEos(s \o e)
<1> DEFINE j == s \o e
<1>1. /\ j \in Seq(Words) /\ Len(j) = Len(s) + Len(e)
      /\ Len(s) \in Nat /\ Len(e) \in Nat
      /\ DOMAIN s = 1..Len(s) /\ DOMAIN e = 1..Len(e) /\ DOMAIN j = 1..Len(j)
  OBVIOUS
<1>2. /\ \A k \in 1..Len(s) : j[k] = s[k]
      /\ \A k \in 1..Len(e) : j[Len(s) + k] = e[k]
  OBVIOUS
<1> HIDE DEF j
<1>3. ASSUME NEW k \in DOMAIN j
      PROVE  \/ k \in DOMAIN s /\ j[k] = s[k]
             \/ /\ k - Len(s) \in DOMAIN e /\ j[k] = e[k - Len(s)]
                /\ k - Len(s) = Len(e) => k = Len(j)
  <2>1. k \in 1..Len(s) \/ (k - Len(s) \in 1..Len(e) /\ k = Len(s) + (k - Len(s)))
    BY <1>1
  <2>2. k - Len(s) = Len(e) => k = Len(j)
    BY <1>1
  <2> QED
    BY Zenon, <1>1, <1>2, <2>1, <2>2
<1>4. EosLast(e) => EosLast(j)
  BY Zenon, <1>3 DEF EosLast, NoEos
<1>5. NoEos(e) => NoEos(j)
  BY Zenon, <1>3 DEF NoEos
<1>6. NoEos(j) => NoEos(e)
  <2>1. \A k \in 1..Len(e) : Len(s) + k \in 1..Len(j)
    BY <1>1
  <2> QED
    BY <1>1, <1>2, <2>1 DEF NoEos
<1> QED
  BY Zenon, <1>1, <1>4, <1>5, <1>6 DEF j

\* The responses of a call to kllm_batch_step: each request that had its step
\* adds to its own.
LEMMA StepResponses ==
    ASSUME BatchInv, ~hung, NEW answer \in AnswersTo(AfterPrefill), Effects(AfterPrefill, answer)
    PROVE  /\ Through(answer) \subseteq Busy
           /\ \A i \in Through(answer) :
                 /\ serial[i] \in Serials /\ NoEos(responses[serial[i]])
                 /\ answer[i] \in Answers /\ answer[i].kind # "never"
                 /\ responses'[serial[i]] =
                       responses[serial[i]] \o Emitted(AfterPrefill[i], answer[i])
           /\ \A n \in Serials : (\A i \in Through(answer) : serial[i] # n) =>
                 responses'[n] = responses[n]
           /\ DOMAIN responses' = Serials
<1> DEFINE ready == AfterPrefill
           owner(n) == {i \in Through(answer) : serial[i] = n}
<1>1. ready \in [Slots -> Request]
      /\ \A i \in Slots : /\ ready[i].request_id = requests[i].request_id
                          /\ ready[i].phase = "DONE" <=> requests[i].phase = "DONE"
  BY PrefillMakesReady DEF BatchInv
<1>2. Through(answer) \subseteq {i \in Slots : ready[i].request_id # 0 /\ ready[i].phase = "DECODE"}
      /\ \A i \in Through(answer) : answer[i] \in Answers /\ answer[i].kind # "never"
  BY <1>1, ThroughRequests
<1>3. Through(answer) \subseteq Busy /\ \A i \in Through(answer) : requests[i].phase # "DONE"
  BY <1>1, <1>2 DEF Busy
<1>4. \A i \in Busy : serial[i] \in Serials
  BY BoundAssumption DEF BatchInv, PoolInv, SerialInv, Serials, Busy
<1> DEFINE one(n) == CHOOSE i \in owner(n) : TRUE
           sent(n, i) == responses[n] \o Emitted(ready[i], answer[i])
<1>5. responses' = [n \in Serials |-> IF owner(n) = {} THEN responses[n] ELSE sent(n, one(n))]
  BY DEF Effects
<1>6. ASSUME NEW i \in Through(answer)
      PROVE  responses'[serial[i]] = sent(serial[i], i)
  <2>1. owner(serial[i]) = {i}
    BY <1>3 DEF BatchInv, SerialInv
  <2>2. one(serial[i]) = i
    BY <2>1
  <2> HIDE DEF one, sent
  <2> QED
    BY <1>3, <1>4, <1>5, <2>1, <2>2
<1>7. \A i \in Through(answer) : NoEos(responses[serial[i]])
  BY <1>3 DEF BatchInv, OutputInv
<1>8. \A n \in Serials : (\A i \in Through(answer) : serial[i] # n) => responses'[n] = responses[n]
  BY <1>5
<1>9. DOMAIN responses' = Serials
  BY <1>5
<1> QED
  BY Zenon, <1>2, <1>3, <1>4, <1>6, <1>7, <1>8, <1>9

LEMMA StepKeepsBatch ==
    ASSUME SlotCounts, BatchInv, BatchStep
    PROVE  BatchInv'
<1>1. ~hung
  BY DEF BatchStep
<1>2. PICK answer \in AnswersTo(AfterPrefill) :
          Effects(AfterPrefill, answer)
          /\ Iteration(answer, AfterDecode(AfterPrefill, answer))
  BY DEF BatchStep
<1>3. UNCHANGED <<next_request_id, serial, accepted>>
      /\ failed' = failed \cup {serial[i] : i \in
                       {j \in Through(answer) : answer[j].kind = "error"}}
  BY <1>2 DEF Effects
<1> DEFINE stops(i) == i \in Through(answer) /\ Stops(AfterPrefill[i], answer[i])
<1>4. /\ PoolInv' /\ Busy' \subseteq Busy
      /\ \A i \in Busy : i \notin Busy' \/ requests'[i].phase = "DONE" => stops(i)
      /\ \A i \in Busy' : stops(i) => requests'[i].phase = "DONE"
  BY <1>1, <1>2, <1>3, IterationPool DEF BatchInv
<1>5. SerialInv'
  BY <1>3, <1>4 DEF BatchInv, SerialInv
<1> DEFINE emitted_by(i) == Emitted(AfterPrefill[i], answer[i])
<1>6. /\ Through(answer) \subseteq Busy
      /\ \A i \in Through(answer) :
            /\ serial[i] \in Serials /\ NoEos(responses[serial[i]])
            /\ answer[i] \in Answers /\ answer[i].kind # "never"
            /\ responses'[serial[i]] = responses[serial[i]] \o emitted_by(i)
      /\ \A n \in Serials : (\A i \in Through(answer) : serial[i] # n) =>
            responses'[n] = responses[n]
      /\ DOMAIN responses' = Serials
  BY Zenon, <1>1, <1>2, StepResponses
<1>7. \A i \in Through(answer) :
         /\ emitted_by(i) \in Seq(Words) /\ EosLast(emitted_by(i))
         /\ ~stops(i) => NoEos(emitted_by(i))
         /\ stops(i) /\ answer[i].kind # "error" => ~NoEos(emitted_by(i))
  BY Zenon, <1>6, EmittedEnds
<1> HIDE DEF emitted_by
<1>8. \A i \in Through(answer) :
         /\ responses'[serial[i]] \in Seq(Words) /\ EosLast(responses'[serial[i]])
         /\ ~stops(i) => NoEos(responses'[serial[i]])
         /\ stops(i) /\ answer[i].kind # "error" => ~NoEos(responses'[serial[i]])
  <2> TAKE i \in Through(answer)
  <2>1. responses[serial[i]] \in Seq(Words) /\ NoEos(responses[serial[i]])
    BY <1>6 DEF BatchInv, OutputInv
  <2>2. emitted_by(i) \in Seq(Words) /\ EosLast(emitted_by(i))
    BY <1>7
  <2>3. /\ responses'[serial[i]] \in Seq(Words) /\ EosLast(responses'[serial[i]])
        /\ NoEos(emitted_by(i)) <=> NoEos(responses'[serial[i]])
    <3> DEFINE s == responses[serial[i]] \o emitted_by(i)
    <3>1. s \in Seq(Words) /\ EosLast(s) /\ (NoEos(emitted_by(i)) <=> NoEos(s))
      BY Zenon, <2>1, <2>2, EosAfter
    <3>2. responses'[serial[i]] = s
      BY Zenon, <1>6
    <3> HIDE DEF s
    <3> QED
      BY Zenon, <3>1, <3>2
  <2> QED
    BY <1>7, <2>3
<1> HIDE DEF stops
<1>9. ASSUME NEW n \in Serials
      PROVE  responses'[n] \in Seq(Words) /\ EosLast(responses'[n])
  <2>1. CASE \E i \in Through(answer) : serial[i] = n
    BY <1>8, <2>1
  <2>2. CASE \A i \in Through(answer) : serial[i] # n
    BY <1>6, <2>2 DEF BatchInv, OutputInv
  <2> QED
    BY <2>1, <2>2
<1>10. responses' \in [Serials -> Seq(Words)]
  <2>1. responses' = [n \in Serials |-> responses'[n]]
    BY <1>2 DEF Effects
  <2> QED
    BY <1>9, <2>1
<1>11. ASSUME NEW n \in Serials, n > accepted' PROVE responses'[n] = <<>>
  <2>1. \A i \in Through(answer) : serial[i] # n
    BY <1>3, <1>6, <1>11 DEF BatchInv, PoolInv, SerialInv, Busy, Serials
  <2> QED
    BY <1>3, <1>6, <1>11, <2>1 DEF BatchInv, OutputInv
<1>12. ASSUME NEW i \in Busy', requests'[i].phase # "DONE"
       PROVE  NoEos(responses'[serial'[i]])
  <2>1. i \in Busy /\ ~stops(i) /\ serial[i] \in Serials
    BY <1>4, <1>12, BoundAssumption DEF BatchInv, PoolInv, SerialInv, Serials, Busy
  <2>2. requests[i].phase # "DONE"
    BY Zenon, <1>1, <2>1 DEF BatchInv, PoolInv
  <2>3. CASE i \in Through(answer)
    BY Zenon, <1>3, <1>8, <2>1, <2>3
  <2>4. CASE i \notin Through(answer)
    <3>1. \A j \in Through(answer) : serial[j] # serial[i]
      BY <1>6, <2>1, <2>4 DEF BatchInv, SerialInv
    <3>2. responses'[serial[i]] = responses[serial[i]]
      BY Zenon, <1>6, <2>1, <3>1
    <3>3. NoEos(responses[serial[i]])
      BY Zenon, <2>1, <2>2 DEF BatchInv, OutputInv
    <3> QED
      BY ZenonT(30), <1>3, <3>2, <3>3
  <2> QED
    BY <2>3, <2>4
<1>13. ASSUME NEW n \in Serials, Ended(n)' PROVE n \in failed' \/ ~NoEos(responses'[n])
  <2>1. n <= accepted /\ \A i \in Busy' : serial[i] # n
    BY <1>3, <1>13 DEF Ended
  <2>2. CASE Ended(n)
    <3>1. \A i \in Through(answer) : serial[i] # n
      BY <1>6, <2>2 DEF Ended
    <3>2. responses'[n] = responses[n]
      BY Zenon, <1>6, <3>1
    <3>3. n \in failed \/ ~NoEos(responses[n])
      BY Zenon, <2>2 DEF BatchInv, OutputInv
    <3>4. n \in failed => n \in failed'
      BY <1>3
    <3> QED
      BY ZenonT(30), <3>2, <3>3, <3>4
  <2>3. CASE ~Ended(n)
    <3>1. PICK i \in Busy : serial[i] = n
      BY <2>1, <2>3 DEF Ended
    <3>2. stops(i) /\ i \in Through(answer)
      BY <1>4, <2>1, <3>1 DEF stops
    <3> QED
      BY Zenon, <1>3, <1>8, <3>1, <3>2
  <2> QED
    BY <2>2, <2>3
<1>14. OutputInv'
  BY <1>9, <1>10, <1>11, <1>12, <1>13 DEF OutputInv
<1> QED
  BY <1>4, <1>5, <1>14 DEF BatchInv

LEMMA NextBatchInv ==
    ASSUME SlotCounts, BatchInv, [BatchNext]_batch_vars, MaxSubmits < IdLimit
    PROVE  BatchInv'
<1>1. CASE SubmitRejected \/ UNCHANGED batch_vars
  <2>1. UNCHANGED <<sched, batch_history>>
    BY <1>1 DEF SubmitRejected, batch_vars
  <2> QED
    BY <2>1 DEF sched, batch_history, BatchInv, PoolInv, SerialInv, OutputInv, Busy, Ended
<1> QED
  BY <1>1, SubmitKeepsBatch, StepKeepsBatch DEF BatchNext

\* What find_free_slot relies on.
FreeAreDone == \A i \in Slots \ Busy : requests[i].phase = "DONE"

LEMMA NextFree ==
    ASSUME SlotCounts, BatchInv, FreeAreDone, [BatchNext]_batch_vars, MaxSubmits < IdLimit
    PROVE  FreeAreDone'
<1>1. CASE SubmitRejected \/ UNCHANGED batch_vars
  <2>1. UNCHANGED requests
    BY <1>1 DEF SubmitRejected, batch_vars, sched
  <2> QED
    BY <2>1 DEF FreeAreDone, Busy
<1>2. ASSUME NEW len \in SubmitLens, SubmitAccepted(len) PROVE FreeAreDone'
  <2>1. PICK i \in Slots \ Busy :
              /\ requests' = [requests EXCEPT ![i] =
                    [request_id |-> accepted + 1, phase |-> "PREFILL",
                     target |-> requests[i].target, prompt_len |-> len, seq_len |-> len]]
              /\ Busy' = Busy \cup {i}
    BY <1>2, SubmitTakesFree
  <2>2. \A j \in Slots \ {i} : requests'[j] = requests[j]
    BY <2>1 DEF BatchInv, PoolInv
  <2> QED
    BY <2>1, <2>2 DEF FreeAreDone
<1>3. CASE BatchStep
  <2>1. ~hung
    BY <1>3 DEF BatchStep
  <2>2. PICK answer \in AnswersTo(AfterPrefill) :
            Effects(AfterPrefill, answer)
            /\ Iteration(answer, AfterDecode(AfterPrefill, answer))
    BY <1>3 DEF BatchStep
  <2>3. PoolInv /\ UNCHANGED <<accepted, next_request_id>>
    BY <2>2 DEF Effects, BatchInv
  <2>4. \A i \in Slots \ Busy' : i \in Busy \/ requests[i].phase = "DONE"
            => requests'[i].phase = "DONE"
    BY Zenon, <2>1, <2>2, <2>3, IterationPool
  <2> QED
    BY <2>4 DEF FreeAreDone
<1> QED
  BY <1>1, <1>2, <1>3 DEF BatchNext

-----------------------------------------------------------------------------
(* The reactor.                                                            *)

\* The kernel's memory follows kpc, and users hold the module.
DeviceInv ==
    /\ kpc = "absent" => kmem = {}
    /\ kpc = "ring" => kmem = {"ring_page"}
    /\ kpc \in {"resp", "registered"} => kmem = {"ring_page", "resp_ring"}
    /\ clients \cup mappers \subseteq Clients \cap module_refs
    /\ "ring" \in live \/ "dev" \in fds => "reactor" \in module_refs
    /\ module_refs # {} => kpc = "registered"

\* What g_ctx holds in a process that has done this much of its start.
Holds(objects, fd) == live = objects /\ ptrs = objects /\ chardev_fd = fd

FailedInv ==
    \/ failed_at = "map" /\ Holds({}, "stdin") /\ fds = {"stdin"}
    \/ /\ failed_at = "cache" /\ fds = {"stdin", "dev"} /\ chardev_fd = "dev"
       /\ live = {"ring"} /\ "ring" \in ptrs
    \/ failed_at = "poller" /\ Holds(Objects, "dev") /\ fds = {"stdin", "dev"}

\* What is left of it on the way through kllm_reactor_shutdown.
EndingInv ==
    /\ live \subseteq ptrs \cap {"ring"}
    /\ failed_at # "cache" => twice = {}
    /\ IF failed_at = "map" THEN live = {} /\ fds = {"stdin"} /\ chardev_fd = "stdin"
                            ELSE fds = {"stdin", "dev"} /\ chardev_fd = "dev"

PhaseInv ==
    /\ phase \in {"off", "start", "opened", "mapped", "cached", "polling", "failed",
                  "unmapping", "closing", "stopped"}
    /\ phase = "off" => Holds({}, "stdin") /\ fds = {}
    /\ phase = "start" => Holds({}, "stdin") /\ fds = {"stdin"}
    /\ phase = "opened" => Holds({}, "stdin") /\ fds = {"stdin", "dev"}
    /\ phase = "mapped" => Holds({"ring"}, "dev") /\ fds = {"stdin", "dev"}
    /\ phase \in {"cached", "polling"} => Holds(Objects, "dev") /\ fds = {"stdin", "dev"}
    /\ phase = "failed" => FailedInv
    /\ phase \in {"unmapping", "closing"} => EndingInv
    /\ phase = "closing" => live = {}
    /\ phase \notin {"unmapping", "closing", "stopped"} => twice = {}
    /\ phase \notin {"failed", "unmapping", "closing", "stopped"} => failed_at = "none"

ProcessInv ==
    /\ PhaseInv
    /\ phase # "polling" => poller = FALSE /\ count = 0
    /\ ShutdownReleasesOnce

LifeInv == DeviceInv /\ ProcessInv

-----------------------------------------------------------------------------

LEMMA InitLifeInv == Init => LifeInv
<1>1. Init => DeviceInv
  BY DEF Init, DeviceInv
<1>2. Init => ProcessInv
  BY DEF Init, ProcessInv, PhaseInv, Holds, ShutdownReleasesOnce
<1> QED
  BY Zenon, <1>1, <1>2 DEF LifeInv

\* A step that leaves the kernel alone and opens or maps nothing.
LEMMA UsersKept ==
    ASSUME DeviceInv, UNCHANGED <<kpc, kmem, clients, mappers, module_refs>>,
           "ring" \in live' \/ "dev" \in fds' => "ring" \in live \/ "dev" \in fds
    PROVE  DeviceInv'
BY Zenon DEF DeviceInv

LEMMA NextDeviceInv == LifeInv /\ [Next]_vars => DeviceInv'
<1> SUFFICES ASSUME LifeInv, [Next]_vars PROVE DeviceInv'
  OBVIOUS
<1>1. DeviceInv /\ "reactor" \notin Clients
  BY Zenon, ReactorAssumption DEF LifeInv
<1>2. /\ phase = "opened" => live = {} /\ "dev" \in fds
      /\ phase = "unmapping" => live \subseteq ptrs \cap {"ring"}
  BY DEF LifeInv, ProcessInv, PhaseInv, Holds, EndingInv
<1>3. ASSUME \/ AllocTokenRing \/ AllocRespRing \/ NoRespRing
             \/ MiscRegister \/ MiscRegisterFails \/ KllmExit
      PROVE  DeviceInv'
  <2>1. UNCHANGED <<clients, mappers, module_refs, live, fds>>
    BY Zenon, <1>3 DEF AllocTokenRing, AllocRespRing, NoRespRing, MiscRegister,
                       MiscRegisterFails, KllmExit, users, process
  <2>2. /\ module_refs' = {}
        /\ kpc' = "absent" => kmem' = {}
        /\ kpc' = "ring" => kmem' = {"ring_page"}
        /\ kpc' \in {"resp", "registered"} => kmem' = {"ring_page", "resp_ring"}
    BY <1>1, <1>3, <2>1 DEF DeviceInv, AllocTokenRing, AllocRespRing, NoRespRing,
                            MiscRegister, MiscRegisterFails, KllmExit
  <2> QED
    BY <1>1, <2>1, <2>2 DEF DeviceInv
<1>4. ASSUME NEW c \in Clients,
             ClientOpens(c) \/ ClientMaps(c) \/ ClientCloses(c) \/ ClientUnmaps(c)
      PROVE  DeviceInv'
  <2>1. UNCHANGED <<kpc, kmem, live, fds>>
    BY Zenon, <1>4 DEF ClientOpens, ClientMaps, ClientCloses, ClientUnmaps, kernel, process
  <2>2. c # "reactor"
    BY Zenon, <1>1
  <2>3. CASE ClientOpens(c)
    BY <1>1, <2>1, <2>3 DEF ClientOpens, KllmOpen, DeviceInv
  <2>4. CASE ClientMaps(c)
    BY <1>1, <2>1, <2>4 DEF ClientMaps, DeviceInv
  <2>5. CASE ClientCloses(c)
    BY <1>1, <2>1, <2>2, <2>5 DEF ClientCloses, FilePut, DeviceInv
  <2>6. CASE ClientUnmaps(c)
    BY <1>1, <2>1, <2>2, <2>6 DEF ClientUnmaps, FilePut, DeviceInv
  <2> QED
    BY Zenon, <1>4, <2>3, <2>4, <2>5, <2>6
<1>5. ASSUME NEW c \in Clients, NEW size \in WriteSizes, KllmWrite(c, size)
      PROVE  DeviceInv'
  BY Zenon, <1>1, <1>5, UsersKept DEF KllmWrite, kernel, users, process
<1>6. CASE Launch
  <2>1. "dev" \notin fds' /\ UNCHANGED <<kpc, kmem, clients, mappers, module_refs, live>>
    BY <1>6 DEF Launch, kernel, users
  <2> QED
    BY Zenon, <1>1, <2>1, UsersKept
<1>7. CASE OpenDevice
  <2>1. /\ kpc = "registered" /\ module_refs' = module_refs \cup {"reactor"}
        /\ UNCHANGED <<kpc, kmem, clients, mappers>>
    BY Zenon, <1>7 DEF OpenDevice, KllmOpen, kernel
  <2> QED
    BY <1>1, <2>1 DEF DeviceInv
<1>8. CASE \/ OpenDeviceFails \/ RegisterPoller \/ RegisterPollerFails
           \/ PollLoad \/ PollTake \/ PollDispatch \/ UNCHANGED vars
  <2>1. UNCHANGED <<kpc, kmem, clients, mappers, module_refs, live, fds>>
    BY Zenon, <1>8 DEF OpenDeviceFails, RegisterPoller, RegisterPollerFails, PollLoad,
                       PollTake, PollDispatch, vars, kernel, users, process
  <2> QED
    BY Zenon, <1>1, <2>1, UsersKept
<1>9. CASE MapTokenRing
  <2>1. UNCHANGED <<kpc, kmem, clients, mappers, module_refs, fds>> /\ "dev" \in fds
    BY Zenon, <1>2, <1>9 DEF MapTokenRing, kernel, users
  <2> QED
    BY Zenon, <1>1, <2>1, UsersKept
<1>10. ASSUME "ring" \notin live', "dev" \notin fds', FilePut("reactor", FALSE),
              UNCHANGED <<kpc, kmem, clients, mappers>>
       PROVE  DeviceInv'
  BY <1>1, <1>10 DEF FilePut, DeviceInv
<1>11. CASE MapTokenRingFails
  BY <1>2, <1>10, <1>11 DEF MapTokenRingFails, kernel
<1>12. CASE Exit \/ Kill
  <2>1. /\ live' = {} /\ fds' = {} /\ FilePut("reactor", FALSE)
        /\ UNCHANGED <<kpc, kmem, clients, mappers>>
    BY Zenon, <1>12 DEF Exit, Kill, ProcessGone, kernel
  <2> QED
    BY <1>10, <2>1
<1>13. CASE InitKvcache \/ Shutdown
  <2>1. /\ UNCHANGED <<kpc, kmem, clients, mappers, module_refs, fds>>
        /\ "ring" \in live' => "ring" \in live
    BY <1>13 DEF InitKvcache, Shutdown, CacheObjects, kernel, users
  <2> QED
    BY Zenon, <1>1, <2>1, UsersKept
<1>14. ASSUME NEW failing \in CacheObjects, InitKvcacheFails(failing) PROVE DeviceInv'
  BY Zenon, <1>1, <1>14, UsersKept DEF InitKvcacheFails, kernel, users
<1>15. CASE ShutdownUnmap
  <2>1. /\ UNCHANGED <<kpc, kmem, clients, mappers, fds>> /\ live' = {}
        /\ module_refs' = IF "dev" \in fds THEN module_refs ELSE module_refs \ {"reactor"}
    BY <1>2, <1>15 DEF ShutdownUnmap, FilePut, kernel
  <2> QED
    BY <1>1, <2>1 DEF DeviceInv
<1>16. CASE ShutdownClose
  <2>1. /\ UNCHANGED <<kpc, kmem, clients, mappers, live>> /\ fds' \subseteq fds
        /\ module_refs' = IF "dev" \in fds' \/ "ring" \in live
                          THEN module_refs ELSE module_refs \ {"reactor"}
    BY <1>16 DEF ShutdownClose, FilePut, kernel
  <2> QED
    BY <1>1, <2>1 DEF DeviceInv
<1> QED
  BY Zenon, <1>3, <1>4, <1>5, <1>6, <1>7, <1>8, <1>9, <1>11, <1>12, <1>13, <1>14, <1>15,
     <1>16 DEF Next

\* The steps of the kernel, of clients and of a poll.
LEMMA ProcessKept ==
    ASSUME ProcessInv, UNCHANGED <<phase, fds, live, g_ctx, twice, failed_at>>,
           phase = "polling" \/ count' = count \/ count' = 0
    PROVE  ProcessInv'
<1>1. UNCHANGED <<phase, fds, live, ptrs, chardev_fd, poller, twice, failed_at>>
  BY Zenon DEF g_ctx
<1>2. FailedInv' = FailedInv /\ EndingInv' = EndingInv
  BY <1>1 DEF FailedInv, EndingInv, Holds
<1>3. PhaseInv'
  BY Zenon, <1>1, <1>2 DEF ProcessInv, PhaseInv, Holds
<1> QED
  BY Zenon, <1>1, <1>3 DEF ProcessInv, ShutdownReleasesOnce

LEMMA NextProcessInv == ProcessInv /\ [Next]_vars => ProcessInv'
<1> SUFFICES ASSUME ProcessInv, [Next]_vars PROVE ProcessInv'
  OBVIOUS
<1>1. CASE UNCHANGED process
  BY Zenon, <1>1, ProcessKept DEF process
<1>2. ASSUME \/ AllocTokenRing \/ AllocRespRing \/ NoRespRing
             \/ MiscRegister \/ MiscRegisterFails \/ KllmExit
             \/ \E c \in Clients : ClientOpens(c) \/ ClientMaps(c) \/ ClientCloses(c)
                                       \/ ClientUnmaps(c)
             \/ \E c \in Clients, size \in WriteSizes : KllmWrite(c, size)
             \/ UNCHANGED vars
      PROVE  UNCHANGED process
  BY Zenon, <1>2 DEF AllocTokenRing, AllocRespRing, NoRespRing, MiscRegister,
                     MiscRegisterFails, KllmExit, ClientOpens, ClientMaps, ClientCloses,
                     ClientUnmaps, KllmWrite, vars
<1>3. CASE PollLoad
  <2>1. phase = "polling"
    BY Zenon, <1>3 DEF PollLoad, ProcessInv
  <2> QED
    BY Zenon, <1>3, <2>1, ProcessKept DEF PollLoad
<1>4. CASE PollTake
  BY Zenon, <1>4, ProcessKept DEF PollTake
<1>5. CASE PollDispatch
  BY Zenon, <1>5, ProcessKept DEF PollDispatch
<1> USE DEF ProcessInv, PhaseInv, Holds, g_ctx, ShutdownReleasesOnce
<1>6. CASE Launch
  BY <1>6 DEF Launch
<1>7. CASE OpenDevice
  BY <1>7 DEF OpenDevice
<1>8. CASE OpenDeviceFails
  BY <1>8 DEF OpenDeviceFails, FailedInv
<1>9. CASE MapTokenRing
  BY <1>9 DEF MapTokenRing
<1>10. CASE MapTokenRingFails
  BY <1>10 DEF MapTokenRingFails, FailedInv
<1>11. CASE InitKvcache
  BY <1>11 DEF InitKvcache, Objects
<1>12. ASSUME NEW failing \in CacheObjects, InitKvcacheFails(failing) PROVE ProcessInv'
  BY <1>12 DEF InitKvcacheFails, FailedInv
<1>13. CASE RegisterPoller
  BY <1>13 DEF RegisterPoller
<1>14. CASE RegisterPollerFails
  BY <1>14 DEF RegisterPollerFails, FailedInv
<1>15. CASE Shutdown
  BY <1>15 DEF Shutdown, FailedInv, EndingInv, Objects, CacheObjects
<1>16. CASE ShutdownUnmap
  BY <1>16 DEF ShutdownUnmap, EndingInv
<1>17. CASE ShutdownClose
  BY <1>17 DEF ShutdownClose, EndingInv
<1>18. CASE Exit \/ Kill
  <2>1. /\ phase' = "off" /\ fds' = {} /\ live' = {} /\ ptrs' = {}
        /\ chardev_fd' = "stdin" /\ poller' = FALSE
        /\ count' = 0 /\ twice' = {} /\ failed_at' = "none"
    BY Zenon, <1>18 DEF Exit, Kill, ProcessGone
  <2> QED
    BY <2>1
<1> HIDE DEF ProcessInv
<1> QED
  BY Zenon, <1>1, <1>2, <1>3, <1>4, <1>5, <1>6, <1>7, <1>8, <1>9, <1>10, <1>11, <1>12,
     <1>13, <1>14, <1>15, <1>16, <1>17, <1>18 DEF Next

LEMMA NextLifeInv == LifeInv /\ [Next]_vars => LifeInv'
BY Zenon, NextDeviceInv, NextProcessInv DEF LifeInv

-----------------------------------------------------------------------------

(* The module and its memory outlast every client and every reactor that   *)
(* has the device open or its ring mapped, in whatever order they unmap    *)
(* and close (llm_prompt.c, .owner), and a kllm_init that failed or was    *)
(* undone by kllm_exit keeps nothing.                                      *)
THEOREM ModuleOutlivesUsers == Spec => []DeviceOutlivesUsers
<1>1. LifeInv => DeviceOutlivesUsers
  BY DEF LifeInv, DeviceInv, DeviceOutlivesUsers
<1> QED
  BY <1>1, InitLifeInv, NextLifeInv, PTL DEF Spec

(* Whenever kllm_ring_poll may run, the ring, the index and the policy it  *)
(* follows without a test exist: kllm_reactor_start registers the poller   *)
(* last and kllm_reactor_shutdown unregisters it first.                    *)
THEOREM PollerSafe == Spec => []PollerUsesLiveObjects
<1>1. LifeInv => PollerUsesLiveObjects
  <2> SUFFICES ASSUME LifeInv, poller \/ count > 0
               PROVE  Objects \subseteq live /\ "ring_page" \in kmem
    BY DEF PollerUsesLiveObjects
  <2>1. phase = "polling"
    BY DEF LifeInv, ProcessInv
  <2> QED
    BY <2>1 DEF LifeInv, ProcessInv, PhaseInv, Holds, DeviceInv, Objects
<1> QED
  BY <1>1, InitLifeInv, NextLifeInv, PTL DEF Spec

(* kllm_reactor_shutdown leaves nothing of the device or the cache behind  *)
(* after any start, complete or not, and frees nothing twice except after  *)
(* a failed kllm_init_kvcache.                                             *)
THEOREM ShutdownComplete == Spec => []ShutdownReleasesOnce
<1>1. LifeInv => ShutdownReleasesOnce
  BY DEF LifeInv, ProcessInv
<1> QED
  BY <1>1, InitLifeInv, NextLifeInv, PTL DEF Spec

-----------------------------------------------------------------------------
(* The order of the tokens, across polls, kills and restarts.              *)

\* The batch a poll has decided on is in the ring, and a batch that is not
\* full was all there was: what a client puts behind it is another prompt.
LoadedInv ==
    count > 0 /\ batch = <<>> =>
        /\ count <= Len(queue)
        /\ count < PollBatch /\ count < Len(queue) => queue[count] # queue[count + 1]

OrderInv ==
    /\ queue \in Seq(Nat) /\ taken \in Seq(Nat) /\ written \in Seq(Nat)
    /\ batch \in Seq(Nat) /\ Len(batch) <= PollBatch
    /\ count \in 0..PollBatch /\ (batch # <<>> => count > 0)
    /\ lost \in Nat /\ killed \in Nat /\ lost <= killed * PollBatch
    /\ taken \o queue = written
    /\ short_ends \subseteq 1..Len(taken)
    /\ \A i \in short_ends : i < Len(written) => written[i] # written[i + 1]
    /\ LoadedInv
    /\ kpc # "registered" => queue = <<>>

-----------------------------------------------------------------------------

LEMMA InitOrderInv == Init => OrderInv
BY ReactorAssumption DEF Init, OrderInv, LoadedInv

\* A client puts tokens of a prompt that no token in the ring belongs to.
LEMMA WriteKeepsOrder ==
    ASSUME LifeInv, OrderInv, NEW c \in Clients, NEW size \in WriteSizes,
           KllmWrite(c, size)
    PROVE  OrderInv'
<1>0. /\ queue \in Seq(Nat) /\ taken \in Seq(Nat) /\ written \in Seq(Nat)
      /\ taken \o queue = written
  BY DEF OrderInv
<1>1. Prompts \in Nat /\ (Len(written) > 0 => Prompts = written[Len(written)])
  BY <1>0 DEF Prompts
<1>2. PICK n \in 1..size :
          LET room == Capacity - Len(queue)
              put == [i \in 1..(IF n < room THEN n ELSE room) |-> Prompts + 1]
          IN /\ put # <<>> /\ queue' = queue \o put /\ written' = written \o put
  BY Zenon DEF KllmWrite
<1> DEFINE room == Capacity - Len(queue)
           put == [i \in 1..(IF n < room THEN n ELSE room) |-> Prompts + 1]
<1>3. room \in Int /\ n \in Int
  BY <1>0, RingSlotsAssumption DEF Capacity
<1>4. put \in Seq(Nat) /\ put # <<>> /\ \A i \in 1..Len(put) : put[i] = Prompts + 1
  <2> DEFINE k == IF n < room THEN n ELSE room
  <2>1. k \in Int
    BY <1>3
  <2> HIDE DEF k
  <2>2. [i \in 1..k |-> Prompts + 1] \in Seq(Nat)
    BY <1>1, <2>1
  <2> QED
    BY <1>2, <2>1, <2>2 DEF k
<1>5. queue' = queue \o put /\ written' = written \o put
  BY <1>2
<1> HIDE DEF put, room
<1>6. kpc = "registered" /\ kpc' = kpc
  BY DEF KllmWrite, LifeInv, DeviceInv, kernel
<1>7. UNCHANGED <<taken, short_ends, lost, killed, count, batch>>
  BY DEF KllmWrite, process
<1>8. Joined(queue, put, queue') /\ Joined(written, put, written')
  BY Zenon, <1>0, <1>4, <1>5, JoinIs
<1>9. Joined(taken, queue, written)
  BY Zenon, <1>0, JoinIs
<1>10. (taken \o queue = written)'
  BY ZenonT(30), <1>0, <1>4, <1>5, <1>7, JoinTwice
<1>11. /\ Len(queue) \in Nat /\ Len(written) \in Nat /\ Len(taken) \in Nat
       /\ Len(put) \in Nat /\ Len(taken) <= Len(written)
  BY <1>8, <1>9 DEF Joined
<1>12. ASSUME NEW i \in short_ends, i < Len(written')
       PROVE  written'[i] # written'[i + 1]
  <2>1. i \in 1..Len(taken) /\ (i < Len(written) => written[i] # written[i + 1])
    BY <1>12 DEF OrderInv
  <2>2. i \in 1..Len(written)
    BY <1>11, <2>1
  <2>3. /\ written'[i] = written[i]
        /\ i < Len(written) => written'[i + 1] = written[i + 1]
        /\ i = Len(written) => 1 \in 1..Len(put) /\ written'[i + 1] = put[1]
    BY <1>8, <1>12, <2>2, JoinedNext
  <2>4. CASE i < Len(written)
    BY <2>1, <2>3, <2>4
  <2>5. CASE i = Len(written)
    BY <1>1, <1>4, <2>2, <2>3, <2>5
  <2> QED
    BY <1>11, <2>2, <2>4, <2>5
<1>13. LoadedInv'
  <2> SUFFICES ASSUME count > 0, batch = <<>>
               PROVE  /\ count <= Len(queue')
                      /\ count < PollBatch /\ count < Len(queue')
                             => queue'[count] # queue'[count + 1]
    BY <1>7 DEF LoadedInv
  <2>1. LoadedInv /\ count \in Nat
    BY ReactorAssumption DEF OrderInv
  <2>2. /\ count \in 1..Len(queue)
        /\ count < PollBatch /\ count < Len(queue) => queue[count] # queue[count + 1]
    BY <1>11, <2>1 DEF LoadedInv
  <2>3. /\ queue'[count] = queue[count] /\ count <= Len(queue')
        /\ count < Len(queue) => queue'[count + 1] = queue[count + 1]
        /\ count = Len(queue) /\ count < Len(queue') =>
               1 \in 1..Len(put) /\ queue'[count + 1] = put[1]
    BY <1>8, <2>2, JoinedNext
  <2>4. ASSUME count < Len(queue), count < PollBatch
        PROVE  queue'[count] # queue'[count + 1]
    BY <2>2, <2>3, <2>4
  <2>5. ASSUME count = Len(queue), count < Len(queue')
        PROVE  queue'[count] # queue'[count + 1]
    <3>1. Len(queue) > 0 /\ Len(written) = Len(taken) + Len(queue)
      BY <1>9, <1>11, <2>2, <2>5 DEF Joined
    <3>2. queue[count] = written[Len(written)] /\ Len(written) > 0
      BY <1>9, <1>11, <2>5, <3>1, JoinedLast
    <3> QED
      BY <1>1, <1>4, <2>3, <2>5, <3>2
  <2>6. count < Len(queue) \/ count = Len(queue)
    BY <1>11, <2>2
  <2> QED
    BY <2>3, <2>4, <2>5, <2>6
<1>14. queue' \in Seq(Nat) /\ written' \in Seq(Nat)
  BY <1>8 DEF Joined
<1> QED
  BY <1>6, <1>7, <1>10, <1>12, <1>13, <1>14 DEF OrderInv

\* kllm_ring_consume_batch moves the front of the ring to the poller.
LEMMA TakeKeepsOrder ==
    ASSUME OrderInv, PollTake
    PROVE  OrderInv'
<1>0. /\ queue \in Seq(Nat) /\ taken \in Seq(Nat) /\ written \in Seq(Nat)
      /\ taken \o queue = written /\ LoadedInv
      /\ count > 0 /\ batch = <<>> /\ count \in 1..PollBatch /\ PollBatch \in Nat
  BY ReactorAssumption DEF OrderInv, PollTake
<1>1. /\ count \in 0..Len(queue) /\ count \in Nat
      /\ count < PollBatch /\ count < Len(queue) => queue[count] # queue[count + 1]
  BY <1>0 DEF LoadedInv
<1>2. /\ batch' = SubSeq(queue, 1, count)
      /\ queue' = SubSeq(queue, count + 1, Len(queue))
      /\ taken' = taken \o batch'
      /\ short_ends' = IF count < PollBatch THEN short_ends \cup {Len(taken')}
                                            ELSE short_ends
      /\ UNCHANGED <<kpc, written, lost, killed, count>>
  BY DEF PollTake, kernel
<1>3. Joined(batch', queue', queue) /\ Len(batch') = count
  BY Zenon, <1>0, <1>1, <1>2, CutIs
<1>4. batch' \in Seq(Nat) /\ queue' \in Seq(Nat)
  BY <1>3 DEF Joined
<1>5. Joined(taken, batch', taken') /\ Joined(taken, queue, written)
  BY Zenon, <1>0, <1>2, <1>4, JoinIs
<1>6. taken' \o queue' = written
  <2>1. batch' \o queue' = queue
    BY <1>3, JoinedIs
  <2>2. taken \o (batch' \o queue') = (taken \o batch') \o queue'
    BY ZenonT(30), <1>0, <1>4, JoinTwice
  <2> QED
    BY <1>0, <1>2, <2>1, <2>2
<1>7. taken' \in Seq(Nat)
  BY <1>5 DEF Joined
<1>8. /\ Len(taken) \in Nat /\ Len(queue) \in Nat /\ Len(taken') = Len(taken) + count
      /\ Len(written) = Len(taken) + Len(queue)
  BY Zenon, <1>3, <1>5 DEF Joined
<1>9. short_ends' \subseteq 1..Len(taken')
  <2>1. short_ends \subseteq 1..Len(taken)
    BY DEF OrderInv
  <2>2. Len(taken') \in 1..Len(taken') /\ \A i \in 1..Len(taken) : i \in 1..Len(taken')
    BY <1>0, <1>8
  <2> QED
    BY Zenon, <1>2, <2>1, <2>2
<1>10. ASSUME NEW i \in short_ends', i < Len(written)
       PROVE  written[i] # written[i + 1]
  <2>1. CASE i \in short_ends
    BY <1>10, <2>1 DEF OrderInv
  <2>2. CASE count < PollBatch /\ i = Len(taken')
    <3>1. count \in 1..Len(queue) /\ count + 1 \in 1..Len(queue)
      BY <1>0, <1>1, <1>8, <1>10, <2>2
    <3>2. i = Len(taken) + count /\ i + 1 = Len(taken) + (count + 1)
      BY <1>1, <1>8, <2>2
    <3>3. written[i] = queue[count] /\ written[i + 1] = queue[count + 1]
      BY <1>5, <3>1, <3>2, JoinedRest
    <3> QED
      BY <1>1, <1>8, <2>2, <3>1, <3>3
  <2> QED
    BY Zenon, <1>2, <2>1, <2>2
<1>11. LoadedInv'
  <2>1. Len(batch') > 0
    BY <1>0, <1>3
  <2>2. batch' # <<>>
    BY <2>1
  <2> QED
    BY <2>2 DEF LoadedInv
<1>12. /\ lost \in Nat /\ killed \in Nat /\ lost <= killed * PollBatch
       /\ kpc # "registered" => queue = <<>>
  BY DEF OrderInv
<1>13. kpc = "registered"
  BY <1>0, <1>1, <1>12
<1> QED
  <2>1. /\ count' \in 0..PollBatch /\ (batch' # <<>> => count' > 0)
        /\ Len(batch') <= PollBatch /\ lost' <= killed' * PollBatch
        /\ kpc' = "registered" /\ lost' \in Nat /\ killed' \in Nat
    BY <1>0, <1>2, <1>3, <1>12, <1>13
  <2>2. (\A i \in short_ends : i < Len(written) => written[i] # written[i + 1])'
    BY Zenon, <1>2, <1>10
  <2> QED
    BY Zenon, <1>0, <1>2, <1>4, <1>6, <1>7, <1>9, <1>11, <2>1, <2>2 DEF OrderInv

LEMMA NoBatch ==
    ASSUME count' = 0, batch' = <<>>
    PROVE  /\ (batch \in Seq(Nat) /\ Len(batch) <= PollBatch)'
           /\ (count \in 0..PollBatch /\ (batch # <<>> => count > 0))'
           /\ LoadedInv'
<1>1. PollBatch \in Nat /\ <<>> \in Seq(Nat) /\ Len(<<>>) = 0
  BY ReactorAssumption
<1> QED
  BY <1>1 DEF LoadedInv

\* The end of a process gives up the batch it has taken, and no more.
LEMMA GoneKeepsOrder ==
    ASSUME OrderInv, Exit \/ Kill
    PROVE  OrderInv'
<1>1. /\ count' = 0 /\ batch' = <<>>
      /\ UNCHANGED <<kpc, queue, written, taken, short_ends>>
  BY Zenon DEF Exit, Kill, ProcessGone, kernel
<1>2. lost' \in Nat /\ killed' \in Nat /\ lost' <= killed' * PollBatch
  <2>0. /\ lost \in Nat /\ killed \in Nat /\ lost <= killed * PollBatch
        /\ Len(batch) \in Nat /\ Len(batch) <= PollBatch /\ PollBatch \in Nat
    BY ReactorAssumption DEF OrderInv
  <2>1. CASE Exit
    BY <2>0, <2>1 DEF Exit
  <2>2. CASE Kill
    <3>1. killed' = killed + 1 /\ lost' = lost + Len(batch)
      BY <2>2 DEF Kill
    <3>2. (killed + 1) * PollBatch = killed * PollBatch + PollBatch
      BY <2>0
    <3>3. killed * PollBatch \in Nat
      BY <2>0
    <3> QED
      BY <2>0, <3>1, <3>2, <3>3
  <2> QED
    BY Zenon, <2>1, <2>2
<1> QED
  BY Zenon, <1>1, <1>2, NoBatch DEF OrderInv

\* The other steps of the process leave the tokens alone.
LEMMA OthersKeepOrder ==
    ASSUME OrderInv,
           \/ AllocRespRing \/ MiscRegister
           \/ \E c \in Clients : ClientOpens(c) \/ ClientMaps(c) \/ ClientCloses(c)
                                    \/ ClientUnmaps(c)
           \/ Launch \/ OpenDevice \/ OpenDeviceFails \/ MapTokenRing \/ MapTokenRingFails \/ InitKvcache
           \/ \E failing \in CacheObjects : InitKvcacheFails(failing)
           \/ RegisterPoller \/ RegisterPollerFails \/ Shutdown \/ ShutdownUnmap \/ ShutdownClose
           \/ UNCHANGED vars
    PROVE  OrderInv'
<1>1. UNCHANGED <<queue, taken, written, short_ends, lost, killed, count, batch>>
  BY Zenon DEF AllocRespRing, MiscRegister, ClientOpens, ClientMaps, ClientCloses,
         ClientUnmaps, Launch, OpenDevice, OpenDeviceFails, MapTokenRing,
         MapTokenRingFails, InitKvcache, InitKvcacheFails, RegisterPoller,
         RegisterPollerFails, Shutdown, ShutdownUnmap, ShutdownClose, vars, process, history, g_ctx, kernel
<1>2. kpc' # "registered" => kpc # "registered"
  BY Zenon DEF AllocRespRing, MiscRegister, ClientOpens, ClientMaps, ClientCloses,
         ClientUnmaps, Launch, OpenDevice, OpenDeviceFails, MapTokenRing,
         MapTokenRingFails, InitKvcache, InitKvcacheFails, RegisterPoller,
         RegisterPollerFails, Shutdown, ShutdownUnmap, ShutdownClose, vars, kernel
<1> QED
  BY Zenon, <1>1, <1>2 DEF OrderInv, LoadedInv

LEMMA NextOrderInv == LifeInv /\ OrderInv /\ [Next]_vars => OrderInv'
<1> SUFFICES ASSUME LifeInv, OrderInv, [Next]_vars PROVE OrderInv'
  OBVIOUS
<1>1. CASE AllocTokenRing \/ NoRespRing \/ MiscRegisterFails
  <2>1. /\ queue = <<>> /\ queue' = queue
        /\ UNCHANGED <<taken, written, short_ends, lost, killed, count, batch>>
    BY <1>1 DEF AllocTokenRing, NoRespRing, MiscRegisterFails, OrderInv, process, history
  <2> QED
    BY <2>1 DEF OrderInv, LoadedInv
<1>2. CASE KllmExit
  <2>1. /\ queue' = <<>> /\ written' = taken
        /\ UNCHANGED <<taken, short_ends, lost, killed, count, batch>>
    BY <1>2 DEF KllmExit, process
  <2>2. count = 0
    <3>1. "ring" \notin live
      BY <1>2 DEF KllmExit, LifeInv, DeviceInv
    <3> QED
      BY <3>1 DEF LifeInv, ProcessInv, PhaseInv, Holds, Objects
  <2>3. taken \in Seq(Nat) /\ queue \in Seq(Nat) /\ taken \o queue = written
    BY DEF OrderInv
  <2>4. Joined(taken, queue, written)
    BY Zenon, <2>3, JoinIs
  <2>5. taken \o <<>> = taken
    BY <2>3
  <2>6. ASSUME NEW i \in short_ends, i < Len(taken) PROVE taken[i] # taken[i + 1]
    <3>1. i \in 1..Len(taken)
      BY DEF OrderInv
    <3>2. i < Len(written) /\ written[i] = taken[i] /\ written[i + 1] = taken[i + 1]
      BY <2>4, <2>6, <3>1, JoinedNext
    <3> QED
      BY <3>2 DEF OrderInv
  <2>7. LoadedInv'
    BY <2>1, <2>2 DEF LoadedInv
  <2> QED
    BY <2>1, <2>2, <2>3, <2>5, <2>6, <2>7 DEF OrderInv
<1>3. ASSUME NEW c \in Clients, NEW size \in WriteSizes, KllmWrite(c, size)
      PROVE  OrderInv'
  BY <1>3, WriteKeepsOrder
<1>4. CASE PollLoad
  <2>1. /\ count = 0 /\ count' = BatchCount(Len(queue)) /\ count' > 0
        /\ UNCHANGED <<kpc, queue, batch, taken, written, short_ends, lost, killed>>
    BY <1>4 DEF PollLoad, kernel, history
  <2>2. Len(queue) \in Nat /\ PollBatch \in Nat /\ batch = <<>>
    BY <2>1, ReactorAssumption DEF OrderInv
  <2>3. /\ count' \in 0..PollBatch /\ count' <= Len(queue)
        /\ count' < PollBatch => count' = Len(queue)
    BY <2>1, <2>2 DEF BatchCount
  <2>4. LoadedInv'
    BY <2>1, <2>2, <2>3 DEF LoadedInv
  <2>5. batch' # <<>> => count' > 0
    BY <2>1
  <2> QED
    BY Zenon, <2>1, <2>3, <2>4, <2>5 DEF OrderInv
<1>5. CASE PollTake
  BY <1>5, TakeKeepsOrder
<1>6. CASE PollDispatch
  <2>1. /\ count' = 0 /\ batch' = <<>>
        /\ UNCHANGED <<kpc, queue, taken, written, short_ends, lost, killed>>
    BY <1>6 DEF PollDispatch, kernel, history
  <2>2. /\ batch' \in Seq(Nat) /\ Len(batch') <= PollBatch /\ count' \in 0..PollBatch
        /\ LoadedInv'
    BY <2>1, NoBatch
  <2> QED
    BY Zenon, <2>1, <2>2 DEF OrderInv
<1>7. CASE Exit \/ Kill
  BY <1>7, GoneKeepsOrder
<1> QED
  BY <1>1, <1>2, <1>3, <1>4, <1>5, <1>6, <1>7, OthersKeepOrder DEF Next

(* Whatever the interleaving of writes, polls, kills, restarts and loads   *)
(* of the module, every token put into the ring is taken once and in       *)
(* order, because tail lives in the module's page; at most a batch is lost *)
(* with each process that is killed.                                       *)
THEOREM RingOutlivesReactor == Spec => []TakenOnceInOrder
<1>1. OrderInv => TakenOnceInOrder
  BY DEF OrderInv, TakenOnceInOrder
<1> QED
  BY <1>1, InitLifeInv, NextLifeInv, InitOrderInv, NextOrderInv, PTL DEF Spec

(* kllm_ring_consume_batch splits a prompt only behind a full batch, for   *)
(* every KLLM_POLL_BATCH and although writes land between its load of head *)
(* and its store of tail.                                                  *)
THEOREM ShortBatchesArePrompts == Spec => []ShortBatchEndsPrompt
<1>1. OrderInv => ShortBatchEndsPrompt
  <2> SUFFICES ASSUME OrderInv, NEW i \in short_ends, i < Len(taken)
               PROVE  taken[i] # taken[i + 1]
    BY DEF ShortBatchEndsPrompt
  <2>1. Joined(taken, queue, written) /\ i \in 1..Len(taken)
    BY Zenon, JoinIs DEF OrderInv
  <2>2. i < Len(written) /\ written[i] = taken[i] /\ written[i + 1] = taken[i + 1]
    BY <2>1, JoinedNext
  <2> QED
    BY <2>2 DEF OrderInv
<1> QED
  BY <1>1, InitLifeInv, NextLifeInv, InitOrderInv, NextOrderInv, PTL DEF Spec

INSTANCE FiniteSetTheorems
INSTANCE WellFoundedInduction

LEMMA SlotCountsHold == SlotCounts /\ Cardinality(Slots) = MaxRequests
<1>1. MaxRequests \in Nat \ {0}
  BY PoolAssumption
<1>2. IsFiniteSet(Slots) /\ Cardinality(Slots) = MaxRequests
  <2>1. 0 \in Int /\ MaxRequests - 1 \in Int /\ ~(0 > MaxRequests - 1)
    BY <1>1
  <2>2. IsFiniteSet(0 .. MaxRequests - 1)
        /\ Cardinality(0 .. MaxRequests - 1) = (MaxRequests - 1) - 0 + 1
    BY <2>1, FS_Interval
  <2> QED
    BY <1>1, <2>2 DEF Slots
<1>3. ASSUME NEW S \in SUBSET Slots
      PROVE  IsFiniteSet(S) /\ Cardinality(S) \in Nat
  BY <1>2, FS_Subset, FS_CardinalityType
<1>4. ASSUME NEW S \in SUBSET Slots, NEW i \in Slots \ S
      PROVE  Cardinality(S \cup {i}) = Cardinality(S) + 1
  BY <1>3, FS_AddElement
<1>5. ASSUME NEW S \in SUBSET Slots, NEW T \in SUBSET S
      PROVE  Cardinality(S \ T) = Cardinality(S) - Cardinality(T)
  <2>1. S \cap T = T
    OBVIOUS
  <2>2. IsFiniteSet(S)
    BY <1>3
  <2>3. Cardinality(S \ T) = Cardinality(S) - Cardinality(S \cap T)
    BY <2>2, FS_Difference
  <2> QED
    BY Zenon, <2>1, <2>3
<1>6. ASSUME NEW S \in SUBSET Slots, S # {}
      PROVE  \E x \in S : \A y \in S : x <= y
  <2>0. S \subseteq Nat
    BY <1>1 DEF Slots
  <2>1. \E x \in S : \A y \in S : ~(<<y, x>> \in OpToRel(<, Nat))
    BY Zenon, <1>6, <2>0, NatLessThanWellFounded, WFMin
  <2>2. \A x, y \in Nat : y < x => <<y, x>> \in OpToRel(<, Nat)
    BY DEF OpToRel
  <2>3. \A x, y \in S : x \in Nat /\ y \in Nat /\ (~(y < x) => x <= y)
    BY <2>0
  <2> QED
    BY Zenon, <2>1, <2>2, <2>3
<1>7. Cardinality({}) = 0
  BY FS_EmptySet
<1> QED
  BY Zenon, <1>2, <1>3, <1>4, <1>5, <1>6, <1>7 DEF SlotCounts

LEMMA BatchAlways ==
    ASSUME MaxSubmits < IdLimit
    PROVE  BatchSpec => []BatchInv
<1>1. BatchInit => BatchInv
  BY InitBatchInv, SlotCountsHold
<1>2. BatchInv /\ [BatchNext]_batch_vars => BatchInv'
  BY NextBatchInv, SlotCountsHold
<1> QED
  BY <1>1, <1>2, PTL DEF BatchSpec

(* active_count is the number of requests in the pool, as long as the      *)
(* 32-bit counter of ids has not come round to 0, the id of a free slot.   *)
THEOREM ActiveCountIsExact ==
    ASSUME MaxSubmits < IdLimit
    PROVE  BatchSpec => []ActiveIsExact
<1>1. BatchInv => ActiveIsExact
  BY DEF BatchInv, PoolInv, ActiveIsExact
<1> QED
  BY <1>1, BatchAlways, PTL

(* Each request sends at most one end of sequence, as its last word, and   *)
(* leaves the pool without one only when inference has failed it, however  *)
(* slots are reused between calls of kllm_batch_step.                      *)
THEOREM RequestsEndOnce ==
    ASSUME MaxSubmits < IdLimit
    PROVE  BatchSpec => []EndIsSignalled
<1>1. BatchInv => EndIsSignalled
  BY DEF BatchInv, OutputInv, EndIsSignalled, EosLast, NoEos
<1> QED
  BY <1>1, BatchAlways, PTL

(* Had kllm_batch_create left its slots DONE, as find_free_slot expects    *)
(* them, a pool that is not full would always have a slot to give.         *)
THEOREM DonePoolHasSlot ==
    ASSUME MaxSubmits < IdLimit, FreshPhase = "DONE"
    PROVE  BatchSpec => []PoolNotFullHasSlot
<1>1. BatchInit => FreeAreDone
  BY DEF BatchInit, FreeAreDone
<1>2. BatchInv /\ FreeAreDone /\ [BatchNext]_batch_vars => FreeAreDone'
  BY NextFree, SlotCountsHold
<1>3. BatchInv /\ FreeAreDone => PoolNotFullHasSlot
  <2> SUFFICES ASSUME BatchInv, FreeAreDone, active_count < MaxRequests
               PROVE  FreeSlots # {}
    BY DEF PoolNotFullHasSlot
  <2>1. Busy # Slots /\ Busy \subseteq Slots
    <3>1. active_count # Cardinality(Slots) /\ active_count = Cardinality(Busy)
      BY SlotCountsHold, PoolAssumption DEF BatchInv, PoolInv
    <3>2. Busy \subseteq Slots
      BY DEF Busy
    <3> QED
      BY Zenon, <3>1, <3>2
  <2> QED
    BY <2>1 DEF FreeAreDone, FreeSlots
<1> QED
  BY <1>1, <1>2, <1>3, BatchAlways, PTL DEF BatchSpec
=============================================================================
