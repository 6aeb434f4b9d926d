-------------------------- MODULE ResponseRingProofs --------------------------
(***************************************************************************)
(* Proofs about the response ring of the prompt device with one reader,    *)
(* for every ring size and every pattern of calls, faults and signals.     *)
(*                                                                         *)
(* kllm_read decides under the lock how much to copy, and copies after it  *)
(* dropped the lock.  ReadInv says what keeps that right: the words it     *)
(* decided on stay readable, because nobody else moves resp_tail and the   *)
(* producer stores outside them.                                           *)
(***************************************************************************)
EXTENDS ResponseRing, OperatorProofs

\* The limit of every SMT step, in seconds.
USE SMTT(60)

USE SlotCountAssumption

Labels == {"idle", "wait", "sleep", "lock", "start", "copy"}

ReadInv(r) ==
    /\ rpc[r] \in {"wait", "sleep", "lock"} => want[r] >= 1
    /\ rpc[r] = "lock" => resp_ring_count >= 1
    /\ rpc[r] \in {"start", "copy"} => to_copy[r] \in 1..resp_ring_count
    /\ rpc[r] = "start" => first[r] = FirstPiece(to_copy[r])
    /\ rpc[r] # "copy" => buf[r] = <<>>
    /\ rpc[r] = "copy" =>
          /\ Len(buf[r]) + Len(todo[r]) = to_copy[r]
          /\ \A i \in 1..Len(todo[r]) :
                todo[r][i] = Wrap(resp_tail + (Len(buf[r]) + i - 1))
          /\ \A i \in 1..Len(buf[r]) : buf[r][i] = resp_ring[Wrap(resp_tail + (i - 1))]

RespInv ==
    /\ TypeOK
    /\ \A r \in Readers : ReadInv(r)
    /\ InOrder

\* CIRC_SPACE: one slot always stays free.
LEMMA SpaceLeft ==
    ASSUME NEW h \in Index, NEW t \in Index, Available(t, h + 1) > 0
    PROVE  Available(h, t) + 1 <= SlotCount - 1
<1>1. h \in 0 .. SlotCount - 1 /\ t \in 0 .. SlotCount - 1
  BY DEF Index
<1>2. Available(h, t) = IF h >= t THEN h - t ELSE h - t + SlotCount
  BY AvailableValue
<1>3. \A x \in 0 .. SlotCount - 1 : x % SlotCount = x
  OBVIOUS
<1>4. \A x \in (-SlotCount)..(-1) : x % SlotCount = x + SlotCount
  OBVIOUS
<1>5. Available(t, h + 1) =
          IF t >= h + 1 THEN t - (h + 1) ELSE t - (h + 1) + SlotCount
  BY <1>1, <1>3, <1>4 DEF Available, Wrap
<1> QED
  BY <1>1, <1>2, <1>5

\* The two pieces of the copy are the window from resp_tail on.
LEMMA PiecesAreWindow ==
    ASSUME resp_tail \in Index, NEW n \in 1 .. SlotCount - 1, NEW i \in 1..n
    PROVE  (IF i <= FirstPiece(n) THEN resp_tail + i - 1 ELSE i - FirstPiece(n) - 1)
               = Wrap(resp_tail + (i - 1))
<1>1. resp_tail \in 0 .. SlotCount - 1 /\ i - 1 \in 0..SlotCount
  BY DEF Index
<1>2. Wrap(resp_tail + (i - 1)) = IF resp_tail + (i - 1) < SlotCount
                                  THEN resp_tail + (i - 1)
                                  ELSE resp_tail + (i - 1) - SlotCount
  BY <1>1, WrapSum
<1> QED
  BY <1>1, <1>2 DEF FirstPiece

LEMMA ChunksType == \A c \in Chunks : c \in Seq(Tokens)
BY MaxEmitAssumption DEF Chunks, Generated

-----------------------------------------------------------------------------

LEMMA InitRespInv == Init => RespInv
<1> SUFFICES ASSUME Init PROVE RespInv
  OBVIOUS
<1>1. 0 \in Index
  BY DEF Index
<1>2. TypeOK
  <2>1. waking \in BOOLEAN
    BY Zenon DEF Init
  <2>2. resp_ring \in [Index -> Tokens]
    BY WordsAssumption DEF Init
  <2>3. 0 \in 0..MaxWords /\ NoResult \in Int
    BY MaxWordsAssumption DEF NoResult
  <2> QED
    BY <1>1, <2>1, <2>2, <2>3 DEF Init, TypeOK
<1>3. \A r \in Readers : ReadInv(r)
  BY DEF Init, ReadInv
<1>4. InOrder
  <2>1. Available(0, 0) = 0
    BY <1>1, AvailableValue
  <2>2. Contents(resp_ring, resp_tail, resp_head) = <<>>
    BY <2>1 DEF Init, Contents
  <2> QED
    BY <2>2 DEF Init, InOrder
<1> QED
  BY <1>2, <1>3, <1>4 DEF RespInv

\* The facts about types that the steps use.
LEMMA RespTypes ==
    ASSUME RespInv
    PROVE  /\ resp_ring \in [Index -> Tokens] /\ resp_head \in Index /\ resp_tail \in Index
           /\ resp_ring_count \in 0 .. SlotCount - 1
           /\ resp_ring_count = Available(resp_head, resp_tail)
           /\ pending \in Seq(Tokens) /\ stored \in Seq(Tokens) /\ received \in Seq(Tokens)
           /\ rpc \in [Readers -> Labels] /\ want \in [Readers -> 0..MaxWords]
           /\ to_copy \in [Readers -> Nat] /\ first \in [Readers -> Nat]
           /\ todo \in [Readers -> Seq(Index)] /\ buf \in [Readers -> Seq(Tokens)]
           /\ ret \in [Readers -> Int]
BY AvailableType DEF RespInv, TypeOK, resp_ring_count, Labels

\* Steps that leave the ring and the readers alone.
LEMMA OutsideStep ==
    ASSUME RespInv, UNCHANGED <<device, reader, stored, received>>, TypeOK'
    PROVE  RespInv'
BY ZenonT(30) DEF RespInv, ReadInv, InOrder, device, reader, resp_ring_count, FirstPiece

\* kllm_resp_produce stores outside the window and then makes it longer.
LEMMA ProduceStep == RespInv /\ RespProduce => RespInv'
<1> SUFFICES ASSUME RespInv, RespProduce PROVE RespInv'
  OBVIOUS
<1>1. pending \in Seq(Tokens) /\ pending # <<>>
  BY RespTypes DEF RespProduce
<1>2. Tail(pending) \in Seq(Tokens) /\ Head(pending) \in Tokens
  BY <1>1, TailSeq
<1>3. CASE ~(resp_ring_space > 0)
  <2>1. UNCHANGED <<device, reader, stored, received>>
    BY <1>3 DEF RespProduce, device
  <2>2. TypeOK'
    BY <1>2, <2>1 DEF RespInv, TypeOK, RespProduce, device, reader
  <2> QED
    BY <2>1, <2>2, OutsideStep
<1>4. CASE resp_ring_space > 0
  <2> DEFINE k == resp_head
             v == Head(pending)
             c == Contents(resp_ring, resp_tail, resp_head)
  <2>1. /\ resp_ring' = [resp_ring EXCEPT ![k] = v] /\ resp_head' = NextIndex(k)
        /\ stored' = Append(stored, v) /\ pending' = Tail(pending) /\ waking' = TRUE
        /\ UNCHANGED <<resp_tail, calls, reader, received>>
    BY <1>4 DEF RespProduce
  <2>2. /\ k \in Index /\ resp_tail \in Index /\ resp_ring \in [Index -> Tokens] /\ v \in Tokens
        /\ Available(k, resp_tail) \in 0 .. SlotCount - 1
    BY <1>2, RespTypes
  <2>3. Available(k, resp_tail) + 1 <= SlotCount - 1
    BY <1>4, <2>2, SpaceLeft DEF resp_ring_space
  <2> HIDE DEF v, k
  <2>4. \A i \in 1..Available(k, resp_tail) :
            resp_ring'[Wrap(resp_tail + i - 1)] = resp_ring[Wrap(resp_tail + i - 1)]
    BY <2>1, <2>2, StoreOutside
  <2>5. resp_ring' \in [Index -> Tokens] /\ resp_ring'[k] = v
    BY <2>1, <2>2
  <2>6. Wrap(k + 0) = k /\ NextIndex(k) = Wrap(k + 1) /\ Wrap(k + 1) \in Index
    <3>1. k \in 0 .. SlotCount - 1 /\ 0 \in 0..SlotCount /\ 1 \in 0..SlotCount
      BY <2>2 DEF Index
    <3>2. Wrap(k + 0) = IF k + 0 < SlotCount THEN k + 0 ELSE k + 0 - SlotCount
      BY <2>2, <3>1, WrapSum
    <3>3. Wrap(k + 0) = k
      BY <3>1, <3>2
    <3>4. Wrap(k + 1) \in Index
      BY <2>2, <3>1, WrapType
    <3> QED
      BY <3>3, <3>4 DEF NextIndex
  <2>7. Contents(resp_ring', resp_tail, k) = c
    BY <2>4 DEF Contents, k
  <2>8. Contents(resp_ring', resp_tail, Wrap(k + 1)) = c \o <<v>>
    <3> DEFINE x == <<v>>
    <3>1. x \in Seq(Tokens) /\ Len(x) = 1 /\ x[1] = v
      BY <2>2
    <3>2. \A i \in 1..Len(x) : x[i] = resp_ring'[Wrap(k + i - 1)]
      <4>1. \A i \in 1..1 : i = 1 /\ k + i - 1 = k + 0
        BY <2>2 DEF Index
      <4> QED
        BY <2>5, <2>6, <3>1, <4>1
    <3>3. Available(k, resp_tail) + Len(x) <= SlotCount - 1
      BY <2>3, <3>1
    <3> HIDE DEF x
    <3>4. Contents(resp_ring', resp_tail, Wrap(k + Len(x)))
              = Contents(resp_ring', resp_tail, k) \o x
      BY <2>2, <2>5, <3>1, <3>2, <3>3, ContentsExtend, Zenon
    <3> QED
      BY <2>7, <3>1, <3>4 DEF x
  <2>9. InOrder'
    <3>1. c \in Seq(Tokens)
      BY <2>2, ContentsType DEF k
    <3>2. stored \in Seq(Tokens) /\ received \in Seq(Tokens) /\ <<v>> \in Seq(Tokens)
      BY <2>2, RespTypes
    <3>3. stored = received \o c
      BY DEF RespInv, InOrder
    <3> HIDE DEF c
    <3>4. Append(stored, v) = stored \o <<v>>
      BY <2>2, <3>2, AppendJoins
    <3>5. (received \o c) \o <<v>> = received \o (c \o <<v>>)
      BY <3>1, <3>2, JoinJoin
    <3> QED
      BY Zenon, <2>1, <2>6, <2>8, <3>3, <3>4, <3>5 DEF InOrder
  <2>10. Available(resp_head', resp_tail) = Available(k, resp_tail) + 1
    <3>1. Len(Contents(resp_ring', resp_tail, Wrap(k + 1))) = Available(Wrap(k + 1), resp_tail)
      BY <2>2, <2>5, <2>6, ContentsType
    <3>2. c \in Seq(Tokens) /\ Len(c) = Available(k, resp_tail)
      BY <2>2, ContentsType DEF k
    <3> HIDE DEF c
    <3>3. Len(c \o <<v>>) = Len(c) + 1
      BY <3>2, <2>2
    <3> QED
      BY Zenon, <2>1, <2>6, <2>8, <3>1, <3>2, <3>3
  <2>11. TypeOK'
    <3>1. Append(stored, v) \in Seq(Tokens)
      BY <2>2, RespTypes
    <3>2. waking' \in BOOLEAN
      BY <2>1
    <3> QED
      BY <1>2, <2>1, <2>5, <2>6, <3>1, <3>2 DEF RespInv, TypeOK, reader
  <2>12. ASSUME NEW r \in Readers PROVE ReadInv(r)'
    <3>1. ReadInv(r)
      BY DEF RespInv
    <3>2. resp_ring_count' = resp_ring_count + 1 /\ resp_ring_count \in Nat
      BY <2>1, <2>2, <2>10 DEF resp_ring_count, k
    <3>3. rpc[r] = "copy" => \A i \in 1..Len(buf[r]) :
              resp_ring'[Wrap(resp_tail + (i - 1))] = resp_ring[Wrap(resp_tail + (i - 1))]
      <4> SUFFICES ASSUME rpc[r] = "copy", NEW i \in 1..Len(buf[r])
                   PROVE  resp_ring'[Wrap(resp_tail + (i - 1))] = resp_ring[Wrap(resp_tail + (i - 1))]
        OBVIOUS
      <4>1. Len(buf[r]) \in Nat /\ Len(todo[r]) \in Nat /\ to_copy[r] \in Nat
        BY RespTypes
      <4>2. i \in 1..Available(k, resp_tail)
        <5>1. Len(buf[r]) + Len(todo[r]) = to_copy[r] /\ to_copy[r] \in 1..resp_ring_count
          BY Zenon, <3>1 DEF ReadInv
        <5>2. resp_ring_count = Available(k, resp_tail)
          BY DEF resp_ring_count, k
        <5>3. resp_ring_count \in Nat
          BY <3>2
        <5>4. i \in 1..resp_ring_count
          <6> DEFINE b == Len(buf[r])
                     t == Len(todo[r])
                     n == to_copy[r]
                     m == resp_ring_count
          <6>1. b \in Nat /\ t \in Nat /\ b + t = n /\ n \in 1..m /\ m \in Nat /\ i \in 1..b
            BY Zenon, <4>1, <5>1, <5>3
          <6> HIDE DEF b, t, n, m
          <6>2. i \in 1..m
            BY <6>1
          <6> QED
            BY <6>2 DEF m
        <5> QED
          BY <5>2, <5>4
      <4>3. resp_tail + (i - 1) = resp_tail + i - 1
        BY <2>2, <4>1 DEF Index
      <4> QED
        BY <2>4, <4>2, <4>3
    <3>4. FirstPiece(to_copy[r])' = FirstPiece(to_copy[r])
      BY <2>1 DEF FirstPiece, reader
    <3>5. rpc' = rpc /\ want' = want /\ to_copy' = to_copy /\ first' = first /\ todo' = todo
          /\ buf' = buf /\ resp_tail' = resp_tail
      BY <2>1 DEF reader
    <3>6. to_copy[r] \in 1..resp_ring_count => to_copy[r] \in 1..resp_ring_count'
      BY <3>2
    <3>7. resp_ring_count >= 1 => resp_ring_count' >= 1
      BY <3>2
    <3> QED
      BY Zenon, <3>1, <3>3, <3>4, <3>5, <3>6, <3>7 DEF ReadInv
  <2> QED
    BY <2>1, <2>9, <2>11, <2>12 DEF RespInv, reader
<1> QED
  BY <1>3, <1>4

-----------------------------------------------------------------------------
(* The steps of the one reader.                                            *)

\* A return without a word leaves the ring as it was.
LEMMA ReturnStep ==
    ASSUME NEW r, Readers = {r}, RespInv, NEW v \in Int, Return(r, v),
           UNCHANGED <<device, emitter, stored, received>>, faults' \in Nat
    PROVE  RespInv'
<1>1. /\ rpc' = [rpc EXCEPT ![r] = "idle"] /\ ret' = [ret EXCEPT ![r] = v]
      /\ want' = [want EXCEPT ![r] = 0] /\ to_copy' = [to_copy EXCEPT ![r] = 0]
      /\ first' = [first EXCEPT ![r] = 0] /\ todo' = [todo EXCEPT ![r] = <<>>]
      /\ buf' = [buf EXCEPT ![r] = <<>>]
  BY DEF Return, Goto
<1>2. TypeOK'
  <2>1. 0 \in 0..MaxWords /\ <<>> \in Seq(Index) /\ <<>> \in Seq(Tokens)
    BY MaxWordsAssumption
  <2> QED
    BY <1>1, <2>1 DEF RespInv, TypeOK, device, emitter
<1>3. ReadInv(r)'
  BY <1>1, RespTypes DEF ReadInv
<1> QED
  BY <1>2, <1>3 DEF RespInv, InOrder, device

\* A step of the read that moves on without touching the ring.
LEMMA LocalStep ==
    ASSUME NEW r, Readers = {r}, RespInv,
           UNCHANGED <<device, emitter, ret, faults, stored, received>>,
           rpc' \in [Readers -> Labels], want' \in [Readers -> 0..MaxWords],
           to_copy' \in [Readers -> Nat], first' \in [Readers -> Nat],
           todo' \in [Readers -> Seq(Index)], buf' \in [Readers -> Seq(Tokens)],
           ReadInv(r)'
    PROVE  RespInv'
<1>1. TypeOK'
  BY DEF RespInv, TypeOK, device, emitter, Labels
<1> QED
  BY <1>1 DEF RespInv, InOrder, device

LEMMA WaitSteps ==
    ASSUME NEW r, Readers = {r}, RespInv,
           \/ \E n \in 1..MaxWords : ReadCall(r, n)
           \/ Woken(r)
           \/ Sleep(r)
    PROVE  RespInv'
<1>0. ReadInv(r) /\ resp_ring_count \in Nat /\ MaxWords \in Nat
  BY RespTypes, MaxWordsAssumption DEF RespInv
<1>1. ASSUME NEW n \in 1..MaxWords, ReadCall(r, n) PROVE RespInv'
  <2>1. /\ rpc[r] = "idle" /\ want' = [want EXCEPT ![r] = n]
        /\ rpc' = [rpc EXCEPT ![r] = IF resp_ring_count = 0 THEN "wait" ELSE "lock"]
        /\ UNCHANGED <<device, emitter, to_copy, first, todo, buf, ret, faults, stored, received>>
    BY <1>1 DEF ReadCall, Goto
  <2>2. rpc' \in [Readers -> Labels] /\ want' \in [Readers -> 0..MaxWords]
    BY <1>0, <2>1, RespTypes DEF Labels
  <2>3. resp_ring_count' = resp_ring_count
    BY <2>1 DEF device, resp_ring_count
  <2>4. ReadInv(r)'
    BY <1>0, <2>1, <2>3, RespTypes DEF ReadInv
  <2> QED
    BY <2>1, <2>2, <2>4, LocalStep, RespTypes
<1>2. ASSUME Woken(r) \/ Sleep(r) PROVE RespInv'
  <2>1. /\ rpc[r] = "wait"
        /\ \/ rpc' = [rpc EXCEPT ![r] = "lock"] /\ resp_ring_count > 0
           \/ rpc' = [rpc EXCEPT ![r] = "sleep"]
        /\ UNCHANGED <<device, emitter, want, to_copy, first, todo, buf, ret, faults,
                       stored, received>>
    BY <1>2 DEF Woken, Sleep, Goto
  <2>2. rpc' \in [Readers -> Labels]
    BY <2>1, RespTypes DEF Labels
  <2>3. resp_ring_count' = resp_ring_count
    BY <2>1 DEF device, resp_ring_count
  <2>4. ReadInv(r)'
    BY <1>0, <2>1, <2>3, RespTypes DEF ReadInv
  <2> QED
    BY <2>1, <2>2, <2>4, LocalStep, RespTypes
<1> QED
  BY <1>1, <1>2

\* The first critical section and the address computation after it.
LEMMA SnapshotStep ==
    ASSUME NEW r, Readers = {r}, RespInv, Snapshot(r)
    PROVE  RespInv'
<1> DEFINE n == WordsToCopy(resp_ring_count, want[r])
<1>1. /\ rpc[r] = "lock" /\ rpc' = [rpc EXCEPT ![r] = "start"]
      /\ to_copy' = [to_copy EXCEPT ![r] = n]
      /\ first' = [first EXCEPT ![r] = FirstPiece(n)]
      /\ UNCHANGED <<device, emitter, want, todo, buf, ret, faults, stored, received>>
  BY DEF Snapshot, Goto
<1>2. ReadInv(r) /\ want[r] >= 1 /\ want[r] \in Nat /\ resp_ring_count >= 1
      /\ resp_ring_count \in 0 .. SlotCount - 1
  <2>1. ReadInv(r)
    BY DEF RespInv
  <2>2. want[r] >= 1 /\ resp_ring_count >= 1
    BY <1>1, <2>1 DEF ReadInv
  <2>3. want[r] \in Nat /\ resp_ring_count \in 0 .. SlotCount - 1
    BY RespTypes, MaxWordsAssumption
  <2> QED
    BY <2>1, <2>2, <2>3
<1>3. n \in 1..resp_ring_count
  BY <1>2 DEF WordsToCopy
<1> HIDE DEF n
<1>4. FirstPiece(n) \in Nat /\ n \in Nat
  <2>1. resp_tail \in 0 .. SlotCount - 1
    BY RespTypes DEF Index
  <2> QED
    BY <1>2, <1>3, <2>1 DEF FirstPiece
<1>5. resp_ring_count' = resp_ring_count /\ resp_tail' = resp_tail
  BY <1>1 DEF device, resp_ring_count
<1>6. to_copy'[r] = n /\ first'[r] = FirstPiece(n) /\ rpc'[r] = "start" /\ buf' = buf
  BY <1>1, RespTypes
<1>7. first'[r] = FirstPiece(to_copy[r])'
  BY <1>1, <1>6 DEF FirstPiece, device
<1>8. ReadInv(r)'
  BY Zenon, <1>1, <1>2, <1>3, <1>5, <1>6, <1>7 DEF ReadInv
<1>9. rpc' \in [Readers -> Labels] /\ to_copy' \in [Readers -> Nat] /\ first' \in [Readers -> Nat]
  BY <1>1, <1>4, RespTypes DEF Labels
<1> QED
  BY <1>1, <1>8, <1>9, LocalStep, RespTypes

LEMMA StartCopyStep ==
    ASSUME NEW r, Readers = {r}, RespInv, StartCopy(r)
    PROVE  RespInv'
<1> DEFINE n == to_copy[r]
           t == [i \in 1..n |-> IF i <= first[r] THEN resp_tail + i - 1 ELSE i - first[r] - 1]
<1>1. /\ rpc[r] = "start" /\ rpc' = [rpc EXCEPT ![r] = "copy"]
      /\ todo' = [todo EXCEPT ![r] = t]
      /\ UNCHANGED <<device, emitter, want, to_copy, first, buf, ret, faults, stored, received>>
  BY DEF StartCopy, Goto
<1>2. /\ n \in 1..resp_ring_count /\ first[r] = FirstPiece(n) /\ buf[r] = <<>>
      /\ resp_ring_count \in 0 .. SlotCount - 1 /\ resp_tail \in Index
  <2>1. ReadInv(r)
    BY DEF RespInv
  <2> QED
    BY <1>1, <2>1, RespTypes DEF ReadInv
<1>3. n \in Nat /\ n \in 1 .. SlotCount - 1
  BY <1>2
<1>4. \A i \in 1..n : t[i] = Wrap(resp_tail + (i - 1)) /\ Wrap(resp_tail + (i - 1)) \in Index
  <2> SUFFICES ASSUME NEW i \in 1..n
               PROVE  /\ t[i] = Wrap(resp_tail + (i - 1))
                      /\ Wrap(resp_tail + (i - 1)) \in Index
    OBVIOUS
  <2>1. t[i] = IF i <= FirstPiece(n) THEN resp_tail + i - 1 ELSE i - FirstPiece(n) - 1
    BY <1>2
  <2>2. i - 1 \in 0..SlotCount
    BY <1>3
  <2> QED
    BY <1>2, <1>3, <2>1, <2>2, PiecesAreWindow, WrapType
<1>5. t \in Seq(Index) /\ Len(t) = n
  <2>1. t = [i \in 1..n |-> Wrap(resp_tail + (i - 1))]
    BY Zenon, <1>4
  <2>2. t \in [1..n -> Index]
    BY Zenon, <1>4, <2>1
  <2> QED
    BY <1>3, <2>2
<1> HIDE DEF t
<1>6. /\ todo'[r] = t /\ rpc'[r] = "copy" /\ buf'[r] = <<>> /\ to_copy'[r] = n
      /\ resp_tail' = resp_tail /\ resp_ring_count' = resp_ring_count
  BY <1>1, <1>2, RespTypes DEF device, resp_ring_count
<1>7. \A i \in 1..n : t[i] = Wrap(resp_tail + (0 + i - 1))
  <2>1. \A i \in 1..n : 0 + i - 1 = i - 1
    BY <1>3
  <2> QED
    BY <1>4, <2>1
<1>8. ReadInv(r)'
  <2>1. Len(buf'[r]) = 0 /\ Len(todo'[r]) = n /\ 0 + n = n
    BY <1>3, <1>5, <1>6
  <2> QED
    BY <1>2, <1>6, <1>7, <2>1 DEF ReadInv
<1>9. rpc' \in [Readers -> Labels] /\ todo' \in [Readers -> Seq(Index)]
  BY <1>1, <1>5, RespTypes DEF Labels
<1> QED
  BY <1>1, <1>8, <1>9, LocalStep, RespTypes

\* One word is copied while the producer may run: it copies what is there.
LEMMA CopyWordStep ==
    ASSUME NEW r, Readers = {r}, RespInv, CopyWord(r)
    PROVE  RespInv'
<1> DEFINE b == buf[r]
           t == todo[r]
           i == Head(t)
           v == resp_ring[i]
<1>0. /\ rpc[r] = "copy" /\ t # <<>>
      /\ b \in Seq(Tokens) /\ t \in Seq(Index)
      /\ to_copy[r] \in 1..resp_ring_count
      /\ Len(b) + Len(t) = to_copy[r]
      /\ \A j \in 1..Len(t) : t[j] = Wrap(resp_tail + (Len(b) + j - 1))
      /\ \A j \in 1..Len(b) : b[j] = resp_ring[Wrap(resp_tail + (j - 1))]
  <2>1. ReadInv(r) /\ rpc[r] = "copy" /\ t # <<>>
    BY DEF RespInv, CopyWord
  <2> QED
    BY <2>1, RespTypes DEF ReadInv
<1>1. /\ i \in Index /\ i = t[1] /\ Tail(t) \in Seq(Index) /\ Len(t) \in Nat \ {0}
      /\ Len(Tail(t)) = Len(t) - 1
      /\ \A j \in 1..Len(Tail(t)) : Tail(t)[j] = t[j + 1]
  BY <1>0
<1>2. v \in Tokens
  BY <1>1, RespTypes
<1>3. /\ buf' = [buf EXCEPT ![r] = Append(b, v)] /\ todo' = [todo EXCEPT ![r] = Tail(t)]
      /\ UNCHANGED <<device, emitter, rpc, want, to_copy, first, ret, faults, stored, received>>
  BY <1>1 DEF CopyWord
<1> HIDE DEF v
<1>4. /\ Append(b, v) \in Seq(Tokens) /\ Len(Append(b, v)) = Len(b) + 1 /\ Len(b) \in Nat
      /\ \A j \in 1..Len(b) : Append(b, v)[j] = b[j]
      /\ Append(b, v)[Len(b) + 1] = v
  BY <1>0, <1>2, AppendSeq
<1>5. v = resp_ring[Wrap(resp_tail + ((Len(b) + 1) - 1))]
  <2>1. 1 \in 1..Len(t) /\ Len(b) + 1 - 1 = (Len(b) + 1) - 1
    BY <1>1, <1>4
  <2> QED
    BY <1>0, <1>1, <2>1 DEF v
<1>6. \A j \in 1..(Len(b) + 1) : Append(b, v)[j] = resp_ring[Wrap(resp_tail + (j - 1))]
  <2> SUFFICES ASSUME NEW j \in 1..(Len(b) + 1)
               PROVE  Append(b, v)[j] = resp_ring[Wrap(resp_tail + (j - 1))]
    OBVIOUS
  <2>1. j \in 1..Len(b) \/ j = Len(b) + 1
    BY <1>4
  <2> QED
    BY <1>0, <1>4, <1>5, <2>1
<1>7. \A j \in 1..(Len(t) - 1) : Tail(t)[j] = Wrap(resp_tail + ((Len(b) + 1) + j - 1))
  <2> SUFFICES ASSUME NEW j \in 1..(Len(t) - 1)
               PROVE  Tail(t)[j] = Wrap(resp_tail + ((Len(b) + 1) + j - 1))
    OBVIOUS
  <2>1. /\ j + 1 \in 1..Len(t) /\ Len(b) + (j + 1) - 1 = (Len(b) + 1) + j - 1
        /\ j \in 1..Len(Tail(t))
    BY <1>1, <1>4
  <2> QED
    BY <1>0, <1>1, <2>1
<1>8. /\ buf'[r] = Append(b, v) /\ todo'[r] = Tail(t) /\ rpc'[r] = "copy"
      /\ to_copy' = to_copy /\ resp_tail' = resp_tail /\ resp_ring' = resp_ring
      /\ resp_ring_count' = resp_ring_count
  BY <1>0, <1>3, RespTypes DEF device, resp_ring_count
<1>9. Len(Append(b, v)) + Len(Tail(t)) = to_copy[r]
  <2> DEFINE x == Len(b)
             y == Len(t)
             n == to_copy[r]
  <2>1. x \in Nat /\ y \in Nat /\ x + y = n
        /\ Len(Append(b, v)) = x + 1 /\ Len(Tail(t)) = y - 1
    BY Zenon, <1>0, <1>1, <1>4
  <2> HIDE DEF x, y, n
  <2>2. (x + 1) + (y - 1) = n
    BY <2>1
  <2> QED
    BY Zenon, <2>1, <2>2 DEF n
<1>10. ReadInv(r)'
  <2>1. /\ Len(buf'[r]) = Len(b) + 1 /\ Len(todo'[r]) = Len(t) - 1
        /\ Len(buf'[r]) + Len(todo'[r]) = to_copy'[r]
        /\ to_copy'[r] \in 1..resp_ring_count'
    BY Zenon, <1>0, <1>1, <1>4, <1>8, <1>9
  <2>2. /\ \A j \in 1..Len(todo'[r]) : todo'[r][j] = Wrap(resp_tail' + (Len(buf'[r]) + j - 1))
        /\ \A j \in 1..Len(buf'[r]) : buf'[r][j] = resp_ring'[Wrap(resp_tail' + (j - 1))]
    BY <1>6, <1>7, <1>8, <2>1
  <2> QED
    BY Zenon, <1>8, <2>1, <2>2 DEF ReadInv
<1>11. buf' \in [Readers -> Seq(Tokens)] /\ todo' \in [Readers -> Seq(Index)]
  BY <1>1, <1>3, <1>4, RespTypes
<1> QED
  BY <1>3, <1>10, <1>11, LocalStep, RespTypes

\* The second critical section: what was copied is what leaves the ring.
LEMMA AdvanceStep ==
    ASSUME NEW r, Readers = {r}, RespInv, Advance(r)
    PROVE  RespInv'
<1> DEFINE b == buf[r]
           c == Contents(resp_ring, resp_tail', resp_head)
<1>0. /\ resp_ring \in [Index -> Tokens] /\ resp_head \in Index /\ resp_tail \in Index
      /\ b \in Seq(Tokens) /\ received \in Seq(Tokens)
      /\ Len(b) = to_copy[r] /\ Len(b) \in 1..Available(resp_head, resp_tail)
      /\ \A j \in 1..Len(b) : b[j] = resp_ring[Wrap(resp_tail + (j - 1))]
  <2>1. ReadInv(r) /\ rpc[r] = "copy" /\ todo[r] = <<>>
    BY DEF RespInv, Advance
  <2>2. /\ Len(b) + Len(todo[r]) = to_copy[r] /\ to_copy[r] \in 1..resp_ring_count
        /\ Len(todo[r]) = 0 /\ Len(b) \in Nat
        /\ \A j \in 1..Len(b) : b[j] = resp_ring[Wrap(resp_tail + (j - 1))]
    BY <2>1, RespTypes DEF ReadInv
  <2>3. Len(b) = to_copy[r]
    BY <2>2
  <2> QED
    BY <2>2, <2>3, RespTypes
<1>1. /\ resp_tail' = Wrap(resp_tail + Len(b)) /\ received' = received \o b
      /\ Return(r, to_copy[r])
      /\ UNCHANGED <<resp_ring, resp_head, emitter, faults, stored>>
  BY <1>0 DEF Advance
<1>2. /\ rpc' = [rpc EXCEPT ![r] = "idle"] /\ ret' = [ret EXCEPT ![r] = to_copy[r]]
      /\ want' = [want EXCEPT ![r] = 0] /\ to_copy' = [to_copy EXCEPT ![r] = 0]
      /\ first' = [first EXCEPT ![r] = 0] /\ todo' = [todo EXCEPT ![r] = <<>>]
      /\ buf' = [buf EXCEPT ![r] = <<>>]
  BY <1>1 DEF Return, Goto
<1>3. resp_tail' \in Index
  <2>1. Available(resp_head, resp_tail) \in 0 .. SlotCount - 1 /\ Len(b) \in 0..SlotCount
    BY <1>0, AvailableType
  <2> QED
    BY <1>0, <1>1, <2>1, WrapType
<1> HIDE DEF b
<1>4. Contents(resp_ring, resp_tail, resp_head) = b \o c
  <2>1. Len(b) <= Available(resp_head, resp_tail)
    BY <1>0, AvailableType
  <2>2. \A j \in 1..Len(b) : b[j] = resp_ring[Wrap(resp_tail + j - 1)]
    <3>1. \A j \in 1..Len(b) : resp_tail + (j - 1) = resp_tail + j - 1
      BY <1>0 DEF Index
    <3> QED
      BY <1>0, <3>1
  <2> QED
    BY Zenon, <1>0, <1>1, <2>1, <2>2, ContentsSplit
<1>5. InOrder'
  <2>1. c \in Seq(Tokens)
    BY <1>0, <1>3, ContentsType
  <2>2. stored = received \o (b \o c)
    BY <1>4 DEF RespInv, InOrder
  <2> HIDE DEF c
  <2>3. (received \o b) \o c = received \o (b \o c)
    BY <1>0, <2>1, JoinJoin
  <2> QED
    BY <1>1, <2>2, <2>3 DEF InOrder, c
<1>6. TypeOK'
  <2>1. 0 \in 0..MaxWords /\ <<>> \in Seq(Index) /\ <<>> \in Seq(Tokens)
    BY MaxWordsAssumption
  <2>2. received \o b \in Seq(Tokens)
    BY <1>0
  <2> QED
    BY <1>1, <1>2, <1>3, <2>1, <2>2 DEF RespInv, TypeOK, emitter
<1>7. ReadInv(r)'
  BY <1>2, RespTypes DEF ReadInv
<1> QED
  BY <1>5, <1>6, <1>7 DEF RespInv

LEMMA NextRespInv ==
    ASSUME NEW r, Readers = {r}
    PROVE  RespInv /\ [Next]_vars => RespInv'
<1> SUFFICES ASSUME RespInv, [Next]_vars PROVE RespInv'
  OBVIOUS
<1>1. ASSUME NEW chunk \in Chunks, EmitTokens(chunk) PROVE RespInv'
  <2>1. TypeOK'
    BY <1>1, ChunksType DEF EmitTokens, RespInv, TypeOK, device, reader
  <2> QED
    BY <1>1, <2>1, OutsideStep DEF EmitTokens
<1>2. CASE EmitEos
  <2>1. TypeOK'
    BY <1>2, WordsAssumption DEF EmitEos, RespInv, TypeOK, device, reader
  <2> QED
    BY <1>2, <2>1, OutsideStep DEF EmitEos
<1>3. CASE RespProduce
  BY <1>3, ProduceStep
<1>4. CASE WakeReaders
  <2>1. /\ rpc' = [q \in Readers |-> IF rpc[q] = "sleep" THEN "wait" ELSE rpc[q]]
        /\ waking' = FALSE
        /\ UNCHANGED <<device, pending, calls, want, to_copy, first, todo,
                       buf, ret, faults, stored, received>>
    BY <1>4 DEF WakeReaders
  <2>2. rpc' \in [Readers -> Labels] /\ waking' \in BOOLEAN
    BY Zenon, <2>1, RespTypes DEF Labels
  <2>3. TypeOK'
    BY <2>1, <2>2 DEF RespInv, TypeOK, device, Labels
  <2>4. ReadInv(r)'
    <3>1. ReadInv(r)
      BY DEF RespInv
    <3>2. resp_ring_count' = resp_ring_count /\ resp_tail' = resp_tail
          /\ resp_ring' = resp_ring
      BY <2>1 DEF device, resp_ring_count
    <3>3. rpc'[r] = IF rpc[r] = "sleep" THEN "wait" ELSE rpc[r]
      BY <2>1
    <3> QED
      BY Zenon, <2>1, <3>1, <3>2, <3>3 DEF ReadInv, FirstPiece
  <2> QED
    BY <2>1, <2>3, <2>4 DEF RespInv, InOrder, device
<1>5. ASSUME NEW n \in 1..MaxWords, ReadCall(r, n) PROVE RespInv'
  BY <1>5, WaitSteps
<1>6. CASE InRead(r)
  BY <1>6, WaitSteps, SnapshotStep, StartCopyStep, CopyWordStep, AdvanceStep DEF InRead
<1>7. CASE ReadWouldBlock(r) \/ Interrupted(r) \/ Fault(r)
  <2>1. EAGAIN \in Int /\ ERESTARTSYS \in Int /\ EFAULT \in Int
    BY DEF EAGAIN, ERESTARTSYS, EFAULT
  <2>2. faults \in Nat
    BY DEF RespInv, TypeOK
  <2>3. CASE ReadWouldBlock(r)
    BY <2>1, <2>2, <2>3, ReturnStep DEF ReadWouldBlock
  <2>4. CASE Interrupted(r)
    BY <2>1, <2>2, <2>4, ReturnStep DEF Interrupted
  <2>5. CASE Fault(r)
    BY <2>1, <2>2, <2>5, ReturnStep DEF Fault
  <2> QED
    BY <1>7, <2>3, <2>4, <2>5
<1>8. CASE UNCHANGED vars
  <2>1. TypeOK'
    BY <1>8 DEF vars, device, emitter, reader, RespInv, TypeOK
  <2> QED
    BY <1>8, <2>1, OutsideStep DEF vars
<1> QED
  BY <1>1, <1>2, <1>3, <1>4, <1>5, <1>6, <1>7, <1>8 DEF Next

-----------------------------------------------------------------------------

(* With one reader no copy of kllm_read leaves the array, although its     *)
(* address and its length are used after resp_lock was dropped.            *)
THEOREM RespTypeCorrect ==
    ASSUME NEW r, Readers = {r}
    PROVE  Spec => []TypeOK
<1>1. RespInv /\ [Next]_vars => RespInv'
  BY NextRespInv
<1>2. RespInv => TypeOK
  BY DEF RespInv
<1> QED
  BY <1>1, <1>2, InitRespInv, PTL DEF Spec

(* With one reader kllm_read hands out what kllm_resp_produce accepted, in *)
(* order and once, for every ring size and any number of faults, signals   *)
(* and concurrent emits.                                                   *)
THEOREM SingleReaderInOrder ==
    ASSUME NEW r, Readers = {r}
    PROVE  Spec => []InOrder
<1>1. RespInv /\ [Next]_vars => RespInv'
  BY NextRespInv
<1>2. RespInv => InOrder
  BY DEF RespInv
<1> QED
  BY <1>1, <1>2, InitRespInv, PTL DEF Spec
=============================================================================
