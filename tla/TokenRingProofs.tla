--------------------------- MODULE TokenRingProofs ---------------------------
(***************************************************************************)
(* Proofs about the token ring with one producer, for every ring size,     *)
(* batch size and set of tokens.                                           *)
(*                                                                         *)
(* FifoOrder alone is not inductive: it says nothing of the tokens a       *)
(* writer has stored and not published, nor of the copy the reactor has    *)
(* half made.  RingInv adds both.  The refinement of TokenFifo rests on it *)
(* as well.                                                                *)
(***************************************************************************)
EXTENDS TokenRing, OperatorProofs

\* The limit of every SMT step, in seconds.
USE SMTT(60)

USE SlotCountAssumption DEF Index

\* What a writer between its load and its store of head has done so far.
WriterInv ==
    \A p \in Producers : pc[p] \in {"copy", "publish"} =>
        /\ Available(head, tail) + copied[p] <= SlotCount - 1
        /\ lhead[p] = Wrap(head + copied[p])
        /\ \A i \in 1..copied[p] : slots[Wrap(head + i - 1)] = seq[p][i]

\* What the reactor has copied is what the slots from tail on still hold.
ReaderInv ==
    /\ cpc = "copy" => count <= Available(head, tail)
    /\ \A i \in 1..Len(batch) : batch[i] = slots[Wrap(tail + i - 1)]

RingInv == TypeOK /\ WriterInv /\ ReaderInv /\ FifoOrder

-----------------------------------------------------------------------------
(* Type correctness, for any number of producers.                          *)

LEMMA PromptsType == \A s \in Prompts : s \in Seq(Tokens) /\ Len(s) \in Nat
BY MaxSeqLenAssumption DEF Prompts

LEMMA InitTypeOK == Init => TypeOK
<1> SUFFICES ASSUME Init PROVE TypeOK
  OBVIOUS
<1> QED
  BY TokensAssumption, MaxBatchAssumption DEF Init, TypeOK

LEMMA NextTypeOK == TypeOK /\ [Next]_vars => TypeOK'
<1> SUFFICES ASSUME TypeOK, [Next]_vars PROVE TypeOK'
  OBVIOUS
<1> USE DEF TypeOK
<1>1. ASSUME NEW p \in Producers, NEW s \in Prompts, Tokenize(p, s)
      PROVE  TypeOK'
  BY <1>1, PromptsType DEF Tokenize, ring, consumer
<1>2. ASSUME NEW p \in Producers, CopyToken(p) PROVE TypeOK'
  <2>1. seq[p][copied[p] + 1] \in Tokens
    BY <1>2 DEF CopyToken
  <2>3. slots' \in [Index -> Tokens]
    BY <1>2, <2>1 DEF CopyToken
  <2>4. lhead' \in [Producers -> Index]
    BY <1>2, NextIndexType DEF CopyToken
  <2>5. /\ copied' \in [Producers -> Nat]
        /\ \A q \in Producers : copied'[q] <= Len(seq'[q])
    BY <1>2 DEF CopyToken
  <2> QED
    BY <1>2, <2>3, <2>4, <2>5 DEF CopyToken, consumer
<1>3. ASSUME NEW p \in Producers, EndCopy(p) PROVE TypeOK'
  BY <1>3 DEF EndCopy, ring, consumer
<1>4. ASSUME NEW p \in Producers, Publish(p) PROVE TypeOK'
  <2>1. SubSeq(seq[p], 1, copied[p]) \in Seq(Tokens)
    OBVIOUS
  <2>2. published' \in Seq(Tokens)
    BY <1>4, <2>1 DEF Publish
  <2> QED
    BY <1>4, <2>2 DEF Publish, consumer
<1>5. ASSUME NEW p \in Producers, Bump(p) PROVE TypeOK'
  BY <1>5 DEF Bump, consumer
<1>6. ASSUME LoadHead PROVE TypeOK'
  <2>0. head \in Index /\ tail \in Index
    OBVIOUS
  <2>1. Available(head, tail) \in Nat
    <3> HIDE DEF TypeOK
    <3> QED BY <2>0, AvailableType
  <2>2. count' \in 0..MaxBatch
    <3> HIDE DEF TypeOK
    <3> QED BY <1>6, <2>1, MaxBatchAssumption DEF LoadHead, BatchCount
  <2> QED
    BY <1>6, <2>2 DEF LoadHead, ring, producer
<1>7. ASSUME ReadSlot PROVE TypeOK'
  <2>0. tail + Len(batch) \in Int
    OBVIOUS
  <2>1. Wrap(tail + Len(batch)) \in Index
    <3> HIDE DEF TypeOK
    <3> QED BY <2>0, WrapRange
  <2>2. batch' \in Seq(Tokens) /\ Len(batch') <= count
    BY <1>7, <2>1 DEF ReadSlot
  <2> QED
    BY <1>7, <2>2 DEF ReadSlot, ring, producer
<1>8. ASSUME AdvanceTail PROVE TypeOK'
  <2>1. tail' \in Index
    BY <1>8, WrapRange, MaxBatchAssumption DEF AdvanceTail
  <2>2. delivered' \in Seq(Tokens)
    BY <1>8 DEF AdvanceTail
  <2> QED
    BY <1>8, <2>1, <2>2, MaxBatchAssumption DEF AdvanceTail, producer
<1>9. CASE UNCHANGED vars
  BY <1>9 DEF vars, ring, producer, consumer
<1> QED
  BY Zenon, <1>1, <1>2, <1>3, <1>4, <1>5, <1>6, <1>7, <1>8, <1>9
     DEF Next, Write, Poll

(* No index of the ring ever leaves it and no batch outgrows the reactor's *)
(* buffer, whatever the number of writers: kllm_tokenize and               *)
(* kllm_ring_consume_batch mask every index they store.                    *)
THEOREM TypeCorrect == Spec => []TypeOK
BY InitTypeOK, NextTypeOK, PTL DEF Spec

-----------------------------------------------------------------------------
(* The order of tokens, with a single producer.                            *)

LEMMA InitRingInv == Init => RingInv
<1> SUFFICES ASSUME Init PROVE RingInv
  OBVIOUS
<1>1. Available(0, 0) = 0
  BY AvailableValue
<1>2. Contents(slots, tail, head) = <<>>
  BY <1>1 DEF Init, Contents
<1>3. FifoOrder
  BY <1>2 DEF Init, FifoOrder
<1>4. WriterInv /\ ReaderInv
  BY DEF Init, WriterInv, ReaderInv
<1> QED
  BY <1>3, <1>4, InitTypeOK DEF RingInv

HIDE DEF Index

\* The steps of the writer.
LEMMA WriterStep ==
    ASSUME NEW p, Producers = {p}, RingInv,
           \/ \E s \in Prompts : Tokenize(p, s)
           \/ Write(p)
    PROVE  WriterInv' /\ ReaderInv' /\ FifoOrder'
<1> USE DEF RingInv
<1>0. /\ head \in Index /\ tail \in Index /\ slots \in [Index -> Tokens]
      /\ Available(head, tail) \in 0 .. SlotCount - 1
      /\ pc \in [Producers -> {"idle", "copy", "publish", "bump"}]
      /\ lhead \in [Producers -> Index] /\ copied \in [Producers -> Nat]
      /\ seq[p] \in Seq(Tokens) /\ copied[p] \in 0..Len(seq[p])
      /\ seq \in [Producers -> Seq(Tokens)]
      /\ count \in Nat /\ Len(batch) \in Nat /\ Len(batch) <= count
      /\ cpc \in {"idle", "copy"} /\ (cpc = "idle" => batch = <<>>)
      /\ published \in Seq(Tokens) /\ delivered \in Seq(Tokens)
  BY AvailableType, MaxBatchAssumption DEF TypeOK
<1>a. head \in Index /\ tail \in Index /\ slots \in [Index -> Tokens]
  BY <1>0
<1>b. delivered \in Seq(Tokens)
  BY <1>0
<1> HIDE DEF RingInv
<1>1. ASSUME NEW s \in Prompts, Tokenize(p, s)
      PROVE  WriterInv' /\ ReaderInv' /\ FifoOrder'
  <2>1. Wrap(head + 0) = head
    BY <1>a, WrapSum, 0 \in 0..SlotCount DEF Index
  <2>2. WriterInv'
    BY <1>0, <1>1, <2>1 DEF Tokenize, ring, WriterInv, RingInv
  <2>3. ReaderInv' /\ FifoOrder'
    BY <1>1 DEF Tokenize, ring, consumer, ReaderInv, FifoOrder, RingInv
  <2> QED
    BY <2>2, <2>3
<1>2. ASSUME CopyToken(p)
      PROVE  WriterInv' /\ ReaderInv' /\ FifoOrder'
  <2>1. /\ Available(head, tail) + copied[p] <= SlotCount - 1
        /\ lhead[p] = Wrap(head + copied[p])
        /\ \A i \in 1..copied[p] : slots[Wrap(head + i - 1)] = seq[p][i]
    BY <1>2 DEF CopyToken, WriterInv, RingInv
  <2>2. NextIndex(Wrap(head + copied[p])) # tail
    BY <1>2, <2>1 DEF CopyToken, RingFull
  <2>3. /\ Available(head, tail) + copied[p] + 1 <= SlotCount - 1
        /\ Available(lhead[p], tail) = Available(head, tail) + copied[p]
        /\ NextIndex(lhead[p]) = Wrap(head + (copied[p] + 1))
    BY <1>0, <2>1, <2>2, RoomForOne
  <2> DEFINE k == lhead[p]
             v == seq[p][copied[p] + 1]
  <2>4. k \in Index /\ v \in Tokens /\ slots' = [slots EXCEPT ![k] = v]
    BY <1>0, <1>2 DEF CopyToken
  <2>5. Available(k, tail) >= Available(head, tail)
    BY <1>0, <2>3
  <2>6. /\ head' = head /\ tail' = tail /\ pc' = pc /\ seq' = seq
        /\ lhead' = [lhead EXCEPT ![p] = NextIndex(@)]
        /\ copied' = [copied EXCEPT ![p] = @ + 1]
        /\ batch' = batch /\ count' = count /\ cpc' = cpc
        /\ published' = published /\ delivered' = delivered
    BY <1>2 DEF CopyToken, consumer
  <2>7. \A i \in 1..Available(head, tail) :
            slots'[Wrap(tail + i - 1)] = slots[Wrap(tail + i - 1)]
    <3> HIDE DEF k, v
    <3> QED
      BY <1>0, <2>4, <2>5, StoreOutside
  <2>8. FifoOrder'
    <3>1. Contents(slots', tail, head) = Contents(slots, tail, head)
      BY <2>7 DEF Contents
    <3> QED
      BY <2>6, <3>1 DEF FifoOrder, RingInv
  <2>9. ReaderInv'
    <3>2. cpc = "copy" => Len(batch) <= Available(head, tail)
      BY <1>0 DEF ReaderInv, RingInv
    <3>3. \A i \in 1..Len(batch) : batch[i] = slots'[Wrap(tail + i - 1)]
      BY <1>0, <2>7, <3>2 DEF ReaderInv, RingInv
    <3> QED
      BY <2>6, <3>3 DEF ReaderInv, RingInv
  <2>10. \A i \in 1..(copied[p] + 1) :
             slots'[Wrap(head + i - 1)] = seq[p][i]
    <3> SUFFICES ASSUME NEW i \in 1..(copied[p] + 1)
                 PROVE  slots'[Wrap(head + i - 1)] = seq[p][i]
      OBVIOUS
    <3>0. /\ i - 1 \in 0 .. SlotCount - 1 /\ copied[p] \in 0 .. SlotCount - 1
          /\ head + i - 1 = head + (i - 1)
      BY <1>0, <2>3 DEF Index
    <3>1. CASE i = copied[p] + 1
      BY <1>0, <2>1, <2>4, <3>0, <3>1
    <3>2. CASE i \in 1..copied[p]
      <4>1. i - 1 # copied[p]
        BY <1>0, <3>2
      <4>2. Wrap(head + (i - 1)) # k
        BY <1>0, <2>1, <3>0, <4>1, WrapInjective
      <4>3. Wrap(head + (i - 1)) \in Index
        BY <1>0, <3>0, WrapType
      <4> QED
        BY <1>0, <2>1, <2>4, <3>0, <3>2, <4>2, <4>3
    <3> QED
      BY <1>0, <3>1, <3>2
  <2>11. WriterInv'
    <3>1. copied'[p] = copied[p] + 1 /\ lhead'[p] = NextIndex(lhead[p])
      BY <1>0, <2>6
    <3>2. Available(head, tail) + (copied[p] + 1) <= SlotCount - 1
      BY <1>0, <2>3
    <3> QED
      BY <2>3, <2>6, <2>10, <3>1, <3>2 DEF WriterInv
  <2> QED
    BY <2>8, <2>9, <2>11
<1>3. ASSUME EndCopy(p)
      PROVE  WriterInv' /\ ReaderInv' /\ FifoOrder'
  <2>1. WriterInv'
    BY <1>0, <1>3 DEF EndCopy, ring, WriterInv, RingInv
  <2> QED
    BY <1>3, <2>1 DEF EndCopy, ring, consumer, ReaderInv, FifoOrder, RingInv
<1>4. ASSUME Publish(p)
      PROVE  WriterInv' /\ ReaderInv' /\ FifoOrder'
  <2>1. /\ Available(head, tail) + copied[p] <= SlotCount - 1
        /\ lhead[p] = Wrap(head + copied[p])
        /\ \A i \in 1..copied[p] : slots[Wrap(head + i - 1)] = seq[p][i]
    BY Zenon, <1>4 DEF Publish, WriterInv, RingInv
  <2> DEFINE x == SubSeq(seq[p], 1, copied[p])
  <2>2. /\ x \in Seq(Tokens) /\ Len(x) = copied[p]
        /\ \A i \in 1..copied[p] : x[i] = seq[p][i]
    BY <1>0
  <2>3. /\ published' = published \o x /\ head' = lhead[p]
        /\ pc' = [pc EXCEPT ![p] = "bump"]
        /\ tail' = tail /\ slots' = slots /\ delivered' = delivered
        /\ batch' = batch /\ count' = count /\ cpc' = cpc
    BY <1>4 DEF Publish, consumer
  <2> HIDE DEF x
  <2>4. Contents(slots, tail, Wrap(head + Len(x)))
            = Contents(slots, tail, head) \o x
    <3>1. \A i \in 1..Len(x) : x[i] = slots[Wrap(head + i - 1)]
      BY <2>1, <2>2
    <3>2. Available(head, tail) + Len(x) <= SlotCount - 1
      BY <2>1, <2>2
    <3> QED
      BY <1>a, <2>2, <3>1, <3>2, ContentsExtend, Zenon
  <2>5. FifoOrder'
    <3> DEFINE c == Contents(slots, tail, head)
    <3>1. c \in Seq(Tokens)
      BY <1>0, ContentsType
    <3>2. published' = (delivered \o c) \o x
      BY <2>3 DEF FifoOrder, RingInv
    <3>3. Contents(slots', tail', head') = c \o x
      BY <2>1, <2>2, <2>3, <2>4
    <3> HIDE DEF c
    <3>4. (delivered \o c) \o x = delivered \o (c \o x)
      <4>1. x \in Seq(Tokens)
        BY <2>2
      <4> QED
        BY <1>b, <3>1, <4>1, JoinJoin
    <3> QED
      BY <2>3, <3>2, <3>3, <3>4 DEF FifoOrder
  <2>6. Available(head', tail') >= Available(head, tail)
    <3>1. head' \in Index /\ tail' \in Index
      BY <1>0, <2>3
    <3>2. Len(Contents(slots, tail, head')) = Available(head', tail)
      BY Zenon, <1>0, <2>3, <3>1, ContentsType
    <3>3. /\ Contents(slots, tail, head) \in Seq(Tokens)
          /\ Len(Contents(slots, tail, head)) = Available(head, tail)
      BY <1>0, ContentsType
    <3>4. Len(Contents(slots, tail, head) \o x)
             = Available(head, tail) + Len(x)
      <4> DEFINE c == Contents(slots, tail, head)
      <4> HIDE DEF c
      <4>1. Len(c \o x) = Len(c) + Len(x)
        BY <2>2, <3>3, JoinSeq, Zenon DEF c
      <4> QED
        BY <3>3, <4>1 DEF c
    <3>5. Contents(slots, tail, head') = Contents(slots, tail, head) \o x
      BY <2>1, <2>2, <2>3, <2>4
    <3> QED
      BY <1>0, <2>2, <2>3, <3>2, <3>4, <3>5
  <2>7. ReaderInv'
    <3>1. Available(head', tail') \in 0 .. SlotCount - 1
      BY <1>0, <2>3, AvailableType
    <3>2. cpc = "copy" => count <= Available(head', tail')
      BY <1>0, <2>6, <3>1 DEF ReaderInv, RingInv
    <3> QED
      BY <2>3, <3>2 DEF ReaderInv, RingInv
  <2>8. WriterInv'
    BY <1>0, <2>3 DEF WriterInv
  <2> QED
    BY <2>5, <2>7, <2>8
<1>5. ASSUME Bump(p)
      PROVE  WriterInv' /\ ReaderInv' /\ FifoOrder'
  <2>1. WriterInv'
    BY <1>0, <1>5 DEF Bump, WriterInv, RingInv
  <2> QED
    BY <1>5, <2>1 DEF Bump, consumer, ReaderInv, FifoOrder, RingInv
<1> QED
  BY <1>1, <1>2, <1>3, <1>4, <1>5 DEF Write

\* The steps of the reactor.
LEMMA ReaderStep ==
    ASSUME RingInv, Poll
    PROVE  WriterInv' /\ ReaderInv' /\ FifoOrder'
<1>0. /\ head \in Index /\ tail \in Index /\ slots \in [Index -> Tokens]
      /\ Available(head, tail) \in 0 .. SlotCount - 1
      /\ copied \in [Producers -> Nat]
      /\ count \in 0..MaxBatch /\ Len(batch) \in Nat /\ Len(batch) <= count
      /\ batch \in Seq(Tokens) /\ (cpc = "idle" => batch = <<>>)
      /\ delivered \in Seq(Tokens)
  BY AvailableType, MaxBatchAssumption DEF RingInv, TypeOK
<1>1. ASSUME LoadHead
      PROVE  WriterInv' /\ ReaderInv' /\ FifoOrder'
  <2>1. WriterInv' /\ FifoOrder'
    BY <1>1 DEF LoadHead, ring, producer, RingInv, WriterInv, FifoOrder
  <2>2. BatchCount(Available(head, tail)) <= Available(head, tail)
    BY <1>0, MaxBatchAssumption DEF BatchCount
  <2>3. ReaderInv'
    BY <1>1, <2>2 DEF LoadHead, ring, RingInv, ReaderInv
  <2> QED
    BY <2>1, <2>3
<1>2. ASSUME ReadSlot
      PROVE  WriterInv' /\ ReaderInv' /\ FifoOrder'
  <2>1. WriterInv' /\ FifoOrder'
    BY <1>2 DEF ReadSlot, ring, producer, RingInv, WriterInv, FifoOrder
  <2>2. \A i \in 1..Len(batch) : batch[i] = slots[Wrap(tail + i - 1)]
    BY DEF RingInv, ReaderInv
  <2>3. tail + Len(batch) = tail + (Len(batch) + 1) - 1
    BY <1>0 DEF Index
  <2>4. \A i \in 1..Len(batch') : batch'[i] = slots[Wrap(tail + i - 1)]
    <3>1. slots[Wrap(tail + Len(batch))] \in Tokens
      <4>1. tail + Len(batch) \in Int
        BY <1>0 DEF Index
      <4> QED
        BY <1>0, <4>1, WrapRange
    <3>2. /\ Len(batch') = Len(batch) + 1
          /\ \A i \in 1..Len(batch) : batch'[i] = batch[i]
          /\ batch'[Len(batch) + 1] = slots[Wrap(tail + Len(batch))]
      BY <1>0, <1>2, <3>1, AppendSeq DEF ReadSlot
    <3> QED
      BY <1>0, <2>2, <2>3, <3>2
  <2>5. ReaderInv'
    BY <1>2, <2>4 DEF ReadSlot, ring, RingInv, ReaderInv
  <2> QED
    BY <2>1, <2>5
<1>3. ASSUME AdvanceTail
      PROVE  WriterInv' /\ ReaderInv' /\ FifoOrder'
  <2>1. /\ Len(batch) = count /\ count <= Available(head, tail)
        /\ \A i \in 1..Len(batch) : batch[i] = slots[Wrap(tail + i - 1)]
    BY <1>3 DEF AdvanceTail, RingInv, ReaderInv
  <2>2. /\ tail' = Wrap(tail + Len(batch)) /\ delivered' = delivered \o batch
        /\ cpc' = "idle" /\ count' = 0 /\ batch' = <<>>
        /\ slots' = slots /\ head' = head /\ published' = published
        /\ pc' = pc /\ lhead' = lhead /\ seq' = seq /\ copied' = copied
    BY <1>3 DEF AdvanceTail, producer
  <2>3. Len(batch) \in 0..Available(head, tail)
    BY <1>0, <2>1
  <2>4. Contents(slots, tail, head)
            = batch \o Contents(slots, Wrap(tail + Len(batch)), head)
    BY <1>0, <2>1, ContentsSplit
  <2>5. Wrap(tail + Len(batch)) \in Index
    <3>1. Len(batch) \in 0..SlotCount
      BY <1>0, <2>3
    <3> QED
      BY <1>0, <3>1, WrapType
  <2>6. FifoOrder'
    <3> DEFINE c == Contents(slots, Wrap(tail + Len(batch)), head)
    <3>1. c \in Seq(Tokens)
      BY <1>0, <2>5, ContentsType
    <3>2. published = delivered \o (batch \o c)
      BY <2>4 DEF RingInv, FifoOrder
    <3> HIDE DEF c
    <3>3. (delivered \o batch) \o c = delivered \o (batch \o c)
      <4>1. delivered \in Seq(Tokens) /\ batch \in Seq(Tokens)
        BY <1>0
      <4> QED
        BY <3>1, <4>1, JoinJoin
    <3> QED
      BY <2>2, <3>2, <3>3 DEF FifoOrder, c
  <2>7. Available(head, tail') <= Available(head, tail)
    <3>1. Available(head, tail') = Available(head, tail) - Len(batch)
      BY <1>0, <2>2, <2>3, AvailableDiff
    <3> QED
      BY <1>0, <3>1
  <2>8. WriterInv'
    <3>1. Available(head, tail') \in 0 .. SlotCount - 1
      BY <1>0, <2>2, <2>5, AvailableType
    <3>2. \A p \in Producers :
              Available(head, tail) + copied[p] <= SlotCount - 1
                  => Available(head, tail') + copied[p] <= SlotCount - 1
      BY <1>0, <2>7, <3>1
    <3> QED
      BY <2>2, <3>2 DEF RingInv, WriterInv
  <2>9. ReaderInv'
    BY <2>2 DEF ReaderInv
  <2> QED
    BY <2>6, <2>8, <2>9
<1> QED
  BY <1>1, <1>2, <1>3 DEF Poll

LEMMA NextRingInv ==
    ASSUME NEW p, Producers = {p}
    PROVE  RingInv /\ [Next]_vars => RingInv'
<1> SUFFICES ASSUME RingInv, [Next]_vars PROVE RingInv'
  OBVIOUS
<1>0. TypeOK'
  BY NextTypeOK DEF RingInv
<1>1. ASSUME Next PROVE WriterInv' /\ ReaderInv' /\ FifoOrder'
  BY <1>1, WriterStep, ReaderStep DEF Next
<1>2. ASSUME UNCHANGED vars PROVE WriterInv' /\ ReaderInv' /\ FifoOrder'
  BY Zenon, <1>2 DEF vars, ring, producer, consumer, RingInv, WriterInv, ReaderInv,
              FifoOrder
<1> QED
  BY <1>0, <1>1, <1>2 DEF RingInv

(* With one producer the reactor receives, in order and each exactly once, *)
(* the tokens kllm_tokenize published: for every ring size, batch size and *)
(* set of tokens, and for any number of writes.                            *)
THEOREM SingleProducerFifo ==
    ASSUME NEW p, Producers = {p}
    PROVE  Spec => []FifoOrder
<1>1. RingInv /\ [Next]_vars => RingInv'
  BY NextRingInv
<1>2. RingInv => FifoOrder
  BY DEF RingInv
<1> QED
  BY <1>1, <1>2, InitRingInv, PTL DEF Spec

-----------------------------------------------------------------------------
(* With one producer the ring implements the bounded FIFO, and the slots a *)
(* reader may be copying do not change under it.  Both rest on RingInv.    *)

HIDE DEF Index

\* The two halves of a concatenation.
LEMMA ConcatHalves ==
    ASSUME NEW S, NEW x \in Seq(S), NEW y \in Seq(S)
    PROVE  /\ SubSeq(x \o y, 1, Len(x)) = x
           /\ SubSeq(x \o y, Len(x) + 1, Len(x \o y)) = y
           /\ Len(x \o y) = Len(x) + Len(y)
<1> DEFINE z == x \o y
<1>1. /\ z \in Seq(S) /\ Len(z) = Len(x) + Len(y)
      /\ \A i \in 1..(Len(x) + Len(y)) : z[i] = IF i <= Len(x) THEN x[i] ELSE y[i - Len(x)]
  BY JoinSeq
<1>2. Len(x) \in Nat /\ Len(y) \in Nat
  OBVIOUS
<1> HIDE DEF z
<1>3. SubSeq(z, 1, Len(x)) = x
  <2>1. /\ SubSeq(z, 1, Len(x)) \in Seq(S) /\ Len(SubSeq(z, 1, Len(x))) = Len(x)
        /\ \A i \in 1..Len(x) : SubSeq(z, 1, Len(x))[i] = z[i]
    BY <1>1, <1>2
  <2> QED
    BY <1>1, <1>2, <2>1, SameSeq
<1>4. SubSeq(z, Len(x) + 1, Len(z)) = y
  <2> DEFINE t == SubSeq(z, Len(x) + 1, Len(z))
  <2>1. /\ t \in Seq(S) /\ Len(t) = Len(y)
        /\ \A i \in 1..Len(y) : t[i] = z[Len(x) + i]
    BY <1>1, <1>2
  <2> HIDE DEF t
  <2>2. ASSUME NEW i \in 1..Len(y) PROVE t[i] = y[i]
    <3>1. Len(x) + i \in 1..(Len(x) + Len(y)) /\ ~(Len(x) + i <= Len(x))
          /\ (Len(x) + i) - Len(x) = i
      BY <1>2
    <3> QED
      BY <1>1, <2>1, <3>1
  <2>3. t = y
    BY <2>1, <2>2, SameSeq
  <2> QED
    BY <2>3 DEF t
<1> QED
  BY <1>1, <1>3, <1>4 DEF z

\* A store of the writer falls outside the slots between tail and head.
LEMMA StoreBeyondHead ==
    ASSUME NEW p, Producers = {p}, RingInv, CopyToken(p)
    PROVE  /\ lhead[p] \in Index /\ seq[p][copied[p] + 1] \in Tokens
           /\ Available(lhead[p], tail) >= Available(head, tail)
<1>1. /\ Available(head, tail) + copied[p] <= SlotCount - 1
      /\ lhead[p] = Wrap(head + copied[p])
  BY DEF CopyToken, WriterInv, RingInv
<1>2. /\ head \in Index /\ tail \in Index /\ copied[p] \in Nat
      /\ lhead[p] \in Index /\ seq[p] \in Seq(Tokens)
      /\ Available(head, tail) \in 0 .. SlotCount - 1
  BY AvailableType DEF RingInv, TypeOK
<1>3. NextIndex(Wrap(head + copied[p])) # tail
  BY <1>1 DEF CopyToken, RingFull
<1>4. Available(lhead[p], tail) = Available(head, tail) + copied[p]
  BY <1>1, <1>2, <1>3, RoomForOne
<1> QED
  BY <1>2, <1>4 DEF CopyToken

(* No step of kllm_tokenize or of the reactor changes a slot that lies     *)
(* between tail and head, so the copy loop of kllm_ring_consume_batch      *)
(* reads stable memory without a lock.                                     *)
THEOREM ReadableSlotsStable ==
    ASSUME NEW p, Producers = {p}
    PROVE  Spec => PublishedSlotsStable
<1> DEFINE Stable == \A i \in Index :
                        Available(i, tail) < Available(head, tail) => slots'[i] = slots[i]
<1>1. ASSUME RingInv, Next PROVE Stable
  <2>1. CASE CopyToken(p)
    <3> SUFFICES ASSUME NEW i \in Index, Available(i, tail) < Available(head, tail)
                 PROVE  slots'[i] = slots[i]
      OBVIOUS
    <3>1. Available(i, tail) \in Int /\ Available(head, tail) \in Int
          /\ Available(lhead[p], tail) \in Int
      BY <1>1, <2>1, StoreBeyondHead, AvailableType DEF RingInv, TypeOK
    <3>2. i # lhead[p]
      BY <1>1, <2>1, <3>1, StoreBeyondHead
    <3>3. slots \in [Index -> Tokens]
      BY <1>1 DEF RingInv, TypeOK
    <3> QED
      BY <2>1, <3>2, <3>3 DEF CopyToken
  <2>2. CASE ~CopyToken(p)
    <3>1. slots' = slots
      BY <1>1, <2>2 DEF Next, Write, Poll, Tokenize, EndCopy, Publish, Bump,
                        LoadHead, ReadSlot, AdvanceTail, ring
    <3> QED
      BY <3>1
  <2> QED
    BY <2>1, <2>2
<1>2. RingInv /\ [Next]_vars => RingInv'
  BY NextRingInv
<1>3. RingInv /\ [Next]_vars => [Stable]_vars
  BY <1>1
<1> QED
  BY <1>2, <1>3, InitRingInv, PTL DEF Spec, PublishedSlotsStable

-----------------------------------------------------------------------------
(* Refinement: a step that moves head is a Put, one that moves tail a      *)
(* Take, and every other step leaves the queue alone.                      *)

FifoVars == <<Contents(slots, tail, head), delivered>>

LEMMA PublishPuts ==
    ASSUME NEW p, Producers = {p}, RingInv, RingInv', Publish(p)
    PROVE  Fifo!Put \/ UNCHANGED FifoVars
<1> DEFINE c == Contents(slots, tail, head)
           x == SubSeq(seq[p], 1, copied[p])
<1>1. /\ head \in Index /\ tail \in Index /\ slots \in [Index -> Tokens]
      /\ seq[p] \in Seq(Tokens) /\ copied[p] \in 0..Len(seq[p])
      /\ tail' = tail /\ slots' = slots /\ delivered' = delivered
      /\ head' = lhead[p] /\ head' \in Index
      /\ Available(head, tail) + copied[p] <= SlotCount - 1
      /\ lhead[p] = Wrap(head + copied[p])
      /\ \A i \in 1..copied[p] : slots[Wrap(head + i - 1)] = seq[p][i]
  BY DEF Publish, WriterInv, RingInv, TypeOK
<1>2. /\ x \in Seq(Tokens) /\ Len(x) = copied[p]
      /\ \A i \in 1..Len(x) : x[i] = slots[Wrap(head + i - 1)]
  BY <1>1
<1>3. c \in Seq(Tokens) /\ Len(c) = Available(head, tail)
  BY <1>1, ContentsType
<1> HIDE DEF x
<1>4. Contents(slots', tail', head') = c \o x
  <2>1. Available(head, tail) + Len(x) <= SlotCount - 1
    BY <1>1, <1>2
  <2>2. head \in Index /\ tail \in Index /\ slots \in [Index -> Tokens]
    BY <1>1
  <2>3. Contents(slots, tail, Wrap(head + Len(x))) = Contents(slots, tail, head) \o x
    BY <1>2, <2>1, <2>2, ContentsExtend, Zenon
  <2> QED
    BY <1>1, <1>2, <2>3
<1> HIDE DEF c
<1>5. /\ SubSeq(c \o x, 1, Len(c)) = c /\ Len(c \o x) = Len(c) + Len(x)
      /\ SubSeq(c \o x, Len(c) + 1, Len(c \o x)) = x
  <2>1. c \in Seq(Tokens) /\ x \in Seq(Tokens)
    BY <1>2, <1>3
  <2> QED
    BY <2>1, ConcatHalves
<1>6. Len(c) \in Nat /\ Len(x) \in Nat /\ SlotCount \in Nat
  BY <1>2, <1>3
<1>7. CASE Len(x) = 0
  <2>1. x = <<>>
    BY <1>2, <1>7
  <2>2. c \o x = c
    BY <1>3, <2>1, JoinEmpty
  <2> QED
    BY <1>1, <1>4, <2>2 DEF FifoVars, c
<1>8. CASE Len(x) > 0
  <2>1. Len(c) < Len(c \o x) /\ Len(c \o x) <= SlotCount - 1
    BY <1>1, <1>2, <1>3, <1>5, <1>6, <1>8
  <2> QED
    BY <1>1, <1>4, <1>5, <2>1 DEF Fifo!Put, c
<1> QED
  BY <1>6, <1>7, <1>8

LEMMA AdvanceTakes ==
    ASSUME RingInv, RingInv', AdvanceTail
    PROVE  Fifo!Take \/ UNCHANGED FifoVars
<1> DEFINE c == Contents(slots', tail', head')
<1>1. /\ head \in Index /\ tail \in Index /\ slots \in [Index -> Tokens]
      /\ batch \in Seq(Tokens) /\ delivered \in Seq(Tokens)
      /\ slots' = slots /\ head' = head /\ tail' = Wrap(tail + Len(batch))
      /\ tail' \in Index /\ delivered' = delivered \o batch
      /\ Len(batch) <= Available(head, tail)
      /\ \A i \in 1..Len(batch) : batch[i] = slots[Wrap(tail + i - 1)]
  BY DEF AdvanceTail, RingInv, ReaderInv, TypeOK
<1>2. c \in Seq(Tokens)
  BY <1>1, ContentsType
<1>3. Contents(slots, tail, head) = batch \o c
  BY ZenonT(30), <1>1, ContentsSplit
<1> HIDE DEF c
<1>4. /\ SubSeq(batch \o c, 1, Len(batch)) = batch
      /\ SubSeq(batch \o c, Len(batch) + 1, Len(batch \o c)) = c
      /\ Len(batch \o c) = Len(batch) + Len(c)
  BY <1>1, <1>2, ConcatHalves
<1>5. Len(batch) \in Nat /\ Len(c) \in Nat
  BY <1>1, <1>2
<1>6. CASE batch = <<>>
  <2>1. delivered \o batch = delivered /\ batch \o c = c
    BY <1>1, <1>2, <1>6, JoinEmpty
  <2> QED
    BY <1>1, <1>3, <2>1 DEF FifoVars, c
<1>7. CASE batch # <<>>
  <2>1. Len(batch) \in 1..Len(batch \o c)
    BY <1>1, <1>4, <1>5, <1>7
  <2> QED
    BY Zenon, <1>1, <1>3, <1>4, <2>1 DEF Fifo!Take, c
<1> QED
  BY <1>6, <1>7

LEMMA OtherStepsHidden ==
    ASSUME NEW p, Producers = {p}, RingInv, [Next]_vars,
           ~Publish(p), ~AdvanceTail
    PROVE  UNCHANGED FifoVars
<1>1. CASE CopyToken(p)
  <2>1. slots \in [Index -> Tokens] /\ tail \in Index /\ head \in Index
    BY DEF RingInv, TypeOK
  <2>2. \A i \in 1..Available(head, tail) :
            slots'[Wrap(tail + i - 1)] = slots[Wrap(tail + i - 1)]
    <3> DEFINE k == lhead[p]
               v == seq[p][copied[p] + 1]
    <3>1. /\ k \in Index /\ v \in Tokens /\ Available(k, tail) >= Available(head, tail)
          /\ slots' = [slots EXCEPT ![k] = v]
      BY Zenon, <1>1, StoreBeyondHead DEF CopyToken
    <3> HIDE DEF k, v
    <3> QED
      BY <2>1, <3>1, StoreOutside
  <2>3. Contents(slots', tail, head) = Contents(slots, tail, head)
    BY <2>2 DEF Contents
  <2> QED
    BY <1>1, <2>3 DEF FifoVars, CopyToken
<1>2. CASE ~CopyToken(p)
  <2>1. slots' = slots /\ tail' = tail /\ head' = head /\ delivered' = delivered
    BY <1>2 DEF Next, Write, Poll, Tokenize, EndCopy, Bump, LoadHead, ReadSlot, ring, vars
  <2> QED
    BY <2>1 DEF FifoVars
<1> QED
  BY <1>1, <1>2

(* The hugepage ring, with its unlocked loads and stores and one producer, *)
(* implements the bounded FIFO of TokenFifo: kllm_tokenize's store of head *)
(* is the Put, kllm_ring_consume_batch's store of tail the Take.           *)
THEOREM RingImplementsFifo ==
    ASSUME NEW p, Producers = {p}
    PROVE  Spec => RefinesFifo
<1>1. Init => Fifo!Init
  <2> SUFFICES ASSUME Init PROVE Fifo!Init
    OBVIOUS
  <2>1. Available(0, 0) = 0
    BY AvailableValue, 0 \in Index DEF Index
  <2> QED
    BY <2>1 DEF Init, Contents, Fifo!Init
<1>2. RingInv /\ RingInv' /\ [Next]_vars => [Fifo!Next]_FifoVars
  BY PublishPuts, AdvanceTakes, OtherStepsHidden DEF Fifo!Next
<1>3. RingInv /\ [Next]_vars => RingInv'
  BY NextRingInv
<1> QED
  BY <1>1, <1>2, <1>3, InitRingInv, PTL DEF Spec, RefinesFifo, Fifo!Spec, FifoVars
=============================================================================
