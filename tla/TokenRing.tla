------------------------------ MODULE TokenRing ------------------------------
(***************************************************************************)
(* The hugepage token ring between the eBPF tokenizer and the reactor.     *)
(*                                                                         *)
(* Writers run kllm_tokenize (bpf/tokenizer.bpf.c), once per write() on    *)
(* the device; the reactor runs kllm_ring_consume_batch                    *)
(* (userspace/include/kllm_ring_user.h) from its poller.  No lock guards   *)
(* the ring: a call is a series of loads and stores, and every load or     *)
(* store of shared memory is a step of its own here.  The one exception:   *)
(* the writer's test of tail and the store into the slot the test allows   *)
(* are one step; the reactor can only make more room between the two.      *)
(*                                                                         *)
(* Tokenization itself (bytes, BPE merges) is abstracted to its result, a  *)
(* non-empty sequence of tokens: it works on per-CPU scratch and touches   *)
(* nothing shared.                                                         *)
(***************************************************************************)
EXTENDS RingIndex, Sequences

CONSTANTS
    MaxBatch,          \* KLLM_POLL_BATCH: most tokens one poll takes
    Producers,         \* contexts that may be inside kllm_tokenize at once
    MaxSeqLen,         \* bound: longest tokenized prompt
    MaxWrites          \* bound: number of write() calls in a behaviour

ASSUME MaxBatchAssumption == MaxBatch \in Nat \ {0}
ASSUME MaxSeqLenAssumption == MaxSeqLen \in Nat \ {0}
ASSUME MaxWritesAssumption == MaxWrites \in Nat
ASSUME TokensAssumption == 0 \in Tokens

VARIABLES
    slots, head, tail, seq_id,     \* the shared ring
    pc, lhead, seq, copied, ret,   \* each kllm_tokenize call: its locals
    cpc, count, batch,             \* the reactor's kllm_ring_consume_batch
    writes,                        \* write() calls started (bounded)
    published, delivered           \* history: tokens made visible, tokens taken

ring == <<slots, head, tail, seq_id>>
producer == <<pc, lhead, seq, copied, ret>>
consumer == <<cpc, count, batch>>
vars == <<ring, producer, consumer, writes, published, delivered>>

\* Results of tokenization: the loop bounds make them non-empty and finite.
Prompts == UNION {[1..n -> Tokens] : n \in 1..MaxSeqLen}

-----------------------------------------------------------------------------
(* kllm_alloc_token_ring zeroes the header and the slots.                  *)

Init ==
    /\ slots = [i \in Index |-> 0]
    /\ head = 0 /\ tail = 0 /\ seq_id = 0
    /\ pc = [p \in Producers |-> "idle"]
    /\ lhead = [p \in Producers |-> 0]
    /\ seq = [p \in Producers |-> <<>>]
    /\ copied = [p \in Producers |-> 0]
    /\ ret = [p \in Producers |-> 0]
    /\ cpc = "idle" /\ count = 0 /\ batch = <<>>
    /\ writes = 0
    /\ published = <<>> /\ delivered = <<>>

-----------------------------------------------------------------------------
(* The writer: kllm_tokenize, phase 3.                                     *)

\* Phases 1 and 2 have left s in the scratch; `head = ring_hdr->head`.
Tokenize(p, s) ==
    /\ pc[p] = "idle"
    /\ writes < MaxWrites
    /\ writes' = writes + 1
    /\ pc' = [pc EXCEPT ![p] = "copy"]
    /\ lhead' = [lhead EXCEPT ![p] = head]
    /\ seq' = [seq EXCEPT ![p] = s]
    /\ copied' = [copied EXCEPT ![p] = 0]
    /\ UNCHANGED <<ring, ret, consumer, published, delivered>>

\* Mutant of RingFull: the ring counts as full only when head meets tail.
RingFullAtTail(p) == lhead[p] = tail /\ copied[p] > 0

\* Mutant of RingFull: the test is missing.
RingFullNever(p) == FALSE

\* next == ring_hdr->tail
RingFull(p) == NextIndex(lhead[p]) = tail

\* One turn of the loop: the token goes to the slot at the local head.
CopyToken(p) ==
    /\ pc[p] = "copy"
    /\ copied[p] < Len(seq[p])
    /\ ~RingFull(p)
    /\ slots' = [slots EXCEPT ![lhead[p]] = seq[p][copied[p] + 1]]
    /\ lhead' = [lhead EXCEPT ![p] = NextIndex(@)]
    /\ copied' = [copied EXCEPT ![p] = @ + 1]
    /\ UNCHANGED <<head, tail, seq_id, pc, seq, ret, consumer, writes,
                   published, delivered>>

\* The loop ends: every token copied, or `break` because the ring is full.
EndCopy(p) ==
    /\ pc[p] = "copy"
    /\ copied[p] = Len(seq[p]) \/ RingFull(p)
    /\ pc' = [pc EXCEPT ![p] = "publish"]
    /\ UNCHANGED <<ring, lhead, seq, copied, ret, consumer, writes,
                   published, delivered>>

\* The fence and `ring_hdr->head = head`.
Publish(p) ==
    /\ pc[p] = "publish"
    /\ head' = lhead[p]
    /\ pc' = [pc EXCEPT ![p] = "bump"]
    /\ published' = published \o SubSeq(seq[p], 1, copied[p])
    /\ UNCHANGED <<slots, tail, seq_id, lhead, seq, copied, ret, consumer,
                   writes, delivered>>

\* The atomic increment of seq_id, and `return seq->len`.
Bump(p) ==
    /\ pc[p] = "bump"
    /\ seq_id' = seq_id + 1
    /\ ret' = [ret EXCEPT ![p] = Len(seq[p])]
    /\ pc' = [pc EXCEPT ![p] = "idle"]
    /\ UNCHANGED <<slots, head, tail, lhead, seq, copied, consumer, writes,
                   published, delivered>>

Write(p) ==
    \/ CopyToken(p)
    \/ EndCopy(p)
    \/ Publish(p)
    \/ Bump(p)

-----------------------------------------------------------------------------
(* The reactor: kllm_ring_consume_batch.                                   *)

\* Mutant of BatchCount: the newest token is left for the next poll.
BatchCountLessOne(avail) ==
    IF avail <= MaxBatch THEN avail - 1 ELSE MaxBatch

\* count = avail < max_tokens ? avail : max_tokens
BatchCount(avail) == IF avail < MaxBatch THEN avail ELSE MaxBatch

\* The acquire load of head.  With nothing available the call stores the
\* tail it read and changes nothing, so that case is no step at all.
LoadHead ==
    /\ cpc = "idle"
    /\ BatchCount(Available(head, tail)) > 0
    /\ count' = BatchCount(Available(head, tail))
    /\ cpc' = "copy"
    /\ UNCHANGED <<ring, producer, batch, writes, published, delivered>>

\* out[i] = slots[(tail + i) & mask]
ReadSlot ==
    /\ cpc = "copy"
    /\ Len(batch) < count
    /\ batch' = Append(batch, slots[Wrap(tail + Len(batch))])
    /\ UNCHANGED <<ring, producer, cpc, count, writes, published, delivered>>

\* Mutant of AdvanceTail: tail follows the head as it is now, not the batch.
AdvanceTailToHead ==
    /\ cpc = "copy"
    /\ Len(batch) = count
    /\ tail' = head
    /\ delivered' = delivered \o batch
    /\ cpc' = "idle" /\ count' = 0 /\ batch' = <<>>
    /\ UNCHANGED <<slots, head, seq_id, producer, writes, published>>

\* The release store of tail; the batch is the caller's.
AdvanceTail ==
    /\ cpc = "copy"
    /\ Len(batch) = count
    /\ tail' = Wrap(tail + count)
    /\ delivered' = delivered \o batch
    /\ cpc' = "idle" /\ count' = 0 /\ batch' = <<>>
    /\ UNCHANGED <<slots, head, seq_id, producer, writes, published>>

Poll == LoadHead \/ ReadSlot \/ AdvanceTail

-----------------------------------------------------------------------------

Next ==
    \/ \E p \in Producers, s \in Prompts : Tokenize(p, s)
    \/ \E p \in Producers : Write(p)
    \/ Poll

Spec == Init /\ [][Next]_vars

(* kllm_tokenize runs to its end once entered; the reactor calls its       *)
(* poller on every iteration.  Nobody has to write again.                  *)
FairSpec ==
    /\ Spec
    /\ \A p \in Producers : WF_vars(Write(p))
    /\ WF_vars(Poll)

-----------------------------------------------------------------------------
(* Properties.  The first four are about the ring as its header describes  *)
(* it, with a single producer.                                             *)

(* Every variable stays in its range: indices inside the ring, at most     *)
(* MaxBatch tokens in the reactor's stack buffer.                          *)
TypeOK ==
    /\ slots \in [Index -> Tokens]
    /\ head \in Index /\ tail \in Index
    /\ seq_id \in Nat /\ writes \in Nat
    /\ pc \in [Producers -> {"idle", "copy", "publish", "bump"}]
    /\ lhead \in [Producers -> Index]
    /\ seq \in [Producers -> Seq(Tokens)]
    /\ copied \in [Producers -> Nat]
    /\ \A p \in Producers : copied[p] <= Len(seq[p])
    /\ ret \in [Producers -> Nat]
    /\ cpc \in {"idle", "copy"}
    /\ count \in 0..MaxBatch
    /\ batch \in Seq(Tokens) /\ Len(batch) <= count
    /\ cpc = "idle" => batch = <<>>
    /\ published \in Seq(Tokens) /\ delivered \in Seq(Tokens)

(* kllm_ring_consume_batch hands over exactly what kllm_tokenize stored:   *)
(* the tokens delivered, followed by those between tail and head, are the  *)
(* tokens published, in order, none lost, none twice, none stale.          *)
FifoOrder == published = delivered \o Contents(slots, tail, head)

(* kllm_tokenize stores only into slots the reactor is done with: no step  *)
(* changes a slot that lies between tail and head, so the unlocked copy    *)
(* loop of kllm_ring_consume_batch reads stable memory.                    *)
PublishedSlotsStable ==
    [][\A i \in Index :
          Available(i, tail) < Available(head, tail)
              => slots'[i] = slots[i]]_vars

(* The ring implements the bounded FIFO: publishing a prompt is one Put,   *)
(* the store of tail one Take, every other step is invisible.              *)
Fifo == INSTANCE TokenFifo
            WITH Capacity <- SlotCount - 1,
                 queue <- Contents(slots, tail, head)
RefinesFifo == Fifo!Spec

(* A token kllm_tokenize has published is eventually handed to the         *)
(* reactor: polling drains the ring however writes and polls interleave.   *)
EveryTokenDelivered ==
    \A n \in 1 .. MaxWrites * MaxSeqLen :
        (Len(published) >= n) ~> (Len(delivered) >= n)
=============================================================================
