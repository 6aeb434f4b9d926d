----------------------------- MODULE ResponseRing -----------------------------
(***************************************************************************)
(* The response ring of /dev/llm_prompt1 (kernel/chardev/llm_prompt.c).    *)
(*                                                                         *)
(* The reactor pushes generated tokens with ioctl(); clients take them     *)
(* with read().  Producing a token is one critical section of resp_lock,   *)
(* hence one step.  A read is several: an unlocked look at the ring, a     *)
(* critical section that decides how much to copy, the copy to the user's  *)
(* buffer with the lock released, and a second critical section that       *)
(* moves resp_tail.  The copy goes word by word, and its start address is  *)
(* computed from resp_tail after the lock was dropped.  A read of an empty *)
(* ring queues itself on read_wq, tests again and sleeps; the producer     *)
(* wakes the queue after it has dropped the lock.                          *)
(*                                                                         *)
(* Calls that return before they look at the ring change nothing and are   *)
(* no steps here: a read of less than one word, an emit of more than 256   *)
(* tokens, an unknown ioctl.                                               *)
(***************************************************************************)
EXTENDS RingIndex, Sequences

CONSTANTS
    Readers,           \* processes reading the device
    Eos,               \* the sentinel KLLM_IOC_EOS pushes (0xFFFFFFFF)
    MaxWords,          \* bound: most words one read asks for
    MaxEmit,           \* bound: most tokens one emit ioctl carries
    MaxCalls,          \* bound: number of ioctl calls in a behaviour
    MaxFaults          \* bound: number of copies to a bad user address

ASSUME WordsAssumption == Tokens \subseteq Nat /\ {0, Eos} \subseteq Tokens
ASSUME MaxWordsAssumption == MaxWords \in Nat \ {0}
ASSUME MaxEmitAssumption == MaxEmit \in Nat \ {0}
ASSUME MaxCallsAssumption == MaxCalls \in Nat
ASSUME MaxFaultsAssumption == MaxFaults \in Nat

VARIABLES
    resp_ring, resp_head, resp_tail,   \* struct kllm_device
    pending,                           \* tokens the current ioctl has yet to push
    waking,                            \* kllm_resp_produce has yet to wake read_wq
    calls,                             \* ioctl calls made (bounded)
    rpc, want, to_copy, first,         \* each kllm_read call: its locals,
    todo, buf,                         \* the words it has yet to copy, and has
    ret,                               \* what each reader's last read returned
    faults,                            \* copies that failed (bounded)
    stored, received                   \* history

device == <<resp_ring, resp_head, resp_tail>>
emitter == <<pending, waking, calls>>
reader == <<rpc, want, to_copy, first, todo, buf, ret, faults>>
vars == <<device, emitter, reader, stored, received>>

\* Results of a read that are not a number of words.
EAGAIN == -11
EFAULT == -14
ERESTARTSYS == -512
NoResult == -1

\* A word read beyond the end of the array.
Garbage == -1

Generated == Tokens \ {Eos}
Chunks == UNION {[1..n -> Generated] : n \in 1..MaxEmit}

\* CIRC_CNT
resp_ring_count == Available(resp_head, resp_tail)

\* Mutant of resp_ring_space: no slot keeps full apart from empty.
RespRingSpaceAll == SlotCount - resp_ring_count

\* CIRC_SPACE
resp_ring_space == Available(resp_tail, resp_head + 1)

-----------------------------------------------------------------------------
(* kllm_init: zeroed ring, both indices 0.                                 *)

Init ==
    /\ resp_ring = [i \in Index |-> 0]
    /\ resp_head = 0 /\ resp_tail = 0
    /\ pending = <<>> /\ waking = FALSE /\ calls = 0
    /\ rpc = [r \in Readers |-> "idle"]
    /\ want = [r \in Readers |-> 0]
    /\ to_copy = [r \in Readers |-> 0]
    /\ first = [r \in Readers |-> 0]
    /\ todo = [r \in Readers |-> <<>>]
    /\ buf = [r \in Readers |-> <<>>]
    /\ ret = [r \in Readers |-> NoResult]
    /\ faults = 0
    /\ stored = <<>> /\ received = <<>>

-----------------------------------------------------------------------------
(* The reactor: kllm_response_emit and kllm_response_eos, down to          *)
(* kllm_ioctl.                                                             *)

\* KLLM_IOC_EMIT_TOKENS enters its loop.
EmitTokens(chunk) ==
    /\ pending = <<>> /\ ~waking
    /\ calls < MaxCalls
    /\ calls' = calls + 1
    /\ pending' = chunk
    /\ UNCHANGED <<device, waking, reader, stored, received>>

\* KLLM_IOC_EOS: the sentinel takes the same path as a token.
EmitEos ==
    /\ pending = <<>> /\ ~waking
    /\ calls < MaxCalls
    /\ calls' = calls + 1
    /\ pending' = <<Eos>>
    /\ UNCHANGED <<device, waking, reader, stored, received>>

\* kllm_resp_produce, the critical section: with no space the token is
\* dropped, silently.
RespProduce ==
    /\ pending # <<>> /\ ~waking
    /\ pending' = Tail(pending)
    /\ waking' = TRUE
    /\ IF resp_ring_space > 0
       THEN /\ resp_ring' = [resp_ring EXCEPT ![resp_head] = Head(pending)]
            /\ resp_head' = NextIndex(resp_head)
            /\ stored' = Append(stored, Head(pending))
       ELSE UNCHANGED <<resp_ring, resp_head, stored>>
    /\ UNCHANGED <<resp_tail, calls, reader, received>>

\* Mutant of WakeReaders: the wakeup is forgotten.
WakeNobody ==
    /\ waking
    /\ waking' = FALSE
    /\ UNCHANGED <<device, pending, calls, reader, stored, received>>

\* kllm_resp_produce, wake_up_interruptible(&read_wq): the sleepers test
\* their condition again.
WakeReaders ==
    /\ waking
    /\ waking' = FALSE
    /\ rpc' = [r \in Readers |-> IF rpc[r] = "sleep" THEN "wait" ELSE rpc[r]]
    /\ UNCHANGED <<device, pending, calls, want, to_copy, first, todo,
                   buf, ret, faults, stored, received>>

-----------------------------------------------------------------------------
(* A client: kllm_read.                                                    *)

Goto(r, label) == rpc' = [rpc EXCEPT ![r] = label]

\* The call returns v to its caller; its locals are gone.
Return(r, v) ==
    /\ Goto(r, "idle")
    /\ ret' = [ret EXCEPT ![r] = v]
    /\ want' = [want EXCEPT ![r] = 0]
    /\ to_copy' = [to_copy EXCEPT ![r] = 0]
    /\ first' = [first EXCEPT ![r] = 0]
    /\ todo' = [todo EXCEPT ![r] = <<>>]
    /\ buf' = [buf EXCEPT ![r] = <<>>]

\* The unlocked test finds the ring empty and O_NONBLOCK is set.
ReadWouldBlock(r) ==
    /\ rpc[r] = "idle"
    /\ resp_ring_count = 0
    /\ Return(r, EAGAIN)
    /\ UNCHANGED <<device, emitter, faults, stored, received>>

\* The unlocked test for an empty ring, on a read that may block.
ReadCall(r, n) ==
    /\ rpc[r] = "idle"
    /\ want' = [want EXCEPT ![r] = n]
    /\ Goto(r, IF resp_ring_count = 0 THEN "wait" ELSE "lock")
    /\ UNCHANGED <<device, emitter, to_copy, first, todo, buf, ret, faults,
                   stored, received>>

\* wait_event_interruptible: the caller is queued and its condition holds.
Woken(r) ==
    /\ rpc[r] = "wait"
    /\ resp_ring_count > 0
    /\ Goto(r, "lock")
    /\ UNCHANGED <<device, emitter, want, to_copy, first, todo, buf, ret, faults,
                   stored, received>>

\* wait_event_interruptible: the caller is queued and its condition fails.
Sleep(r) ==
    /\ rpc[r] = "wait"
    /\ resp_ring_count = 0
    /\ Goto(r, "sleep")
    /\ UNCHANGED <<device, emitter, want, to_copy, first, todo, buf, ret, faults,
                   stored, received>>

\* wait_event_interruptible: a signal.
Interrupted(r) ==
    /\ rpc[r] = "sleep"
    /\ Return(r, ERESTARTSYS)
    /\ UNCHANGED <<device, emitter, faults, stored, received>>

\* to_copy = min(avail, count / sizeof(u32))
WordsToCopy(avail, n) == IF avail < n THEN avail ELSE n

\* Mutant of FirstPiece: the copy is never split.
FirstPieceWhole(n) == n

\* resp_tail + to_copy <= resp_mask + 1, or a copy in two pieces
FirstPiece(n) == IF resp_tail + n <= SlotCount THEN n ELSE SlotCount - resp_tail

\* The first critical section; the lock is dropped before the copy.
Snapshot(r) ==
    /\ rpc[r] = "lock"
    /\ LET n == WordsToCopy(resp_ring_count, want[r])
       IN /\ to_copy' = [to_copy EXCEPT ![r] = n]
          /\ first' = [first EXCEPT ![r] = FirstPiece(n)]
    /\ Goto(r, "start")
    /\ UNCHANGED <<device, emitter, want, todo, buf, ret, faults, stored, received>>

\* &dev->resp_ring[dev->resp_tail], without the lock: the slots the call goes
\* on to copy, the first piece from there and the rest from slot 0.
StartCopy(r) ==
    /\ rpc[r] = "start"
    /\ todo' = [todo EXCEPT ![r] =
                   [i \in 1..to_copy[r] |->
                       IF i <= first[r] THEN resp_tail + i - 1
                                        ELSE i - first[r] - 1]]
    /\ Goto(r, "copy")
    /\ UNCHANGED <<device, emitter, want, to_copy, first, buf, ret, faults,
                   stored, received>>

\* copy_to_user, one word.
CopyWord(r) ==
    /\ rpc[r] = "copy"
    /\ todo[r] # <<>>
    /\ LET i == Head(todo[r])
       IN buf' = [buf EXCEPT ![r] =
                    Append(@, IF i \in Index THEN resp_ring[i] ELSE Garbage)]
    /\ todo' = [todo EXCEPT ![r] = Tail(@)]
    /\ UNCHANGED <<device, emitter, rpc, want, to_copy, first, ret, faults,
                   stored, received>>

\* copy_to_user fails: the tail stays where it was.
Fault(r) ==
    /\ faults < MaxFaults
    /\ faults' = faults + 1
    /\ rpc[r] = "copy"
    /\ todo[r] # <<>>
    /\ Return(r, EFAULT)
    /\ UNCHANGED <<device, emitter, stored, received>>

\* The second critical section, and the return.
Advance(r) ==
    /\ rpc[r] = "copy"
    /\ todo[r] = <<>>
    /\ resp_tail' = Wrap(resp_tail + to_copy[r])
    /\ received' = received \o buf[r]
    /\ Return(r, to_copy[r])
    /\ UNCHANGED <<resp_ring, resp_head, emitter, faults, stored>>

InRead(r) ==
    \/ Woken(r)
    \/ Sleep(r)
    \/ Snapshot(r)
    \/ StartCopy(r)
    \/ CopyWord(r)
    \/ Advance(r)

-----------------------------------------------------------------------------

Next ==
    \/ \E chunk \in Chunks : EmitTokens(chunk)
    \/ EmitEos
    \/ RespProduce
    \/ WakeReaders
    \/ \E r \in Readers, n \in 1..MaxWords : ReadCall(r, n)
    \/ \E r \in Readers :
          InRead(r) \/ ReadWouldBlock(r) \/ Interrupted(r) \/ Fault(r)

Spec == Init /\ [][Next]_vars

(* The reactor finishes an ioctl it entered.  A client that wants its      *)
(* answer keeps calling read() and the kernel runs it to its end; nothing  *)
(* obliges the reactor to emit more.                                       *)
FairSpec ==
    /\ Spec
    /\ WF_vars(RespProduce \/ WakeReaders)
    /\ \A r \in Readers :
          /\ WF_vars(InRead(r))
          /\ WF_vars(\E n \in 1..MaxWords : ReadCall(r, n))

-----------------------------------------------------------------------------
(* Properties of the device with one reader.                               *)

(* Every variable stays in its range; a copy never leaves the array.       *)
TypeOK ==
    /\ resp_ring \in [Index -> Tokens]
    /\ resp_head \in Index /\ resp_tail \in Index
    /\ pending \in Seq(Tokens)
    /\ waking \in BOOLEAN
    /\ calls \in Nat
    /\ rpc \in [Readers -> {"idle", "wait", "sleep", "lock", "start", "copy"}]
    /\ want \in [Readers -> 0..MaxWords]
    /\ to_copy \in [Readers -> Nat]
    /\ first \in [Readers -> Nat]
    /\ todo \in [Readers -> Seq(Index)]
    /\ buf \in [Readers -> Seq(Tokens)]
    /\ ret \in [Readers -> Int]
    /\ faults \in Nat
    /\ stored \in Seq(Tokens) /\ received \in Seq(Tokens)

(* kllm_read hands out the tokens kllm_resp_produce accepted, in order,    *)
(* each once, although the copy runs without the lock, is restarted after  *)
(* a fault, and wraps around the end of the array.                         *)
InOrder == stored = received \o Contents(resp_ring, resp_tail, resp_head)

(* A token the device accepted reaches a client that keeps reading: no     *)
(* wakeup is lost and no read gets stuck.                                  *)
AcceptedTokensRead ==
    \A n \in 1 .. MaxCalls * MaxEmit :
        (Len(stored) >= n) ~> (Len(received) >= n)

(* kllm_response.h says of kllm_response_eos that the "client sees EOF on  *)
(* read", and tests/test_e2e_latency.c takes a read of 0 for it: once the  *)
(* device has accepted the end of sequence, a client that keeps reading    *)
(* gets a read of 0.                                                       *)
EosReadAsEof ==
    (\E i \in DOMAIN stored : stored[i] = Eos) ~> (\E r \in Readers : ret[r] = 0)
=============================================================================
