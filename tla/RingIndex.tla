------------------------------ MODULE RingIndex ------------------------------
(***************************************************************************)
(* Index arithmetic of a power-of-two ring, as both rings of the system    *)
(* use it: the hugepage token ring (kllm_ring.h, kllm_ring_user.h) and the *)
(* response ring (llm_prompt.c, through CIRC_CNT and CIRC_SPACE).  head is *)
(* the next slot to fill, tail the next to read; one slot always stays     *)
(* empty so that head = tail means an empty ring.                          *)
(***************************************************************************)
EXTENDS Integers

CONSTANTS
    SlotCount,         \* number of slots; the mask is SlotCount - 1
    Tokens             \* the u32 values the ring carries

ASSUME SlotCountAssumption == SlotCount \in Nat \ {0}

Index == 0 .. SlotCount - 1

\* x & mask
Wrap(x) == x % SlotCount

\* (i + 1) & mask
NextIndex(i) == Wrap(i + 1)

\* (head - tail) & mask
Available(h, t) == Wrap(h - t)

\* What a reader finds from index t up to index h.
Contents(s, t, h) == [i \in 1..Available(h, t) |-> s[Wrap(t + i - 1)]]
=============================================================================
