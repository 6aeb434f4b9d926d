--------------------------- MODULE MCBatchScheduler ---------------------------
(* The scheduler alone, with two slots and a batch of one, its pool as     *)
(* kllm_batch_create leaves it.                                            *)
EXTENDS BatchScheduler
=============================================================================
