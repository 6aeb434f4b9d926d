------------------------------- MODULE MCKVArena -------------------------------
(* The arena with words of three bits and up to eight slots: up to three   *)
(* words, the last of them full or partly used.                            *)
EXTENDS KVArena
=============================================================================
