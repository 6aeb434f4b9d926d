----------------------------- MODULE MCTokenRing -----------------------------
(* The token ring on small instances: four slots, so that prompts of up to *)
(* two tokens wrap around and meet a full ring, and polls of at most two   *)
(* tokens, so that a prompt is split over polls.                           *)
EXTENDS TokenRing
=============================================================================
