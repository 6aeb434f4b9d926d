---------------------------- MODULE MCResponseRing ----------------------------
(* The response ring on small instances: four slots hold three tokens, so  *)
(* that chunks of up to three meet a full ring and copies wrap around.     *)
EXTENDS ResponseRing
=============================================================================
