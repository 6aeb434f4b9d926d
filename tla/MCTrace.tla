------------------------------- MODULE MCTrace -------------------------------
(* Instance for TLC: two client threads and the reactor.  The clients are   *)
(* one process, or the first lives in the reactor's process and the second  *)
(* in one of its own.  Two CPUs, and one element more than the table may    *)
(* hold, as the map has for replacing a state.                              *)
EXTENDS Trace, TLC

CONSTANTS t1, t2, p1, p2, e1, e2

MCProcesses ==
    {t1 :> "c1" @@ t2 :> "c1" @@ Reactor :> "r",
     t1 :> "r" @@ t2 :> "c2" @@ Reactor :> "r"}

\* CPUs and elements are told apart by nothing but their identity.
Interchangeable == Permutations({p1, p2}) \cup Permutations({e1, e2})
=============================================================================
