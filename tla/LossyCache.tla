------------------------------ MODULE LossyCache ------------------------------
(***************************************************************************)
(* What the KV cache index promises its callers.  The store relates keys   *)
(* to the blocks inserted for them; a block serves one key at a time.  The *)
(* cache may miss a key it holds, and a full cache gives up one block per  *)
(* insert, but it never returns a block that was not inserted for the key  *)
(* or that has been given up, and an insert that fails costs nothing.      *)
(***************************************************************************)
EXTENDS Integers, FiniteSets

CONSTANTS
    Keys,
    Blocks,
    NoBlock,
    Limit              \* blocks held when an insert may give one up

VARIABLES store, op, result

Call(name, k) == [name |-> name, key |-> k]

BlocksIn(s) == {pair[2] : pair \in s}

Init ==
    /\ store = {}
    /\ op = [name |-> "none"]
    /\ result = NoBlock

Lookup(k) ==
    /\ op' = Call("lookup", k)
    /\ result' \in {b \in Blocks : <<k, b>> \in store} \cup {NoBlock}
    /\ UNCHANGED store

\* The pairs an insert may give up: one, when the cache is full.
MayGiveUp == IF Cardinality(store) >= Limit THEN {{pair} : pair \in store} ELSE {}

InsertStores(k) ==
    /\ op' = Call("insert", k)
    /\ \E cut \in {{}} \cup MayGiveUp, b \in Blocks :
          /\ b \notin BlocksIn(store \ cut)
          /\ store' = (store \ cut) \cup {<<k, b>>}
          /\ result' = b

InsertFails(k) ==
    /\ op' = Call("insert", k)
    /\ result' = NoBlock
    /\ UNCHANGED store

Evict(k) ==
    /\ op' = Call("evict", k)
    /\ \/ /\ \E b \in Blocks : <<k, b>> \in store /\ store' = store \ {<<k, b>>}
          /\ result' = 1
       \/ /\ result' = 0
          /\ UNCHANGED store

Next == \E k \in Keys : Lookup(k) \/ InsertStores(k) \/ InsertFails(k) \/ Evict(k)

Spec == Init /\ [][Next]_<<store, op, result>>
=============================================================================
