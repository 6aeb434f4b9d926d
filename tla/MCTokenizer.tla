----------------------------- MODULE MCTokenizer -----------------------------
(* Every merge table of three rules over two letters (nested merges, pairs *)
(* of equal letters, competing rules), every prompt of up to seven bytes,  *)
(* a buffer of five tokens and three passes.                               *)
EXTENDS Tokenizer

Rule(id, rank) == [merged_id |-> id, priority |-> rank]

\* The k-th rule makes token k + 2 of two tokens that exist before it.  The
\* letters can be renamed, so the first rule begins with 1.
MCTables ==
    {(p :> Rule(3, 0)) @@ (q :> Rule(4, 1)) @@ (r :> Rule(5, 2)) :
        p \in {1} \X (1..2), q \in (1..3) \X (1..3), r \in (1..4) \X (1..4)}
=============================================================================
