------------------------------- MODULE Sampling -------------------------------
(***************************************************************************)
(* The sampling strategies of userspace/decode/decode_loop.c.  Logits are  *)
(* a sequence of integers, tokens its positions.  A strategy is the set of *)
(* tokens it can return, over every value of rand() and with or without    *)
(* memory for its arrays.                                                  *)
(*                                                                         *)
(* The softmax weight of a logit is any increasing function of it that is  *)
(* 0 for minus infinity; the temperature matters as zero or not.           *)
(***************************************************************************)
EXTENDS Integers, Sequences, FiniteSets

CONSTANT NegInf        \* -INFINITY

ASSUME NegInfAssumption == NegInf \in Int

\* Mutant of sample_greedy: a later maximum replaces an equal one.
sample_greedy_last(logits) ==
    LET max_idx[i \in DOMAIN logits] ==
            IF i = 1 THEN 1
            ELSE LET m == max_idx[i - 1] IN IF logits[i] >= logits[m] THEN i ELSE m
    IN  max_idx[Len(logits)]

\* One pass that keeps the first maximum.
sample_greedy(logits) ==
    LET max_idx[i \in DOMAIN logits] ==
            IF i = 1 THEN 1
            ELSE LET m == max_idx[i - 1] IN IF logits[i] > logits[m] THEN i ELSE m
    IN  max_idx[Len(logits)]

Weight(logit) == logit - NegInf

CumulativeWeight(logits, i) ==
    LET sum[n \in 0..Len(logits)] == IF n = 0 THEN 0 ELSE sum[n - 1] + Weight(logits[n])
    IN  sum[i]

\* The first position whose cumulative weight reaches r; the last one when
\* rounding leaves the total below r.
Draw(logits, r) ==
    CHOOSE i \in DOMAIN logits :
        /\ r <= CumulativeWeight(logits, i)
        /\ \A j \in 1..(i - 1) : r > CumulativeWeight(logits, j)

sample_temperature(logits, temperature) ==
    IF temperature <= 0
    THEN {sample_greedy(logits)}
    ELSE {sample_greedy(logits), Len(logits)} \cup
         {Draw(logits, r) : r \in 0..CumulativeWeight(logits, Len(logits))}

\* Entries of the sorted array that an entry with this value does not pass
\* on its way up from the last place.
Above(top, val) == {n \in DOMAIN top : top[n].val >= val}

\* One turn of the outer loop: a logit above the last entry replaces it and
\* moves up.
Consider(top, val, idx) ==
    LET k == Len(top)
        p == Cardinality(Above(top, val))
    IN  IF val > top[k].val
        THEN SubSeq(top, 1, p) \o <<[val |-> val, idx |-> idx]>> \o SubSeq(top, p + 1, k - 1)
        ELSE top

\* The set of the one array that the loop leaves.
TopK(logits, k) ==
    LET top[i \in 0..Len(logits)] ==
            IF i = 0 THEN {[n \in 1..k |-> [val |-> NegInf, idx |-> 1]]}
            ELSE {Consider(t, logits[i], i) : t \in top[i - 1]}
    IN  top[Len(logits)]

sample_top_k(logits, k, temperature) ==
    IF k = 0 \/ k >= Len(logits)
    THEN sample_temperature(logits, temperature)
    ELSE {sample_greedy(logits)} \cup
         UNION {{top[n].idx : n \in sample_temperature([m \in 1..k |-> top[m].val],
                                                       temperature)}
                : top \in TopK(logits, k)}

\* "Simplified": p is not used.
sample_top_p(logits, temperature) == sample_temperature(logits, temperature)

sample_token(logits, params) ==
    CASE params.sampling = "TEMPERATURE" -> sample_temperature(logits, params.temperature)
      [] params.sampling = "TOP_K" -> sample_top_k(logits, params.top_k, params.temperature)
      [] params.sampling = "TOP_P" -> sample_top_p(logits, params.temperature)
      [] OTHER -> {sample_greedy(logits)}
=============================================================================
