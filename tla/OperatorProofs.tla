---------------------------- MODULE OperatorProofs ----------------------------
(***************************************************************************)
(* Facts about the operators the components are built from.                *)
(*                                                                         *)
(* Sampling, for all logits: TopInv is what the loop of sample_top_k knows *)
(* of its array.                                                           *)
(*                                                                         *)
(* Ring indices, for every ring size: the mask, on the few intervals the   *)
(* code applies it to, is a comparison and a subtraction; from there on    *)
(* everything is linear arithmetic.                                        *)
(***************************************************************************)
EXTENDS RingIndex, Sampling, TLAPS

\* The limit of every SMT step, in seconds.
USE SMTT(60)

\* What is used of sequences.
LEMMA SameSeq ==
    ASSUME NEW S, NEW a \in Seq(S), NEW b \in Seq(S), Len(a) = Len(b),
           \A k \in 1..Len(a) : a[k] = b[k]
    PROVE  a = b
OBVIOUS

LEMMA JoinSeq ==
    ASSUME NEW S, NEW a \in Seq(S), NEW b \in Seq(S)
    PROVE  /\ a \o b \in Seq(S)
           /\ Len(a \o b) = Len(a) + Len(b)
           /\ \A k \in 1..Len(a) + Len(b) :
                  (a \o b)[k] = IF k <= Len(a) THEN a[k] ELSE b[k - Len(a)]
OBVIOUS

LEMMA JoinEmpty ==
    ASSUME NEW S, NEW a \in Seq(S)
    PROVE  a \o << >> = a /\ << >> \o a = a
OBVIOUS

LEMMA JoinJoin ==
    ASSUME NEW S, NEW a \in Seq(S), NEW b \in Seq(S), NEW c \in Seq(S)
    PROVE  (a \o b) \o c = a \o (b \o c)
OBVIOUS

LEMMA AppendJoins ==
    ASSUME NEW S, NEW a \in Seq(S), NEW x \in S
    PROVE  Append(a, x) = a \o <<x>>
OBVIOUS

LEMMA AppendSeq ==
    ASSUME NEW S, NEW a \in Seq(S), NEW x \in S
    PROVE  /\ Append(a, x) \in Seq(S)
           /\ Len(Append(a, x)) = Len(a) + 1
           /\ \A k \in 1..Len(a) : Append(a, x)[k] = a[k]
           /\ Append(a, x)[Len(a) + 1] = x
OBVIOUS

LEMMA TailSeq ==
    ASSUME NEW S, NEW a \in Seq(S), a # << >>
    PROVE  /\ Head(a) \in S
           /\ Tail(a) \in Seq(S)
           /\ Len(Tail(a)) = Len(a) - 1
           /\ \A k \in 1..Len(Tail(a)) : Tail(a)[k] = a[k + 1]
OBVIOUS

-----------------------------------------------------------------------------
(* Sampling.  Each strategy is a recursive function over the logits: that  *)
(* it is defined, and what it returns, is shown by induction over the      *)
(* positions (UpTo, RecursionDefines).                                     *)

\* Every set of naturals that is not empty has a least element.
LeastFact == \A S \in SUBSET Nat : S # {} => \E m \in S : \A n \in S : m <= n

\* Induction from b to e, over the naturals with some property.
LEMMA UpTo ==
    ASSUME LeastFact, NEW b \in Nat, NEW e \in Nat, NEW P,
           b \in P, \A i \in (b + 1)..e : i - 1 \in P => i \in P
    PROVE  \A i \in b..e : i \in P
<1> DEFINE Bad == {i \in b..e : i \notin P}
<1> SUFFICES ASSUME Bad # {} PROVE FALSE
  OBVIOUS
<1>1. Bad \in SUBSET Nat
  OBVIOUS
<1>2. PICK m \in Bad : \A n \in Bad : m <= n
  <2> HIDE DEF Bad
  <2> QED
    BY <1>1 DEF LeastFact
<1>3. m \in b..e /\ m # b /\ m \notin P
  OBVIOUS
<1>4. m - 1 \in b..e /\ m \in (b + 1)..e /\ ~(m <= m - 1)
  BY <1>3
<1>5. m - 1 \in P
  BY <1>2, <1>4
<1> QED
  BY <1>3, <1>4, <1>5

\* A recursive definition over an interval defines something.
Recursive(f, b, e, a, h) ==
    f = [i \in b..e |-> IF i = b THEN a ELSE h[i][f[i - 1]]]

LEMMA RecursionDefines ==
    ASSUME LeastFact, NEW b \in Nat, NEW e \in Nat, b <= e, NEW S, NEW a \in S,
           NEW h \in [(b + 1)..e -> [S -> S]]
    PROVE  \E f \in [b..e -> S] : Recursive(f, b, e, a, h)
<1> DEFINE Solves(f, n) == \A i \in b..n : f[i] = IF i = b THEN a ELSE h[i][f[i - 1]]
           P == {n \in Nat : \E f \in [b..n -> S] : Solves(f, n)}
<1>1. b \in P
  <2> DEFINE f == [i \in b..b |-> a]
  <2>1. f \in [b..b -> S] /\ Solves(f, b)
    OBVIOUS
  <2> HIDE DEF f, Solves
  <2> QED
    BY Zenon, <2>1
<1>2. ASSUME NEW n \in (b + 1)..e, n - 1 \in P PROVE n \in P
  <2>1. PICK f \in [b..(n - 1) -> S] : Solves(f, n - 1)
    BY <1>2
  <2> DEFINE g == [i \in b..n |-> IF i = n THEN h[n][f[n - 1]] ELSE f[i]]
  <2>2. n \in Nat /\ n - 1 \in b..(n - 1) /\ n # b /\ n - 1 \in b..n
    OBVIOUS
  <2>3. h[n][f[n - 1]] \in S
    BY <2>1, <2>2
  <2>4. g \in [b..n -> S]
    BY <2>1, <2>2, <2>3
  <2>5. g[n] = h[n][g[n - 1]]
    BY <2>2
  <2>6. ASSUME NEW i \in b..(n - 1) PROVE g[i] = IF i = b THEN a ELSE h[i][g[i - 1]]
    <3>1. g[i] = f[i] /\ (i # b => g[i - 1] = f[i - 1])
      BY <2>2
    <3> QED
      BY <2>1, <3>1
  <2>7. \A i \in b..n : i = n \/ i \in b..(n - 1)
    BY <2>2
  <2> HIDE DEF g
  <2>8. ASSUME NEW i \in b..n PROVE g[i] = IF i = b THEN a ELSE h[i][g[i - 1]]
    <3>1. CASE i = n
      BY <2>2, <2>5, <3>1
    <3>2. CASE i # n
      BY Zenon, <2>6, <2>7, <3>2
    <3> QED
      BY <3>1, <3>2
  <2>9. Solves(g, n)
    BY Zenon, <2>8
  <2> HIDE DEF Solves
  <2> QED
    BY Zenon, <2>2, <2>4, <2>9
<1> HIDE DEF P
<1>3. e \in P
  <2>1. \A i \in b..e : i \in P
    BY Zenon, <1>1, <1>2, UpTo
  <2> QED
    BY <2>1
<1>4. PICK f \in [b..e -> S] : Solves(f, e)
  BY <1>3 DEF P
<1>5. f = [i \in b..e |-> IF i = b THEN a ELSE h[i][f[i - 1]]]
  BY <1>4
<1> QED
  BY Zenon, <1>5 DEF Recursive

\* The first of the largest of some logits.
FirstMax(logits, g) ==
    /\ g \in DOMAIN logits
    /\ \A j \in DOMAIN logits : logits[j] < logits[g] \/ (logits[j] = logits[g] /\ g <= j)

LEMMA GreedyIsFirstMax ==
    ASSUME LeastFact, NEW logits \in Seq(Int), logits # <<>>
    PROVE  FirstMax(logits, sample_greedy(logits))
<1> DEFINE e == Len(logits)
           S == 1..e
           better(i, m) == IF logits[i] > logits[m] THEN i ELSE m
           h == [i \in 2..e |-> [m \in S |-> better(i, m)]]
           max_idx == CHOOSE f : f = [i \in DOMAIN logits |->
                         IF i = 1 THEN 1
                         ELSE LET m == f[i - 1] IN IF logits[i] > logits[m] THEN i ELSE m]
<1>1. e \in Nat /\ 1 <= e /\ DOMAIN logits = 1..e /\ 1 \in S
  OBVIOUS
<1>2. h \in [(1 + 1)..e -> [S -> S]]
  BY <1>1
<1>3. PICK f \in [1..e -> S] : Recursive(f, 1, e, 1, h)
  <2>1. 1 \in Nat
    OBVIOUS
  <2> HIDE DEF h, S, e
  <2> QED
    BY Zenon, <1>1, <1>2, <2>1, RecursionDefines
<1>4. \A i \in 1..e : i # 1 => h[i][f[i - 1]] = better(i, f[i - 1])
  <2> TAKE i \in 1..e
  <2> HAVE i # 1
  <2>1. i \in 2..e /\ i - 1 \in 1..e
    BY <1>1
  <2>2. f[i - 1] \in S
    BY Zenon, <1>3, <2>1
  <2> QED
    BY <2>1, <2>2
<1>5. f = [i \in DOMAIN logits |-> IF i = 1 THEN 1 ELSE better(i, f[i - 1])]
  <2> HIDE DEF h, better
  <2>1. f = [i \in 1..e |-> IF i = 1 THEN 1 ELSE h[i][f[i - 1]]]
    BY Zenon, <1>3 DEF Recursive
  <2>2. f = [i \in 1..e |-> IF i = 1 THEN 1 ELSE better(i, f[i - 1])]
    BY Zenon, <1>4, <2>1
  <2> HIDE DEF e
  <2> QED
    BY Zenon, <1>1, <2>2
<1>6. max_idx = [i \in DOMAIN logits |-> IF i = 1 THEN 1 ELSE better(i, max_idx[i - 1])]
  BY Zenon, <1>5
<1> HIDE DEF max_idx
<1> DEFINE P == {i \in 1..e : /\ max_idx[i] \in 1..i
                              /\ \A j \in 1..i : \/ logits[j] < logits[max_idx[i]]
                                                 \/ /\ logits[j] = logits[max_idx[i]]
                                                    /\ max_idx[i] <= j}
<1>7. 1 \in P
  BY <1>1, <1>6
<1>8. ASSUME NEW i \in (1 + 1)..e, i - 1 \in P PROVE i \in P
  <2>1. max_idx[i] = better(i, max_idx[i - 1])
    <3>1. i \in DOMAIN logits /\ i # 1
      BY <1>1
    <3> HIDE DEF better
    <3> QED
      BY Zenon, <1>6, <3>1
  <2>2. \A j \in 1..i : logits[j] \in Int /\ (j = i \/ j \in 1..(i - 1))
    BY <1>1
  <2> DEFINE m == max_idx[i - 1]
  <2>3. m \in 1..(i - 1) /\ \A j \in 1..(i - 1) :
            logits[j] < logits[m] \/ (logits[j] = logits[m] /\ m <= j)
    BY <1>8
  <2>4. m \in 1..i /\ m <= i /\ i \in 1..i /\ i \in 1..e /\ logits[m] \in Int
    BY <1>1, <2>2, <2>3
  <2> HIDE DEF m
  <2>5. CASE logits[i] > logits[m]
    <3>1. max_idx[i] = i
      BY Zenon, <2>1, <2>5 DEF m
    <3>2. \A j \in 1..i : logits[j] < logits[i] \/ (logits[j] = logits[i] /\ i <= j)
      BY <2>2, <2>3, <2>4, <2>5
    <3> QED
      BY Zenon, <2>4, <3>1, <3>2
  <2>6. CASE ~(logits[i] > logits[m])
    <3>1. max_idx[i] = m
      BY Zenon, <2>1, <2>6 DEF m
    <3>2. \A j \in 1..i : logits[j] < logits[m] \/ (logits[j] = logits[m] /\ m <= j)
      BY <2>2, <2>3, <2>4, <2>6
    <3> QED
      BY Zenon, <2>4, <3>1, <3>2
  <2> QED
    BY <2>5, <2>6
<1>9. e \in P
  <2> HIDE DEF P
  <2>1. \A i \in 1..e : i \in P
    <3>1. 1 \in Nat
      OBVIOUS
    <3> QED
      BY Zenon, <1>1, <1>7, <1>8, <3>1, UpTo
  <2> QED
    BY <1>1, <2>1
<1>10. sample_greedy(logits) = max_idx[e]
  BY DEF sample_greedy, max_idx
<1> QED
  BY <1>1, <1>9, <1>10 DEF FirstMax

\* Logits as inference leaves them.
IsLogits(logits) ==
    logits \in Seq(Int) /\ logits # <<>> /\ \A i \in DOMAIN logits : logits[i] >= NegInf

LEMMA CumulativeGrows ==
    ASSUME LeastFact, NEW logits, IsLogits(logits)
    PROVE  /\ CumulativeWeight(logits, 0) = 0
           /\ \A i \in 0..Len(logits) : CumulativeWeight(logits, i) \in Nat
           /\ \A i \in 1..Len(logits) : CumulativeWeight(logits, i) =
                  CumulativeWeight(logits, i - 1) + (logits[i] - NegInf)
<1> DEFINE e == Len(logits)
           W(n) == Weight(logits[n])
           h == [n \in 1..e |-> [x \in Int |-> x + W(n)]]
           sum == CHOOSE f : f = [n \in 0..Len(logits) |->
                                    IF n = 0 THEN 0 ELSE f[n - 1] + Weight(logits[n])]
<1>1. e \in Nat /\ 0 <= e /\ 0 \in Nat /\ 0 \in Int /\ DOMAIN logits = 1..e
  BY DEF IsLogits
<1>2. \A n \in 1..e : W(n) \in Nat /\ W(n) = logits[n] - NegInf
  BY <1>1, NegInfAssumption DEF IsLogits, Weight
<1> HIDE DEF W
<1>3. h \in [(0 + 1)..e -> [Int -> Int]]
  BY <1>1, <1>2
<1>4. PICK f \in [0..e -> Int] : Recursive(f, 0, e, 0, h)
  <2> HIDE DEF h, e
  <2> QED
    BY Zenon, <1>1, <1>3, RecursionDefines
<1>5. \A n \in 0..e : n # 0 => h[n][f[n - 1]] = f[n - 1] + W(n)
  <2> TAKE n \in 0..e
  <2> HAVE n # 0
  <2>1. n \in 1..e /\ n - 1 \in 0..e
    BY <1>1
  <2>2. f[n - 1] \in Int
    BY Zenon, <1>4, <2>1
  <2> QED
    BY <2>1, <2>2
<1>6. f = [n \in 0..e |-> IF n = 0 THEN 0 ELSE f[n - 1] + W(n)]
  <2> HIDE DEF h
  <2> QED
    BY <1>1, <1>4, <1>5 DEF Recursive
<1>7. sum = [n \in 0..e |-> IF n = 0 THEN 0 ELSE sum[n - 1] + W(n)]
  BY Zenon, <1>6 DEF W
<1> HIDE DEF sum
<1>8. sum[0] = 0 /\ \A n \in 1..e : sum[n] = sum[n - 1] + W(n)
  <2>1. \A n \in 1..e : n \in 0..e /\ n # 0
    BY <1>1
  <2>2. 0 \in 0..e
    BY <1>1
  <2> QED
    BY Zenon, <1>7, <2>1, <2>2
<1> DEFINE P == {n \in 0..e : sum[n] \in Nat}
<1>9. 0 \in P
  BY <1>1, <1>8
<1>10. \A n \in (0 + 1)..e : n - 1 \in P => n \in P
  BY <1>1, <1>2, <1>8
<1>11. \A n \in 0..e : n \in P
  <2> HIDE DEF P, e
  <2> QED
    BY Zenon, <1>1, <1>9, <1>10, UpTo
<1>12. \A i : CumulativeWeight(logits, i) = sum[i]
  BY DEF CumulativeWeight, sum
<1>13. \A i \in 1..e : CumulativeWeight(logits, i) =
                  CumulativeWeight(logits, i - 1) + (logits[i] - NegInf)
  BY <1>2, <1>8, <1>12
<1> QED
  BY <1>8, <1>11, <1>12, <1>13

LEMMA DrawIsPossible ==
    ASSUME LeastFact, NEW logits, IsLogits(logits),
           NEW r \in 0..CumulativeWeight(logits, Len(logits))
    PROVE  /\ Draw(logits, r) \in DOMAIN logits
           /\ logits[Draw(logits, r)] > NegInf \/ Draw(logits, r) = 1
<1> DEFINE cw(i) == CumulativeWeight(logits, i)
           e == Len(logits)
           Reached == {i \in 1..e : r <= cw(i)}
<1>1. /\ e \in Nat /\ 1 <= e /\ DOMAIN logits = 1..e
      /\ \A i \in 1..e : logits[i] \in Int /\ logits[i] >= NegInf
  BY DEF IsLogits
<1>2. /\ \A i \in 0..e : cw(i) \in Nat
      /\ \A i \in 1..e : cw(i) = cw(i - 1) + (logits[i] - NegInf)
  BY CumulativeGrows
<1> HIDE DEF cw
<1>3. r \in Nat /\ r <= cw(e)
  BY <1>1, <1>2 DEF cw
<1>4. Reached \in SUBSET Nat /\ e \in Reached
  BY <1>1, <1>3
<1>5. PICK m \in Reached : \A n \in Reached : m <= n
  <2> HIDE DEF Reached
  <2> QED
    BY <1>4 DEF LeastFact
<1>6. m \in DOMAIN logits /\ r <= cw(m) /\ \A j \in 1..(m - 1) : r > cw(j)
  BY <1>1, <1>2, <1>3, <1>5
<1> DEFINE d == Draw(logits, r)
<1>7. d \in DOMAIN logits /\ r <= cw(d) /\ \A j \in 1..(d - 1) : r > cw(j)
  BY Zenon, <1>6 DEF Draw, cw
<1> HIDE DEF d
<1>8. ASSUME d # 1 PROVE logits[d] > NegInf
  <2>1. d \in 1..e /\ d - 1 \in 1..(d - 1) /\ d - 1 \in 0..e
    BY <1>1, <1>7, <1>8
  <2>2. r > cw(d - 1) /\ cw(d) = cw(d - 1) + (logits[d] - NegInf)
    BY <1>2, <1>7, <2>1
  <2>3. cw(d) \in Nat /\ cw(d - 1) \in Nat /\ logits[d] \in Int
    BY <1>1, <1>2, <2>1
  <2>4. r \in Nat /\ r <= cw(d)
    BY <1>3, <1>7
  <2> QED
    BY <2>2, <2>3, <2>4, NegInfAssumption
<1> QED
  BY <1>7, <1>8 DEF d

\* A token that some draw of a strategy without limits may return.
Possible(logits, token) ==
    token \in DOMAIN logits /\ (logits[token] > NegInf \/ token \in {1, Len(logits)})

LEMMA GreedyIsPossible ==
    ASSUME NEW logits, IsLogits(logits), NEW g, FirstMax(logits, g)
    PROVE  Possible(logits, g)
<1>1. DOMAIN logits = 1..Len(logits) /\ Len(logits) \in Nat /\ 1 \in DOMAIN logits
      /\ \A i \in DOMAIN logits : logits[i] \in Int /\ logits[i] >= NegInf
  BY DEF IsLogits
<1> QED
  BY <1>1, NegInfAssumption DEF FirstMax, Possible

LEMMA TemperatureDraws ==
    ASSUME LeastFact, NEW logits, IsLogits(logits), NEW temperature \in Nat,
           NEW token \in sample_temperature(logits, temperature)
    PROVE  /\ Possible(logits, token)
           /\ temperature = 0 => FirstMax(logits, token)
<1>1. FirstMax(logits, sample_greedy(logits))
  BY GreedyIsFirstMax DEF IsLogits
<1>2. CASE token = sample_greedy(logits)
  BY <1>1, <1>2, GreedyIsPossible
<1>3. CASE temperature <= 0
  BY <1>1, <1>3, GreedyIsPossible DEF sample_temperature
<1>4. CASE token = Len(logits) /\ ~(temperature <= 0)
  <2>1. Len(logits) \in DOMAIN logits
    BY DEF IsLogits
  <2> QED
    BY <1>4, <2>1 DEF Possible
<1>5. CASE ~(temperature <= 0) /\ \E r \in 0..CumulativeWeight(logits, Len(logits)) :
                                      token = Draw(logits, r)
  BY <1>5, DrawIsPossible DEF Possible
<1>6. temperature <= 0 \/ token \in {sample_greedy(logits), Len(logits)}
      \/ \E r \in 0..CumulativeWeight(logits, Len(logits)) : token = Draw(logits, r)
  BY DEF sample_temperature
<1> QED
  BY <1>2, <1>3, <1>4, <1>5, <1>6

\* The number of the first n positions.
CountFact == \A n \in Nat : Cardinality(1..n) = n

TopEntries == [val : Int, idx : Nat]

\* What the loop of sample_top_k knows after i logits: the entries are logits
\* it has seen, or as they were at the start; they are sorted, equal ones by
\* token; and a logit that is not among them is behind all of them.
TopInv(logits, k, i, t) ==
    /\ t \in [1..k -> TopEntries]
    /\ \A n \in 1..k : \/ t[n].val = NegInf /\ t[n].idx = 1
                       \/ /\ t[n].val > NegInf
                          /\ t[n].idx \in 1..i /\ logits[t[n].idx] = t[n].val
    /\ \A n, m \in 1..k : n < m =>
          \/ t[n].val > t[m].val
          \/ t[n].val = t[m].val /\ (t[n].val = NegInf \/ t[n].idx < t[m].idx)
    /\ \A j \in 1..i :
          \/ logits[j] = NegInf
          \/ \E n \in 1..k : t[n].idx = j /\ t[n].val = logits[j]
          \/ t[k].val > logits[j]
          \/ t[k].val = logits[j] /\ t[k].idx < j

Inserted(t, k, p, e) ==
    [n \in 1..k |-> IF n <= p THEN t[n] ELSE IF n = p + 1 THEN e ELSE t[n - 1]]

LEMMA InsertByParts ==
    ASSUME NEW k \in Nat \ {0}, NEW t \in [1..k -> TopEntries], NEW p \in 0..(k - 1), NEW e \in TopEntries
    PROVE  /\ SubSeq(t, 1, p) \o <<e>> \o SubSeq(t, p + 1, k - 1) = Inserted(t, k, p, e)
           /\ Inserted(t, k, p, e) \in [1..k -> TopEntries]
<1> DEFINE a == SubSeq(t, 1, p)
           b == SubSeq(t, p + 1, k - 1)
<1>1. t \in Seq(TopEntries) /\ Len(t) = k
  OBVIOUS
<1>2. a \in Seq(TopEntries) /\ Len(a) = p /\ \A n \in 1..p : a[n] = t[n]
  BY <1>1
<1>3. b \in Seq(TopEntries) /\ Len(b) = k - 1 - p /\ \A n \in 1..(k - 1 - p) : b[n] = t[p + n]
  BY <1>1
<1> HIDE DEF a, b
<1> DEFINE c == a \o <<e>>
<1>4. c \in Seq(TopEntries) /\ Len(c) = p + 1 /\ \A n \in 1..(p + 1) : c[n] = IF n <= p THEN t[n] ELSE e
  BY <1>2
<1> HIDE DEF c
<1>5. c \o b \in Seq(TopEntries) /\ Len(c \o b) = k
  BY <1>3, <1>4
<1>6. \A n \in 1..k : (c \o b)[n] = Inserted(t, k, p, e)[n]
  <2> TAKE n \in 1..k
  <2>1. CASE n <= p + 1
    <3>1. (c \o b)[n] = c[n] /\ n \in 1..(p + 1)
      BY <1>3, <1>4, <2>1
    <3> QED
      BY <1>4, <2>1, <3>1 DEF Inserted
  <2>2. CASE n > p + 1
    <3>1. (c \o b)[n] = b[n - (p + 1)] /\ n - (p + 1) \in 1..(k - 1 - p)
      BY <1>3, <1>4, <2>2
    <3>2. b[n - (p + 1)] = t[p + (n - (p + 1))] /\ p + (n - (p + 1)) = n - 1
      BY <1>3, <3>1
    <3> QED
      BY <2>2, <3>1, <3>2 DEF Inserted
  <2>3. n <= p + 1 \/ n > p + 1
    OBVIOUS
  <2> QED
    BY Zenon, <2>1, <2>2, <2>3
<1>7. Inserted(t, k, p, e) \in [1..k -> TopEntries]
  BY DEF Inserted
<1>8. Inserted(t, k, p, e) \in Seq(TopEntries) /\ Len(Inserted(t, k, p, e)) = k
  BY <1>7
<1>9. c \o b = Inserted(t, k, p, e)
  BY Zenon, <1>5, <1>6, <1>8, SameSeq
<1> QED
  BY <1>7, <1>9 DEF a, b, c

\* The entries at least as large as a value come first.
LEMMA AboveIsPrefix ==
    ASSUME LeastFact, CountFact, NEW logits, NEW k \in Nat \ {0}, NEW i, NEW t,
           TopInv(logits, k, i, t), NEW v \in Int, v > t[k].val
    PROVE  /\ Cardinality(Above(t, v)) \in 0..(k - 1)
           /\ \A n \in 1..k : t[n].val >= v <=> n <= Cardinality(Above(t, v))
<1> DEFINE Below == {n \in 1..k : ~(t[n].val >= v)}
<1>1. \A n \in 1..k : t[n].val \in Int
  BY DEF TopInv, TopEntries
<1>2. Below \in SUBSET Nat /\ k \in Below
  BY <1>1
<1>3. PICK m \in Below : \A n \in Below : m <= n
  <2> HIDE DEF Below
  <2> QED
    BY <1>2 DEF LeastFact
<1>4. m \in 1..k /\ t[m].val < v
  BY <1>1, <1>3
<1>5. \A n, o \in 1..k : n < o => t[n].val >= t[o].val
  BY <1>1 DEF TopInv
<1>6. \A n \in 1..k : t[n].val >= v <=> n <= m - 1
  <2> TAKE n \in 1..k
  <2>1. CASE n < m
    BY <1>3, <1>4, <2>1
  <2>2. CASE n = m
    BY <1>1, <1>4, <2>2
  <2>3. CASE n > m
    <3>1. t[m].val >= t[n].val
      BY <1>4, <1>5, <2>3
    <3> QED
      BY <1>1, <1>4, <2>3, <3>1
  <2> QED
    BY <1>4, <2>1, <2>2, <2>3
<1>7. Above(t, v) = 1..(m - 1)
  <2>1. DOMAIN t = 1..k
    BY DEF TopInv
  <2>2. \A n \in 1..(m - 1) : n \in 1..k /\ n <= m - 1
    BY <1>4
  <2>3. \A n \in 1..k : n <= m - 1 => n \in 1..(m - 1)
    BY <1>4
  <2> QED
    BY <1>6, <2>1, <2>2, <2>3 DEF Above
<1>8. m - 1 \in Nat /\ m - 1 \in 0..(k - 1)
  BY <1>4
<1>9. Cardinality(Above(t, v)) = m - 1
  BY <1>7, <1>8 DEF CountFact
<1> QED
  BY <1>6, <1>8, <1>9

LEMMA ConsiderKeeps ==
    ASSUME LeastFact, CountFact, NEW logits, IsLogits(logits), NEW k \in Nat \ {0},
           NEW i \in 1..Len(logits), NEW t, TopInv(logits, k, i - 1, t)
    PROVE  TopInv(logits, k, i, Consider(t, logits[i], i))
<1> DEFINE v == logits[i]
           p == Cardinality(Above(t, v))
           e == [val |-> v, idx |-> i]
           u == Consider(t, v, i)
<1>0. i \in Nat /\ v \in Int /\ v >= NegInf /\ i - 1 \in Nat
      /\ \A j \in 1..i : logits[j] \in Int /\ logits[j] >= NegInf /\ (j = i \/ j \in 1..(i - 1))
  BY DEF IsLogits
<1>1. t \in [1..k -> TopEntries] /\ Len(t) = k /\ k \in 1..k
      /\ \A n \in 1..k : t[n].val \in Int /\ t[n].idx \in Nat /\ t[n].val >= NegInf
  BY NegInfAssumption DEF TopInv, TopEntries
<1>2. \A n \in 1..k : t[n].val > NegInf => t[n].idx < i /\ t[n].idx \in 1..i
                                           /\ logits[t[n].idx] = t[n].val
  BY <1>0, <1>1, NegInfAssumption DEF TopInv
<1>3. CASE ~(v > t[k].val)
  <2>1. u = t
    BY <1>1, <1>3 DEF Consider
  <2> HIDE DEF u, v
  <2>2. \A n \in 1..k : \/ t[n].val = NegInf /\ t[n].idx = 1
                       \/ /\ t[n].val > NegInf
                          /\ t[n].idx \in 1..i /\ logits[t[n].idx] = t[n].val
    BY <1>2 DEF TopInv
  <2>3. ASSUME NEW j \in 1..i
        PROVE  \/ logits[j] = NegInf
               \/ \E n \in 1..k : t[n].idx = j /\ t[n].val = logits[j]
               \/ t[k].val > logits[j]
               \/ t[k].val = logits[j] /\ t[k].idx < j
    <3>1. CASE j = i
      BY <1>0, <1>1, <1>2, <1>3, <3>1, NegInfAssumption DEF v
    <3>2. CASE j # i
      BY <1>0, <3>2 DEF TopInv
    <3> QED
      BY <3>1, <3>2
  <2> QED
    BY <2>1, <2>2, <2>3 DEF TopInv, v, u
<1>4. CASE v > t[k].val
  <2>1. p \in 0..(k - 1) /\ \A n \in 1..k : t[n].val >= v <=> n <= p
    <3> HIDE DEF v
    <3> QED
      BY Zenon, <1>0, <1>4, AboveIsPrefix DEF p
  <2>2. e \in TopEntries /\ e.val = v /\ e.idx = i
    BY <1>0 DEF TopEntries
  <2>3. u = SubSeq(t, 1, p) \o <<e>> \o SubSeq(t, p + 1, k - 1)
    BY Zenon, <1>1, <1>4 DEF Consider
  <2> HIDE DEF p, e, v
  <2>4. u = Inserted(t, k, p, e) /\ u \in [1..k -> TopEntries]
    <3>1. p \in 0..(k - 1) /\ e \in TopEntries /\ t \in [1..k -> TopEntries]
      BY <1>1, <2>1, <2>2
    <3>2. /\ SubSeq(t, 1, p) \o <<e>> \o SubSeq(t, p + 1, k - 1) = Inserted(t, k, p, e)
          /\ Inserted(t, k, p, e) \in [1..k -> TopEntries]
      BY Zenon, <3>1, InsertByParts
    <3> HIDE DEF u
    <3> QED
      BY Zenon, <2>3, <3>2
  <2> HIDE DEF u
  <2>5. /\ p + 1 \in 1..k /\ u[p + 1] = e
        /\ \A n \in 1..k : n <= p => u[n] = t[n]
        /\ \A n \in 1..k : n > p + 1 => u[n] = t[n - 1] /\ n - 1 \in 1..k /\ n - 1 > p
        /\ \A n \in 1..k : n <= p \/ n = p + 1 \/ n > p + 1
    BY <2>1, <2>4 DEF Inserted
  <2>6. v > NegInf
    BY <1>0, <1>1, <1>4, NegInfAssumption
  <2>7. \A n \in 1..k : \/ u[n].val = NegInf /\ u[n].idx = 1
                       \/ /\ u[n].val > NegInf
                          /\ u[n].idx \in 1..i /\ logits[u[n].idx] = u[n].val
    <3>1. \A n \in 1..k : \/ t[n].val = NegInf /\ t[n].idx = 1
                         \/ /\ t[n].val > NegInf
                            /\ t[n].idx \in 1..i /\ logits[t[n].idx] = t[n].val
      BY <1>2 DEF TopInv
    <3>2. i \in 1..i /\ logits[i] = v
      BY <1>0 DEF v
    <3> QED
      BY <2>2, <2>5, <2>6, <3>1, <3>2
  <2>8. ASSUME NEW n \in 1..k, NEW m \in 1..k, n < m
        PROVE  \/ u[n].val > u[m].val
               \/ u[n].val = u[m].val /\ (u[n].val = NegInf \/ u[n].idx < u[m].idx)
    <3>0. \A a, b \in 1..k : a < b =>
             \/ t[a].val > t[b].val
             \/ t[a].val = t[b].val /\ (t[a].val = NegInf \/ t[a].idx < t[b].idx)
      BY DEF TopInv
    <3>1. CASE m <= p
      BY <2>1, <2>5, <2>8, <3>0, <3>1
    <3>2. CASE m = p + 1
      <4>1. u[n] = t[n] /\ t[n].val >= v /\ u[m] = e
        BY <2>1, <2>5, <2>8, <3>2
      <4> QED
        BY <1>0, <1>1, <1>2, <2>2, <2>6, <4>1, NegInfAssumption
    <3>3. CASE m > p + 1 /\ n <= p
      BY <2>1, <2>5, <3>0, <3>3
    <3>4. CASE m > p + 1 /\ n = p + 1
      <4>1. u[m] = t[m - 1] /\ m - 1 \in 1..k /\ ~(m - 1 <= p) /\ u[n] = e
        BY <2>1, <2>5, <3>4
      <4> QED
        BY <1>0, <1>1, <2>1, <2>2, <4>1
    <3>5. CASE m > p + 1 /\ n > p + 1
      BY <2>1, <2>5, <2>8, <3>0, <3>5
    <3> QED
      BY <2>5, <3>1, <3>2, <3>3, <3>4, <3>5
  <2>9. \/ u[k].val = v /\ t[k].val < v
        \/ u[k].val > t[k].val
        \/ u[k].val = t[k].val /\ (u[k].val = NegInf \/ u[k].idx < t[k].idx)
    <3>1. CASE k = p + 1
      BY <1>0, <1>1, <1>4, <2>2, <2>5, <3>1
    <3>2. CASE k # p + 1
      <4>1. u[k] = t[k - 1] /\ k - 1 \in 1..k /\ k - 1 < k
        <5>1. k > p + 1 /\ k \in 1..k /\ k - 1 < k
          BY <2>1, <3>2
        <5> QED
          BY <2>5, <5>1
      <4> QED
        BY <1>1, <4>1 DEF TopInv
    <3> QED
      BY <3>1, <3>2
  <2>10. ASSUME NEW j \in 1..i
         PROVE  \/ logits[j] = NegInf
                \/ \E n \in 1..k : u[n].idx = j /\ u[n].val = logits[j]
                \/ u[k].val > logits[j]
                \/ u[k].val = logits[j] /\ u[k].idx < j
    <3>0. u[k].val \in Int /\ u[k].idx \in Nat
      BY <1>1, <2>4 DEF TopEntries
    <3>1. CASE j = i
      BY <2>2, <2>5, <3>1 DEF v
    <3>2. ASSUME NEW n \in 1..k, t[n].idx = j, t[n].val = logits[j], n # k
          PROVE  \E o \in 1..k : u[o].idx = j /\ u[o].val = logits[j]
      <4>1. CASE n <= p
        BY <2>5, <3>2, <4>1
      <4>2. CASE n > p
        <5>1. n + 1 \in 1..k /\ n + 1 > p + 1 /\ (n + 1) - 1 = n
          BY <2>1, <3>2, <4>2
        <5> QED
          BY <2>5, <3>2, <5>1
      <4> QED
        BY <2>1, <4>1, <4>2
    <3>3. CASE t[k].idx = j /\ t[k].val = logits[j]
      BY <1>0, <1>1, <2>9, <3>0, <3>3, NegInfAssumption
    <3>4. CASE t[k].val > logits[j] \/ (t[k].val = logits[j] /\ t[k].idx < j)
      BY <1>0, <1>1, <2>9, <3>0, <3>4, NegInfAssumption
    <3>5. j = i \/ logits[j] = NegInf \/ (\E n \in 1..k : t[n].idx = j /\ t[n].val = logits[j])
          \/ t[k].val > logits[j] \/ (t[k].val = logits[j] /\ t[k].idx < j)
      BY <1>0 DEF TopInv
    <3> QED
      BY <3>1, <3>2, <3>3, <3>4, <3>5
  <2> QED
    BY <2>4, <2>7, <2>8, <2>10 DEF TopInv, u, v
<1> QED
  BY <1>3, <1>4

LEMMA TopKSorted ==
    ASSUME LeastFact, CountFact, NEW logits, IsLogits(logits), NEW k \in Nat \ {0},
           NEW t \in TopK(logits, k)
    PROVE  TopInv(logits, k, Len(logits), t)
<1> DEFINE e == Len(logits)
           fresh == [n \in 1..k |-> [val |-> NegInf, idx |-> 1]]
           Arrays == [1..k -> TopEntries]
           Inv(i, T) == \A s \in T : TopInv(logits, k, i, s)
           Considered(i, T) == {Consider(s, logits[i], i) : s \in T}
           top == CHOOSE f : f = [i \in 0..Len(logits) |->
                     IF i = 0 THEN {[n \in 1..k |-> [val |-> NegInf, idx |-> 1]]}
                     ELSE {Consider(s, logits[i], i) : s \in f[i - 1]}]
           h == [i \in 1..e |-> [T \in SUBSET Arrays |-> Considered(i, T) \cap Arrays]]
<1>1. e \in Nat /\ 0 <= e /\ 0 \in Nat /\ 0 \in 0..e
  BY DEF IsLogits
<1>2. TopInv(logits, k, 0, fresh) /\ fresh \in Arrays
  BY NegInfAssumption DEF TopInv, TopEntries
<1>3. \A i \in 1..e : \A T : Inv(i - 1, T) => Inv(i, Considered(i, T))
  BY ConsiderKeeps
<1>4. \A i : \A T : Inv(i, T) => T \in SUBSET Arrays
  BY DEF TopInv
<1> HIDE DEF fresh, Arrays, Inv, Considered
<1>5. h \in [(0 + 1)..e -> [SUBSET Arrays -> SUBSET Arrays]]
  BY <1>1
<1>6. PICK f \in [0..e -> SUBSET Arrays] : Recursive(f, 0, e, {fresh}, h)
  <2>1. {fresh} \in SUBSET Arrays
    BY <1>2
  <2> HIDE DEF h, e
  <2> QED
    BY Zenon, <1>1, <1>5, <2>1, RecursionDefines
<1>7. f[0] = {fresh} /\ \A i \in 1..e : i \in 0..e /\ f[i] = h[i][f[i - 1]] /\ f[i - 1] \in SUBSET Arrays
  <2>1. \A i \in 1..e : i \in 0..e /\ i # 0 /\ i - 1 \in 0..e
    BY <1>1
  <2> HIDE DEF h
  <2> QED
    BY Zenon, <1>1, <1>6, <2>1 DEF Recursive
<1>8. \A i \in 1..e : f[i] = Considered(i, f[i - 1]) \cap Arrays
  <2> TAKE i \in 1..e
  <2>1. f[i] = h[i][f[i - 1]] /\ f[i - 1] \in SUBSET Arrays
    BY Zenon, <1>7
  <2>2. \A T \in SUBSET Arrays : h[i][T] = Considered(i, T) \cap Arrays
    OBVIOUS
  <2> HIDE DEF h
  <2> QED
    BY Zenon, <2>1, <2>2
<1> HIDE DEF h
<1>9. \A i \in 0..e : Inv(i, f[i])
  <2> DEFINE P == {i \in 0..e : Inv(i, f[i])}
  <2>1. 0 \in P
    BY <1>1, <1>2, <1>7 DEF Inv
  <2>2. \A i \in (0 + 1)..e : i - 1 \in P => i \in P
    <3> TAKE i \in (0 + 1)..e
    <3> HAVE i - 1 \in P
    <3>1. i \in 1..e /\ i \in 0..e /\ Inv(i - 1, f[i - 1])
      BY <1>1
    <3>2. Inv(i, Considered(i, f[i - 1]))
      BY <1>3, <3>1
    <3>3. Inv(i, f[i])
      BY <1>8, <3>1, <3>2 DEF Inv
    <3> QED
      BY <3>1, <3>3
  <2>3. \A i \in 0..e : i \in P
    <3> HIDE DEF P, e
    <3> QED
      BY Zenon, <1>1, <2>1, <2>2, UpTo
  <2> QED
    BY Zenon, <2>3
<1>10. \A i \in 1..e : f[i] = Considered(i, f[i - 1])
  <2> TAKE i \in 1..e
  <2>1. i - 1 \in 0..e
    BY <1>1
  <2>2. Considered(i, f[i - 1]) \in SUBSET Arrays
    BY Zenon, <1>3, <1>4, <1>9, <2>1
  <2> QED
    BY Zenon, <1>8, <2>2
<1>11. f = [i \in 0..e |-> IF i = 0 THEN {fresh} ELSE Considered(i, f[i - 1])]
  <2>1. \A i \in 0..e : i # 0 => i \in 1..e
    BY <1>1
  <2>2. f = [i \in 0..e |-> f[i]]
    BY Zenon, <1>6
  <2> QED
    BY Zenon, <1>7, <1>10, <2>1, <2>2
<1>12. top = [i \in 0..e |-> IF i = 0 THEN {fresh} ELSE Considered(i, top[i - 1])]
  BY Zenon, <1>11 DEF Considered, fresh
<1> HIDE DEF top
<1>13. top[0] = {fresh} /\ \A i \in 1..e : top[i] = Considered(i, top[i - 1])
  <2>1. \A i \in 1..e : i \in 0..e /\ i # 0
    BY <1>1
  <2> QED
    BY Zenon, <1>1, <1>12, <2>1
<1>14. \A i \in 0..e : Inv(i, top[i])
  <2> DEFINE P == {i \in 0..e : Inv(i, top[i])}
  <2>1. 0 \in P
    BY <1>1, <1>2, <1>13 DEF Inv
  <2>2. \A i \in (0 + 1)..e : i - 1 \in P => i \in P
    <3> TAKE i \in (0 + 1)..e
    <3> HAVE i - 1 \in P
    <3>1. i \in 1..e /\ i \in 0..e /\ Inv(i - 1, top[i - 1])
      BY <1>1
    <3>2. Inv(i, Considered(i, top[i - 1]))
      BY <1>3, <3>1
    <3> QED
      BY <1>13, <3>1, <3>2
  <2>3. \A i \in 0..e : i \in P
    <3> HIDE DEF P, e
    <3> QED
      BY Zenon, <1>1, <2>1, <2>2, UpTo
  <2> QED
    BY Zenon, <2>3
<1>15. TopK(logits, k) = top[e]
  BY DEF TopK, top
<1>16. e \in 0..e
  BY <1>1
<1> QED
  BY Zenon, <1>14, <1>15, <1>16 DEF Inv

\* A set inside the image of 1..n has no more than n elements.
ImageFact ==
    \A n \in Nat : \A f \in [1..n -> Nat] : \A S \in SUBSET {f[p] : p \in 1..n} :
        Cardinality(S) \in Nat /\ Cardinality(S) <= n

\* The tokens that are better than this one: larger, or as large and lower.
BetterThan(logits, token) ==
    {i \in DOMAIN logits : \/ logits[i] > logits[token]
                           \/ logits[i] = logits[token] /\ i < token}

\* What DrawnIsLikely says of one token.
Likely(s, logits, token) ==
    /\ s.sampling = "GREEDY" \/ s.temperature = 0 => BetterThan(logits, token) = {}
    /\ s.sampling = "TOP_K" /\ s.top_k # 0 => Cardinality(BetterThan(logits, token)) < s.top_k
    /\ logits[token] > NegInf \/ token \in {1, Len(logits)} \/ s.sampling = "TOP_K"

LEMMA NoneIsBetter ==
    ASSUME ImageFact, NEW logits, IsLogits(logits), NEW token, FirstMax(logits, token)
    PROVE  BetterThan(logits, token) = {} /\ Cardinality(BetterThan(logits, token)) = 0
<1>1. DOMAIN logits = 1..Len(logits) /\ \A i \in DOMAIN logits : logits[i] \in Int
  BY DEF IsLogits
<1>2. BetterThan(logits, token) = {}
  BY <1>1 DEF FirstMax, BetterThan
<1>3. \A f \in [1..0 -> Nat] : Cardinality({}) \in Nat /\ Cardinality({}) <= 0
  <2>1. 0 \in Nat /\ \A f : {} \in SUBSET {f[p] : p \in 1..0}
    OBVIOUS
  <2> QED
    BY Zenon, <2>1 DEF ImageFact
<1>4. [p \in 1..0 |-> 0] \in [1..0 -> Nat]
  OBVIOUS
<1>5. Cardinality({}) \in Nat /\ Cardinality({}) <= 0
  BY Zenon, <1>3, <1>4
<1> QED
  BY <1>2, <1>5

\* Every other token may be better, and no more.
LEMMA FewerThanAll ==
    ASSUME ImageFact, NEW logits, IsLogits(logits), NEW token \in DOMAIN logits
    PROVE  /\ Cardinality(BetterThan(logits, token)) \in Nat
           /\ Cardinality(BetterThan(logits, token)) < Len(logits)
<1> DEFINE n == Len(logits) - 1
           f == [p \in 1..n |-> IF p < token THEN p ELSE p + 1]
           S == BetterThan(logits, token)
<1>1. /\ Len(logits) \in Nat /\ DOMAIN logits = 1..Len(logits) /\ n \in Nat
      /\ \A i \in DOMAIN logits : logits[i] \in Int
  BY DEF IsLogits
<1>2. f \in [1..n -> Nat]
  BY <1>1
<1>3. ASSUME NEW j \in S PROVE \E p \in 1..n : f[p] = j
  <2>1. j \in 1..Len(logits) /\ j # token
    BY <1>1 DEF BetterThan
  <2>2. CASE j < token
    <3>1. j \in 1..n /\ f[j] = j
      BY <1>1, <2>1, <2>2
    <3> QED
      BY <3>1
  <2>3. CASE j > token
    <3>1. j - 1 \in 1..n /\ f[j - 1] = j
      BY <1>1, <2>1, <2>3
    <3> QED
      BY <3>1
  <2> QED
    BY <1>1, <2>1, <2>2, <2>3
<1> HIDE DEF f, S
<1>4. S \in SUBSET {f[p] : p \in 1..n}
  BY <1>3
<1>5. Cardinality(S) \in Nat /\ Cardinality(S) <= n
  <2> HIDE DEF n
  <2> QED
    BY Zenon, <1>1, <1>2, <1>4 DEF ImageFact
<1> QED
  BY <1>1, <1>5 DEF S

\* What is better than an entry of the array is before it in the array.
LEMMA BetterAreBefore ==
    ASSUME NEW logits, IsLogits(logits), NEW k \in Nat \ {0}, NEW t,
           TopInv(logits, k, Len(logits), t), NEW n \in 1..k,
           NEW j \in BetterThan(logits, t[n].idx)
    PROVE  \E p \in 1..(n - 1) : t[p].idx = j
<1> DEFINE e == Len(logits)
           g == t[n].idx
<1>1. /\ e \in Nat /\ 1 \in 1..e /\ DOMAIN logits = 1..e
      /\ \A i \in 1..e : logits[i] \in Int /\ logits[i] >= NegInf
  BY DEF IsLogits
<1>2. /\ \A m \in 1..k : t[m].val \in Int /\ t[m].idx \in Nat
      /\ k \in 1..k /\ g \in 1..e
  BY <1>1 DEF TopInv, TopEntries
<1>3. j \in 1..e /\ (logits[j] > logits[g] \/ (logits[j] = logits[g] /\ j < g))
  BY <1>1 DEF BetterThan
<1>4. \/ t[n].val = NegInf /\ g = 1
      \/ t[n].val > NegInf /\ logits[g] = t[n].val
  BY DEF TopInv
<1>5. logits[j] > NegInf
  BY <1>1, <1>2, <1>3, <1>4, NegInfAssumption
<1>6. \A m \in 1..k : n < m =>
          \/ t[n].val > t[m].val
          \/ t[n].val = t[m].val /\ (t[n].val = NegInf \/ t[n].idx < t[m].idx)
  BY DEF TopInv
<1>7. \/ \E m \in 1..k : t[m].idx = j /\ t[m].val = logits[j]
      \/ t[k].val > logits[j]
      \/ t[k].val = logits[j] /\ t[k].idx < j
  <2>1. \/ logits[j] = NegInf
        \/ \E m \in 1..k : t[m].idx = j /\ t[m].val = logits[j]
        \/ t[k].val > logits[j]
        \/ t[k].val = logits[j] /\ t[k].idx < j
    BY Zenon, <1>3 DEF TopInv
  <2>2. logits[j] # NegInf
    BY <1>1, <1>3, <1>5, NegInfAssumption
  <2> QED
    BY Zenon, <2>1, <2>2
<1>8. CASE t[k].val > logits[j] \/ (t[k].val = logits[j] /\ t[k].idx < j)
  <2>1. n = k \/ t[n].val > t[k].val
        \/ (t[n].val = t[k].val /\ (t[n].val = NegInf \/ g < t[k].idx))
    <3>1. n = k \/ n < k
      OBVIOUS
    <3> QED
      BY Zenon, <1>2, <1>6, <3>1
  <2>0. t[k].val \in Int /\ t[k].idx \in Nat /\ t[n].val \in Int /\ g \in Nat
        /\ logits[j] \in Int /\ j \in Int
    BY <1>1, <1>2, <1>3
  <2> HIDE DEF g
  <2>2. t[n].val >= logits[j]
    <3>1. CASE n = k
      BY <1>8, <2>0, <3>1
    <3>2. CASE n # k
      BY <1>8, <2>0, <2>1, <3>2
    <3> QED
      BY <3>1, <3>2
  <2>3. t[n].val = logits[j] /\ j < g /\ t[n].val > NegInf
    BY <1>1, <1>2, <1>3, <1>4, <1>5, <2>2, NegInfAssumption
  <2> QED
    <3>1. CASE n = k
      BY <1>8, <2>0, <2>3, <3>1 DEF g
    <3>2. CASE n # k
      BY <1>8, <2>0, <2>1, <2>3, <3>2, NegInfAssumption
    <3> QED
      BY <3>1, <3>2
<1>9. ASSUME NEW m \in 1..k, t[m].idx = j, t[m].val = logits[j] PROVE m \in 1..(n - 1)
  <2>1. m # n
    BY <1>1, <1>2, <1>3, <1>9
  <2>2. ~(n < m)
    <3> SUFFICES ASSUME n < m PROVE FALSE
      OBVIOUS
    <3>1. \/ t[n].val > logits[j]
          \/ t[n].val = logits[j] /\ g < j
      BY <1>1, <1>2, <1>5, <1>6, <1>9, NegInfAssumption
    <3>2. logits[g] = t[n].val
      BY <1>1, <1>2, <1>3, <1>4, <1>5, <3>1, NegInfAssumption
    <3> QED
      BY <1>1, <1>2, <1>3, <3>1, <3>2
  <2> QED
    BY <2>1, <2>2
<1> QED
  BY <1>7, <1>8, <1>9

LEMMA TopKIsLikely ==
    ASSUME LeastFact, CountFact, ImageFact, NEW logits, IsLogits(logits),
           NEW k \in Nat \ {0}, NEW temperature \in Nat,
           NEW t \in TopK(logits, k),
           NEW n \in sample_temperature([m \in 1..k |-> t[m].val], temperature)
    PROVE  /\ t[n].idx \in DOMAIN logits
           /\ Cardinality(BetterThan(logits, t[n].idx)) < k
           /\ temperature = 0 => BetterThan(logits, t[n].idx) = {}
<1> DEFINE vals == [m \in 1..k |-> t[m].val]
           S == BetterThan(logits, t[n].idx)
           f == [p \in 1..(n - 1) |-> t[p].idx]
<1>1. TopInv(logits, k, Len(logits), t)
  BY TopKSorted
<1>2. \A m \in 1..k : t[m].val \in Int /\ t[m].idx \in Nat /\ t[m].val >= NegInf
                      /\ t[m].idx \in DOMAIN logits
  <2>1. DOMAIN logits = 1..Len(logits) /\ Len(logits) \in Nat /\ 1 \in 1..Len(logits)
    BY DEF IsLogits
  <2>2. \A m \in 1..k : t[m].val \in Int /\ t[m].idx \in Nat
    BY <1>1 DEF TopInv, TopEntries
  <2>3. \A m \in 1..k : \/ t[m].val = NegInf /\ t[m].idx = 1
                        \/ t[m].val > NegInf /\ t[m].idx \in 1..Len(logits)
    BY Zenon, <1>1 DEF TopInv
  <2> QED
    BY <2>1, <2>2, <2>3, NegInfAssumption
<1>3. IsLogits(vals) /\ DOMAIN vals = 1..k
  <2>1. vals \in Seq(Int) /\ Len(vals) = k
    BY <1>2
  <2>2. \A m \in 1..k : vals[m] >= NegInf
    BY <1>2
  <2> HIDE DEF vals
  <2>3. DOMAIN vals = 1..k /\ vals # <<>>
    BY <2>1
  <2> QED
    BY Zenon, <2>1, <2>2, <2>3 DEF IsLogits
<1>4. n \in 1..k /\ (temperature = 0 => FirstMax(vals, n))
  <2>1. Possible(vals, n) /\ (temperature = 0 => FirstMax(vals, n))
    <3> HIDE DEF vals
    <3>1. n \in sample_temperature(vals, temperature)
      BY Zenon DEF vals
    <3> QED
      BY Zenon, <1>3, <3>1, TemperatureDraws
  <2> HIDE DEF vals
  <2> QED
    BY <1>3, <2>1 DEF Possible
<1>5. S \in SUBSET {f[p] : p \in 1..(n - 1)}
  <2>1. \A j \in S : \E p \in 1..(n - 1) : t[p].idx = j
    BY <1>1, <1>4, BetterAreBefore
  <2> HIDE DEF S
  <2> QED
    BY <2>1
<1>6. n - 1 \in Nat /\ f \in [1..(n - 1) -> Nat]
  BY <1>2, <1>4
<1>7. Cardinality(S) \in Nat /\ Cardinality(S) <= n - 1
  <2> HIDE DEF S, f
  <2> QED
    BY Zenon, <1>5, <1>6 DEF ImageFact
<1>8. ASSUME temperature = 0 PROVE S = {}
  <2>1. vals[1] < vals[n] \/ (vals[1] = vals[n] /\ n <= 1)
    BY <1>4, <1>8 DEF FirstMax
  <2>2. n = 1
    <3> SUFFICES ASSUME 1 < n PROVE FALSE
      BY <1>4
    <3>1. t[1].val >= t[n].val
      BY <1>1, <1>2, <1>4 DEF TopInv
    <3> QED
      BY <1>2, <1>4, <2>1, <3>1
  <2> HIDE DEF S
  <2> QED
    BY <1>5, <2>2
<1> HIDE DEF S
<1>9. Cardinality(S) < k
  BY <1>4, <1>7
<1> QED
  BY Zenon, <1>2, <1>4, <1>8, <1>9 DEF S

LEMMA TokensAreLikely ==
    ASSUME LeastFact, CountFact, ImageFact, NEW logits, IsLogits(logits),
           NEW s, s.temperature \in Nat, s.top_k \in Nat, NEW token \in sample_token(logits, s)
    PROVE  Likely(s, logits, token)
<1> DEFINE temperature == s.temperature
           k == s.top_k
<1>1. Len(logits) \in Nat /\ Len(logits) # 0
  BY DEF IsLogits
<1>2. ASSUME NEW g, FirstMax(logits, g) PROVE Likely(s, logits, g)
  <2>1. Possible(logits, g) /\ BetterThan(logits, g) = {} /\ Cardinality(BetterThan(logits, g)) = 0
    BY <1>2, NoneIsBetter, GreedyIsPossible
  <2> QED
    BY <2>1 DEF Likely, Possible
<1>3. FirstMax(logits, sample_greedy(logits))
  BY GreedyIsFirstMax DEF IsLogits
<1>4. ASSUME NEW g \in sample_temperature(logits, temperature)
      PROVE  /\ Possible(logits, g)
             /\ temperature = 0 => BetterThan(logits, g) = {}
             /\ Cardinality(BetterThan(logits, g)) \in Nat
             /\ Cardinality(BetterThan(logits, g)) < Len(logits)
  <2>1. Possible(logits, g) /\ (temperature = 0 => FirstMax(logits, g))
    BY TemperatureDraws
  <2>2. g \in DOMAIN logits
    BY <2>1 DEF Possible
  <2> QED
    BY <2>1, <2>2, NoneIsBetter, FewerThanAll
<1>5. CASE s.sampling = "TEMPERATURE" \/ s.sampling = "TOP_P"
  <2>1. token \in sample_temperature(logits, temperature)
    BY <1>5 DEF sample_token, sample_top_p
  <2>2. Possible(logits, token) /\ (temperature = 0 => BetterThan(logits, token) = {})
    BY <1>4, <2>1
  <2> QED
    BY <1>5, <2>2 DEF Likely, Possible
<1>6. CASE s.sampling = "TOP_K"
  <2>1. token \in sample_top_k(logits, k, temperature)
    BY <1>6 DEF sample_token
  <2>2. CASE k = 0 \/ k >= Len(logits)
    <3>1. token \in sample_temperature(logits, temperature)
      BY <2>1, <2>2 DEF sample_top_k
    <3>2. /\ temperature = 0 => BetterThan(logits, token) = {}
          /\ Cardinality(BetterThan(logits, token)) < Len(logits)
      BY <1>4, <3>1
    <3>3. Cardinality(BetterThan(logits, token)) \in Nat
      BY <1>4, <3>1
    <3> QED
      BY <1>1, <1>6, <2>2, <3>2, <3>3 DEF Likely
  <2>3. CASE ~(k = 0 \/ k >= Len(logits)) /\ token = sample_greedy(logits)
    BY <1>2, <1>3, <2>3
  <2>4. CASE ~(k = 0 \/ k >= Len(logits)) /\ token # sample_greedy(logits)
    <3>1. PICK t \in TopK(logits, k) :
              \E n \in sample_temperature([m \in 1..k |-> t[m].val], temperature) : token = t[n].idx
      BY Zenon, <2>1, <2>4 DEF sample_top_k
    <3>2. PICK n \in sample_temperature([m \in 1..k |-> t[m].val], temperature) : token = t[n].idx
      BY Zenon, <3>1
    <3>3. k \in Nat \ {0}
      BY <2>4
    <3>4. /\ Cardinality(BetterThan(logits, token)) < k
          /\ temperature = 0 => BetterThan(logits, token) = {}
      BY Zenon, <3>2, <3>3, TopKIsLikely
    <3> QED
      BY <1>6, <3>4 DEF Likely
  <2> QED
    BY <2>2, <2>3, <2>4
<1>7. CASE s.sampling \notin {"TEMPERATURE", "TOP_P", "TOP_K"}
  <2>1. token = sample_greedy(logits)
    BY <1>7 DEF sample_token
  <2> QED
    BY <1>2, <1>3, <2>1
<1> QED
  BY <1>5, <1>6, <1>7

-----------------------------------------------------------------------------
(* Ring indices and the contents of a ring.                                *)

USE SlotCountAssumption DEF Index

LEMMA WrapSum ==
    \A t \in Index : \A d \in 0..SlotCount :
        Wrap(t + d) = IF t + d < SlotCount THEN t + d ELSE t + d - SlotCount
<1> SUFFICES ASSUME NEW t \in Index, NEW d \in 0..SlotCount
             PROVE  Wrap(t + d) = IF t + d < SlotCount THEN t + d
                                                       ELSE t + d - SlotCount
  OBVIOUS
<1>1. \A x \in 0..SlotCount-1 : x % SlotCount = x
  OBVIOUS
<1>2. \A x \in SlotCount..2*SlotCount-1 : x % SlotCount = x - SlotCount
  OBVIOUS
<1> QED
  BY <1>1, <1>2 DEF Wrap

LEMMA AvailableValue ==
    \A h, t \in Index :
        Available(h, t) = IF h >= t THEN h - t ELSE h - t + SlotCount
<1> SUFFICES ASSUME NEW h \in Index, NEW t \in Index
             PROVE  Available(h, t) = IF h >= t THEN h - t
                                                ELSE h - t + SlotCount
  OBVIOUS
<1>1. \A x \in 0..SlotCount-1 : x % SlotCount = x
  OBVIOUS
<1>2. \A x \in (-SlotCount)..(-1) : x % SlotCount = x + SlotCount
  OBVIOUS
<1> QED
  BY <1>1, <1>2 DEF Available, Wrap

LEMMA WrapType == \A t \in Index : \A d \in 0..SlotCount : Wrap(t + d) \in Index
BY WrapSum

\* Walking d slots on from t and asking how far it is gives d back.
LEMMA AvailableWrap ==
    \A t \in Index : \A d \in 0 .. SlotCount - 1 : Available(Wrap(t + d), t) = d
<1> SUFFICES ASSUME NEW t \in Index, NEW d \in 0 .. SlotCount - 1
             PROVE  Available(Wrap(t + d), t) = d
  OBVIOUS
<1>1. Wrap(t + d) = IF t + d < SlotCount THEN t + d ELSE t + d - SlotCount
  BY WrapSum
<1>2. Wrap(t + d) \in Index
  BY <1>1
<1> QED
  BY <1>1, <1>2, AvailableValue

\* Different distances are different slots.
LEMMA WrapInjective ==
    \A t \in Index : \A d, e \in 0 .. SlotCount - 1 :
        Wrap(t + d) = Wrap(t + e) => d = e
BY WrapSum

\* The slot d on from a point e on from t is the slot d + e on from t.
LEMMA WrapWrap ==
    \A t \in Index : \A d, e \in 0..SlotCount :
        d + e <= SlotCount => Wrap(Wrap(t + e) + d) = Wrap(t + (e + d))
<1> SUFFICES ASSUME NEW t \in Index, NEW d \in 0..SlotCount,
                    NEW e \in 0..SlotCount, d + e <= SlotCount
             PROVE  Wrap(Wrap(t + e) + d) = Wrap(t + (e + d))
  BY Zenon
<1>1. Wrap(t + e) \in Index
  BY Zenon, WrapType
<1>2. Wrap(Wrap(t + e) + d) = IF Wrap(t + e) + d < SlotCount
                              THEN Wrap(t + e) + d
                              ELSE Wrap(t + e) + d - SlotCount
  BY <1>1, WrapSum
<1>3. Wrap(t + (e + d)) = IF t + (e + d) < SlotCount
                          THEN t + (e + d) ELSE t + (e + d) - SlotCount
  <2>1. e + d \in 0..SlotCount
    OBVIOUS
  <2> QED
    BY Zenon, <2>1, WrapSum
<1> QED
  BY <1>2, <1>3, WrapSum

LEMMA AvailableType ==
    \A h, t \in Index : Available(h, t) \in 0 .. SlotCount - 1
BY AvailableValue
LEMMA WrapRange == \A x \in Int : Wrap(x) \in Index
BY DEF Wrap

LEMMA NextIndexType == \A i \in Index : NextIndex(i) \in Index
BY WrapRange DEF NextIndex

\* The window, as distances from t: h is the slot Available(h, t) on.
LEMMA WrapAvailable ==
    \A h, t \in Index : Wrap(t + Available(h, t)) = h
<1> SUFFICES ASSUME NEW h \in Index, NEW t \in Index
             PROVE  Wrap(t + Available(h, t)) = h
  OBVIOUS
<1>1. Available(h, t) \in 0..SlotCount
  BY AvailableType
<1>2. Available(h, t) = IF h >= t THEN h - t ELSE h - t + SlotCount
  BY AvailableValue
<1>3. Wrap(t + Available(h, t)) =
          IF t + Available(h, t) < SlotCount THEN t + Available(h, t)
                                   ELSE t + Available(h, t) - SlotCount
  BY <1>1, WrapSum
<1> QED
  BY <1>2, <1>3

\* Moving the near end n slots on shortens the window by n.
LEMMA AvailableDiff ==
    \A h, t \in Index : \A n \in 0..Available(h, t) :
        Available(h, Wrap(t + n)) = Available(h, t) - n
<1> SUFFICES ASSUME NEW h \in Index, NEW t \in Index,
                    NEW n \in 0..Available(h, t)
             PROVE  Available(h, Wrap(t + n)) = Available(h, t) - n
  OBVIOUS
<1>1. Available(h, t) \in 0 .. SlotCount - 1
  BY AvailableType
<1>2. n \in 0..SlotCount
  BY <1>1
<1>3. Wrap(t + n) = IF t + n < SlotCount THEN t + n ELSE t + n - SlotCount
  BY Zenon, <1>2, WrapSum
<1>4. Wrap(t + n) \in Index
  BY Zenon, <1>2, WrapType
<1>5. Available(h, t) = IF h >= t THEN h - t ELSE h - t + SlotCount
  BY AvailableValue
<1>6. Available(h, Wrap(t + n)) = IF h >= Wrap(t + n) THEN h - Wrap(t + n)
                                  ELSE h - Wrap(t + n) + SlotCount
  BY <1>4, AvailableValue
<1> QED
  BY <1>1, <1>2, <1>3, <1>5, <1>6

HIDE DEF Index

\* A store outside the window from t to h leaves every slot of the window.
LEMMA StoreOutside ==
    ASSUME NEW s \in [Index -> Tokens], NEW t \in Index, NEW h \in Index,
           NEW k \in Index, NEW v \in Tokens,
           Available(k, t) >= Available(h, t)
    PROVE  \A i \in 1..Available(h, t) :
              [s EXCEPT ![k] = v][Wrap(t + i - 1)] = s[Wrap(t + i - 1)]
<1>0. Available(h, t) \in 0 .. SlotCount - 1
  BY AvailableType
<1>1. ASSUME NEW i \in 1..Available(h, t)
      PROVE  Wrap(t + i - 1) \in Index /\ Wrap(t + i - 1) # k
  <2>1. i - 1 \in 0 .. SlotCount - 1 /\ i - 1 < Available(h, t)
    BY <1>0
  <2>2. t + i - 1 = t + (i - 1)
    BY <2>1 DEF Index
  <2>3. Available(Wrap(t + (i - 1)), t) = i - 1
    BY <2>1, AvailableWrap
  <2>4. Wrap(t + (i - 1)) \in Index
    BY <2>1, WrapType
  <2>5. Wrap(t + (i - 1)) # k
    BY <2>1, <2>3, <1>0
  <2> QED
    BY <2>2, <2>4, <2>5
<1> QED
  BY <1>1

\* What a reader finds from t to h is a sequence of tokens.
LEMMA ContentsType ==
    ASSUME NEW s \in [Index -> Tokens], NEW t \in Index, NEW h \in Index
    PROVE  /\ Contents(s, t, h) \in Seq(Tokens)
           /\ Len(Contents(s, t, h)) = Available(h, t)
<1>0. Available(h, t) \in 0 .. SlotCount - 1
  BY AvailableType
<1>1. ASSUME NEW i \in 1..Available(h, t)
      PROVE  s[Wrap(t + i - 1)] \in Tokens
  <2>1. t + i - 1 \in Int
    BY <1>0 DEF Index
  <2> QED
    BY <2>1, WrapRange
<1> QED
  BY <1>0, <1>1 DEF Contents

\* Growing the window: what lies between t and h, then the d slots from h on.
LEMMA ContentsExtend ==
    ASSUME NEW s \in [Index -> Tokens], NEW t \in Index, NEW h \in Index,
           NEW x \in Seq(Tokens), Available(h, t) + Len(x) <= SlotCount - 1,
           \A i \in 1..Len(x) : x[i] = s[Wrap(h + i - 1)]
    PROVE  Contents(s, t, Wrap(h + Len(x))) = Contents(s, t, h) \o x
<1> DEFINE a == Available(h, t)
           c == Contents(s, t, h)
           d == Len(x)
<1>0. /\ a \in 0 .. SlotCount - 1 /\ h = Wrap(t + a) /\ a + d <= SlotCount - 1
      /\ d \in 0..SlotCount
      /\ \A i \in 1..d : x[i] = s[Wrap(h + i - 1)]
  BY AvailableType, WrapAvailable
<1>1. c \in Seq(Tokens) /\ Len(c) = a
  BY ContentsType
<1>2. c = [i \in 1..a |-> s[Wrap(t + i - 1)]]
  BY DEF Contents
<1> HIDE DEF a, c, d
<1>3. \A e \in 0..d : Wrap(h + e) = Wrap(t + (a + e))
  <2> TAKE e \in 0..d
  <2>1. e \in 0..SlotCount /\ a \in 0..SlotCount /\ e + a <= SlotCount
    BY <1>0
  <2>2. Wrap(Wrap(t + a) + e) = Wrap(t + (a + e))
    BY <2>1, WrapWrap
  <2> QED
    BY <2>2, <1>0
<1>4. Available(Wrap(h + d), t) = a + d
  <2>1. a + d \in 0 .. SlotCount - 1
    BY <1>0
  <2>2. Available(Wrap(t + (a + d)), t) = a + d
    BY <2>1, AvailableWrap
  <2>3. Wrap(h + d) = Wrap(t + (a + d))
    <3>1. d \in 0..d
      BY <1>0
    <3> QED BY <1>3, <3>1
  <2> QED
    BY <2>2, <2>3
<1>5. /\ c \o x \in Seq(Tokens) /\ Len(c \o x) = a + d
      /\ \A i \in 1..(a + d) :
            (c \o x)[i] = IF i <= a THEN c[i] ELSE x[i - a]
  BY <1>1, JoinSeq DEF d
<1>6. ASSUME NEW i \in 1..(a + d)
      PROVE  s[Wrap(t + i - 1)] = IF i <= a THEN c[i] ELSE x[i - a]
  <2>1. CASE i <= a
    BY <1>0, <1>2, <2>1
  <2>2. CASE i > a
    <3>1. i - a \in 1..d /\ i - a - 1 \in 0..d
      BY <1>0, <2>2
    <3>2. Wrap(h + (i - a - 1)) = Wrap(t + (a + (i - a - 1)))
      BY <1>3, <3>1
    <3>3. a + (i - a - 1) = i - 1 /\ t + (i - 1) = t + i - 1
          /\ h + (i - a - 1) = h + (i - a) - 1
      BY <1>0, <3>1
    <3>4. s[Wrap(h + (i - a) - 1)] = x[i - a]
      BY <1>0, <3>1
    <3> QED
      BY <3>2, <3>3, <3>4, <1>0, <2>2
  <2> QED
    BY <1>0, <2>1, <2>2
<1>7. Contents(s, t, Wrap(h + d)) = [i \in 1..(a + d) |-> s[Wrap(t + i - 1)]]
  BY <1>4 DEF Contents
<1> DEFINE n == Contents(s, t, Wrap(h + d))
<1>8. Wrap(h + d) \in Index
  BY <1>0, WrapType
<1>9. n \in Seq(Tokens) /\ Len(n) = a + d
  BY <1>4, <1>8, ContentsType
<1>10. \A i \in 1..(a + d) : n[i] = (c \o x)[i]
  BY <1>5, <1>6, <1>7
<1> HIDE DEF n
<1>11. n = c \o x
  BY <1>5, <1>9, <1>10, SameSeq
<1> QED
  BY <1>11 DEF n, c, d

\* Shrinking the window: its first n slots, then the rest.
LEMMA ContentsSplit ==
    ASSUME NEW s \in [Index -> Tokens], NEW t \in Index, NEW h \in Index,
           NEW x \in Seq(Tokens), Len(x) <= Available(h, t),
           \A i \in 1..Len(x) : x[i] = s[Wrap(t + i - 1)]
    PROVE  Contents(s, t, h) = x \o Contents(s, Wrap(t + Len(x)), h)
<1> DEFINE n == Len(x)
           u == Wrap(t + n)
           d == Available(h, u)
           y == Contents(s, u, h)
<1>0. /\ Available(h, t) \in 0 .. SlotCount - 1
      /\ n \in 0 .. SlotCount - 1 /\ n \in 0..Available(h, t)
  BY AvailableType
<1>1. u \in Index /\ Available(u, t) = n
  BY <1>0, WrapType, AvailableWrap
<1>2. d = Available(h, t) - n
  BY <1>0, AvailableDiff
<1>3. y \in Seq(Tokens) /\ Len(y) = d
  BY <1>1, ContentsType
<1>4. Wrap(u + d) = h
  BY <1>1, WrapAvailable
<1>5. \A i \in 1..d : y[i] = s[Wrap(u + i - 1)]
  BY DEF Contents
<1>6. Contents(s, t, u) = x
  <2>1. Contents(s, t, u) \in Seq(Tokens) /\ Len(Contents(s, t, u)) = n
    BY <1>1, ContentsType
  <2>2. \A i \in 1..n : Contents(s, t, u)[i] = x[i]
    BY <1>1 DEF Contents
  <2> QED
    BY <2>1, <2>2, SameSeq
<1> HIDE DEF n, u, d, y
<1>7. d \in 0..SlotCount /\ Available(u, t) + d <= SlotCount - 1
  BY <1>0, <1>1, <1>2
<1>8. Contents(s, t, Wrap(u + Len(y))) = Contents(s, t, u) \o y
  <2>1. \A i \in 1..Len(y) : y[i] = s[Wrap(u + i - 1)]
    BY <1>3, <1>5
  <2>2. Available(u, t) + Len(y) <= SlotCount - 1
    BY <1>3, <1>7
  <2> QED
    BY Zenon, <1>1, <1>3, <2>1, <2>2, ContentsExtend
<1> QED
  BY <1>3, <1>4, <1>6, <1>8 DEF n, u, y

\* A ring with room for one more after d unpublished tokens.
LEMMA RoomForOne ==
    ASSUME NEW t \in Index, NEW h \in Index, NEW d \in Nat,
           Available(h, t) + d <= SlotCount - 1,
           NextIndex(Wrap(h + d)) # t
    PROVE  /\ Available(h, t) + d + 1 <= SlotCount - 1
           /\ Available(Wrap(h + d), t) = Available(h, t) + d
           /\ NextIndex(Wrap(h + d)) = Wrap(h + (d + 1))
<1> DEFINE a == Available(h, t)
<1>0. a \in 0 .. SlotCount - 1 /\ a + d \in 0 .. SlotCount - 1
      /\ h = Wrap(t + a) /\ a \in 0..SlotCount /\ d \in 0..SlotCount
      /\ 1 \in 0..SlotCount /\ a + d <= SlotCount - 1
  BY AvailableType, WrapAvailable
<1> HIDE DEF a
<1>1. Wrap(h + d) = Wrap(t + (a + d))
  <2>1. d + a <= SlotCount
    BY <1>0
  <2> QED
    BY <1>0, <2>1, WrapWrap
<1>2. Available(Wrap(h + d), t) = a + d
  BY <1>0, <1>1, AvailableWrap
<1>3. NextIndex(Wrap(h + d)) = Wrap(t + ((a + d) + 1))
  <2>1. 1 + (a + d) <= SlotCount /\ a + d \in 0..SlotCount
    BY <1>0
  <2> QED
    BY <1>0, <1>1, <2>1, WrapWrap DEF NextIndex
<1>4. NextIndex(Wrap(h + d)) = Wrap(h + (d + 1))
  <2>1. 1 + d <= SlotCount
    BY <1>0
  <2> QED
    BY <1>0, <2>1, WrapWrap DEF NextIndex
<1>5. a + d # SlotCount - 1
  <2> SUFFICES ASSUME a + d = SlotCount - 1 PROVE FALSE
    OBVIOUS
  <2>1. (a + d) + 1 = SlotCount /\ SlotCount \in 0..SlotCount
    BY <1>0
  <2>2. Wrap(t + SlotCount) = t
    BY <2>1, WrapSum DEF Index
  <2> QED
    BY <1>3, <2>1, <2>2
<1> QED
  BY <1>0, <1>2, <1>4, <1>5 DEF a
===============================================================================
