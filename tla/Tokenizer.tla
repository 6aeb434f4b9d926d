------------------------------ MODULE Tokenizer ------------------------------
(***************************************************************************)
(* Phases 1 and 2 of the eBPF tokenizer (bpf/tokenizer.bpf.c): a prompt    *)
(* becomes byte tokens in the scratch buffer, and up to MAX_MERGE_PASSES   *)
(* calls of do_merge_pass each merge one pair, the leftmost of those with  *)
(* the lowest rank.  Phase 3, the ring, is TokenRing.                      *)
(*                                                                         *)
(* The merge table is loaded from outside when the program is attached; it *)
(* is one of Tables for the whole behaviour.  What the merges should       *)
(* compute is BytePairEncode: every rule in the order of its rank, applied *)
(* throughout the text.                                                    *)
(***************************************************************************)
EXTENDS Integers, Sequences, SequencesExt

CONSTANTS
    Bytes,             \* byte values; byte_to_token maps each to itself
    Tables,            \* merge tables that may be loaded
    MaxPromptLen,      \* MAX_PROMPT_LEN
    MaxSeqLen,         \* MAX_SEQ_LEN
    MaxMergePasses,    \* MAX_MERGE_PASSES
    NoPriority,        \* ~0U, the initial best_priority
    MaxLen,            \* bound: longest prompt
    MaxCalls           \* bound: calls in a behaviour

\* A table of byte-pair merges: each rule makes a token of its own, has a rank
\* of its own, and ranks behind the rules that make its parts.
IsMergeTable(t) ==
    \A p \in DOMAIN t :
        /\ t[p].merged_id \notin Bytes
        /\ t[p].priority < NoPriority
        /\ \A q \in DOMAIN t :
              /\ q # p => /\ t[q].merged_id # t[p].merged_id
                          /\ t[q].priority # t[p].priority
              /\ t[q].merged_id \in {p[1], p[2]} => t[q].priority < t[p].priority

ASSUME TokenizerAssumption ==
    /\ {MaxPromptLen, MaxSeqLen, MaxMergePasses, MaxLen, MaxCalls} \subseteq Nat
    /\ \A t \in Tables : IsMergeTable(t)

VARIABLES
    merge_table,       \* the BPF map
    prompt,            \* the argument buf of the current or last call
    tokens,            \* the scratch sequence, up to its len
    passes,            \* calls of do_merge_pass that merged
    pc,                \* where the call is
    ret,               \* what the last call returned
    calls              \* calls made (bounded)

vars == <<merge_table, prompt, tokens, passes, pc, ret, calls>>

Prompts == UNION {[1..n -> Bytes] : n \in 0..MaxLen}

Init ==
    /\ merge_table \in Tables
    /\ prompt = <<>> /\ tokens = <<>> /\ passes = 0
    /\ pc = "idle" /\ ret = 0 /\ calls = 0

\* len == 0 || len > MAX_PROMPT_LEN
Reject(buf) ==
    /\ pc = "idle" /\ calls < MaxCalls
    /\ Len(buf) \notin 1..MaxPromptLen
    /\ prompt' = buf
    /\ ret' = -1
    /\ calls' = calls + 1
    /\ UNCHANGED <<merge_table, tokens, passes, pc>>

\* Phase 1; the bytes behind MAX_SEQ_LEN are dropped.
BytesToTokens(buf) == SubSeq(buf, 1, IF Len(buf) < MaxSeqLen THEN Len(buf) ELSE MaxSeqLen)

Convert(buf) ==
    /\ pc = "idle" /\ calls < MaxCalls
    /\ Len(buf) \in 1..MaxPromptLen
    /\ prompt' = buf
    /\ tokens' = BytesToTokens(buf)
    /\ passes' = 0
    /\ pc' = "merge"
    /\ calls' = calls + 1
    /\ UNCHANGED <<merge_table, ret>>

Pair(s, i) == <<s[i], s[i + 1]>>

Mergeable(s) ==
    {i \in 1..(Len(s) - 1) :
        /\ Pair(s, i) \in DOMAIN merge_table
        /\ merge_table[Pair(s, i)].priority < NoPriority}

Priority(s, i) == merge_table[Pair(s, i)].priority

\* Mutant of BestPos: <= for <, so that the last of equal ranks wins.
RightmostBestPos(s) ==
    CHOOSE i \in Mergeable(s) : \A j \in Mergeable(s) :
        \/ Priority(s, i) < Priority(s, j)
        \/ Priority(s, i) = Priority(s, j) /\ i >= j

\* val->priority < best_priority, from left to right.
BestPos(s) ==
    CHOOSE i \in Mergeable(s) : \A j \in Mergeable(s) :
        \/ Priority(s, i) < Priority(s, j)
        \/ Priority(s, i) = Priority(s, j) /\ i <= j

\* Mutant of MergedAt: the shift starts one place late.
MergedAtUnshifted(s, i) ==
    SubSeq(s, 1, i - 1) \o <<merge_table[Pair(s, i)].merged_id>>
        \o SubSeq(s, i + 1, Len(s) - 1)

\* The pair becomes one token and the rest moves up.
MergedAt(s, i) ==
    SubSeq(s, 1, i - 1) \o <<merge_table[Pair(s, i)].merged_id>>
        \o SubSeq(s, i + 2, Len(s))

\* do_merge_pass returns 0.
MergePass ==
    /\ pc = "merge"
    /\ passes < MaxMergePasses
    /\ Mergeable(tokens) # {}
    /\ tokens' = MergedAt(tokens, BestPos(tokens))
    /\ passes' = passes + 1
    /\ UNCHANGED <<merge_table, prompt, pc, ret, calls>>

\* bpf_loop ends: its count is reached, or do_merge_pass returned 1.
LoopOver == passes = MaxMergePasses \/ Mergeable(tokens) = {}

Return ==
    /\ pc = "merge"
    /\ LoopOver
    /\ ret' = Len(tokens)
    /\ pc' = "idle"
    /\ UNCHANGED <<merge_table, prompt, tokens, passes, calls>>

Next ==
    \/ \E buf \in Prompts : Reject(buf) \/ Convert(buf)
    \/ MergePass
    \/ Return

Spec == Init /\ [][Next]_vars

-----------------------------------------------------------------------------
(* The reference.                                                          *)

\* One rule, throughout the text, from left to right.
ApplyRule(s, pair) ==
    FoldLeft(LAMBDA done, t :
                IF done # <<>> /\ <<Last(done), t>> = pair
                THEN Append(Front(done), merge_table[pair].merged_id)
                ELSE Append(done, t),
             <<>>, s)

RanksBefore(p) ==
    Cardinality({q \in DOMAIN merge_table :
                    merge_table[q].priority < merge_table[p].priority})

RulesByRank ==
    [n \in 1..Cardinality(DOMAIN merge_table) |->
        CHOOSE p \in DOMAIN merge_table : RanksBefore(p) = n - 1]

BytePairEncode(s) == FoldLeft(ApplyRule, s, RulesByRank)

\* The bytes a token stands for.
RuleFor(t) == CHOOSE p \in DOMAIN merge_table : merge_table[p].merged_id = t

Expand(s) ==
    LET Spell[n \in Nat, t \in Nat] ==
            IF n = 0 \/ t \in Bytes THEN <<t>>
            ELSE Spell[n - 1, RuleFor(t)[1]] \o Spell[n - 1, RuleFor(t)[2]]
    IN FoldLeft(LAMBDA text, t : text \o Spell[MaxSeqLen, t], <<>>, s)

-----------------------------------------------------------------------------
(* Properties.                                                             *)

Converted == pc = "merge" \/ (ret # -1 /\ calls > 0)

(* However many passes have run, the scratch sequence spells the prompt up *)
(* to MAX_SEQ_LEN bytes: merging loses, repeats and reorders nothing.      *)
Lossless == Converted => Expand(tokens) = BytesToTokens(prompt)

(* "validates output token IDs against a reference tokenizer": the merges  *)
(* done so far, one pair at a time, are always on the way to what byte     *)
(* pair encoding computes; a call returns exactly that, unless bpf_loop    *)
(* was cut off at MAX_MERGE_PASSES.                                        *)
MatchesReference ==
    Converted =>
        /\ BytePairEncode(tokens) = BytePairEncode(BytesToTokens(prompt))
        /\ pc = "idle" /\ passes < MaxMergePasses =>
              tokens = BytePairEncode(BytesToTokens(prompt))
=============================================================================
