-------------------------------- MODULE MCBpf --------------------------------
(* The two BPF programs on small instances.  They share no state, so a      *)
(* behaviour is one of the tokenizer or of the tracer.                      *)
EXTENDS MCTokenizer, MCTrace

VARIABLE part

\* A part that does not run has one initial state.
BpfInit ==
    /\ part \in {"tokenizer", "trace"}
    /\ Init /\ TraceInit
    /\ part # "tokenizer" => merge_table = CHOOSE t \in Tables : TRUE
    /\ part # "trace" => pid = CHOOSE p \in Processes : TRUE

BpfNext ==
    /\ UNCHANGED part
    /\ \/ part = "tokenizer" /\ Next /\ UNCHANGED trace_vars
       \/ part = "trace" /\ TraceNext /\ UNCHANGED vars

BpfSpec == BpfInit /\ [][BpfNext]_<<part, vars, trace_vars>>
=============================================================================
