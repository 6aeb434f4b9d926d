----------------------------- MODULE WeightLoader -----------------------------
(***************************************************************************)
(* The weight loader (userspace/weights/weight_loader.c): memory for the   *)
(* embedding, the components of every layer and lm_head, and one wavefront *)
(* per component.  load_all submits and does not poll; embedding and       *)
(* lm_head are allocated and no read is submitted for them.                *)
(***************************************************************************)
EXTENDS Wavefront

CONSTANTS
    NumLayers,         \* cfg.num_layers
    Components,        \* component_names, in order
    HiddenDim, KvDim, InterDim, VocabSize,    \* dimensions of the model
    Settings,          \* bound: the contexts and options loaders have
    MaxLoads           \* bound: calls of load_all in a behaviour

ASSUME WeightAssumption ==
    /\ {NumLayers, HiddenDim, KvDim, InterDim, VocabSize, MaxLoads} \subseteq Nat
    /\ Settings \subseteq [wf_ctx : {"infer", "weights"}, gpu_ctx : BOOLEAN,
                            load_to_gpu : BOOLEAN]
    /\ Components \in Seq({"wq", "wk", "wv", "wo", "ffn_up", "ffn_down"}) \ {<<>>}

VARIABLES
    settings,          \* loader->wf_ctx, loader->gpu_ctx (set or not), cfg.load_to_gpu
    wpc,               \* no loader, idle, or the part load_all is at
    layer, component,  \* loop indices of load_all
    ptrs,              \* the parts whose pointer is set
    owned,             \* history: allocations of each part that are not freed
    wrong_free,        \* history: memory was given to the other allocator
    bytes_loaded, layers_loaded, complete,    \* loader->progress
    sent,              \* history: how often each component was submitted
    loads              \* calls of load_all on this loader (bounded)

progress == <<bytes_loaded, layers_loaded, complete>>
loading == <<settings, wpc, layer, component, ptrs, owned, wrong_free, progress,
             sent, loads>>

Layers == 0..(NumLayers - 1)
LayerParts == Layers \X DOMAIN Components
Embedding == <<-1, 0>>
LmHead == <<NumLayers, 0>>
Parts == LayerParts \cup {Embedding, LmHead}

WeightInit ==
    /\ settings \in Settings
    /\ wpc = "none" /\ layer = 0 /\ component = 1
    /\ ptrs = {} /\ owned = [p \in Parts |-> 0] /\ wrong_free = FALSE
    /\ bytes_loaded = 0 /\ layers_loaded = 0 /\ complete = FALSE
    /\ sent = [p \in LayerParts |-> 0] /\ loads = 0

ComponentSize(name) ==
    CASE name \in {"wq", "wo"} -> HiddenDim * HiddenDim * 2
      [] name \in {"wk", "wv"} -> HiddenDim * KvDim * 2
      [] name \in {"ffn_up", "ffn_down"} -> HiddenDim * InterDim * 2

EmbedSize == VocabSize * HiddenDim * 2

\* kllm_weight_loader_create, with a cleared progress.
WeightCreate ==
    /\ wpc = "none"
    /\ wpc' = "idle"
    /\ UNCHANGED <<settings, layer, component, ptrs, owned, wrong_free, progress, sent,
                   loads, wavefronts>>

\* load_all is called; nothing stops a second call, whether the first failed
\* or not.
LoadAll ==
    /\ wpc = "idle" /\ loads < MaxLoads
    /\ loads' = loads + 1
    /\ wpc' = "embedding" /\ layer' = 0 /\ component' = 1
    /\ UNCHANGED <<settings, ptrs, owned, wrong_free, progress, sent, wavefronts>>

\* The pointer of a part is assigned what alloc_weight returns, whatever it
\* was before.
AllocWeight(p) ==
    /\ ptrs' = ptrs \cup {p}
    /\ owned' = [owned EXCEPT ![p] = @ + 1]

\* alloc_weight returns NULL: load_all returns -1.
AllocWeightFails(p) ==
    /\ ptrs' = ptrs \ {p}
    /\ wpc' = "idle"
    /\ UNCHANGED <<settings, layer, component, owned, wrong_free, progress, sent, loads,
                   wavefronts>>

LoadEmbedding ==
    /\ wpc = "embedding"
    /\ AllocWeight(Embedding)
    /\ bytes_loaded' = bytes_loaded + EmbedSize
    /\ wpc' = IF NumLayers > 0 THEN "layers" ELSE "lm_head"
    /\ UNCHANGED <<settings, layer, component, wrong_free, layers_loaded, complete, sent,
                   loads, wavefronts>>

\* load_one_component: a wavefront of one block.
ComponentBlock == [key |-> <<layer, component>>, dest |-> <<"weight", layer, component>>]

EndOfLayer == component = Len(Components)

\* One turn of the inner loop, and the end of the outer turn after the last.
LoadComponent ==
    /\ wpc = "layers"
    /\ AllocWeight(<<layer, component>>)
    /\ Submit(settings.wf_ctx, {ComponentBlock})
    /\ sent' = [sent EXCEPT ![<<layer, component>>] = @ + 1]
    /\ bytes_loaded' = bytes_loaded + ComponentSize(Components[component])
    /\ layers_loaded' = IF EndOfLayer THEN layers_loaded + 1 ELSE layers_loaded
    /\ component' = IF component = Len(Components) THEN 1 ELSE component + 1
    /\ layer' = IF component = Len(Components) THEN layer + 1 ELSE layer
    /\ wpc' = IF layer' = NumLayers THEN "lm_head" ELSE "layers"
    /\ UNCHANGED <<settings, wrong_free, complete, loads>>

\* The submission fails after the allocation: load_all returns -1.
LoadComponentFails ==
    /\ wpc = "layers"
    /\ AllocWeight(<<layer, component>>)
    /\ SubmitFails
    /\ wpc' = "idle"
    /\ UNCHANGED <<settings, layer, component, wrong_free, progress, sent, loads>>

LoadLmHead ==
    /\ wpc = "lm_head"
    /\ AllocWeight(LmHead)
    /\ bytes_loaded' = bytes_loaded + EmbedSize
    /\ complete' = TRUE
    /\ wpc' = "idle"
    /\ UNCHANGED <<settings, layer, component, wrong_free, layers_loaded, sent, loads,
                   wavefronts>>

NoMemory ==
    \/ wpc = "embedding" /\ AllocWeightFails(Embedding)
    \/ wpc = "layers" /\ AllocWeightFails(<<layer, component>>)
    \/ wpc = "lm_head" /\ AllocWeightFails(LmHead)

\* alloc_weight takes device memory when both are set, destroy gives all of
\* it to the device when there is one.
FromGpu == settings.gpu_ctx /\ settings.load_to_gpu
ToGpu == settings.gpu_ctx

\* Mutant of Freed: lm_head is forgotten.
FreedButLmHead == ptrs \ {LmHead}

Freed == ptrs

WeightDestroy ==
    /\ wpc = "idle"
    /\ wpc' = "destroyed"
    /\ wrong_free' = (Freed # {} /\ FromGpu # ToGpu)
    /\ owned' = [p \in Parts |-> IF p \in Freed /\ FromGpu = ToGpu
                                 THEN owned[p] - 1 ELSE owned[p]]
    /\ ptrs' = {}
    /\ UNCHANGED <<settings, layer, component, progress, sent, loads, wavefronts>>

WeightCall ==
    LoadEmbedding \/ LoadComponent \/ LoadComponentFails \/ LoadLmHead \/ NoMemory

WeightNext == WeightCreate \/ LoadAll \/ WeightCall \/ WeightDestroy

-----------------------------------------------------------------------------
(* The loader alone with its engine.                                       *)

WeightVars == <<wavefronts, loading>>

LoaderInit == WavefrontInit /\ WeightInit

LoaderNext == WeightNext \/ (EngineStep /\ UNCHANGED loading)

WeightSpec == LoaderInit /\ [][LoaderNext]_WeightVars

-----------------------------------------------------------------------------
(* Properties.                                                             *)

(* A destroyed loader leaves no memory behind and gives it back to the     *)
(* allocator it came from, whatever failed in load_all.  The exceptions    *)
(* are in the code: a second load_all overwrites pointers, and with a GPU  *)
(* but load_to_gpu unset malloc'd memory goes to kllm_gpu_free.            *)
WeightsReleased ==
    wpc = "destroyed" =>
        /\ wrong_free => settings.gpu_ctx /\ ~settings.load_to_gpu
        /\ loads <= 1 /\ ~wrong_free => \A p \in Parts : owned[p] = 0

(* When the loader reports complete, and so once load_all has returned 0,  *)
(* every component of every layer is at its place: weight_loader.h says    *)
(* that load_all blocks until complete.                                    *)
LoadedWhenComplete ==
    complete => \A p \in LayerParts : <<"weight", p[1], p[2]>> \in DOMAIN vram
=============================================================================
