----------------------------- MODULE GraphAlloc -----------------------------
(***************************************************************************)
(* The memory of a compute graph: how ggml-alloc plans it for a measure    *)
(* graph, reuses or remakes the plan for a graph with other sizes, and     *)
(* what the tensors hold while the graph is computed in that memory.       *)
(*                                                                         *)
(* This is how whisper.cpp uses it: whisper_sched_graph_init measures a    *)
(* graph of the largest sizes, and each window and each token allocates    *)
(* and computes one of the same make with the sizes at hand.  There is one *)
(* back end, the CPU, hence one buffer type.                               *)
(*                                                                         *)
(* A byte of memory remembers the tensor whose value was written to it     *)
(* last.  The application builds every graph of up to MaxTensors tensors.  *)
(***************************************************************************)
EXTENDS DynTallocr, TensorGraph, FiniteSets

CONSTANTS
    MaxTensors,   \* bound on the tensors of a graph
    MaxSinks,     \* bound on the tensors nothing is computed from
    MaxOutputs,   \* bound on the calls of ggml_set_output
    Sizes         \* the sizes of tensors

ASSUME GraphAssumption ==
    /\ MaxTensors \in Nat /\ MaxSinks \in Nat /\ MaxOutputs \in Nat
    /\ Sizes \subseteq Nat \ {0}
    /\ \A size \in Sizes : Aligned(size) <= Endless

VARIABLES
    phase,       \* what is going on
    tensors,     \* the tensors of the context
    graph,       \* the cgraph
    next,        \* the node to be planned or computed next
    chunks,      \* galloc->buf_tallocs[0]
    hash,        \* galloc->hash_values, by tensor
    plan,        \* galloc->leaf_allocs and node_allocs
    buffer,      \* sizes of the chunks of galloc->buffers[0]
    data,        \* tensor->data: where init_tensor put each tensor
    memory       \* the bytes of the buffer

vars == <<phase, tensors, graph, next, chunks, hash, plan, buffer, data, memory>>

built   == <<tensors, graph>>
galloc  == <<chunks, hash, plan, buffer>>
placed  == <<data, memory>>

T == DOMAIN tensors
Src(t) == tensors[t].src
Node == graph.nodes[next]

Nowhere == [chunk |-> 0, offset |-> 0]     \* GGML_BUFFER_ADDRESS_INVALID
NoPlan  == [leafs |-> <<>>, nodes |-> <<>>]

Init ==
    /\ phase = "create" /\ tensors = <<>> /\ graph = NoGraph /\ next = 1
    /\ chunks = NoChunks /\ hash = <<>> /\ plan = NoPlan /\ buffer = <<>>
    /\ data = <<>> /\ memory = <<>>

-----------------------------------------------------------------------------
(* The application creates tensors, the leafs first: when they are created *)
(* does not show in the graph.                                             *)

NewTensor(t) ==
    /\ phase = "create" /\ Len(tensors) < MaxTensors
    /\ tensors' = Append(tensors, t)
    /\ UNCHANGED <<phase, graph, next, galloc, placed>>

NewLeaf ==
    /\ \A t \in T : IsLeaf(tensors, t)
    /\ \/ NewTensor(Tensor("weight", <<>>, 0, 0))
       \/ \E size \in Sizes : NewTensor(Tensor("leaf", <<>>, 0, size))

Sources == {<<a>> : a \in T} \cup {<<a, b>> : a, b \in T}

(* An operation that can work in place has the layout of its first source. *)
NewOp == \E src \in Sources :
    \/ \E size \in Sizes : NewTensor(Tensor("op", src, 0, size))
    \/ LET size == tensors[RootOf(tensors, src[1])].size
       IN  size > 0 /\ NewTensor(Tensor("inplace", src, 0, size))

NewView == \E t \in T : NewTensor(Tensor("view", <<t>>, RootOf(tensors, t), 0))

(* ggml_cpy; whisper.cpp copies only into views of the KV caches and of    *)
(* the state of the VAD.                                                   *)
NewStore == \E a, b \in T :
    /\ tensors[RootOf(tensors, b)].kind = "weight"
    /\ NewTensor(Tensor("store", <<a, b>>, RootOf(tensors, b), 0))

SetOutput == \E t \in T :
    /\ phase = "create" /\ t = Len(tensors)
    /\ tensors[t].kind \in {"op", "inplace"} /\ ~tensors[t].output
    /\ Cardinality({u \in T : tensors[u].output}) < MaxOutputs
    /\ tensors' = [tensors EXCEPT ![t].output = TRUE]
    /\ UNCHANGED <<phase, graph, next, galloc, placed>>

(* It builds the graph from the sinks, the first created first.  As in     *)
(* whisper.cpp each of them is computed: of a leaf that no node reads      *)
(* ggml_gallocr_needs_realloc would not notice that it grew.               *)
BuildForward ==
    /\ phase = "create" /\ T # {}
    /\ \A t \in Sinks(tensors) : ~IsLeaf(tensors, t)
    /\ Cardinality(Sinks(tensors)) <= MaxSinks
    /\ graph' = GraphOf(tensors, Sinks(tensors))
    /\ phase' = "plan" /\ next' = 0
    /\ UNCHANGED <<tensors, galloc, placed>>

-----------------------------------------------------------------------------
(* ggml_gallocr_alloc_graph_impl plans the graph. *)

Unplanned == [children |-> 0, views |-> 0, addr |-> Nowhere, allocated |-> FALSE]

IsAllocated(h, t) == tensors[t].kind = "weight" \/ h[t].allocated

(* An allocator in the middle of planning: the tallocr and the hash values. *)
State(c, h) == [chunks |-> c, hash |-> h]

(* The memory of which source node t may take over, if any.  A view is      *)
(* never allocated itself, so the code that reuses its memory is not        *)
(* reached; equal layouts have equal sizes, so no extra space is freed.     *)
MayReuse_SharedParent(s, t, p) ==
    /\ tensors[t].kind = "inplace"
    /\ s.hash[p].allocated /\ ~tensors[p].output
    /\ tensors[p].size = tensors[t].size
    /\ s.hash[p].views = 0

MayReuse(s, t, p) ==
    /\ tensors[t].kind = "inplace"
    /\ s.hash[p].allocated /\ ~tensors[p].output
    /\ tensors[p].size = tensors[t].size
    /\ s.hash[p].children = 1 /\ s.hash[p].views = 0

Reusable(s, t) == {j \in DOMAIN Src(t) : MayReuse(s, t, Src(t)[j])}

FirstReusable(s, t) ==
    Src(t)[CHOOSE j \in Reusable(s, t) : \A k \in Reusable(s, t) : j <= k]

(* ggml_gallocr_allocate_node *)
AllocateNode(s, t) ==
    IF IsAllocated(s.hash, t) \/ IsView(tensors, t) THEN s
    ELSE IF Reusable(s, t) # {} THEN
        LET p == FirstReusable(s, t) IN
        [s EXCEPT !.hash = [@ EXCEPT ![t].allocated = TRUE,
                                     ![t].addr = s.hash[p].addr,
                                     ![p].allocated = FALSE]]
    ELSE LET a == Alloc(s.chunks, tensors[t].size) IN
         State(a.chunks, [s.hash EXCEPT ![t].allocated = TRUE,
                                        ![t].addr = a.addr])

AllocateAll(s, ts) ==
    LET upto[i \in 0..Len(ts)] ==
            IF i = 0 THEN s ELSE AllocateNode(upto[i - 1], ts[i])
    IN  upto[Len(ts)]

(* ggml_gallocr_free_node *)
FreeNode_FreesOutputs(s, t) ==
    State(FreeBytes(s.chunks, s.hash[t].addr, tensors[t].size),
          [s.hash EXCEPT ![t].allocated = FALSE])

FreeNode(s, t) ==
    IF tensors[t].output THEN s
    ELSE State(FreeBytes(s.chunks, s.hash[t].addr, tensors[t].size),
               [s.hash EXCEPT ![t].allocated = FALSE])

(* One use of p is over; if it was the last one its memory, or that of the *)
(* tensor it is a view of, is free.                                        *)
Unused(s, p) == s.hash[p].children = 0 /\ s.hash[p].views = 0

FreeIfUnused(s, p) ==
    IF Unused(s, p) /\ s.hash[p].allocated THEN FreeNode(s, p) ELSE s

UseOver_IgnoresViews(s, p) ==
    FreeIfUnused([s EXCEPT !.hash[p].children = @ - 1], RootOf(tensors, p))

UseOver(s, p) ==
    LET less == [s EXCEPT !.hash[p].children = @ - 1]
        root == tensors[p].root
    IN  IF ~Unused(less, p) THEN less
        ELSE IF IsView(tensors, p)
             THEN FreeIfUnused([less EXCEPT !.hash[root].views = @ - 1], root)
             ELSE FreeIfUnused(less, p)

UsesOver(s, ts) ==
    LET upto[i \in 0..Len(ts)] == IF i = 0 THEN s ELSE UseOver(upto[i - 1], ts[i])
    IN  upto[Len(ts)]

(* All leafs come first; then each tensor's uses and views are counted. *)
Uses(t) == UNION {{<<i, j>> : j \in {k \in DOMAIN Src(graph.nodes[i]) :
                                         Src(graph.nodes[i])[k] = t}} :
                     i \in DOMAIN graph.nodes}

Views(t) == {i \in DOMAIN graph.nodes : tensors[graph.nodes[i]].root = t}

PlanLeafs ==
    /\ phase = "plan" /\ next = 0
    /\ \E s \in {AllocateAll(State(NoChunks, [t \in T |-> Unplanned]), graph.leafs)} :
           /\ chunks' = s.chunks
           /\ hash' = [t \in T |-> [s.hash[t] EXCEPT !.children = Cardinality(Uses(t)),
                                                     !.views = Cardinality(Views(t))]]
    /\ next' = 1
    /\ UNCHANGED <<phase, built, plan, buffer, placed>>

PlanNode ==
    /\ phase = "plan" /\ next \in 1..Len(graph.nodes)
    /\ \E parents \in {AllocateAll(State(chunks, hash), Src(Node))} :
       \E allocated \in {AllocateNode(parents, Node)} :
       \E s \in {UsesOver(allocated, Src(Node))} :
           chunks' = s.chunks /\ hash' = s.hash
    /\ next' = next + 1
    /\ UNCHANGED <<phase, built, plan, buffer, placed>>

(* ggml_gallocr_reserve_n_impl keeps the addresses by position, not by     *)
(* tensor, and makes the buffer grow where it is too small.                *)
NoEntry == [planned |-> FALSE, addr |-> Nowhere, size_max |-> 0]

Entry(t) ==
    IF IsView(tensors, t) \/ tensors[t].kind = "weight" THEN NoEntry
    ELSE [planned |-> TRUE, addr |-> hash[t].addr, size_max |-> tensors[t].size]

Entries(ts) == [i \in DOMAIN ts |-> Entry(ts[i])]

ChunkSizes == [c \in DOMAIN chunks |-> chunks[c].max_size]

TooSmall == \E c \in DOMAIN chunks :
    c > Len(buffer) \/ chunks[c].max_size > buffer[c]

NewPlan ==
    [leafs |-> Entries(graph.leafs),
     nodes |-> [i \in DOMAIN graph.nodes |->
         LET t == graph.nodes[i] IN [dst |-> Entry(t), src |-> Entries(Src(t))]]]

(* A measure graph has been planned, or one that is to be computed. *)
Ready == IF data = <<>> THEN "measured" ELSE "reserved"

(* The back end may not give the memory (a buffer of no chunks needs none): *)
(* then the old buffer is gone and the new plan stays.                     *)
NewBuffer(failed) ==
    \/ buffer' = ChunkSizes /\ phase' = Ready
    \/ chunks # NoChunks /\ buffer' = <<>> /\ phase' = failed

Reserve ==
    /\ phase = "plan" /\ next = Len(graph.nodes) + 1
    /\ plan' = NewPlan
    /\ IF TooSmall \/ buffer = <<>> THEN NewBuffer("failed")
                                    ELSE UNCHANGED buffer /\ phase' = Ready
    /\ UNCHANGED <<built, next, chunks, hash, placed>>

(* ggml_backend_sched_alloc_splits answers a failed ggml_gallocr_alloc_graph *)
(* with ggml_gallocr_reserve_n, which plans the same graph again, to the   *)
(* same end, and asks for the buffer again.  What it returns is not looked *)
(* at: the plan is good for the graph, so the next                         *)
(* ggml_gallocr_alloc_graph goes on with the buffer that is NULL.          *)
ReserveAgain ==
    /\ phase = "failed"
    /\ plan' = NewPlan
    /\ NewBuffer("crashed")
    /\ UNCHANGED <<built, next, chunks, hash, placed>>

-----------------------------------------------------------------------------
(* The application makes the graph again, with sizes of its own: those     *)
(* that were equal are equal again, as they depend on the same number of   *)
(* tokens or frames.                                                       *)
Rebuild ==
    /\ phase = "measured"
    /\ \E now \in [Sizes -> Sizes] :
        tensors' = [t \in T |-> [tensors[t] EXCEPT !.size =
                                   IF @ > 0 THEN now[@] ELSE 0]]
    /\ data' = [t \in T |-> Nowhere]
    /\ phase' = "alloc"
    /\ UNCHANGED <<graph, next, galloc, memory>>

(* ggml_gallocr_needs_realloc.  (ggml_gallocr_node_needs_realloc returns   *)
(* TRUE for a tensor the plan is good for.)                                *)
PlanGoodFor_AnySize(t, entry) ==
    IsView(tensors, t) \/ tensors[t].kind = "weight" \/ entry.planned

PlanGoodFor(t, entry) ==
    \/ IsView(tensors, t) \/ tensors[t].kind = "weight"
    \/ entry.planned /\ entry.size_max >= tensors[t].size

NeedsRealloc ==
    \/ Len(plan.nodes) # Len(graph.nodes) \/ Len(plan.leafs) # Len(graph.leafs)
    \/ \E i \in DOMAIN graph.nodes :
        LET t == graph.nodes[i] IN
        \/ ~PlanGoodFor(t, plan.nodes[i].dst)
        \/ \E j \in DOMAIN Src(t) : ~PlanGoodFor(Src(t)[j], plan.nodes[i].src[j])

(* ggml_gallocr_alloc_graph, first part: remake the plan if necessary. *)
AllocGraph ==
    /\ phase = "alloc"
    /\ IF NeedsRealloc THEN phase' = "plan" /\ next' = 0
                       ELSE phase' = "reserved" /\ UNCHANGED next
    /\ UNCHANGED <<built, galloc, placed>>

(* Second part: ggml_gallocr_init_tensor for the leafs, then for each node *)
(* its sources and itself; a tensor that has an address keeps it.          *)
InitTensor(d, t, entry) ==
    IF d[t] # Nowhere \/ ~entry.planned THEN d ELSE [d EXCEPT ![t] = entry.addr]

InitAll(d, ts, entries) ==
    LET upto[i \in 0..Len(ts)] ==
            IF i = 0 THEN d ELSE InitTensor(upto[i - 1], ts[i], entries[i])
    IN  upto[Len(ts)]

Addresses ==
    LET upto[i \in 0..Len(graph.nodes)] ==
            IF i = 0 THEN InitAll([t \in T |-> Nowhere], graph.leafs, plan.leafs)
            ELSE LET t == graph.nodes[i] IN
                 InitTensor(InitAll(upto[i - 1], Src(t), plan.nodes[i].src),
                            t, plan.nodes[i].dst)
    IN  upto[Len(graph.nodes)]

(* The bytes tensor t takes at an address, and writing its value there. *)
Bytes(t, addr) == addr.offset .. (addr.offset + tensors[t].size - 1)

Written(m, t, addr) ==
    [m EXCEPT ![addr.chunk] = [b \in DOMAIN @ |->
        IF b \in Bytes(t, addr) THEN t ELSE @[b]]]

(* Then the application sets the inputs, in a buffer where none has a value. *)
InputsWritten(d) ==
    LET upto[i \in 0..Len(graph.leafs)] ==
            IF i = 0 THEN [c \in DOMAIN buffer |-> [b \in 0..(buffer[c] - 1) |-> 0]]
            ELSE LET t == graph.leafs[i] IN
                 IF tensors[t].kind = "leaf" THEN Written(upto[i - 1], t, d[t])
                                             ELSE upto[i - 1]
    IN  upto[Len(graph.leafs)]

SetInputs ==
    /\ phase = "reserved"
    /\ data' = Addresses
    /\ memory' = InputsWritten(Addresses)
    /\ phase' = "compute" /\ next' = 1
    /\ UNCHANGED <<built, galloc>>

-----------------------------------------------------------------------------
(* The nodes are computed in order.  Views compute nothing; a store writes *)
(* to memory of its own, outside the buffer.                               *)

Compute ==
    /\ phase = "compute" /\ next \in 1..Len(graph.nodes)
    /\ memory' = IF IsView(tensors, Node) THEN memory
                                          ELSE Written(memory, Node, data[Node])
    /\ next' = next + 1
    /\ phase' = IF next' > Len(graph.nodes) THEN "done" ELSE "compute"
    /\ UNCHANGED <<built, galloc, data>>

-----------------------------------------------------------------------------
Next ==
    \/ NewLeaf \/ NewOp \/ NewView \/ NewStore \/ SetOutput \/ BuildForward
    \/ PlanLeafs \/ PlanNode \/ Reserve \/ ReserveAgain
    \/ Rebuild \/ AllocGraph \/ SetInputs \/ Compute

Spec == Init /\ [][Next]_vars

-----------------------------------------------------------------------------
(* Properties *)

Phases == {"create", "plan", "failed", "crashed", "measured", "alloc",
           "reserved", "compute", "done"}

Address == [chunk : 0..MaxChunks, offset : Nat]

(* Types, and: what a tensor was given lies inside the buffer. *)
TypeOK ==
    /\ phase \in Phases
    /\ Len(tensors) <= MaxTensors
    /\ \A t \in T : RootOf(tensors, t) \in T
    /\ next \in 0..(Len(graph.nodes) + 1)
    /\ Len(chunks) <= MaxChunks
    /\ \A t \in DOMAIN hash : hash[t].children \in Nat /\ hash[t].views \in Nat
    /\ \A t \in DOMAIN data : data[t] \in Address
    /\ phase \in {"compute", "done"} => \A t \in T : data[t] # Nowhere =>
          Bytes(t, data[t]) \subseteq 0..(buffer[data[t].chunk] - 1)

(* ggml_build_forward_expand lists every tensor once, and every node after *)
(* the tensors it is computed from, whatever they share.                   *)
ListedInOrder == phase # "create" =>
    /\ ToSet(graph.nodes) \cup ToSet(graph.leafs) = T
    /\ Len(graph.nodes) + Len(graph.leafs) = Len(tensors)
    /\ \A i \in DOMAIN graph.nodes : \A p \in ToSet(Src(graph.nodes[i])) :
          IsLeaf(tensors, p) \/ \E k \in 1..(i - 1) : graph.nodes[k] = p

(* While a graph is planned each byte of a chunk is either in one free     *)
(* block or in one allocated tensor: nothing is handed out twice, freed    *)
(* twice or lost, and the free list stays sorted and merged.  Hence it has *)
(* at most one block more than tensors hold memory in the chunk: the       *)
(* assertion of ggml_dyn_tallocr_insert_block, that it has less than 256   *)
(* blocks, cannot fail while fewer than 255 tensors do.                    *)
Extent(t) == hash[t].addr.offset ..
             (hash[t].addr.offset + Aligned(tensors[t].size) - 1)

MemoryAccounted == phase = "plan" /\ next > 0 => \A c \in DOMAIN chunks :
    LET free == chunks[c].free
        held == {t \in T : hash[t].allocated /\ hash[t].addr.chunk = c}
    IN  /\ Coalesced(free) /\ Len(free) <= Cardinality(held) + 1
        /\ \A b \in 0..(chunks[c].max_size - 1) :
              Cardinality({t \in held : b \in Extent(t)})
            + Cardinality({i \in DOMAIN free :
                              b \in free[i].offset..(End(free[i]) - 1)}) = 1

(* When a graph is planned, only outputs and tensors that nothing is       *)
(* computed from, or that such a tensor is a view of, still hold memory:   *)
(* every other one was freed at its last use.                              *)
NothingLeaks == phase = "measured" => \A t \in T : hash[t].allocated =>
    tensors[t].output \/ \E u \in Sinks(tensors) : RootOf(tensors, u) = t

Holds(t) == tensors[t].kind = "weight"
            \/ \A b \in Bytes(t, data[t]) : memory[data[t].chunk][b] = t

Apart(t, u) == data[t].chunk # data[u].chunk
               \/ Bytes(t, data[t]) \cap Bytes(u, data[u]) = {}

(* At the start all inputs have their values; when a node is computed,     *)
(* each tensor it reads still holds what was computed for it, and the      *)
(* result goes elsewhere or, in place, exactly where one of them lies:     *)
(* also in memory planned for other sizes.                                 *)
InputsIntact == phase = "compute" =>
    /\ next = 1 => \A t \in ToSet(graph.leafs) : Holds(t)
    /\ tensors[Node].kind # "view" =>
          \A p \in {RootOf(tensors, q) : q \in ToSet(Src(Node))} :
              /\ Holds(p)
              /\ \/ IsView(tensors, Node) \/ tensors[p].kind = "weight"
                 \/ Apart(p, Node)
                 \/ tensors[Node].kind = "inplace" /\ data[p] = data[Node]

(* ggml-alloc.h: "output tensors are never freed and never overwritten";   *)
(* and, without that flag, the results nothing is computed from, as        *)
(* whisper.cpp has them (logits, embd_enc), are there at the end.          *)
OutputsSurvive == phase = "done" => \A t \in T :
    tensors[t].output \/ (\E u \in Sinks(tensors) : RootOf(tensors, u) = t)
        => Holds(t)

=============================================================================
