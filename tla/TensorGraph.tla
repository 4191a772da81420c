---------------------------- MODULE TensorGraph ----------------------------
(***************************************************************************)
(* Tensors as ggml creates them, and the order in which                    *)
(* ggml_build_forward_expand puts them in a graph.                         *)
(*                                                                         *)
(* A tensor is a record; tensors refer to earlier ones by number.          *)
(*   kind    "weight": its data lies in memory of its own, as those of the *)
(*           model and of the KV cache do; "leaf": an input; "op": an      *)
(*           operation; "inplace": one of the operations                   *)
(*           ggml_op_can_inplace names; "view": a view, reshape, permute   *)
(*           or transpose, which computes nothing; "store": ggml_cpy, a    *)
(*           view of its second source into which it copies the first      *)
(*   src     the tensors it is computed from, or the tensor it is a view of *)
(*   root    for a view or store the tensor whose memory it shares, else 0 *)
(*   size    its size in bytes (of a view or store, irrelevant and 0)      *)
(*   output  ggml_set_output was called for it                             *)
(***************************************************************************)
EXTENDS Integers, Sequences, SequencesExt

Tensor(kind, src, root, size) ==
    [kind |-> kind, src |-> src, root |-> root, size |-> size, output |-> FALSE]

(* ggml_new_tensor_impl: a view of a view is a view of its root. *)
RootOf(tensors, t) == IF tensors[t].root # 0 THEN tensors[t].root ELSE t

IsView(tensors, t) == tensors[t].root # 0
IsLeaf(tensors, t) == tensors[t].kind \in {"weight", "leaf"}

(* The tensors no other is computed from. *)
Sinks(tensors) ==
    {t \in DOMAIN tensors : \A u \in DOMAIN tensors : t \notin ToSet(tensors[u].src)}

NoGraph == [visited |-> {}, leafs |-> <<>>, nodes |-> <<>>]

Graphs(tensors) ==
    [visited : SUBSET DOMAIN tensors, leafs : Seq(DOMAIN tensors),
     nodes : Seq(DOMAIN tensors)]

Listed(tensors, graph, t) ==
    IF IsLeaf(tensors, t) THEN [graph EXCEPT !.leafs = Append(@, t)]
                          ELSE [graph EXCEPT !.nodes = Append(@, t)]

(* One step after the other, each a function from graphs to graphs. *)
InTurn(steps, graph) ==
    LET after[j \in 0..Len(steps)] ==
            IF j = 0 THEN graph ELSE steps[j][after[j - 1]]
    IN  after[Len(steps)]

(* ggml_visit_parents_graph, for a graph evaluated from left to right: a   *)
(* tensor is listed once, after those it is computed from.                 *)
Visited(graph, t) == [graph EXCEPT !.visited = @ \cup {t}]

Expand_NodeFirst(tensors, graph, root) ==
    LET Visit[t \in DOMAIN tensors] ==
            [g \in Graphs(tensors) |->
                IF t \in g.visited THEN g
                ELSE InTurn([j \in DOMAIN tensors[t].src |-> Visit[tensors[t].src[j]]],
                            Listed(tensors, Visited(g, t), t))]
    IN  Visit[root][graph]

Expand(tensors, graph, root) ==
    LET Visit[t \in DOMAIN tensors] ==
            [g \in Graphs(tensors) |->
                IF t \in g.visited THEN g
                ELSE Listed(tensors,
                            InTurn([j \in DOMAIN tensors[t].src |->
                                       Visit[tensors[t].src[j]]],
                                   Visited(g, t)),
                            t)]
    IN  Visit[root][graph]

(* The graph of several tensors, the first created first. *)
GraphOf(tensors, roots) ==
    LET upto[t \in 0..Len(tensors)] ==
            IF t = 0 THEN NoGraph
            ELSE IF t \in roots THEN Expand(tensors, upto[t - 1], t)
            ELSE upto[t - 1]
    IN  upto[Len(tensors)]

=============================================================================
