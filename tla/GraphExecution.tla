--------------------------- MODULE GraphExecution ---------------------------
(***************************************************************************)
(* What ggml_graph_compute promises its caller, whoever does the work: the *)
(* nodes of the graph are computed in order, a node only when all the ones *)
(* before it are complete, each of its chunks once; an abort lets the      *)
(* current node be completed and no later one begin; and the call returns  *)
(* when that is done.                                                      *)
(***************************************************************************)
EXTENDS Integers, Bags

CONSTANTS
    NNodes,           \* nodes of a graph
    Empty             \* the nodes that ask for no work

Nodes == 0..(NNodes - 1) \ Empty

VARIABLES
    busy,     \* ggml_graph_compute is running
    nchunk,   \* number of chunks of a node
    limit,    \* nodes from this one on are not computed
    done      \* the bag of chunks that were computed, of each node

promised == <<busy, nchunk, limit, done>>

Complete(n) == done[n] = SetToBag(0..(nchunk - 1))

Idle == [n \in Nodes |-> EmptyBag]

Init == busy = FALSE /\ nchunk \in Nat /\ limit = NNodes /\ done = Idle

Begin == /\ ~busy
         /\ busy' = TRUE /\ nchunk' \in Nat /\ done' = Idle
         /\ UNCHANGED limit

Compute == \E n \in Nodes : \E c \in 0..(nchunk - 1) :
    /\ busy /\ n < limit
    /\ \A m \in Nodes : m < n => Complete(m)
    /\ ~BagIn(c, done[n])
    /\ done' = [done EXCEPT ![n] = @ (+) SetToBag({c})]
    /\ UNCHANGED <<busy, nchunk, limit>>

Abort == \E n \in Nodes :
    /\ busy /\ limit = NNodes
    /\ \A m \in Nodes : (m < n => Complete(m)) /\ (m > n => done[m] = EmptyBag)
    /\ limit' = n + 1
    /\ UNCHANGED <<busy, nchunk, done>>

End == /\ busy /\ \A n \in Nodes : n < limit => Complete(n)
       /\ busy' = FALSE /\ limit' = NNodes
       /\ UNCHANGED <<nchunk, done>>

Next == Begin \/ Compute \/ Abort \/ End

Spec == Init /\ [][Next]_promised

=============================================================================
