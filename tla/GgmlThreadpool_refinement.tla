---------------------- MODULE GgmlThreadpool_refinement ----------------------
(***************************************************************************)
(* For a pool of any size and graphs of any length: together the threads   *)
(* compute a graph as one would (GraphExecution).                          *)
(*                                                                         *)
(* That each chunk of a node is computed once rests on the counter of the  *)
(* chunks: a thread takes the one after the last that was taken, and the   *)
(* barrier before a node keeps the counter from being set anew while a     *)
(* thread still takes chunks by it.  That a node begins after the one      *)
(* before it is complete rests on the barriers; BarrierInv says how.       *)
(***************************************************************************)
EXTENDS GgmlThreadpool_proofs

(* The nodes that threads are at work on. *)
Open == {k \in Nodes : \E t \in Members : InNode(t) /\ local[t].node = k}

Holds(t, c) == Point(t) = "chunks" /\ local[t].chunk = c

Chunks == 0..(NChunk(n_graph.n) - 1)

(* The chunks of that node that are computed. *)
Taken == {c \in Chunks : c < current_chunk /\ \A t \in Members : ~Holds(t, c)}

Computed(k) == done[k] = SetToBag(Chunks)

(* At the barrier before the chunks of a node. *)
AwaitsChunks(t) == Point(t) \in AtBarrier /\ local[t].after = "chunks"

NodesDone ==
    Stage(0) # "over" =>
        /\ \A k \in Open : done[k] = SetToBag(Taken)
        /\ \A k \in Nodes \ Open : \A t \in Members :
              done[k] = SetToBag(IF k < Mark(t) THEN Chunks ELSE {})

ChunksApart ==
    \A t, u \in Members : Point(t) = "chunks" /\ Holds(u, local[t].chunk) => t = u

CounterAhead ==
    \A t \in Members :
        /\ InNode(t) => n_graph.n <= current_chunk
        /\ Point(t) = "chunks" => local[t].chunk < current_chunk
        /\ Point(t) = "abort?" => NChunk(n_graph.n) <= current_chunk

FirstChunks ==
    /\ \A t \in Members : AwaitsChunks(t) => local[t].chunk = t
    /\ AwaitsChunks(0) => current_chunk = n_graph.n

(* The main thread has not yet noticed that the last barrier is open.      *)
LastBarrierOpen == Stage(0) = "over" /\ pc[0] = "wait"

GraphDone ==
    LastBarrierOpen =>
        \A k \in Nodes : k < (IF abort = -1 THEN NNodes ELSE abort) => Computed(k)

DoneInv ==
    /\ DOMAIN done = Nodes
    /\ NodesDone /\ ChunksApart /\ CounterAhead /\ FirstChunks /\ GraphDone

-----------------------------------------------------------------------------

LEMMA BagAdd ==
    ASSUME NEW S, NEW c, c \notin S
    PROVE  SetToBag(S) (+) SetToBag({c}) = SetToBag(S \cup {c})
BY DEF SetToBag, (+)

LEMMA NodeFacts ==
    NNodes \in Nat /\ \A k \in Nodes : k \in Nat /\ k < NNodes /\ k \notin Empty
BY PoolAssumption DEF PoolAssumption, Nodes

LEMMA ChunkFacts ==
    ASSUME BarrierInv
    PROVE  /\ n_graph.n \in Nat /\ NChunk(n_graph.n) \in Nat /\ current_chunk \in Nat
           /\ \A t \in Threads : local[t] \in Locals /\ local[t].chunk \in Nat
<1>1. n_graph.n \in 0..NThreads /\ current_chunk \in Nat
  BY DEF BarrierInv, Types, Graphs
<1>2. n_graph.n \in Nat
  BY <1>1, PoolFacts
<1>3. NChunk(n_graph.n) \in Nat
  BY <1>2, PoolAssumption DEF NChunk, PoolAssumption
<1>4. \A t \in Threads : local[t] \in Locals
  BY DEF BarrierInv, Types
<1>5. QED
  BY <1>1, <1>2, <1>3, <1>4 DEF Locals

LEMMA MemberFacts ==
    ASSUME BarrierInv, NEW u \in Members
    PROVE  /\ u \in Threads /\ 0 \in Members /\ NNodes \in Nat /\ Stage(u) = Stage(0)
           /\ Mark(u) \in 0..NNodes /\ local[u].node \in 0..NNodes
           /\ InNode(u) =>
                 /\ local[u].node \in Nodes /\ Mark(u) = local[u].node + 1
                 /\ Stage(u) = IF local[u].node + 1 < NNodes THEN "end" ELSE "next"
           /\ AwaitsChunks(u) =>
                 /\ pc[u] \in AtBarrier /\ ~Released(u) /\ ~InNode(u)
                 /\ local[u].node \in Nodes /\ local[u].node # abort
                 /\ Mark(u) = local[u].node /\ Stage(u) = "next"
<1> USE DEF BarrierInv
<1>1. u \in Threads /\ 0 \in Members
  BY PoolFacts DEF Members, Threads, Types, Graphs
<1>2. Stage(u) = Stage(0)
  BY <1>1 DEF Together, Same
<1>3. Mark(u) \in 0..NNodes /\ (InNode(u) => local[u].node \in Nodes)
  BY <1>1, MarkBound
<1>4. local[u].node \in 0..NNodes
  BY <1>1, ChunkFacts DEF Locals
<1>5. InNode(u) => /\ Mark(u) = local[u].node + 1
                   /\ Stage(u) = IF local[u].node + 1 < NNodes THEN "end" ELSE "next"
  BY DEF InNode, Mark, NodeOf, Stage, Outside, Idle, AtBarrier
<1>6. ASSUME AwaitsChunks(u)
      PROVE  /\ pc[u] \in AtBarrier /\ ~Released(u) /\ ~InNode(u)
             /\ local[u].node \in Nodes /\ local[u].node # abort
             /\ Mark(u) = local[u].node /\ Stage(u) = "next"
  <2>1. Point(u) \in AtBarrier /\ local[u].after = "chunks"
    BY <1>6 DEF AwaitsChunks
  <2>2. pc[u] \in AtBarrier /\ ~Released(u) /\ Point(u) = pc[u]
    BY <2>1 DEF Point, AtBarrier
  <2>3. ~InNode(u) /\ Point(u) # "start"
    BY <2>1 DEF InNode, AtBarrier
  <2>4. Mark(u) = local[u].node
    BY <2>3 DEF Mark, NodeOf
  <2>5. Stage(u) = "next"
    BY <2>1, <2>3 DEF Stage, AtBarrier, Outside, Idle
  <2>6. Placed(u)
    BY <1>1
  <2>7. local[u].node \in Nodes /\ local[u].node # abort
    BY <2>1, <2>2, <2>6 DEF Placed
  <2>8. QED
    BY <2>2, <2>3, <2>4, <2>5, <2>7
<1>7. QED
  BY <1>1, <1>2, <1>3, <1>4, <1>5, <1>6, PoolFacts

(* The threads of a graph agree on which nodes lie behind them.            *)
LEMMA SameNodesBehind ==
    ASSUME BarrierInv, NEW t \in Members, NEW u \in Members, Stage(0) # "over",
           NEW k \in Nodes
    PROVE  k < Mark(t) <=> k < Mark(u)
<1>1. ASSUME NEW v \in Members, NEW w \in Members, k < Mark(v), ~(k < Mark(w))
      PROVE  FALSE
  <2>1. Same(w, v) /\ Stage(v) = Stage(0)
    BY MemberFacts DEF BarrierInv, Together
  <2>2. Mark(v) \in Int /\ Mark(w) \in Int /\ k \in Int
    BY MemberFacts, PoolFacts
  <2>3. Stage(v) # "end"
    BY <1>1, <2>1 DEF Same
  <2>4. k \in Mark(w)..(Mark(v) - 1)
    BY <1>1, <2>2
  <2>5. Stage(w) = "next"
    BY <2>1, <2>3 DEF Same, Stage
  <2>6. QED
    BY <2>1, <2>4, <2>5 DEF Same, Nodes
<1>2. QED
  BY <1>1

(* They are never at work on different nodes.                              *)
LEMMA OneNode ==
    ASSUME BarrierInv, NEW t \in Members, NEW u \in Members, InNode(t), InNode(u)
    PROVE  local[t].node = local[u].node
<1>1. Same(t, u)
  BY DEF BarrierInv, Together
<1>2. /\ local[t].node \in Nodes /\ Mark(t) = local[t].node + 1
      /\ Stage(t) = IF local[t].node + 1 < NNodes THEN "end" ELSE "next"
  BY MemberFacts
<1>3. /\ local[u].node \in Nodes /\ Mark(u) = local[u].node + 1
      /\ Stage(u) = IF local[u].node + 1 < NNodes THEN "end" ELSE "next"
  BY MemberFacts
<1>4. local[t].node \in 0..(NNodes - 1) /\ local[u].node \in 0..(NNodes - 1)
      /\ NNodes \in Nat
  BY <1>2, <1>3, PoolFacts
<1>5. Stage(t) = Stage(u) /\ (Stage(t) = "end" => Mark(t) = Mark(u))
  BY <1>1 DEF Same
<1>6. CASE Stage(t) = "end"
  <2>1. local[t].node + 1 = local[u].node + 1
    BY <1>2, <1>3, <1>5, <1>6
  <2>2. QED
    BY <1>4, <2>1
<1>7. CASE Stage(t) # "end"
  <2>1. ~(local[t].node + 1 < NNodes) /\ ~(local[u].node + 1 < NNodes)
    BY <1>2, <1>3, <1>5, <1>7
  <2>2. QED
    BY <1>4, <2>1
<1>8. QED
  BY <1>6, <1>7

(* Nobody is at work while a thread has yet to begin a node.               *)
LEMMA NoneInNode ==
    ASSUME BarrierInv, NEW u \in Members, Stage(u) = "next", ~InNode(u), Mark(u) \in Nodes,
           NEW v \in Members
    PROVE  ~InNode(v)
<1> SUFFICES ASSUME InNode(v) PROVE FALSE
  OBVIOUS
<1>1. Same(u, v)
  BY DEF BarrierInv, Together
<1>2. /\ local[v].node \in Nodes /\ Mark(v) = local[v].node + 1
      /\ Stage(v) = IF local[v].node + 1 < NNodes THEN "end" ELSE "next"
  BY MemberFacts
<1>3. local[v].node \in 0..(NNodes - 1) /\ NNodes \in Nat /\ Mark(u) \in 0..(NNodes - 1)
  BY <1>2, PoolFacts
<1>4. Mark(v) = NNodes
  BY <1>1, <1>2, <1>3 DEF Same
<1>5. Mark(u) \in Mark(u)..(Mark(v) - 1)
  BY <1>3, <1>4
<1>6. QED
  BY <1>1, <1>5 DEF Same, Nodes

(* Between graphs there is nothing to say.                                 *)
LEMMA NothingBetweenGraphs ==
    ASSUME BarrierInv, Stage(0) = "over", pc[0] # "wait", DOMAIN done = Nodes
    PROVE  DoneInv
<1>1. \A u \in Members : Stage(u) = "over"
  BY OverForAll
<1>2. \A u \in Members : ~InNode(u) /\ ~AwaitsChunks(u)
  BY <1>1 DEF Stage, InNode, AwaitsChunks, Outside, Idle, AtBarrier
<1>3. ~AwaitsChunks(0)
  BY DEF Stage, AwaitsChunks, Outside, Idle, AtBarrier
<1>4. \A u \in Members : Point(u) # "chunks" /\ Point(u) # "abort?"
  BY <1>2 DEF InNode
<1>5. QED
  BY <1>2, <1>3, <1>4
  DEF DoneInv, NodesDone, ChunksApart, CounterAhead, FirstChunks, GraphDone, LastBarrierOpen

-----------------------------------------------------------------------------
(* A step after which every thread of the graph is where it was, as far as *)
(* the chunks go.                                                          *)
LEMMA DoneStays ==
    ASSUME BarrierInv, DoneInv,
           UNCHANGED <<n_graph, done, abort>>,
           current_chunk' = current_chunk \/ \A u \in Members : ~InNode(u),
           Stage(0)' # "over" => Stage(0) # "over",
           LastBarrierOpen' => LastBarrierOpen,
           AwaitsChunks(0)' => current_chunk' = n_graph.n,
           \A u \in Members :
              /\ InNode(u)' <=> InNode(u)
              /\ Point(u)' = "chunks" <=> Point(u) = "chunks"
              /\ InNode(u) => local'[u].node = local[u].node /\ local'[u].chunk = local[u].chunk
              /\ AwaitsChunks(u)' => local'[u].chunk = u
              /\ Stage(0) # "over" => \A k \in Nodes : k < Mark(u)' <=> k < Mark(u)
    PROVE  DoneInv'
<1>1. Members' = Members /\ Chunks' = Chunks
  BY DEF Members, Chunks
<1>2. \A u \in Members : Point(u) = "chunks" => InNode(u)
  BY DEF InNode
<1>3. ASSUME NEW u \in Members, NEW c PROVE Holds(u, c)' <=> Holds(u, c)
  BY <1>2 DEF Holds
<1>4. current_chunk' = current_chunk => Taken' = Taken
  BY <1>1, <1>3 DEF Taken
<1>5. Open' = Open
  BY <1>1 DEF Open
<1>6. NodesDone'
  <2> SUFFICES ASSUME Stage(0)' # "over"
               PROVE  /\ \A k \in Open' : done'[k] = SetToBag(Taken')
                      /\ \A k \in Nodes \ Open' : \A t \in Members' :
                            done'[k] = SetToBag(IF k < Mark(t)' THEN Chunks' ELSE {})
    BY DEF NodesDone
  <2>1. /\ \A k \in Open : done[k] = SetToBag(Taken)
        /\ \A k \in Nodes \ Open : \A t \in Members :
              done[k] = SetToBag(IF k < Mark(t) THEN Chunks ELSE {})
    BY DEF DoneInv, NodesDone
  <2>2. \A k \in Nodes, t \in Members : k < Mark(t)' <=> k < Mark(t)
    OBVIOUS
  <2>3. current_chunk' # current_chunk => Open = {}
    BY DEF Open
  <2>4. QED
    BY <1>1, <1>4, <1>5, <2>1, <2>2, <2>3
<1>7. ChunksApart'
  <2> SUFFICES ASSUME NEW t \in Members, NEW u \in Members,
                      Point(t)' = "chunks", Holds(u, local[t].chunk)'
               PROVE  t = u
    BY <1>1 DEF ChunksApart
  <2>1. Point(t) = "chunks" /\ local'[t].chunk = local[t].chunk
    BY <1>2
  <2>2. Holds(u, local[t].chunk)
    BY <1>2, <2>1 DEF Holds
  <2>3. QED
    BY <2>1, <2>2 DEF DoneInv, ChunksApart
<1>8. CounterAhead'
  <2>1. \A u \in Members : Point(u)' = "abort?" => Point(u) = "abort?"
    BY DEF InNode
  <2>2. \A u \in Members : InNode(u)' => current_chunk' = current_chunk
    OBVIOUS
  <2>3. \A u \in Members : Point(u)' \in {"chunks", "abort?"} => InNode(u)'
    BY DEF InNode
  <2>4. QED
    BY <1>1, <1>2, <2>1, <2>2, <2>3 DEF DoneInv, CounterAhead
<1>9. FirstChunks'
  BY <1>1 DEF DoneInv, FirstChunks
<1>10. GraphDone'
  BY <1>1 DEF DoneInv, GraphDone, Computed
<1>11. QED
  BY <1>6, <1>7, <1>8, <1>9, <1>10 DEF DoneInv

(* The same for the step of one thread.                                    *)
LEMMA DoneStaysFor ==
    ASSUME BarrierInv, DoneInv, NEW t \in Threads,
           \A u \in Threads \ {t} : pc'[u] = pc[u] /\ local'[u] = local[u],
           \A u \in Workers \ {t} : last_graph'[u] = last_graph[u],
           UNCHANGED <<n_graph, n_barrier_passed, done, abort>>,
           current_chunk' = current_chunk \/ (t = 0 /\ \A u \in Members : ~InNode(u)),
           t = 0 => /\ Stage(0)' # "over" => Stage(0) # "over"
                    /\ LastBarrierOpen' => LastBarrierOpen
                    /\ AwaitsChunks(0)' => current_chunk' = n_graph.n,
           t \in Members =>
              /\ InNode(t)' <=> InNode(t)
              /\ Point(t)' = "chunks" <=> Point(t) = "chunks"
              /\ InNode(t) => local'[t].node = local[t].node /\ local'[t].chunk = local[t].chunk
              /\ AwaitsChunks(t)' => local'[t].chunk = t
              /\ Stage(0) # "over" => \A k \in Nodes : k < Mark(t)' <=> k < Mark(t)
    PROVE  DoneInv'
<1>1. \A u \in Threads \ {t} : /\ Point(u)' = Point(u) /\ InNode(u)' = InNode(u)
                               /\ Stage(u)' = Stage(u) /\ Mark(u)' = Mark(u)
  BY OthersStay DEF BarrierInv
<1>2. \A u \in Threads \ {t} : (AwaitsChunks(u)' <=> AwaitsChunks(u))
  BY <1>1 DEF AwaitsChunks
<1>3. \A u \in Members : u \in Threads
  BY MemberFacts
<1>4. t # 0 => /\ Stage(0)' = Stage(0) /\ (LastBarrierOpen' <=> LastBarrierOpen)
               /\ AwaitsChunks(0)' => current_chunk' = n_graph.n
  BY <1>1, <1>2, PoolFacts DEF LastBarrierOpen, DoneInv, FirstChunks
<1>5. ASSUME NEW u \in Members
      PROVE  /\ InNode(u)' <=> InNode(u)
             /\ Point(u)' = "chunks" <=> Point(u) = "chunks"
             /\ InNode(u) => local'[u].node = local[u].node /\ local'[u].chunk = local[u].chunk
             /\ AwaitsChunks(u)' => local'[u].chunk = u
             /\ Stage(0) # "over" => \A k \in Nodes : k < Mark(u)' <=> k < Mark(u)
  <2>1. CASE u = t
    BY <2>1
  <2>2. CASE u # t
    <3>1. /\ Point(u)' = Point(u) /\ (InNode(u)' <=> InNode(u)) /\ Mark(u)' = Mark(u)
          /\ local'[u] = local[u]
      BY <1>1, <1>3, <2>2
    <3>2. AwaitsChunks(u)' => local[u].chunk = u
      BY <1>2, <1>3, <2>2 DEF DoneInv, FirstChunks
    <3>3. QED
      BY <3>1, <3>2
  <2>3. QED
    BY <2>1, <2>2
<1>6. QED
  BY <1>4, <1>5, DoneStays

(* A thread of the graph moves on without taking a chunk: to a barrier or  *)
(* into it, or to its next node.                                           *)
LEMMA DoneWhileMoving ==
    ASSUME BarrierInv, DoneInv, NEW t \in Members, ~Behind(t),
           pc[t] \in {"start", "node", "barrier", "arrive", "reset", "pass"},
           pc'[t] \in {"node", "barrier", "arrive", "reset", "pass", "wait"},
           pc'[t] = "wait" => ~Released(t)',
           \A u \in Threads \ {t} : pc'[u] = pc[u] /\ local'[u] = local[u],
           UNCHANGED <<n_graph, last_graph, n_barrier_passed, done, abort>>,
           current_chunk' = current_chunk \/ (t = 0 /\ \A u \in Members : ~InNode(u)),
           \A k \in Nodes : k < local'[t].node <=> k < local[t].node,
           pc'[t] # "node" /\ local'[t].after = "chunks" =>
              /\ local'[t].chunk = t
              /\ t = 0 => current_chunk' = n_graph.n
    PROVE  DoneInv'
<1>1. t \in Threads /\ ~Released(t) /\ ~Released(t)' /\ ~Behind(t)' /\ Placed(t)
  BY MemberFacts DEF Released, Behind, BarrierInv
<1>2. Point(t) = pc[t] /\ Point(t)' = pc'[t]
  BY <1>1 DEF Point
<1>3. ~InNode(t) /\ ~InNode(t)' /\ Point(t)' # "start"
  BY <1>2 DEF InNode
<1>4. pc[t] = "start" => local[t].node = 0
  BY <1>1 DEF Placed
<1>5. Mark(t) = local[t].node /\ Mark(t)' = local'[t].node
  BY <1>2, <1>3, <1>4 DEF Mark, NodeOf
<1>6. Stage(t) # "over" /\ Stage(t)' # "over"
  BY <1>2, <1>3 DEF Stage, Outside, Idle, AtBarrier
<1>7. AwaitsChunks(t)' => pc'[t] # "node" /\ local'[t].after = "chunks"
  BY <1>2 DEF AwaitsChunks, AtBarrier
<1>8. t = 0 => ~LastBarrierOpen'
  BY <1>6 DEF LastBarrierOpen
<1>9. \A u \in Workers \ {t} : last_graph'[u] = last_graph[u]
  OBVIOUS
<1>10. t = 0 => /\ Stage(0)' # "over" => Stage(0) # "over"
                /\ LastBarrierOpen' => LastBarrierOpen
                /\ AwaitsChunks(0)' => current_chunk' = n_graph.n
  BY <1>6, <1>7, <1>8
<1>11. /\ InNode(t)' <=> InNode(t)
       /\ Point(t)' = "chunks" <=> Point(t) = "chunks"
       /\ InNode(t) => local'[t].node = local[t].node /\ local'[t].chunk = local[t].chunk
       /\ AwaitsChunks(t)' => local'[t].chunk = t
       /\ Stage(0) # "over" => \A k \in Nodes : k < Mark(t)' <=> k < Mark(t)
  BY <1>2, <1>3, <1>5, <1>7
<1>12. QED
  BY <1>1, <1>9, <1>10, <1>11, DoneStaysFor

LEMMA StartDone ==
    ASSUME BarrierInv, DoneInv, NEW t \in Threads,
           Start(t) \/ Skip(t) \/ Finish(t) \/ Node(t)
    PROVE  DoneInv'
<1>1. pc[t] \in {"start", "node"} /\ pc'[t] \in {"node", "barrier"}
      /\ \A u \in Threads \ {t} : pc'[u] = pc[u] /\ local'[u] = local[u]
  BY DEF Start, Skip, Finish, Node, Goto, EnterBarrier, BarrierInv, Types
<1>2. /\ t \in Members /\ ~Behind(t) /\ Point(t) = pc[t] /\ local[t] \in Locals
      /\ local[t].node \in 0..NNodes /\ NNodes \in Nat
      /\ pc[t] # "start" => local[t].nth = n_graph.n
      /\ Stage(t) = "next" /\ Mark(t) = local[t].node
  BY <1>1, WorkingFacts DEF Member
<1>3. UNCHANGED <<n_graph, last_graph, n_barrier_passed, done, abort>>
  BY DEF Start, Skip, Finish, Node, pool
<1>4. \A k \in Nodes : k < local'[t].node <=> k < local[t].node
  <2>1. CASE Start(t) \/ Finish(t) \/ Node(t)
    <3>1. local \in [Threads -> Locals]
      BY DEF BarrierInv, Types
    <3>2. CASE Start(t)
      BY <1>2, <3>1, <3>2 DEF Start, Locals
    <3>3. CASE Finish(t)
      BY <1>2, <3>1, <3>3 DEF Finish, EnterBarrier, Locals
    <3>4. CASE Node(t)
      BY <1>2, <3>1, <3>4 DEF Node, EnterBarrier, Locals
    <3>5. QED
      BY <2>1, <3>2, <3>3, <3>4
  <2>2. CASE Skip(t)
    <3>1. local'[t].node = local[t].node + 1 /\ local[t].node \in Empty
      BY <1>2, <2>2 DEF Skip, BarrierInv, Types, Locals
    <3>2. \A k \in Nodes : k \in Int /\ k # local[t].node
      BY <3>1, PoolFacts DEF Nodes
    <3>3. QED
      BY <1>2, <3>1, <3>2
  <2>3. QED
    BY <2>1, <2>2
<1>5. /\ pc'[t] # "node" /\ local'[t].after = "chunks" =>
            /\ local'[t].chunk = t
            /\ t = 0 => current_chunk' = n_graph.n
      /\ current_chunk' = current_chunk \/ (t = 0 /\ \A u \in Members : ~InNode(u))
  <2>1. CASE Start(t) \/ Skip(t)
    BY <1>1, <2>1 DEF Start, Skip, Goto, BarrierInv, Types
  <2>2. CASE Finish(t)
    <3>1. local'[t].after = End(t)
      BY <1>2, <2>2 DEF Finish, EnterBarrier, BarrierInv, Types, Locals
    <3>2. QED
      BY <2>2, <3>1 DEF Finish, End
  <2>3. CASE Node(t)
    <3>1. /\ local'[t].chunk = t /\ ~Over(local[t]) /\ local[t].node \notin Empty
          /\ current_chunk' = IF t = 0 THEN local[t].nth ELSE current_chunk
      BY <1>2, <2>3 DEF Node, EnterBarrier, BarrierInv, Types, Locals
    <3>2. Mark(t) \in Nodes /\ ~InNode(t) /\ local[t].nth = n_graph.n
      BY <1>2, <2>3, <3>1 DEF Over, Nodes, InNode, Node
    <3>3. \A u \in Members : ~InNode(u)
      BY <1>2, <3>2, NoneInNode
    <3>4. QED
      BY <3>1, <3>2, <3>3
  <2>4. QED
    BY <2>1, <2>2, <2>3
<1>6. QED
  BY <1>1, <1>2, <1>3, <1>4, <1>5, DoneWhileMoving

LEMMA ArriveDone ==
    ASSUME BarrierInv, DoneInv, NEW t \in Threads,
           Arrive(t) \/ ResetBarrier(t) \/ (BarrierRead(t) /\ n_graph.n # 1)
    PROVE  DoneInv'
<1>1. /\ pc[t] \in {"barrier", "arrive", "reset"}
      /\ pc'[t] \in {"arrive", "reset", "wait", "pass"}
      /\ \A u \in Threads \ {t} : pc'[u] = pc[u] /\ local'[u] = local[u]
      /\ pc'[t] = "wait" => pc[t] = "arrive" /\ local' = local
  BY DEF Arrive, ResetBarrier, BarrierRead, Goto, BarrierInv, Types
<1>2. UNCHANGED <<n_graph, last_graph, n_barrier_passed, done, abort, current_chunk>>
  BY DEF Arrive, ResetBarrier, BarrierRead, pool
<1>3. /\ local'[t].node = local[t].node /\ local'[t].chunk = local[t].chunk
      /\ local'[t].after = local[t].after
  <2>1. local \in [Threads -> Locals] /\ local[t] \in Locals
    BY DEF BarrierInv, Types
  <2>2. CASE BarrierRead(t) /\ n_graph.n # 1
    <3> DEFINE l == [local[t] EXCEPT !.n = n_graph.n, !.n_passed = n_barrier_passed]
    <3>1. local' = [local EXCEPT ![t] = l]
      BY <2>1, <2>2 DEF BarrierRead
    <3>2. /\ l.node = local[t].node /\ l.chunk = local[t].chunk
          /\ l.after = local[t].after
      BY <2>1 DEF Locals
    <3> HIDE DEF l
    <3>3. QED
      BY <2>1, <3>1, <3>2
  <2>3. QED
    BY <2>2 DEF Arrive, ResetBarrier
<1>4. Member(t) /\ ~Released(t)
  BY <1>1 DEF BarrierInv, Placed, Inside, Released
<1>5. pc'[t] = "wait" => ~Released(t)'
  BY <1>1, <1>2 DEF BarrierInv, Placed, Released
<1>6. t \in Members /\ ~Behind(t) /\ Point(t) = pc[t]
  BY <1>1, <1>4 DEF Member, Point
<1>7. local[t].after = "chunks" => AwaitsChunks(t)
  BY <1>1, <1>6 DEF AwaitsChunks, AtBarrier
<1>8. local[t].after = "chunks" => /\ local[t].chunk = t
                                   /\ t = 0 => current_chunk = n_graph.n
  BY <1>6, <1>7 DEF DoneInv, FirstChunks
<1>9. QED
  BY <1>1, <1>2, <1>3, <1>5, <1>6, <1>8, DoneWhileMoving

(* A thread notices that the barrier is open; before that, it counts       *)
(* already as having left.                                                 *)
LEMMA WaitDone ==
    ASSUME BarrierInv, DoneInv, NEW t \in Threads, Wait(t),
           t = 0 => local[t].after # "app"
    PROVE  DoneInv'
<1>1. /\ pc[t] = "wait" /\ Released(t) /\ Leave(t) /\ Types /\ Placed(t)
      /\ UNCHANGED <<n_graph, last_graph, n_barrier_passed, done, abort, current_chunk>>
  BY DEF Wait, pool, Released, BarrierInv
<1>2. /\ local[t].after \in {"chunks", "node", End(t)}
      /\ pc' = [pc EXCEPT ![t] = local[t].after]
      /\ pc'[t] = local[t].after
      /\ local' = [local EXCEPT ![t] = local'[t]]
      /\ local[t].after # End(t) => /\ local'[t].node = local[t].node
                                    /\ local'[t].chunk = local[t].chunk
  BY <1>1, LeaveFacts DEF AtBarrier
<1>3. \A u \in Threads \ {t} : pc'[u] = pc[u] /\ local'[u] = local[u]
  BY <1>1, <1>2 DEF Types
<1>4. (Behind(t)' <=> Behind(t)) /\ ~Released(t)'
  BY <1>1, <1>2 DEF Behind, Released, End
<1>5. Point(t)' = Point(t) /\ Point(t) = IF Behind(t) THEN "start" ELSE local[t].after
  BY <1>1, <1>2, <1>4 DEF Point, End
<1>6. /\ InNode(t)' <=> InNode(t)
      /\ ~AwaitsChunks(t)'
  BY <1>2, <1>5 DEF InNode, AwaitsChunks, AtBarrier, End
<1>7. Behind(t) => local[t].after = End(t)
  BY <1>1 DEF Placed, Leaving, Member
<1>8. InNode(t) => /\ local'[t].node = local[t].node /\ local'[t].chunk = local[t].chunk
  BY <1>2, <1>5 DEF InNode, End
<1>9. ASSUME t \in Members, Stage(0) # "over"
      PROVE  Mark(t)' = Mark(t)
  <2>1. Stage(t) # "over"
    BY <1>9, MemberFacts
  <2>2. Behind(t) \/ local[t].after # End(t)
    BY <1>5, <2>1 DEF Stage, End, Outside, Idle
  <2>3. CASE Behind(t)
    BY <1>5, <1>6, <2>3 DEF Mark, NodeOf, InNode
  <2>4. CASE local[t].after # End(t)
    BY <1>2, <1>5, <1>6, <2>4 DEF Mark, NodeOf
  <2>5. QED
    BY <2>2, <2>3, <2>4
<1>10. t = 0 => /\ Stage(0) # "over"
                /\ ~LastBarrierOpen'
  <2> SUFFICES ASSUME t = 0 PROVE Stage(0) # "over" /\ ~LastBarrierOpen'
    OBVIOUS
  <2>1. local[0].after \in {"chunks", "node"} /\ ~Behind(0)
    BY <1>2, PoolFacts DEF End, Behind
  <2>2. Point(0) \in {"chunks", "node"}
    BY <1>5, <2>1
  <2>3. pc'[0] # "wait"
    BY <1>2, <2>1
  <2>4. QED
    BY <2>2, <2>3 DEF Stage, Outside, Idle, LastBarrierOpen
<1>11. \A u \in Workers \ {t} : last_graph'[u] = last_graph[u]
  BY <1>1
<1>12. QED
  BY <1>1, <1>3, <1>5, <1>6, <1>8, <1>9, <1>10, <1>11, DoneStaysFor

-----------------------------------------------------------------------------
(* The workers between graphs, the application and a broadcast.            *)

LEMMA LookDone ==
    ASSUME BarrierInv, DoneInv, NEW t \in Workers, pc[t] \in Outside, NEW place,
           UNCHANGED Waiting, pc' = [pc EXCEPT ![t] = place],
           \/ place \in Outside /\ last_graph' = last_graph
           \/ Look(t) /\ IF New(t) /\ Joins(t) THEN place = "start" ELSE place \in Outside
    PROVE  DoneInv'
<1>1. t \in Threads /\ t # 0 /\ t \in Nat
  BY PoolFacts
<1>2. UNCHANGED <<n_graph, n_barrier_passed, done, abort, current_chunk, local>>
  BY DEF Waiting
<1>3. pc'[t] = place /\ \A u \in Threads \ {t} : pc'[u] = pc[u] /\ local'[u] = local[u]
  BY <1>1, <1>2 DEF BarrierInv, Types
<1>4. \A u \in Workers \ {t} : last_graph'[u] = last_graph[u]
  BY DEF Look, BarrierInv, Types
<1>5. place \in Outside \cup {"start"} /\ ~Released(t) /\ ~Released(t)'
  BY <1>3 DEF Released, Outside
<1>6. /\ Point(t) = IF Behind(t) THEN "start" ELSE pc[t]
      /\ Point(t)' = IF Behind(t)' THEN "start" ELSE place
  BY <1>1, <1>3, <1>5 DEF Point
<1>7. /\ ~InNode(t) /\ ~InNode(t)' /\ ~AwaitsChunks(t)'
      /\ Point(t)' # "chunks" /\ Point(t) # "chunks"
  BY <1>5, <1>6 DEF InNode, AwaitsChunks, Outside, AtBarrier
<1>8. local[t].node = 0
  BY <1>1 DEF BarrierInv, Placed, Outside, Inside
<1>9. Mark(t) = 0 /\ Mark(t)' = 0
  BY <1>2, <1>7, <1>8 DEF Mark, NodeOf
<1>10. QED
  BY <1>1, <1>2, <1>3, <1>4, <1>7, <1>9, DoneStaysFor

(* What holds between graphs holds after such a step, too.                 *)
LEMMA NothingAfterwards ==
    ASSUME BarrierInv', Stage(0)' = "over", pc'[0] # "wait", DOMAIN done' = Nodes
    PROVE  DoneInv'
<1>1. (BarrierInv /\ Stage(0) = "over" /\ pc[0] # "wait" /\ DOMAIN done = Nodes => DoneInv)'
  BY NothingBetweenGraphs, PTL
<1>2. QED
  BY <1>1

LEMMA IdleDone ==
    ASSUME BarrierInv', pc'[0] \in Idle, DOMAIN done' = Nodes
    PROVE  DoneInv'
<1>1. (Types => (pc[0] \in Idle => Stage(0) = "over"))'
  BY IdleIsOver, PTL
<1>2. Stage(0)' = "over"
  BY <1>1 DEF BarrierInv
<1>3. pc'[0] # "wait"
  BY DEF Idle
<1>4. QED
  BY <1>2, <1>3, NothingAfterwards

LEMMA AnnounceDone ==
    ASSUME BarrierInv, DoneInv, Announce
    PROVE  DoneInv'
<1>1. /\ pc' = [pc EXCEPT ![0] = "broadcast"] /\ local' = local /\ pc[0] = "kickoff"
      /\ n_graph' = [count |-> n_graph.count + 1, n |-> local[0].nth]
      /\ last_graph' = last_graph /\ done' = NotDone
  BY DEF Announce, Goto
<1>2. pc'[0] = "broadcast"
  BY <1>1, PoolFacts DEF BarrierInv, Types
<1>3. n_graph.count < MaxGraphs /\ local[0].nth \in 1..NThreads
  BY <1>1 DEF BarrierInv, Kickoff
<1>4. \A u \in Workers : Behind(u)'
  BY <1>1 DEF BarrierInv, Types, Graphs, Behind
<1>5. \A u \in Threads : Point(u)' = "start"
  BY <1>2, <1>4, PoolFacts DEF Point
<1>6. Members' \subseteq Threads
  BY <1>1, <1>3, PoolFacts DEF Members, Threads
<1>7. \A u \in Threads : /\ ~InNode(u)' /\ ~AwaitsChunks(u)' /\ Mark(u)' = 0
                         /\ Stage(u)' = "next"
  BY <1>5 DEF InNode, AwaitsChunks, Mark, NodeOf, Stage, Outside, Idle, AtBarrier
<1>8. /\ DOMAIN done' = Nodes /\ \A k \in Nodes : done'[k] = SetToBag({}) /\ ~(k < 0)
  BY <1>1, PoolFacts DEF NotDone, EmptyBag
<1>9. NodesDone'
  <2>1. Open' = {}
    BY <1>6, <1>7 DEF Open
  <2>2. \A k \in Nodes, u \in Members' :
           done'[k] = SetToBag(IF k < Mark(u)' THEN Chunks' ELSE {})
    BY <1>6, <1>7, <1>8
  <2>3. QED
    BY <2>1, <2>2 DEF NodesDone
<1>10. ChunksApart' /\ CounterAhead'
  BY <1>5, <1>6, <1>7 DEF ChunksApart, CounterAhead
<1>11. FirstChunks' /\ GraphDone'
  BY <1>2, <1>6, <1>7, PoolFacts DEF FirstChunks, GraphDone, LastBarrierOpen
<1>12. QED
  BY <1>8, <1>9, <1>10, <1>11 DEF DoneInv

LEMMA BroadcastDone ==
    ASSUME BarrierInv, DoneInv, Broadcast
    PROVE  DoneInv'
<1>1. /\ pc[0] = "broadcast" /\ pc' = [Woken EXCEPT ![0] = "start"]
      /\ UNCHANGED <<n_graph, last_graph, n_barrier_passed, done, abort, current_chunk, local>>
  BY DEF Broadcast
<1>2. /\ pc'[0] = "start" /\ \A u \in Workers : pc'[u] = Woken[u]
  <2>1. DOMAIN Woken = Threads /\ 0 \in Threads
    BY PoolFacts DEF Woken
  <2>2. QED
    BY <1>1, <2>1, PoolFacts
<1>3. \A u \in Workers : \/ pc'[u] = pc[u]
                         \/ pc[u] \in Outside /\ pc'[u] \in Outside
  BY <1>2, WokenFacts DEF BarrierInv
<1>4. /\ ~Behind(0) /\ ~Behind(0)' /\ ~Released(0) /\ ~Released(0)'
  BY <1>1, <1>2, PoolFacts DEF Behind, Released
<1>5. Point(0) = "start" /\ Point(0)' = "start"
  BY <1>1, <1>2, <1>4 DEF Point
<1>6. ASSUME NEW u \in Members
      PROVE  \/ Point(u)' = Point(u)
             \/ Point(u) \in Outside /\ Point(u)' \in Outside
  <2>1. u \in Threads
    BY MemberFacts
  <2>2. CASE u = 0
    BY <1>5, <2>2
  <2>3. CASE u # 0 /\ pc'[u] = pc[u]
    <3>1. (Behind(u)' <=> Behind(u)) /\ (Released(u)' <=> Released(u))
      BY <1>1, <2>3 DEF Behind, Released
    <3>2. QED
      BY <1>1, <2>3, <3>1 DEF Point
  <2>4. CASE u # 0 /\ pc[u] \in Outside /\ pc'[u] \in Outside
    <3>1. (Behind(u)' <=> Behind(u)) /\ ~Released(u)' /\ ~Released(u)
      BY <1>1, <2>4 DEF Behind, Released, Outside
    <3>2. QED
      BY <2>4, <3>1 DEF Point
  <2>5. QED
    BY <1>3, <2>1, <2>2, <2>3, <2>4, PoolFacts
<1>7. ASSUME NEW u \in Members
      PROVE  /\ InNode(u)' <=> InNode(u)
             /\ Point(u)' = "chunks" <=> Point(u) = "chunks"
             /\ AwaitsChunks(u)' => AwaitsChunks(u)
             /\ Mark(u)' = Mark(u)
  <2>1. InNode(u)' <=> InNode(u)
    BY <1>6 DEF InNode, Outside
  <2>2. /\ Point(u)' = "chunks" <=> Point(u) = "chunks"
        /\ Point(u)' = "start" <=> Point(u) = "start"
        /\ AwaitsChunks(u)' => AwaitsChunks(u)
    BY <1>1, <1>6 DEF Outside, AwaitsChunks, AtBarrier
  <2>3. QED
    BY <1>1, <2>1, <2>2 DEF Mark, NodeOf
<1>8. Stage(0) # "over" /\ ~AwaitsChunks(0)' /\ ~LastBarrierOpen'
  BY <1>2, <1>5 DEF Stage, InNode, AwaitsChunks, LastBarrierOpen, Outside, Idle, AtBarrier
<1>9. \A u \in Members : AwaitsChunks(u)' => local'[u].chunk = u
  BY <1>1, <1>7 DEF DoneInv, FirstChunks
<1>10. QED
  BY <1>1, <1>7, <1>8, <1>9, DoneStays

-----------------------------------------------------------------------------
(* A thread computes a chunk and takes the next one, or has no more.       *)
LEMMA ChunkDone ==
    ASSUME BarrierInv, DoneInv, NEW t \in Threads, pc[t] = "chunks",
           pc'[t] \in {"chunks", "abort?"}, local'[t].node = local[t].node,
           \A u \in Threads \ {t} : pc'[u] = pc[u] /\ local'[u] = local[u],
           UNCHANGED <<n_graph, last_graph, n_barrier_passed, abort>>,
           pc'[t] = "chunks" =>
              local'[t].chunk = current_chunk /\ current_chunk' = current_chunk + 1,
           pc'[t] = "abort?" =>
              current_chunk' = current_chunk /\ NChunk(n_graph.n) <= current_chunk,
           done' = IF local[t].chunk \in Chunks
                   THEN [done EXCEPT ![local[t].node] = @ (+) SetToBag({local[t].chunk})]
                   ELSE done
    PROVE  DoneInv'
<1> DEFINE k == local[t].node
           c == local[t].chunk
<1>1. /\ t \in Members /\ ~Behind(t) /\ Point(t) = "chunks" /\ k \in Nodes
  BY WorkingFacts DEF Member
<1>2. /\ current_chunk \in Nat /\ NChunk(n_graph.n) \in Nat /\ n_graph.n \in Nat
      /\ \A u \in Threads : local[u].chunk \in Nat
  BY ChunkFacts
<1>3. Members' = Members /\ Chunks' = Chunks /\ (\A u \in Members : u \in Threads)
  BY MemberFacts DEF Members, Chunks
<1>4. /\ Point(t)' = pc'[t]
  BY <1>1 DEF Point, Behind, Released
<1>5. InNode(t) /\ InNode(t)' /\ ~AwaitsChunks(t)'
  BY <1>1, <1>4 DEF InNode, AwaitsChunks, AtBarrier
<1>6. Stage(t)' = Stage(t) /\ Mark(t)' = Mark(t)
  <2>1. Stage(t)' = Stage(t)
    BY <1>1, <1>4, <1>5 DEF Stage, Outside, Idle, AtBarrier
  <2>2. NodeOf(t)' = NodeOf(t)
    BY <1>1, <1>4 DEF NodeOf
  <2>3. QED
    BY <1>5, <2>1, <2>2 DEF Mark
<1>7. \A u \in Threads \ {t} : /\ Point(u)' = Point(u) /\ (InNode(u)' <=> InNode(u))
                               /\ Stage(u)' = Stage(u) /\ Mark(u)' = Mark(u)
                               /\ (AwaitsChunks(u)' <=> AwaitsChunks(u))
  <2>1. \A u \in Threads \ {t} : /\ Point(u)' = Point(u) /\ InNode(u)' = InNode(u)
                                 /\ Stage(u)' = Stage(u) /\ Mark(u)' = Mark(u)
    BY OthersStay DEF BarrierInv
  <2>2. QED
    BY <2>1 DEF AwaitsChunks
<1>8. Stage(0) # "over" /\ Stage(0)' # "over"
  <2>1. Stage(t) # "over" /\ Stage(t) = Stage(0)
    BY <1>1, MemberFacts DEF Stage, Outside, Idle
  <2>2. QED
    BY <1>6, <1>7, <2>1, PoolFacts
<1>9. Open = {k} /\ Open' = {k}
  <2>1. \A u \in Members : InNode(u) => local[u].node = k
    BY <1>1, <1>5, OneNode
  <2>2. \A u \in Members : /\ (InNode(u)' <=> InNode(u))
                           /\ local'[u].node = local[u].node
    BY <1>3, <1>5, <1>7
  <2>3. QED
    BY <1>1, <1>3, <1>5, <2>1, <2>2 DEF Open
<1>10. c < current_chunk /\ c \in Nat
  BY <1>1, <1>2 DEF DoneInv, CounterAhead
<1>11. ASSUME NEW u \in Members \ {t}
       PROVE  /\ Point(u) = "chunks" => local[u].chunk # c /\ local[u].chunk < current_chunk
              /\ \A d : Holds(u, d)' <=> Holds(u, d)
              /\ ~Holds(u, c)
  <2>1. Point(u) = "chunks" => local[u].chunk # c /\ local[u].chunk < current_chunk
    BY <1>1 DEF DoneInv, ChunksApart, CounterAhead, Holds
  <2>2. \A d : Holds(u, d)' <=> Holds(u, d)
    BY <1>3, <1>7 DEF Holds
  <2>3. QED
    BY <2>1, <2>2 DEF Holds
<1>12. \A d : Holds(t, d) <=> d = c
  BY <1>1 DEF Holds
<1>13. \A d \in Chunks : d \in Nat
  BY <1>2 DEF Chunks
<1>14. Taken' = (IF c \in Chunks THEN Taken \cup {c} ELSE Taken) /\ c \notin Taken
  <2>1. c \notin Taken
    BY <1>1, <1>12 DEF Taken
  <2>2. ASSUME NEW d \in Chunks, d # c PROVE d \in Taken' <=> d \in Taken
    <3>1. (\A u \in Members : ~Holds(u, d)) <=> \A u \in Members \ {t} : ~Holds(u, d)
      BY <1>12, <2>2
    <3>2. (\A u \in Members : ~Holds(u, d)') <=> /\ \A u \in Members \ {t} : ~Holds(u, d)
                                                 /\ ~Holds(t, d)'
      BY <1>1, <1>11
    <3>3. d \in Nat
      BY <1>13
    <3>4. CASE pc'[t] = "chunks"
      <4>1. Holds(t, d)' <=> d = current_chunk
        BY <1>4, <3>4 DEF Holds
      <4>2. d < current_chunk' /\ d # current_chunk <=> d < current_chunk
        BY <1>2, <3>3, <3>4
      <4>3. QED
        BY <1>3, <3>1, <3>2, <4>1, <4>2 DEF Taken
    <3>5. CASE pc'[t] = "abort?"
      <4>1. ~Holds(t, d)'
        BY <1>4, <3>5 DEF Holds
      <4>2. QED
        BY <1>3, <3>1, <3>2, <3>5, <4>1 DEF Taken
    <3>6. QED
      BY <3>4, <3>5
  <2>3. ASSUME NEW d \in Chunks, d = c PROVE d \in Taken'
    <3>1. ~Holds(t, d)'
      BY <1>2, <1>4, <1>10, <2>3 DEF Holds
    <3>2. \A u \in Members : ~Holds(u, d)'
      BY <1>11, <2>3, <3>1
    <3>3. d < current_chunk'
      BY <1>2, <1>10, <2>3
    <3>4. QED
      BY <1>3, <2>3, <3>2, <3>3 DEF Taken
  <2>4. Taken \subseteq Chunks /\ Taken' \subseteq Chunks
    BY <1>3 DEF Taken
  <2>5. QED
    BY <2>1, <2>2, <2>3, <2>4
<1>15. /\ DOMAIN done' = Nodes
       /\ done'[k] = SetToBag(Taken')
       /\ \A m \in Nodes \ {k} : done'[m] = done[m]
  <2>1. DOMAIN done = Nodes /\ done[k] = SetToBag(Taken)
    BY <1>8, <1>9 DEF DoneInv, NodesDone
  <2>2. CASE c \in Chunks
    <3>1. done' = [done EXCEPT ![k] = @ (+) SetToBag({c})]
      BY <2>2
    <3>2. done'[k] = SetToBag(Taken) (+) SetToBag({c})
      BY <1>1, <2>1, <3>1
    <3>3. done'[k] = SetToBag(Taken')
      BY <1>14, <2>2, <3>2, BagAdd
    <3>4. QED
      BY <1>1, <2>1, <3>1, <3>3
  <2>3. CASE c \notin Chunks
    BY <1>14, <2>1, <2>3
  <2>4. QED
    BY <2>2, <2>3
<1>16. NodesDone'
  <2>1. \A m \in Nodes \ {k}, u \in Members :
           done'[m] = SetToBag(IF m < Mark(u)' THEN Chunks ELSE {})
    <3>1. \A m \in Nodes \ {k}, u \in Members :
             done[m] = SetToBag(IF m < Mark(u) THEN Chunks ELSE {})
      BY <1>8, <1>9 DEF DoneInv, NodesDone
    <3>2. \A u \in Members : Mark(u)' = Mark(u)
      BY <1>3, <1>6, <1>7
    <3>3. QED
      BY <1>15, <3>1, <3>2
  <2>2. QED
    BY <1>3, <1>9, <1>15, <2>1 DEF NodesDone
<1>17. ChunksApart'
  <2> SUFFICES ASSUME NEW u \in Members, NEW v \in Members,
                      Point(u)' = "chunks", Point(v)' = "chunks",
                      local'[v].chunk = local'[u].chunk, u # v
               PROVE  FALSE
    BY <1>3 DEF ChunksApart, Holds
  <2>1. CASE u # t /\ v # t
    BY <1>3, <1>7, <2>1 DEF DoneInv, ChunksApart, Holds
  <2>2. CASE u = t
    <3>1. Point(v) = "chunks" /\ local'[v] = local[v] /\ local[v].chunk < current_chunk
      BY <1>3, <1>7, <1>11, <2>2
    <3>2. local'[t].chunk = current_chunk
      BY <1>4, <2>2
    <3>3. QED
      BY <1>2, <1>3, <2>2, <3>1, <3>2
  <2>3. CASE v = t
    <3>1. Point(u) = "chunks" /\ local'[u] = local[u] /\ local[u].chunk < current_chunk
      BY <1>3, <1>7, <1>11, <2>3
    <3>2. local'[t].chunk = current_chunk
      BY <1>4, <2>3
    <3>3. QED
      BY <1>2, <1>3, <2>3, <3>1, <3>2
  <2>4. QED
    BY <2>1, <2>2, <2>3
<1>18. CounterAhead'
  <2>1. current_chunk <= current_chunk' /\ current_chunk' \in Nat
    BY <1>2
  <2>2. n_graph.n <= current_chunk
    BY <1>1, <1>5 DEF DoneInv, CounterAhead
  <2>3. ASSUME NEW u \in Members
        PROVE  /\ Point(u)' = "chunks" => local'[u].chunk < current_chunk'
               /\ Point(u)' = "abort?" => NChunk(n_graph.n) <= current_chunk'
    <3>1. CASE u = t
      BY <1>2, <1>4, <3>1
    <3>2. CASE u # t
      <4>1. /\ Point(u) = "chunks" => local[u].chunk < current_chunk
            /\ Point(u) = "abort?" => NChunk(n_graph.n) <= current_chunk
        BY DEF DoneInv, CounterAhead
      <4>2. Point(u)' = Point(u) /\ local'[u] = local[u] /\ local[u].chunk \in Nat
        BY <1>2, <1>3, <1>7, <3>2
      <4>3. QED
        BY <1>2, <2>1, <4>1, <4>2
    <3>3. QED
      BY <3>1, <3>2
  <2>4. QED
    BY <1>2, <1>3, <2>1, <2>2, <2>3 DEF CounterAhead
<1>19. FirstChunks'
  <2>1. \A u \in Members : AwaitsChunks(u)' => local'[u].chunk = u
    BY <1>3, <1>5, <1>7 DEF DoneInv, FirstChunks
  <2>2. ASSUME AwaitsChunks(0)' PROVE FALSE
    <3>1. AwaitsChunks(0) /\ 0 \in Members
      BY <1>1, <1>5, <1>7, <2>2, PoolFacts, MemberFacts
    <3>2. Stage(0) = "next" /\ ~InNode(0) /\ Mark(0) \in Nodes
      BY <3>1, MemberFacts
    <3>3. QED
      BY <1>1, <1>5, <3>1, <3>2, NoneInNode
  <2>3. QED
    BY <1>3, <2>1, <2>2 DEF FirstChunks
<1>20. GraphDone'
  BY <1>8 DEF GraphDone, LastBarrierOpen
<1>21. QED
  BY <1>15, <1>16, <1>17, <1>18, <1>19, <1>20 DEF DoneInv

LEMMA TakeChunkDone ==
    ASSUME BarrierInv, DoneInv, NEW t \in Threads, DoChunk(t) \/ NoChunk(t)
    PROVE  DoneInv'
<1>1. /\ pc[t] = "chunks" /\ UNCHANGED <<n_graph, last_graph, n_barrier_passed, abort>>
      /\ pc \in [Threads -> MainPlaces \cup WorkerPlaces] /\ local \in [Threads -> Locals]
  BY DEF DoChunk, NoChunk, pool, BarrierInv, Types
<1>2. /\ local[t] \in Locals /\ local[t].nth = n_graph.n /\ t \in Members
      /\ Point(t) = "chunks"
  BY <1>1, WorkingFacts DEF Member
<1>3. /\ NChunk(n_graph.n) \in Nat /\ current_chunk \in Nat /\ local[t].chunk \in Nat
      /\ n_graph.n \in Nat
  BY ChunkFacts
<1>4. local[t].chunk \in Chunks <=> local[t].chunk < NChunk(n_graph.n)
  BY <1>3 DEF Chunks
<1>5. /\ local[t].chunk < current_chunk /\ n_graph.n <= current_chunk
  BY <1>2 DEF DoneInv, CounterAhead, InNode
<1>6. CASE DoChunk(t)
  <2>1. done' = [done EXCEPT ![local[t].node] = @ (+) SetToBag({local[t].chunk})]
        /\ local[t].chunk \in Chunks
    BY <1>2, <1>4, <1>6 DEF DoChunk
  <2>2. CASE local[t].nth >= NChunk(local[t].nth)
    <3>1. pc' = [pc EXCEPT ![t] = "abort?"] /\ current_chunk' = current_chunk /\ local' = local
      BY <1>6, <2>2 DEF DoChunk, Goto
    <3>2. pc'[t] = "abort?" /\ \A u \in Threads \ {t} : pc'[u] = pc[u]
      BY <1>1, <3>1
    <3>3. NChunk(n_graph.n) <= current_chunk
      BY <1>2, <1>3, <1>5, <2>2
    <3>4. QED
      BY <1>1, <2>1, <3>1, <3>2, <3>3, ChunkDone
  <2>3. CASE ~(local[t].nth >= NChunk(local[t].nth))
    <3>1. /\ pc' = pc /\ current_chunk' = current_chunk + 1
          /\ local' = [local EXCEPT ![t].chunk = current_chunk]
      BY <1>6, <2>3 DEF DoChunk
    <3>2. /\ local'[t].chunk = current_chunk /\ local'[t].node = local[t].node
          /\ \A u \in Threads \ {t} : local'[u] = local[u]
      BY <1>1, <1>2, <3>1 DEF Locals
    <3>3. QED
      BY <1>1, <2>1, <3>1, <3>2, ChunkDone
  <2>4. QED
    BY <2>2, <2>3
<1>7. CASE NoChunk(t)
  <2>1. /\ pc' = [pc EXCEPT ![t] = "abort?"] /\ current_chunk' = current_chunk
        /\ local' = local /\ done' = done /\ local[t].chunk >= NChunk(n_graph.n)
    BY <1>2, <1>7 DEF NoChunk, Goto
  <2>2. pc'[t] = "abort?" /\ \A u \in Threads \ {t} : pc'[u] = pc[u]
    BY <1>1, <2>1
  <2>3. local[t].chunk \notin Chunks /\ NChunk(n_graph.n) <= current_chunk
    BY <1>3, <1>4, <1>5, <2>1
  <2>4. QED
    BY <1>1, <2>1, <2>2, <2>3, ChunkDone
<1>8. QED
  BY <1>6, <1>7

(* When the last thread leaves a node, all of its chunks are computed.     *)
LEMMA AfterNodeDone ==
    ASSUME BarrierInv, DoneInv, NEW t \in Threads, AfterNode(t)
    PROVE  DoneInv'
<1> DEFINE k == local[t].node
<1>1. /\ pc[t] = "abort?" /\ pc'[t] \in {"barrier", "node"}
      /\ UNCHANGED <<n_graph, last_graph, n_barrier_passed, done, current_chunk>>
      /\ \A u \in Threads \ {t} : pc'[u] = pc[u] /\ local'[u] = local[u]
  BY DEF AfterNode, EnterBarrier, Goto, pool, BarrierInv, Types
<1>2. /\ t \in Members /\ ~Behind(t) /\ Point(t) = "abort?" /\ k \in Nodes
      /\ local[t] \in Locals /\ Mark(t) = k + 1 /\ k \in Int
  BY <1>1, WorkingFacts DEF Member
<1>3. local'[t].node = k + 1 /\ (pc'[t] = "barrier" => local'[t].after = "node")
  <2> DEFINE l == [local[t] EXCEPT !.node = @ + 1, !.chunk = 0]
             more == k + 1 < NNodes
             m == IF more THEN [l EXCEPT !.after = "node"] ELSE l
  <2>1. /\ local' = [local EXCEPT ![t] = m]
        /\ pc' = [pc EXCEPT ![t] = IF more THEN "barrier" ELSE "node"]
    BY DEF AfterNode, EnterBarrier, Goto
  <2>2. m.node = k + 1 /\ (more => m.after = "node")
    BY <1>2 DEF Locals
  <2> HIDE DEF m, more
  <2>3. local'[t] = m /\ (pc'[t] = "barrier" => more)
    BY <2>1 DEF BarrierInv, Types
  <2>4. QED
    BY <2>2, <2>3
<1>4. Point(t)' = pc'[t]
  BY <1>1, <1>2 DEF Point, Behind, Released
<1>5. InNode(t) /\ ~InNode(t)' /\ ~AwaitsChunks(t)' /\ Point(t)' # "start"
  BY <1>1, <1>2, <1>3, <1>4 DEF InNode, AwaitsChunks, AtBarrier
<1>6. Stage(t)' # "over" /\ Mark(t)' = Mark(t)
  BY <1>1, <1>2, <1>3, <1>4, <1>5 DEF Stage, Mark, NodeOf, Outside, Idle
<1>7. \A u \in Threads \ {t} : /\ Point(u)' = Point(u) /\ (InNode(u)' <=> InNode(u))
                               /\ Stage(u)' = Stage(u) /\ Mark(u)' = Mark(u)
                               /\ (AwaitsChunks(u)' <=> AwaitsChunks(u))
  <2>1. \A u \in Threads \ {t} : /\ Point(u)' = Point(u) /\ InNode(u)' = InNode(u)
                                 /\ Stage(u)' = Stage(u) /\ Mark(u)' = Mark(u)
    BY <1>1, OthersStay DEF BarrierInv
  <2>2. QED
    BY <1>1, <2>1 DEF AwaitsChunks
<1>8. Members' = Members /\ Chunks' = Chunks /\ (\A u \in Members : u \in Threads)
  BY <1>1, MemberFacts DEF Members, Chunks
<1>9. Stage(0) # "over" /\ Stage(0)' # "over"
  <2>1. Stage(t) # "over" /\ Stage(t) = Stage(0)
    BY <1>2, MemberFacts DEF Stage, Outside, Idle
  <2>2. QED
    BY <1>6, <1>7, <2>1, PoolFacts
<1>10. \A u \in Members : \A d : Holds(u, d)' <=> Holds(u, d)
  <2>1. \A d : ~Holds(t, d)' /\ ~Holds(t, d)
    BY <1>1, <1>2, <1>4 DEF Holds
  <2>2. \A u \in Threads \ {t} : \A d : Holds(u, d)' <=> Holds(u, d)
    BY <1>1, <1>7 DEF Holds
  <2>3. QED
    BY <1>8, <2>1, <2>2
<1>11. Taken' = Taken
  BY <1>1, <1>8, <1>10 DEF Taken
<1>12. Open = {k}
  <2>1. \A u \in Members : InNode(u) => local[u].node = k
    BY <1>2, <1>5, OneNode
  <2>2. QED
    BY <1>2, <1>5, <2>1 DEF Open
<1>13. Open' \subseteq Open
  BY <1>1, <1>5, <1>7, <1>8 DEF Open
<1>14. ASSUME k \notin Open' PROVE Taken = Chunks
  <2>1. \A u \in Members : ~Holds(u, local[u].chunk)
    <3>1. ASSUME NEW u \in Members, Point(u) = "chunks" PROVE FALSE
      <4>1. u # t /\ u \in Threads /\ InNode(u)
        BY <1>2, <1>8, <3>1 DEF InNode
      <4>2. local[u].node = k /\ InNode(u)' /\ local'[u].node = local[u].node
        BY <1>1, <1>2, <1>5, <1>7, <4>1, OneNode
      <4>3. k \in Open'
        BY <1>2, <1>8, <4>2 DEF Open
      <4>4. QED
        BY <1>14, <4>3
    <3>2. QED
      BY <3>1 DEF Holds
  <2>2. NChunk(n_graph.n) <= current_chunk
    BY <1>2 DEF DoneInv, CounterAhead
  <2>3. \A d \in Chunks : d < current_chunk
    BY <2>2, ChunkFacts DEF Chunks
  <2>4. QED
    BY <2>1, <2>3 DEF Taken, Holds
<1>15. NodesDone'
  <2>1. done[k] = SetToBag(Taken)
    BY <1>9, <1>12 DEF DoneInv, NodesDone
  <2>2. \A m \in Open' : done'[m] = SetToBag(Taken')
    BY <1>1, <1>11, <1>12, <1>13, <2>1
  <2>3. ASSUME NEW m \in Nodes \ Open', NEW u \in Members
        PROVE  done'[m] = SetToBag(IF m < Mark(u)' THEN Chunks ELSE {})
    <3>1. Mark(u)' = Mark(u)
      BY <1>6, <1>7, <1>8
    <3>2. CASE m = k
      <4>1. k < Mark(t)
        BY <1>2
      <4>2. k < Mark(u)
        BY <1>2, <1>9, <4>1, SameNodesBehind
      <4>3. QED
        BY <1>1, <1>14, <2>1, <2>3, <3>1, <3>2, <4>2
    <3>3. CASE m # k
      BY <1>1, <1>9, <1>12, <3>1, <3>3 DEF DoneInv, NodesDone
    <3>4. QED
      BY <3>2, <3>3
  <2>4. QED
    BY <1>8, <2>2, <2>3 DEF NodesDone
<1>16. ASSUME NEW u \in Members
       PROVE  /\ Point(u)' = "chunks" => Point(u) = "chunks" /\ local'[u] = local[u]
              /\ Point(u)' = "abort?" => Point(u) = "abort?"
              /\ InNode(u)' => InNode(u)
              /\ AwaitsChunks(u)' => AwaitsChunks(u) /\ local'[u] = local[u]
  <2>1. CASE u = t
    BY <1>1, <1>4, <1>5, <2>1
  <2>2. CASE u # t
    BY <1>1, <1>7, <1>8, <2>2
  <2>3. QED
    BY <2>1, <2>2
<1>17. ChunksApart'
  BY <1>8, <1>16 DEF DoneInv, ChunksApart, Holds
<1>18. CounterAhead'
  BY <1>1, <1>8, <1>16 DEF DoneInv, CounterAhead
<1>19. FirstChunks'
  <2>1. 0 \in Members
    BY <1>2, MemberFacts
  <2>2. QED
    BY <1>1, <1>8, <1>16, <2>1 DEF DoneInv, FirstChunks
<1>20. GraphDone'
  BY <1>9 DEF GraphDone, LastBarrierOpen
<1>21. QED
  BY <1>1, <1>15, <1>17, <1>18, <1>19, <1>20 DEF DoneInv

-----------------------------------------------------------------------------
(* At the last barrier all nodes are done that are not behind an abort.    *)
LEMMA AllComputed ==
    ASSUME BarrierInv, DoneInv, 0 \in Members, Point(0) \in AtBarrier,
           local[0].after = "app", \A u \in Members : ~InNode(u),
           NEW k \in Nodes, k < (IF abort = -1 THEN NNodes ELSE abort)
    PROVE  Computed(k)
<1>1. pc[0] \in AtBarrier /\ ~Released(0) /\ Placed(0)
  BY PoolFacts DEF Point, AtBarrier, BarrierInv
<1>2. Over(local[0]) /\ local[0].node \in 0..NNodes /\ NNodes \in Nat
  BY <1>1, MemberFacts DEF Placed, End
<1>3. Stage(0) = "next" /\ Mark(0) = local[0].node
  BY DEF Stage, Mark, NodeOf, InNode, AtBarrier, Outside, Idle
<1>4. abort # -1 => abort = local[0].node
  BY <1>3 DEF BarrierInv, AbortAhead
<1>5. abort = -1 => local[0].node >= NNodes
  BY <1>2 DEF Over
<1>6. k < Mark(0)
  <2>1. k \in Int
    BY NodeFacts
  <2>2. QED
    BY <1>2, <1>3, <1>4, <1>5, <2>1
<1>7. k \notin Open
  BY DEF Open
<1>8. done[k] = SetToBag(Chunks)
  BY <1>3, <1>6, <1>7 DEF DoneInv, NodesDone
<1>9. QED
  BY <1>8 DEF Computed

(* All of the threads go on after a barrier.                               *)
LEMMA BarrierOpens ==
    ASSUME BarrierInv, DoneInv, 0 \in Members,
           UNCHANGED <<n_graph, done, abort, current_chunk>>,
           pc'[0] = "wait" \/ local[0].after # "app",
           \A u \in Members :
              /\ Point(u) \in AtBarrier /\ Point(u)' = local[u].after
              /\ local[u].after \in {"chunks", "node", End(u)}
              /\ local[u].after # End(u) => /\ local'[u].node = local[u].node
                                            /\ local'[u].chunk = local[u].chunk
              /\ local[u].node = local[0].node
              /\ local[u].after = "chunks" <=> local[0].after = "chunks"
              /\ local[u].after = "node" <=> local[0].after = "node"
    PROVE  DoneInv'
<1>1. Members' = Members /\ Chunks' = Chunks
  BY DEF Members, Chunks
<1>2. ASSUME NEW u \in Members
      PROVE  ~InNode(u) /\ ~AwaitsChunks(u)' /\ Mark(u) = local[u].node
  <2>1. ~InNode(u) /\ Point(u) # "start"
    BY DEF InNode, AtBarrier
  <2>2. QED
    BY <2>1 DEF AwaitsChunks, AtBarrier, Mark, NodeOf, End
<1>3. Open = {}
  BY <1>2 DEF Open
<1>4. Stage(0) # "over"
  BY DEF Stage, AtBarrier, Outside, Idle
<1>5. CASE local[0].after = "node"
  <2>1. ASSUME NEW u \in Members
        PROVE  /\ ~InNode(u)' /\ Point(u)' # "chunks" /\ Point(u) # "chunks"
               /\ Mark(u)' = Mark(u)
    <3>1. Point(u)' = "node" /\ local'[u].node = local[u].node
      BY <1>5 DEF End
    <3>2. QED
      BY <1>2, <3>1 DEF InNode, Mark, NodeOf, AtBarrier
  <2>2. ~LastBarrierOpen'
    <3>1. Point(0)' = "node"
      BY <1>5
    <3>2. QED
      BY <3>1 DEF LastBarrierOpen, Stage, Outside, Idle
  <2>3. QED
    BY <1>2, <1>4, <2>1, <2>2, DoneStays
<1>6. CASE local[0].after = "chunks"
  <2>1. ASSUME NEW u \in Members
        PROVE  /\ Point(u)' = "chunks" /\ InNode(u)' /\ local'[u].node = local[0].node
               /\ local'[u].chunk = u /\ Mark(u)' = local[0].node + 1
               /\ AwaitsChunks(u)
    <3>1. /\ Point(u)' = "chunks" /\ local[u].after = "chunks"
          /\ local'[u].node = local[0].node /\ local'[u].chunk = local[u].chunk
      BY <1>6 DEF End
    <3>2. AwaitsChunks(u)
      BY <3>1 DEF AwaitsChunks
    <3>3. local[u].chunk = u
      BY <3>2 DEF DoneInv, FirstChunks
    <3>4. InNode(u)' /\ Mark(u)' = local[0].node + 1
      BY <3>1 DEF InNode, Mark, NodeOf
    <3>5. QED
      BY <3>1, <3>2, <3>3, <3>4
  <2>2. /\ current_chunk = n_graph.n /\ local[0].node \in Nodes /\ Mark(0) = local[0].node
        /\ n_graph.n \in Nat /\ NChunk(n_graph.n) \in Nat
    BY <2>1, MemberFacts, ChunkFacts DEF DoneInv, FirstChunks
  <2>3. Open' = {local[0].node}
    BY <1>1, <2>1, <2>2 DEF Open
  <2>4. Taken' = {}
    <3>1. ASSUME NEW d \in Chunks, d < current_chunk PROVE \E u \in Members : Holds(u, d)'
      <4>1. d \in Members
        BY <2>2, <3>1 DEF Chunks, Members
      <4>2. QED
        BY <2>1, <4>1 DEF Holds
    <3>2. QED
      BY <1>1, <3>1 DEF Taken
  <2>5. NodesDone'
    <3>1. \A m \in Nodes, u \in Members :
             done[m] = SetToBag(IF m < local[0].node THEN Chunks ELSE {})
      BY <1>2, <1>3, <1>4 DEF DoneInv, NodesDone
    <3>2. done[local[0].node] = SetToBag({})
      <4>1. ~(local[0].node < local[0].node)
        BY <2>2, NodeFacts
      <4>2. QED
        BY <2>2, <3>1, <4>1
    <3>3. \A m \in Nodes \ {local[0].node} : m < local[0].node + 1 <=> m < local[0].node
      <4>1. ASSUME NEW m \in Nat, NEW n \in Nat, m # n PROVE m < n + 1 <=> m < n
        BY <4>1
      <4>2. QED
        BY <2>2, <4>1, NodeFacts
    <3>4. \A m \in Open' : done'[m] = SetToBag(Taken')
      BY <2>3, <2>4, <3>2
    <3>5. \A m \in Nodes \ Open', u \in Members :
             done'[m] = SetToBag(IF m < Mark(u)' THEN Chunks ELSE {})
      BY <2>1, <2>3, <3>1, <3>3
    <3>6. QED
      BY <1>1, <3>4, <3>5 DEF NodesDone
  <2>6. ChunksApart'
    BY <1>1, <2>1 DEF ChunksApart, Holds
  <2>7. CounterAhead'
    <3>1. \A u \in Members : u < n_graph.n
      BY <2>2 DEF Members
    <3>2. QED
      BY <1>1, <2>1, <2>2, <3>1 DEF CounterAhead
  <2>8. FirstChunks'
    BY <1>1, <1>2 DEF FirstChunks
  <2>9. GraphDone'
    <3>1. Point(0)' = "chunks"
      BY <2>1
    <3>2. QED
      BY <3>1 DEF GraphDone, LastBarrierOpen, Stage, Outside, Idle
  <2>10. QED
    BY <2>5, <2>6, <2>7, <2>8, <2>9 DEF DoneInv
<1>7. CASE local[0].after = "app"
  <2>1. \A u \in Members : Point(u)' \in {"app", "top"}
    BY <1>7 DEF End
  <2>2. \A u \in Members : ~InNode(u)' /\ ~AwaitsChunks(u)' /\ Stage(u)' = "over"
    BY <2>1 DEF InNode, AwaitsChunks, AtBarrier, Stage, Outside, Idle
  <2>3. NodesDone' /\ ChunksApart' /\ FirstChunks'
    BY <1>1, <2>1, <2>2 DEF NodesDone, ChunksApart, FirstChunks
  <2>4. CounterAhead'
    BY <1>1, <2>1, <2>2 DEF CounterAhead
  <2>5. GraphDone'
    <3>1. \A k \in Nodes : k < (IF abort = -1 THEN NNodes ELSE abort) => Computed(k)
      BY <1>2, <1>7, AllComputed
    <3>2. QED
      BY <1>1, <3>1 DEF GraphDone, Computed
  <2>6. QED
    BY <2>3, <2>4, <2>5 DEF DoneInv
<1>8. QED
  BY <1>5, <1>6, <1>7 DEF End

LEMMA PassDone ==
    ASSUME BarrierInv, BarrierInv', DoneInv, NEW t \in Threads,
           Pass(t) \/ (BarrierRead(t) /\ n_graph.n = 1)
    PROVE  DoneInv'
<1>1. /\ Leave(t) /\ UNCHANGED <<n_graph, last_graph, done, abort, current_chunk>>
      /\ pc[t] \in {"barrier", "pass"} /\ pc[t] \in AtBarrier /\ Types /\ Placed(t)
  BY DEF Pass, BarrierRead, pool, BarrierInv, AtBarrier
<1>2. /\ local[t].after \in {"chunks", "node", End(t)} /\ pc'[t] = local[t].after
      /\ local[t].after # End(t) => /\ local'[t].node = local[t].node
                                    /\ local'[t].chunk = local[t].chunk
  BY <1>1, LeaveFacts
<1>3. t \in Members /\ ~Behind(t) /\ 0 \in Members
  BY <1>1, MemberFacts DEF Placed, Inside, Member
<1>4. CASE t = 0 /\ local[0].after = "app"
  <2>1. DOMAIN done' = Nodes /\ pc'[0] \in Idle
    BY <1>1, <1>2, <1>4 DEF DoneInv, Idle
  <2>2. QED
    BY <2>1, IdleDone
<1>5. CASE ~(t = 0 /\ local[0].after = "app") /\ Pass(t)
  <2>1. pc[t] = "pass"
    BY <1>5 DEF Pass
  <2>2. ASSUME NEW u \in Members
        PROVE  /\ Point(u) \in AtBarrier /\ Point(u)' = local[u].after
               /\ local[u].after \in {"chunks", "node", End(u)}
               /\ local[u].after # End(u) => /\ local'[u].node = local[u].node
                                             /\ local'[u].chunk = local[u].chunk
               /\ local[u].node = local[0].node
               /\ local[u].after = "chunks" <=> local[0].after = "chunks"
               /\ local[u].after = "node" <=> local[0].after = "node"
    <3>1. /\ Point(u) = pc[u] /\ pc[u] \in AtBarrier /\ Point(u)' = local[u].after
          /\ local[u].after \in {"chunks", "node", End(u)}
          /\ local[u].after # End(u) => /\ local'[u].node = local[u].node
                                        /\ local'[u].chunk = local[u].chunk
      BY <1>5, AfterPass
    <3>2. /\ local[u].node = local[0].node
          /\ local[u].after = "chunks" <=> local[0].after = "chunks"
          /\ local[u].after = "node" <=> local[0].after = "node"
      BY <1>3, <2>1, SameBarrier
    <3>3. QED
      BY <3>1, <3>2
  <2>3. pc'[0] = "wait" \/ local[0].after # "app"
    BY <1>3, <1>5, AfterPass
  <2>4. QED
    BY <1>1, <1>3, <2>2, <2>3, BarrierOpens
<1>6. CASE ~(t = 0 /\ local[0].after = "app") /\ BarrierRead(t) /\ n_graph.n = 1
  <2>1. Members = {0} /\ t = 0 /\ pc[t] = "barrier"
    BY <1>3, <1>6 DEF Members, BarrierRead
  <2>2. ~Released(0) /\ ~Released(0)' /\ ~Behind(0)'
    BY <1>2, <2>1, PoolFacts DEF Released, Behind, End
  <2>3. Point(0) \in AtBarrier /\ Point(0)' = local[0].after
    BY <1>1, <1>2, <1>3, <2>1, <2>2 DEF Point, End
  <2>4. QED
    BY <1>1, <1>2, <1>3, <1>6, <2>1, <2>3, BarrierOpens
<1>7. QED
  BY <1>4, <1>5, <1>6

-----------------------------------------------------------------------------
LEMMA DoneInvInit ==
    ASSUME Init
    PROVE  DoneInv
<1>1. BarrierInv /\ pc[0] = "app" /\ DOMAIN done = Nodes
  BY BarrierInvInit, PoolFacts DEF Init, NotDone
<1>2. Stage(0) = "over"
  BY <1>1, IdleIsOver DEF BarrierInv, Idle
<1>3. QED
  BY <1>1, <1>2, NothingBetweenGraphs

LEMMA DoneInvNext ==
    ASSUME BarrierInv, BarrierInv', DoneInv, [Next]_vars
    PROVE  DoneInv'
<1>0. DOMAIN done = Nodes /\ 0 \in Threads
  BY PoolFacts DEF DoneInv
<1>1. CASE Application \/ Join
  <2>1. pc'[0] \in Idle
    <3>1. pc \in [Threads -> MainPlaces \cup WorkerPlaces]
      BY DEF BarrierInv, Types
    <3>2. CASE Compute
      BY <1>0, <3>1, <3>2 DEF Compute, Goto, Idle
    <3>3. CASE Pause \/ Resume
      <4>1. pc[0] = "app" /\ pc'[0] = Woken[0]
        BY <3>3 DEF Pause, Resume
      <4>2. QED
        BY <1>0, <4>1 DEF Woken, Idle
    <3>4. CASE Free
      BY <1>0, <3>4 DEF Free, Woken, Idle
    <3>5. CASE Join
      BY <1>0, <3>1, <3>5 DEF Join, Goto, Idle
    <3>6. QED
      BY <1>1, <3>2, <3>3, <3>4, <3>5 DEF Application
  <2>2. done' = done
    BY <1>1 DEF Application, Compute, Pause, Resume, Free, Join
  <2>3. QED
    BY <1>0, <2>1, <2>2, IdleDone
<1>2. ASSUME NEW t \in Threads, Works(t)
      PROVE  DoneInv'
  <2>1. CASE Start(t) \/ Skip(t) \/ Finish(t) \/ Node(t)
    BY <2>1, StartDone
  <2>2. CASE Arrive(t) \/ ResetBarrier(t) \/ (BarrierRead(t) /\ n_graph.n # 1)
    BY <2>2, ArriveDone
  <2>3. CASE Pass(t) \/ (BarrierRead(t) /\ n_graph.n = 1)
    BY <2>3, PassDone
  <2>4. CASE Wait(t) /\ (t = 0 => local[t].after # "app")
    BY <2>4, WaitDone
  <2>5. CASE Wait(t) /\ t = 0 /\ local[t].after = "app"
    <3>1. pc'[0] = "app" /\ done' = done
      BY <1>0, <2>5 DEF Wait, Leave, Goto, BarrierInv, Types
    <3>2. QED
      BY <1>0, <3>1, IdleDone DEF Idle
  <2>6. CASE DoChunk(t) \/ NoChunk(t)
    BY <2>6, TakeChunkDone
  <2>7. CASE AfterNode(t)
    BY <2>7, AfterNodeDone
  <2>8. QED
    BY <1>2, <2>1, <2>2, <2>3, <2>4, <2>5, <2>6, <2>7 DEF Works
<1>3. CASE Announce \/ Broadcast
  BY <1>3, AnnounceDone, BroadcastDone
<1>4. ASSUME NEW t \in Workers,
             \/ Top(t) \/ Nap(t) \/ Awake(t) \/ CheckStop(t) \/ Poll(t)
             \/ PollGraph(t) \/ Lock(t) \/ WakeUp(t)
      PROVE  DoneInv'
  <2>1. CASE Top(t) \/ Nap(t) \/ Awake(t) \/ CheckStop(t) \/ Poll(t)
    <3> DEFINE place == IF pc[t] = "top" THEN IF pause THEN "nap" ELSE "stop?"
                        ELSE IF pc[t] = "nap" THEN IF pause THEN "napping" ELSE "top"
                        ELSE IF pc[t] = "awake" THEN "top"
                        ELSE IF pc[t] = "stop?" THEN IF stop THEN "exited" ELSE "poll"
                        ELSE IF stop \/ pause THEN "lock" ELSE "poll graph"
    <3>1. pc[t] \in Outside /\ place \in Outside
      BY <2>1 DEF Top, Nap, Awake, CheckStop, Poll, Outside
    <3>2. pc' = [pc EXCEPT ![t] = place] /\ UNCHANGED Waiting /\ last_graph' = last_graph
      BY <2>1 DEF Top, Nap, Awake, CheckStop, Poll, Goto
    <3> HIDE DEF place
    <3>3. QED
      BY <3>1, <3>2, LookDone
  <2>2. CASE WakeUp(t)
    <3>1. pc[t] \in Outside /\ Woken[t] \in Outside
      BY <2>2, PoolFacts DEF WakeUp, Woken, Outside
    <3>2. QED
      BY <2>2, <3>1, LookDone DEF WakeUp
  <2>3. CASE PollGraph(t)
    <3> DEFINE place == IF New(t) /\ Joins(t) THEN "start" ELSE "lock"
    <3>1. /\ pc[t] \in Outside /\ Look(t) /\ UNCHANGED Waiting
          /\ pc' = [pc EXCEPT ![t] = place]
      BY <2>3 DEF PollGraph, Outside, Goto
    <3>2. IF New(t) /\ Joins(t) THEN place = "start" ELSE place \in Outside
      BY DEF Outside
    <3> HIDE DEF place
    <3>3. QED
      BY <3>1, <3>2, LookDone
  <2>4. CASE Lock(t) /\ (stop \/ pause)
    <3>1. /\ pc[t] \in Outside /\ pc' = [pc EXCEPT ![t] = "top"] /\ "top" \in Outside
          /\ UNCHANGED Waiting /\ last_graph' = last_graph
      BY <2>4 DEF Lock, Outside, Goto
    <3>2. QED
      BY <3>1, LookDone
  <2>5. CASE Lock(t) /\ ~stop /\ ~pause
    <3> DEFINE place == IF ~New(t) THEN "asleep" ELSE IF Joins(t) THEN "start" ELSE "top"
    <3>1. /\ pc[t] \in Outside /\ Look(t) /\ UNCHANGED Waiting
          /\ pc' = [pc EXCEPT ![t] = place]
      BY <2>5 DEF Lock, Outside, Goto
    <3>2. IF New(t) /\ Joins(t) THEN place = "start" ELSE place \in Outside
      BY DEF Outside
    <3> HIDE DEF place
    <3>3. QED
      BY <3>1, <3>2, LookDone
  <2>6. QED
    BY <1>4, <2>1, <2>2, <2>3, <2>4, <2>5
<1>5. CASE UNCHANGED vars
  <2>1. /\ n_graph' = n_graph /\ last_graph' = last_graph /\ pc' = pc /\ local' = local
        /\ n_barrier_passed' = n_barrier_passed /\ current_chunk' = current_chunk
        /\ abort' = abort /\ done' = done
    BY <1>5 DEF vars, pool
  <2>2. Stage(0)' = Stage(0) /\ (LastBarrierOpen' <=> LastBarrierOpen)
        /\ (AwaitsChunks(0)' <=> AwaitsChunks(0))
    BY <2>1 DEF LastBarrierOpen, AwaitsChunks, Stage, InNode, Point, Behind, Released
  <2>3. ASSUME NEW u \in Members
        PROVE  /\ Point(u)' = Point(u) /\ (InNode(u)' <=> InNode(u))
               /\ (AwaitsChunks(u)' <=> AwaitsChunks(u)) /\ Mark(u)' = Mark(u)
    <3>1. Point(u)' = Point(u)
      BY <2>1 DEF Point, Behind, Released
    <3>2. QED
      BY <2>1, <3>1 DEF InNode, AwaitsChunks, Mark, NodeOf
  <2>4. \A u \in Members : AwaitsChunks(u)' => local'[u].chunk = u
    BY <2>1, <2>3 DEF DoneInv, FirstChunks
  <2>5. AwaitsChunks(0)' => current_chunk' = n_graph.n
    BY <2>1, <2>2 DEF DoneInv, FirstChunks
  <2>6. QED
    BY <2>1, <2>2, <2>3, <2>4, <2>5, DoneStays
<1>6. QED
  BY <1>1, <1>2, <1>3, <1>4, <1>5, PoolFacts DEF Next, Runs

(* While the nodes of a graph are computed (ggml_compute_forward_mul_mat,  *)
(* ggml_graph_compute_thread), what is computed of the current node is     *)
(* what was taken from current_chunk and is not in work; of the others,    *)
(* all of it or nothing.                                                   *)
THEOREM ChunksInvariant == Spec => [](BarrierInv /\ DoneInv)
<1>1. Init => BarrierInv /\ DoneInv
  BY BarrierInvInit, DoneInvInit
<1>2. (BarrierInv /\ DoneInv) /\ [Next]_vars => (BarrierInv /\ DoneInv)'
  <2> SUFFICES ASSUME BarrierInv, DoneInv, [Next]_vars PROVE BarrierInv' /\ DoneInv'
    OBVIOUS
  <2>1. BarrierInv'
    BY BarrierInvNext
  <2>2. QED
    BY <2>1, DoneInvNext
<1>3. QED
  BY <1>1, <1>2, PTL DEF Spec

-----------------------------------------------------------------------------
(* The state that the caller of ggml_graph_compute sees. *)

Limit == IF pc[0] \in Idle \/ abort = -1 THEN NNodes ELSE abort

LEMMA GraphTerms ==
    /\ Graph!Nodes = Nodes /\ Graph!Idle = NotDone
    /\ \A k \in Nodes : Graph!Complete(k) <=> done[k] = SetToBag(Chunks)
BY DEF Graph!Nodes, Nodes, Graph!Idle, NotDone, EmptyBag, Graph!EmptyBag, SetToBag,
   Graph!SetToBag, Graph!Complete, Chunks

LEMMA Unseen ==
    ASSUME n_graph'.n = n_graph.n, done' = done, Limit' = Limit,
           pc'[0] \in Idle <=> pc[0] \in Idle
    PROVE  UNCHANGED Graph!promised
BY DEF Graph!promised, Limit, Idle, NChunk

LEMMA OneThreadMoves ==
    ASSUME Types, NEW t \in Threads, Works(t), NEW u \in Threads \ {t}
    PROVE  pc'[u] = pc[u]
<1>0. pc \in [Threads -> MainPlaces \cup WorkerPlaces]
  BY DEF Types
<1>1. CASE BarrierRead(t) \/ Pass(t) \/ Wait(t)
  <2>1. Leave(t) \/ Goto(t, "arrive")
    BY <1>1 DEF BarrierRead, Pass, Wait
  <2>2. Goto(t, local[t].after) \/ Goto(t, "arrive")
    BY <2>1 DEF Leave
  <2>3. QED
    BY <1>0, <2>2 DEF Goto
<1>2. CASE Arrive(t) \/ ResetBarrier(t) \/ Start(t) \/ Skip(t) \/ NoChunk(t)
  BY <1>0, <1>2 DEF Arrive, ResetBarrier, Start, Skip, NoChunk, Goto
<1>3. CASE Finish(t) \/ Node(t)
  BY <1>0, <1>3 DEF Finish, Node, Goto
<1>4. CASE DoChunk(t) \/ AfterNode(t)
  BY <1>0, <1>4 DEF DoChunk, AfterNode, Goto
<1>5. QED
  BY <1>1, <1>2, <1>3, <1>4 DEF Works

(* ggml_graph_compute returns, when all is done.                           *)
LEMMA ReturnEnds ==
    ASSUME BarrierInv, DoneInv, pc[0] \notin Idle, pc'[0] \in Idle,
           UNCHANGED <<n_graph, done>>, NEW t \in Threads, Works(t)
    PROVE  Graph!End
<1>1. t = 0 /\ local[0].after = "app" /\ pc'[0] = "app"
      /\ (BarrierRead(0) \/ Pass(0) \/ Wait(0))
  <2>1. pc'[0] # pc[0] /\ pc \in [Threads -> MainPlaces \cup WorkerPlaces]
    BY DEF BarrierInv, Types
  <2>2. t = 0
    BY <2>1, OneThreadMoves, PoolFacts DEF BarrierInv
  <2>3. ~(\/ Arrive(0) \/ ResetBarrier(0) \/ Start(0) \/ Skip(0) \/ Finish(0) \/ Node(0)
          \/ DoChunk(0) \/ NoChunk(0) \/ AfterNode(0))
    BY <2>1, <2>2 DEF Arrive, ResetBarrier, Start, Skip, Finish, Node, DoChunk, NoChunk,
       AfterNode, Goto, Idle
  <2>4. BarrierRead(0) \/ Pass(0) \/ Wait(0)
    BY <2>2, <2>3 DEF Works
  <2>5. pc[0] \in AtBarrier /\ Placed(0) /\ (Leave(0) \/ pc'[0] = "arrive")
    BY <2>1, <2>2, <2>4 DEF BarrierRead, Pass, Wait, AtBarrier, Goto, BarrierInv
  <2>6. Leave(0) /\ local[0].after \in {"chunks", "node", "app"}
    BY <2>5 DEF Placed, End, Idle
  <2>7. pc'[0] = local[0].after
    BY <2>1, <2>2, <2>6 DEF Leave, Goto
  <2>8. QED
    BY <2>2, <2>4, <2>6, <2>7 DEF Idle
<1>2. ASSUME NEW k \in Nodes, k < (IF abort = -1 THEN NNodes ELSE abort)
      PROVE  Computed(k)
  <2>1. CASE Wait(0)
    <3>1. pc[0] = "wait" /\ Released(0) /\ ~Behind(0)
      BY <2>1, PoolFacts DEF Wait, Released, Behind
    <3>2. Point(0) = "app"
      BY <1>1, <3>1 DEF Point
    <3>3. LastBarrierOpen
      BY <3>1, <3>2 DEF LastBarrierOpen, Stage, Idle
    <3>4. QED
      BY <1>2, <3>3 DEF DoneInv, GraphDone
  <2>2. CASE Pass(0)
    <3>1. 0 \in Members
      BY <2>2, PoolFacts DEF Pass, BarrierInv, Placed, Inside, Member
    <3>2. \A u \in Members : Point(u) \in AtBarrier
      BY <1>1, <2>2, AfterPass
    <3>3. \A u \in Members : ~InNode(u)
      BY <3>2 DEF InNode, AtBarrier
    <3>4. QED
      BY <1>1, <1>2, <3>1, <3>2, <3>3, AllComputed
  <2>3. CASE BarrierRead(0)
    <3>1. 0 \in Members /\ pc[0] = "barrier"
      BY <2>3, PoolFacts DEF BarrierRead, BarrierInv, Placed, Inside, Member
    <3>2. n_graph.n = 1
      BY <1>1, <2>3 DEF BarrierRead, Goto, BarrierInv, Types
    <3>3. Members = {0}
      BY <3>2 DEF Members
    <3>4. Point(0) = "barrier"
      BY <3>1, PoolFacts DEF Point, Behind, Released
    <3>5. \A u \in Members : ~InNode(u)
      BY <3>3, <3>4 DEF InNode
    <3>6. QED
      BY <1>1, <1>2, <3>1, <3>4, <3>5, AllComputed DEF AtBarrier
  <2>4. QED
    BY <1>1, <2>1, <2>2, <2>3
<1>3. \A k \in Graph!Nodes : k < Limit => Graph!Complete(k)
  BY <1>2, GraphTerms DEF Limit, Computed, Chunks
<1>4. QED
  BY <1>1, <1>3, GraphTerms DEF Graph!End, Limit, Idle

LEMMA AnnounceBegins ==
    ASSUME BarrierInv, Announce
    PROVE  Graph!Begin
<1>1. pc[0] = "kickoff" /\ pc'[0] = "broadcast" /\ abort' = abort
      /\ n_graph'.n = local[0].nth /\ done' = NotDone
  BY PoolFacts DEF Announce, Goto, BarrierInv, Types
<1>2. abort = -1 /\ local[0].nth \in Nat
  BY <1>1 DEF BarrierInv, AbortAhead, Kickoff
<1>3. NChunk(local[0].nth) \in Nat
  BY <1>2, PoolAssumption DEF PoolAssumption, NChunk
<1>4. done' = Graph!Idle
  BY <1>1, GraphTerms
<1>5. NChunk(n_graph'.n) = NChunk(local[0].nth)
  BY <1>1
<1>6. QED
  BY <1>1, <1>2, <1>3, <1>4, <1>5 DEF Graph!Begin, Idle

(* A thread that computes a chunk of a node: the nodes before it are       *)
(* complete, it does not lie behind an abort, and the chunk is not yet     *)
(* computed.                                                               *)
LEMMA ChunkComputes ==
    ASSUME BarrierInv, DoneInv, NEW t \in Threads, DoChunk(t)
    PROVE  Graph!Compute
<1> DEFINE n == local[t].node
           c == local[t].chunk
<1>1. /\ pc[t] = "chunks" /\ c < NChunk(local[t].nth)
      /\ done' = [done EXCEPT ![n] = @ (+) SetToBag({c})]
      /\ n_graph' = n_graph /\ abort' = abort
  BY DEF DoChunk, pool
<1>2. /\ pc'[0] \in Idle <=> pc[0] \in Idle
  <2>1. Goto(t, "abort?") \/ pc' = pc
    BY DEF DoChunk
  <2>2. QED
    BY <1>1, <2>1, PoolFacts DEF Goto, Idle, BarrierInv, Types
<1>3. /\ t \in Members /\ Point(t) = "chunks" /\ local[t].nth = n_graph.n
      /\ n \in Nodes /\ Placed(t)
  BY <1>1, WorkingFacts DEF Member, BarrierInv, Placed
<1>4. c \in Chunks
  BY <1>1, <1>3, ChunkFacts DEF Chunks
<1>5. /\ InNode(t) /\ 0 \in Members /\ Stage(t) = Stage(0) /\ Mark(t) = n + 1
      /\ Stage(t) \in {"end", "next"} /\ Mark(0) \in Int /\ n \in Int
  <2>1. InNode(t)
    BY <1>3 DEF InNode
  <2>2. 0 \in Members
    BY <1>3, MemberFacts
  <2>3. QED
    BY <1>3, <2>1, <2>2, MemberFacts, NodeFacts
<1>6. Stage(0) # "over" /\ pc[0] \notin Idle
  BY <1>5, IdleIsOver DEF BarrierInv
<1>7. n < Limit
  <2>1. CASE abort = -1
    BY <1>3, <2>1, NodeFacts DEF Limit
  <2>2. CASE abort # -1
    <3>1. Mark(0) = abort /\ ~InNode(0) /\ abort \in Int
      BY <1>6, <2>2, PoolFacts DEF BarrierInv, AbortAhead, Types
    <3>2. Same(t, 0) /\ Same(0, t)
      BY <1>3, <1>5 DEF BarrierInv, Together
    <3>3. CASE Stage(t) = "end"
      BY <1>5, <1>6, <2>2, <3>1, <3>2, <3>3 DEF Same, Limit
    <3>4. CASE Stage(t) = "next"
      <4>1. \A m \in abort..n : m # abort
        BY <1>5, <3>1, <3>2, <3>4 DEF Same
      <4>2. QED
        BY <1>5, <1>6, <2>2, <3>1, <4>1 DEF Limit
    <3>5. QED
      BY <1>5, <3>3, <3>4
  <2>3. QED
    BY <2>1, <2>2
<1>8. ASSUME NEW m \in Nodes, m < n
      PROVE  done[m] = SetToBag(Chunks)
  <2>1. m \notin Open
    <3>1. ASSUME NEW u \in Members, InNode(u), local[u].node = m PROVE FALSE
      <4>1. m = n
        BY <1>3, <1>5, <3>1, OneNode
      <4>2. QED
        BY <1>5, <1>8, <4>1
    <3>2. QED
      BY <3>1 DEF Open
  <2>2. m < Mark(t)
    BY <1>5, <1>8, NodeFacts
  <2>3. QED
    BY <1>3, <1>6, <2>1, <2>2 DEF DoneInv, NodesDone
<1>9. c \notin DOMAIN done[n]
  <2>1. n \in Open
    BY <1>3, <1>5 DEF Open
  <2>2. done[n] = SetToBag(Taken)
    BY <1>6, <2>1 DEF DoneInv, NodesDone
  <2>3. c \notin Taken
    BY <1>3 DEF Taken, Holds
  <2>4. QED
    BY <2>2, <2>3 DEF SetToBag
<1>10. /\ n \in Graph!Nodes /\ c \in 0..(NChunk(n_graph.n) - 1)
       /\ \A m \in Graph!Nodes : m < n => Graph!Complete(m)
       /\ ~Graph!BagIn(c, done[n])
  BY <1>3, <1>4, <1>8, <1>9, GraphTerms DEF Chunks, Graph!BagIn, Graph!BagToSet
<1>11. done' = [done EXCEPT ![n] = Graph!(+)(@, Graph!SetToBag({c}))]
  BY <1>1 DEF (+), Graph!(+), SetToBag, Graph!SetToBag
<1>12. QED
  BY <1>1, <1>2, <1>6, <1>7, <1>10, <1>11 DEF Graph!Compute, Limit, Idle

(* The main thread is told to abort after a node: the ones before it are   *)
(* complete, and none after it has begun.                                  *)
LEMMA AbortStops ==
    ASSUME BarrierInv, DoneInv, NEW t \in Threads, AfterNode(t)
    PROVE  Graph!Abort \/ UNCHANGED Graph!promised
<1> DEFINE n == local[t].node
<1>1. /\ pc[t] = "abort?" /\ Aborts(t, n) /\ n_graph' = n_graph /\ done' = done
      /\ Goto(t, "barrier") \/ Goto(t, "node")
  BY DEF AfterNode, pool
<1>2. /\ t \in Members /\ Point(t) = "abort?" /\ n \in Nodes
  BY <1>1, WorkingFacts DEF Member, BarrierInv, Placed
<1>3. /\ InNode(t) /\ Stage(t) = Stage(0) /\ Mark(t) = n + 1
      /\ Stage(t) \in {"end", "next"} /\ n \in Int
  <2>1. InNode(t)
    BY <1>2 DEF InNode
  <2>2. QED
    BY <1>2, <2>1, MemberFacts, NodeFacts
<1>4. Stage(0) # "over" /\ pc[0] \notin Idle
  BY <1>3, IdleIsOver DEF BarrierInv
<1>5. pc'[0] \in Idle <=> pc[0] \in Idle
  BY <1>1, <1>4, PoolFacts DEF Goto, Idle, BarrierInv, Types
<1>6. CASE abort' = abort
  BY <1>1, <1>5, <1>6, Unseen DEF Limit
<1>7. CASE t = 0 /\ abort' = n + 1
  <2>1. abort = -1
    BY <1>3, <1>4, <1>7 DEF BarrierInv, AbortAhead
  <2>2. ASSUME NEW m \in Nodes, m # n
        PROVE  done[m] = SetToBag(IF m < n THEN Chunks ELSE {})
    <3>1. m \notin Open
      <4>1. ASSUME NEW u \in Members, InNode(u), local[u].node = m PROVE FALSE
        <5>1. m = n
          BY <1>2, <1>3, <4>1, OneNode
        <5>2. QED
          BY <2>2, <5>1
      <4>2. QED
        BY <4>1 DEF Open
    <3>2. m < Mark(t) <=> m < n
      BY <1>3, <2>2, NodeFacts
    <3>3. done[m] = SetToBag(IF m < Mark(t) THEN Chunks ELSE {})
      BY <1>2, <1>4, <3>1 DEF DoneInv, NodesDone
    <3>4. QED
      BY <3>2, <3>3
  <2>3. ASSUME NEW m \in Nodes
        PROVE  /\ m < n => Graph!Complete(m)
               /\ m > n => done[m] = Graph!EmptyBag
    <3>1. m < n => Graph!Complete(m)
      BY <1>3, <2>2, GraphTerms, NodeFacts
    <3>2. m > n => done[m] = SetToBag({})
      BY <1>3, <2>2, NodeFacts
    <3>3. QED
      BY <3>1, <3>2 DEF SetToBag, Graph!EmptyBag, Graph!SetToBag
  <2>4. Limit = NNodes /\ Limit' = n + 1
    BY <1>2, <1>4, <1>5, <1>7, <2>1, NodeFacts DEF Limit
  <2>5. n \in Graph!Nodes /\ \A m \in Graph!Nodes : /\ m < n => Graph!Complete(m)
                                                    /\ m > n => done[m] = Graph!EmptyBag
    BY <1>2, <2>3, GraphTerms
  <2>6. QED
    BY <1>1, <1>4, <1>5, <2>4, <2>5 DEF Graph!Abort, Limit, Idle, NChunk
<1>8. QED
  BY <1>1, <1>6, <1>7 DEF Aborts

LEMMA ImplementsInit ==
    ASSUME Init
    PROVE  Graph!Init
<1>1. pc[0] = "app" /\ n_graph.n = 0 /\ done = NotDone
  BY PoolFacts DEF Init, NoGraph
<1>2. NChunk(n_graph.n) \in Nat
  BY <1>1, PoolAssumption DEF NChunk, PoolAssumption
<1>3. QED
  BY <1>1, <1>2, GraphTerms DEF Graph!Init

(* Every step of the pool is a step of the promise, or unseen.             *)
LEMMA ImplementsNext ==
    ASSUME BarrierInv, DoneInv, [Next]_vars
    PROVE  [Graph!Next]_(Graph!promised)
<1>0. 0 \in Threads /\ pc \in [Threads -> MainPlaces \cup WorkerPlaces]
  BY PoolFacts DEF BarrierInv, Types
<1>1. CASE Application \/ Join
  <2>1. /\ n_graph' = n_graph /\ done' = done
        /\ pc[0] \in Idle /\ pc'[0] \in Idle
    <3>1. CASE Compute
      BY <1>0, <3>1 DEF Compute, Goto, pool, Idle
    <3>2. CASE Pause \/ Resume
      BY <1>0, <3>2 DEF Pause, Resume, Woken, Idle
    <3>3. CASE Free
      BY <1>0, <3>3 DEF Free, Woken, Idle
    <3>4. CASE Join
      BY <1>0, <3>4 DEF Join, Goto, pool, Idle
    <3>5. QED
      BY <1>1, <3>1, <3>2, <3>3, <3>4 DEF Application
  <2>2. QED
    BY <2>1, Unseen DEF Limit
<1>2. CASE Announce
  BY <1>2, AnnounceBegins DEF Graph!Next
<1>3. CASE Broadcast
  <2>1. /\ n_graph' = n_graph /\ done' = done /\ abort' = abort
        /\ pc[0] = "broadcast" /\ pc'[0] = "start"
    BY <1>0, <1>3 DEF Broadcast, Woken
  <2>2. QED
    BY <2>1, Unseen DEF Limit, Idle
<1>4. ASSUME NEW t \in Threads, Works(t)
      PROVE  [Graph!Next]_(Graph!promised)
  <2>1. CASE DoChunk(t)
    BY <2>1, ChunkComputes DEF Graph!Next
  <2>2. CASE AfterNode(t)
    BY <2>2, AbortStops DEF Graph!Next
  <2>3. CASE ~DoChunk(t) /\ ~AfterNode(t)
    <3>1. n_graph' = n_graph /\ done' = done /\ abort' = abort
      BY <1>4, <2>3 DEF Works, BarrierRead, Arrive, ResetBarrier, Pass, Wait, Start,
         Skip, Finish, Node, NoChunk, pool
    <3>2. CASE pc[0] \notin Idle /\ pc'[0] \in Idle
      BY <1>4, <3>1, <3>2, ReturnEnds DEF Graph!Next
    <3>3. CASE pc[0] \in Idle
      <4>1. pc[t] \in Inside \cup {"wait"}
        BY <1>4 DEF Works, BarrierRead, Arrive, ResetBarrier, Pass, Wait, Start,
           Skip, Finish, Node, DoChunk, NoChunk, AfterNode, Inside
      <4>2. t # 0
        BY <3>3, <4>1 DEF Idle, Inside
      <4>3. pc'[0] = pc[0]
        BY <1>0, <1>4, <4>2, OneThreadMoves DEF BarrierInv
      <4>4. QED
        BY <3>1, <4>3, Unseen DEF Limit
    <3>4. CASE pc[0] \notin Idle /\ pc'[0] \notin Idle
      BY <3>1, <3>4, Unseen DEF Limit
    <3>5. QED
      BY <3>2, <3>3, <3>4
  <2>4. QED
    BY <2>1, <2>2, <2>3
<1>5. ASSUME NEW t \in Workers,
             \/ Top(t) \/ Nap(t) \/ Awake(t) \/ CheckStop(t) \/ Poll(t)
             \/ PollGraph(t) \/ Lock(t) \/ WakeUp(t)
      PROVE  [Graph!Next]_(Graph!promised)
  <2>1. UNCHANGED Waiting /\ t # 0
    BY <1>5, PoolFacts DEF Top, Nap, Awake, CheckStop, Poll, PollGraph, Lock, WakeUp
  <2>2. \E place : pc' = [pc EXCEPT ![t] = place]
    BY <1>5 DEF Top, Nap, Awake, CheckStop, Poll, PollGraph, Lock, WakeUp, Goto
  <2>3. pc'[0] = pc[0] /\ n_graph' = n_graph /\ done' = done /\ abort' = abort
    BY <1>0, <2>1, <2>2 DEF Waiting
  <2>4. QED
    BY <2>3, Unseen DEF Limit
<1>6. CASE UNCHANGED vars
  BY <1>6, Unseen DEF vars, pool, Limit
<1>7. QED
  BY <1>1, <1>2, <1>3, <1>4, <1>5, <1>6, PoolFacts DEF Next, Runs

(* For a caller of ggml_graph_compute the pool is one thread that computes *)
(* node after node, each chunk once, returns when the graph is computed,   *)
(* and begins no node behind the one at which it was told to abort.        *)
THEOREM Implements == Spec => ComputesGraph
<1>1. Init => Graph!Init
  BY ImplementsInit
<1>2. (BarrierInv /\ DoneInv) /\ [Next]_vars => [Graph!Next]_(Graph!promised)
  BY ImplementsNext
<1>3. QED
  BY <1>1, <1>2, ChunksInvariant, PTL DEF Spec, ComputesGraph, Graph!Spec

=============================================================================
