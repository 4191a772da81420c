------------------------ MODULE GgmlThreadpool_proofs ------------------------
(***************************************************************************)
(* For a pool of any size, graphs of any length and any number of them:    *)
(* the threads of a graph stay together from barrier to barrier, so that   *)
(* no worker is inside a graph when the main thread has left it.           *)
(*                                                                         *)
(* Neither property is inductive: a thread knows of the others only what   *)
(* the counters of the barrier tell it.  The invariant says where each     *)
(* thread of the graph will be once it has noticed all that has happened   *)
(* (a new graph, an open barrier), that all of them are then between the   *)
(* same two barriers, and what n_barrier counts.                           *)
(***************************************************************************)
EXTENDS GgmlThreadpool, FiniteSets, FiniteSetTheorems, TLAPS

Members == 0..(n_graph.n - 1)

Idle == {"app", "kickoff", "join", "freed"}

AtBarrier == {"barrier", "arrive", "reset", "pass", "wait"}

(* The barrier is open, but the thread has not looked yet. *)
Released(t) == pc[t] = "wait" /\ local[t].n_passed # n_barrier_passed

(* The graph is announced, but the worker has not looked yet. *)
Behind(t) == t \in Workers /\ last_graph[t] # n_graph

Member(t) == t \in Members /\ ~Behind(t)

(* Where a thread is once it has looked.                                   *)
Point(t) ==
    IF Behind(t) \/ (t = 0 /\ pc[t] = "broadcast") THEN "start"
    ELSE IF Released(t) THEN local[t].after
    ELSE pc[t]

NodeOf(t) == IF Point(t) = "start" THEN 0 ELSE local[t].node

InNode(t) == Point(t) \in {"chunks", "abort?"}

(* The barrier a thread goes to: the one that ends a node, or the one in   *)
(* the next node that has work or at the end of the graph.  After the last *)
(* node there is no barrier of its own.                                    *)
Stage(t) ==
    IF Point(t) \in Outside \cup Idle THEN "over"
    ELSE IF \/ InNode(t) /\ local[t].node + 1 < NNodes
            \/ Point(t) \in AtBarrier /\ local[t].after = "node"
         THEN "end"
         ELSE "next"

(* The node from which it will go on. *)
Mark(t) == IF InNode(t) THEN NodeOf(t) + 1 ELSE NodeOf(t)

Same(t, u) ==
    /\ Stage(t) = Stage(u)
    /\ Stage(t) = "end" => Mark(t) = Mark(u)
    /\ Stage(t) = "next" => \A m \in Mark(t)..(Mark(u) - 1) : m \in Empty /\ m # abort

Together == \A t, u \in Members : Same(t, u)

-----------------------------------------------------------------------------
Locals == [nth : 0..NThreads, node : 0..NNodes, chunk : Nat, n : 0..NThreads,
           n_passed : Nat, after : {"", "app", "top", "chunks", "node"}]

Graphs == [count : 0..MaxGraphs, n : 0..NThreads]

MainPlaces == Inside \cup Idle \cup {"broadcast", "wait"}

WorkerPlaces == Inside \cup Outside \cup {"wait"}

Types ==
    /\ n_graph \in Graphs
    /\ n_barrier \in Nat /\ n_barrier_passed \in Nat /\ current_chunk \in Nat
    /\ abort \in -1..NNodes
    /\ stop \in BOOLEAN /\ pause \in BOOLEAN
    /\ pc \in [Threads -> MainPlaces \cup WorkerPlaces]
    /\ pc[0] \in MainPlaces /\ \A t \in Workers : pc[t] \in WorkerPlaces
    /\ last_graph \in [Workers -> Graphs]
    /\ \A t \in Workers : last_graph[t].count <= n_graph.count
    /\ local \in [Threads -> Locals]

Leaving(t) == Released(t) /\ local[t].after = End(t)

(* What the variables of a thread tell at the place where it is.           *)
Placed(t) ==
    /\ pc[t] \in Inside => Member(t)
    /\ pc[t] = "wait" => /\ local[t].n_passed <= n_barrier_passed
                         /\ Leaving(t) \/ Member(t)
    /\ pc[t] \in AtBarrier => local[t].after \in {"chunks", "node", End(t)}
    /\ pc[t] \notin Inside \cup {"wait"} \/ pc[t] = "start" => local[t].node = 0
    /\ pc[t] \in {"arrive", "reset", "pass"} =>
          local[t].n = n_graph.n /\ local[t].n_passed = n_barrier_passed
    /\ pc[t] \in (Inside \cup {"wait"}) \ {"start"} /\ ~Leaving(t) =>
          local[t].nth = n_graph.n
    /\ \/ pc[t] \in {"chunks", "abort?"}
       \/ pc[t] \in AtBarrier /\ local[t].after = "chunks"
       => local[t].node \in Nodes
    /\ pc[t] \in AtBarrier /\ ~Released(t) /\ local[t].after = "chunks" =>
          local[t].node # abort
    /\ pc[t] \in AtBarrier /\ ~Released(t) /\ local[t].after = End(t) =>
          Over(local[t])
    /\ pc[t] \in AtBarrier /\ local[t].after = "node" =>
          local[t].node \in 1..(NNodes - 1)

Kickoff ==
    /\ pc[0] = "kickoff" => n_graph.count < MaxGraphs /\ local[0].nth \in 1..NThreads
    /\ pc[0] = "broadcast" => n_graph.n >= 1

Arrived == {t \in Threads : pc[t] = "wait" /\ local[t].n_passed = n_barrier_passed}

IsLast(t) == pc[t] \in {"reset", "pass"}

Counted ==
    /\ \A t \in Threads : IsLast(t) =>
          /\ Arrived = Members \ {t}
          /\ n_barrier = IF pc[t] = "reset" THEN n_graph.n ELSE 0
    /\ (\A t \in Threads : ~IsLast(t)) => n_barrier = Cardinality(Arrived)

(* An abort is for the node the main thread would go on with.              *)
AbortAhead ==
    abort # -1 => /\ pc[0] # "kickoff"
                  /\ Stage(0) = "over" \/ (Mark(0) = abort /\ ~InNode(0))

BarrierInv ==
    /\ Types /\ Kickoff /\ Counted /\ AbortAhead /\ Together
    /\ \A t \in Threads : Placed(t)

-----------------------------------------------------------------------------
LEMMA PoolFacts ==
    /\ NThreads \in Nat /\ NThreads >= 1 /\ NNodes \in Nat
    /\ MaxGraphs \in Nat /\ NPlanned \in Nat
    /\ 0 \in Threads /\ Workers \subseteq Threads /\ 0 \notin Workers
    /\ \A t \in Threads : t \in Nat /\ (t = 0 \/ t \in Workers)
    /\ Nodes \subseteq 0..(NNodes - 1)
BY PoolAssumption DEF PoolAssumption, Threads, Workers, Nodes

(* A step of one thread leaves the others where they are.                  *)
LEMMA OthersStay ==
    ASSUME Types, NEW t \in Threads,
           \A u \in Threads \ {t} : pc'[u] = pc[u] /\ local'[u] = local[u],
           \A u \in Workers \ {t} : last_graph'[u] = last_graph[u],
           n_graph' = n_graph, n_barrier_passed' = n_barrier_passed
    PROVE  \A u \in Threads \ {t} :
              /\ Released(u)' = Released(u) /\ Behind(u)' = Behind(u)
              /\ Point(u)' = Point(u) /\ InNode(u)' = InNode(u)
              /\ Stage(u)' = Stage(u) /\ Mark(u)' = Mark(u)
              /\ Member(u)' = Member(u) /\ Leaving(u)' = Leaving(u)
              /\ abort' = abort => Placed(u)' = Placed(u)
<1> SUFFICES ASSUME NEW u \in Threads \ {t}
             PROVE  /\ Released(u)' = Released(u) /\ Behind(u)' = Behind(u)
                    /\ Point(u)' = Point(u) /\ InNode(u)' = InNode(u)
                    /\ Stage(u)' = Stage(u) /\ Mark(u)' = Mark(u)
                    /\ Member(u)' = Member(u) /\ Leaving(u)' = Leaving(u)
                    /\ abort' = abort => Placed(u)' = Placed(u)
  OBVIOUS
<1>0. /\ pc'[u] = pc[u] /\ local'[u] = local[u]
      /\ n_graph' = n_graph /\ n_barrier_passed' = n_barrier_passed
      /\ u \in Workers => last_graph'[u] = last_graph[u]
  OBVIOUS
<1>1. Released(u)' = Released(u)
  BY <1>0 DEF Released
<1>2. Behind(u)' = Behind(u)
  BY <1>0 DEF Behind
<1>3. Point(u)' = Point(u)
  BY <1>0, <1>1, <1>2 DEF Point
<1>4. InNode(u)' = InNode(u)
  BY <1>3 DEF InNode
<1>5. Stage(u)' = Stage(u)
  BY <1>0, <1>3, <1>4 DEF Stage
<1>6. Mark(u)' = Mark(u)
  BY <1>0, <1>3, <1>4 DEF Mark, NodeOf
<1>7. Member(u)' = Member(u) /\ Leaving(u)' = Leaving(u)
  BY <1>0, <1>1, <1>2 DEF Member, Members, Leaving
<1>8. abort' = abort => Placed(u)' = Placed(u)
  BY <1>0, <1>1, <1>7 DEF Placed, Over
<1>9. QED
  BY <1>1, <1>2, <1>3, <1>4, <1>5, <1>6, <1>7, <1>8

(* If no thread of the graph changes its stage or its mark, they stay      *)
(* together.                                                               *)
LEMMA TogetherStays ==
    ASSUME Together, n_graph' = n_graph, abort' = abort,
           \A t \in Members : /\ Stage(t)' = Stage(t)
                              /\ Stage(t) # "over" => Mark(t)' = Mark(t)
    PROVE  Together'
BY DEF Together, Same, Members

(* A step of a thread that is not counted before or after leaves what the  *)
(* barrier counts.                                                         *)
LEMMA CountStays ==
    ASSUME Types, Counted, NEW t \in Threads,
           \A u \in Threads \ {t} : pc'[u] = pc[u] /\ local'[u] = local[u],
           n_graph' = n_graph, n_barrier' = n_barrier,
           n_barrier_passed' = n_barrier_passed,
           ~IsLast(t), ~IsLast(t)', t \notin Arrived, t \notin Arrived'
    PROVE  Counted'
<1>1. Arrived' = Arrived
  <2>1. \A u \in Threads \ {t} : u \in Arrived' <=> u \in Arrived
    BY DEF Arrived
  <2>2. QED
    BY <2>1 DEF Arrived
<1>2. \A u \in Threads : IsLast(u)' = IsLast(u)
  BY DEF IsLast
<1>3. Members' = Members
  BY DEF Members
<1>4. \A u \in Threads : IsLast(u) => pc'[u] = pc[u]
  OBVIOUS
<1>5. QED
  BY <1>1, <1>2, <1>3, <1>4 DEF Counted

(* A step that only moves one thread on, between barriers or out of one.   *)
LEMMA OneThreadKeeps ==
    ASSUME BarrierInv, NEW t \in Threads,
           NEW place \in IF t = 0 THEN MainPlaces ELSE WorkerPlaces,
           NEW l \in Locals,
           pc' = [pc EXCEPT ![t] = place], local' = [local EXCEPT ![t] = l],
           last_graph' \in [Workers -> Graphs],
           \A u \in Workers \ {t} : last_graph'[u] = last_graph[u],
           t \in Workers => last_graph'[t].count <= n_graph.count,
           n_graph' = n_graph, n_barrier' = n_barrier,
           \/ abort' = abort
           \/ abort' \in -1..NNodes /\ \A u \in Threads \ {t} : Placed(u)',
           n_barrier_passed' = n_barrier_passed, current_chunk' \in Nat,
           stop' \in BOOLEAN, pause' \in BOOLEAN,
           ~IsLast(t), pc[t] = "wait" => Released(t),
           place \notin {"reset", "pass", "wait"},
           Together', AbortAhead', Kickoff', Placed(t)'
    PROVE  BarrierInv'
<1> USE DEF BarrierInv
<1>1. /\ pc'[t] = place /\ local'[t] = l
      /\ \A u \in Threads \ {t} : pc'[u] = pc[u] /\ local'[u] = local[u]
  BY DEF Types
<1>2. Types'
  <2>1. pc' \in [Threads -> MainPlaces \cup WorkerPlaces]
    BY DEF Types
  <2>2. pc'[0] \in MainPlaces /\ \A u \in Workers : pc'[u] \in WorkerPlaces
    BY <1>1, PoolFacts DEF Types
  <2>3. local' \in [Threads -> Locals]
    BY DEF Types
  <2>4. \A u \in Workers : last_graph'[u].count <= n_graph'.count
    BY DEF Types
  <2>5. QED
    BY <2>1, <2>2, <2>3, <2>4 DEF Types
<1>3. Counted'
  <2>1. ~IsLast(t)' /\ t \notin Arrived /\ t \notin Arrived'
    BY <1>1 DEF IsLast, Arrived, Released
  <2>2. QED
    BY <1>1, <2>1, CountStays
<1>4. \A u \in Threads : Placed(u)'
  BY <1>1, OthersStay
<1>5. QED
  BY <1>2, <1>3, <1>4

(* The same, where the thread keeps its stage and its mark.                *)
LEMMA SameStageKeeps ==
    ASSUME BarrierInv, NEW t \in Threads,
           NEW place \in IF t = 0 THEN MainPlaces ELSE WorkerPlaces,
           NEW l \in Locals,
           pc' = [pc EXCEPT ![t] = place], local' = [local EXCEPT ![t] = l],
           last_graph' \in [Workers -> Graphs],
           \A u \in Workers \ {t} : last_graph'[u] = last_graph[u],
           t \in Workers => last_graph'[t].count <= n_graph.count,
           n_graph' = n_graph, n_barrier' = n_barrier, abort' = abort,
           n_barrier_passed' = n_barrier_passed, current_chunk' \in Nat,
           stop' \in BOOLEAN, pause' \in BOOLEAN,
           ~IsLast(t), pc[t] = "wait" => Released(t),
           place \notin {"reset", "pass", "wait", "kickoff", "broadcast"},
           Stage(t)' = Stage(t), Stage(t) # "over" => Mark(t)' = Mark(t),
           InNode(t)' => InNode(t) \/ abort = -1,
           Placed(t)'
    PROVE  BarrierInv'
<1> USE DEF BarrierInv
<1>1. /\ pc'[t] = place /\ local'[t] = l
      /\ \A u \in Threads \ {t} : pc'[u] = pc[u] /\ local'[u] = local[u]
  BY DEF Types
<1>2. \A u \in Threads : /\ Stage(u)' = Stage(u)
                         /\ Stage(u) # "over" => Mark(u)' = Mark(u)
  BY <1>1, OthersStay
<1>3. Together'
  <2>1. \A u \in Members : u \in Threads
    BY PoolFacts DEF Members, Threads, Types, Graphs
  <2>2. QED
    BY <1>2, <2>1, TogetherStays
<1>4. AbortAhead'
  <2>1. InNode(0)' => InNode(0) \/ abort = -1
    BY <1>1, OthersStay, PoolFacts
  <2>2. pc'[0] = "kickoff" => pc[0] = "kickoff"
    BY <1>1, PoolFacts
  <2>3. QED
    BY <1>2, <2>1, <2>2, PoolFacts DEF AbortAhead
<1>5. Kickoff'
  <2>1. pc'[0] \in {"kickoff", "broadcast"} => pc[0] = pc'[0] /\ local'[0] = local[0]
    BY <1>1, PoolFacts
  <2>2. QED
    BY <2>1 DEF Kickoff
<1>6. QED
  BY <1>3, <1>4, <1>5, OneThreadKeeps

-----------------------------------------------------------------------------
(* The workers between graphs. *)

LEMMA OutsideKeeps ==
    ASSUME BarrierInv, NEW t \in Workers, pc[t] \in Outside, NEW place \in Outside,
           pc' = [pc EXCEPT ![t] = place], UNCHANGED <<Waiting, last_graph>>
    PROVE  BarrierInv'
<1> USE DEF BarrierInv
<1>1. t \in Threads /\ t # 0
  BY PoolFacts
<1>2. local' = [local EXCEPT ![t] = local[t]] /\ local[t] \in Locals
  BY <1>1 DEF Waiting, Types
<1>3. pc'[t] = place
  BY <1>1 DEF Types
<1>4. /\ n_graph' = n_graph /\ n_barrier' = n_barrier /\ abort' = abort
      /\ n_barrier_passed' = n_barrier_passed /\ local' = local
      /\ current_chunk' = current_chunk /\ stop' = stop /\ pause' = pause
      /\ last_graph' = last_graph
  BY DEF Waiting
<1>5. /\ Behind(t)' = Behind(t) /\ ~Released(t) /\ ~Released(t)'
      /\ ~Leaving(t) /\ ~Leaving(t)'
  BY <1>3, <1>4 DEF Behind, Released, Outside, Leaving
<1>6. Point(t)' = IF Behind(t) THEN "start" ELSE place
  BY <1>1, <1>3, <1>5 DEF Point
<1>7. Point(t) = IF Behind(t) THEN "start" ELSE pc[t]
  BY <1>1, <1>5 DEF Point
<1>8. ~InNode(t)' /\ ~InNode(t)
  BY <1>6, <1>7 DEF InNode, Outside
<1>9. Stage(t)' = Stage(t)
  BY <1>4, <1>6, <1>7, <1>8 DEF Stage, Outside, Idle, AtBarrier
<1>10. Mark(t)' = Mark(t)
  BY <1>4, <1>6, <1>7, <1>8 DEF Mark, NodeOf, Outside
<1>11. Placed(t)'
  <2>1. local[t].node = 0
    BY <1>1 DEF Placed, Outside, Inside
  <2>2. QED
    BY <2>1, <1>3, <1>4 DEF Placed, Outside, Inside, AtBarrier
<1>12. place \in WorkerPlaces /\ place \notin {"reset", "pass", "wait", "kickoff", "broadcast"}
  BY DEF WorkerPlaces, Outside
<1>13. ~IsLast(t) /\ pc[t] # "wait"
  BY DEF IsLast, Outside
<1>14. last_graph \in [Workers -> Graphs] /\ last_graph[t].count <= n_graph.count
  BY DEF Types
<1>15. current_chunk \in Nat /\ stop \in BOOLEAN /\ pause \in BOOLEAN
  BY DEF Types
<1>16. QED
  BY <1>1, <1>2, <1>4, <1>8, <1>9, <1>10, <1>11, <1>12, <1>13, <1>14, <1>15, SameStageKeeps

(* A worker looks at n_graph and joins the graph if it is one of its       *)
(* threads; if it is not, it has missed nothing.                           *)
LEMMA LookKeeps ==
    ASSUME BarrierInv, NEW t \in Workers, pc[t] \in Outside, NEW place,
           Look(t), UNCHANGED Waiting, pc' = [pc EXCEPT ![t] = place],
           IF New(t) /\ Joins(t) THEN place = "start" ELSE place \in Outside
    PROVE  BarrierInv'
<1> USE DEF BarrierInv
<1>1. t \in Threads /\ t # 0 /\ t \in Nat
  BY PoolFacts
<1>2. local' = [local EXCEPT ![t] = local[t]] /\ local[t] \in Locals
  BY <1>1 DEF Waiting, Types
<1>3. pc'[t] = place /\ last_graph'[t] = n_graph
  BY <1>1 DEF Types, Look
<1>4. /\ n_graph' = n_graph /\ n_barrier' = n_barrier /\ abort' = abort
      /\ n_barrier_passed' = n_barrier_passed /\ local' = local
      /\ current_chunk' = current_chunk /\ stop' = stop /\ pause' = pause
  BY DEF Waiting
<1>5. /\ Behind(t) <=> New(t)
      /\ ~Behind(t)'
  BY <1>3, <1>4 DEF Behind, New
<1>6. place \in Outside \cup {"start"} /\ (place = "start" <=> New(t) /\ Joins(t))
  BY DEF Outside
<1>7. ~Released(t) /\ ~Released(t)' /\ ~Leaving(t)'
  BY <1>3, <1>6 DEF Released, Outside, Leaving
<1>8. Point(t)' = place
  BY <1>1, <1>3, <1>5, <1>7 DEF Point
<1>9. Point(t) = IF New(t) THEN "start" ELSE pc[t]
  BY <1>1, <1>5, <1>7 DEF Point
<1>10. local[t].node = 0
  BY <1>1 DEF Placed, Outside, Inside
<1>11. t \in Members <=> Joins(t)
  BY <1>1 DEF Members, Joins, Types, Graphs
<1>12. Placed(t)'
  <2>1. place = "start" => Member(t)'
    BY <1>4, <1>5, <1>6, <1>11 DEF Member, Members
  <2>2. QED
    BY <1>3, <1>4, <1>6, <1>10, <2>1 DEF Placed, Outside, Inside, AtBarrier
<1>13. ~InNode(t) /\ ~InNode(t)'
  BY <1>6, <1>8, <1>9 DEF InNode, Outside
<1>14. Mark(t)' = 0 /\ Mark(t) = 0
  BY <1>4, <1>8, <1>9, <1>10, <1>13 DEF Mark, NodeOf
<1>15. t \in Members => Stage(t)' = Stage(t)
  <2>1. Stage(t)' = IF place = "start" THEN "next" ELSE "over"
    BY <1>6, <1>8, <1>13 DEF Stage, Outside, Idle, AtBarrier
  <2>2. Stage(t) = IF New(t) THEN "next" ELSE "over"
    BY <1>9, <1>13 DEF Stage, Outside, Idle, AtBarrier
  <2>3. QED
    BY <2>1, <2>2, <1>6, <1>11
<1>16. place \in WorkerPlaces /\ place \notin {"reset", "pass", "wait", "kickoff", "broadcast"}
  BY <1>6 DEF WorkerPlaces, Outside, Inside
<1>17. ~IsLast(t) /\ pc[t] # "wait"
  BY DEF IsLast, Outside
<1>18. /\ last_graph' \in [Workers -> Graphs]
       /\ \A u \in Workers \ {t} : last_graph'[u] = last_graph[u]
       /\ last_graph'[t].count <= n_graph.count
  BY <1>3 DEF Types, Look, Graphs
<1>19. /\ current_chunk \in Nat /\ stop \in BOOLEAN /\ pause \in BOOLEAN
  BY DEF Types
<1>20. \A u \in Threads \ {t} : pc'[u] = pc[u] /\ local'[u] = local[u]
  BY <1>4 DEF Types
<1>21. \A u \in Threads \ {t} : Stage(u)' = Stage(u) /\ Mark(u)' = Mark(u)
                                /\ InNode(u)' = InNode(u)
  BY <1>1, <1>4, <1>18, <1>20, OthersStay
<1>22. Together'
  <2>1. \A u \in Members : u \in Threads
    BY PoolFacts DEF Members, Threads, Types, Graphs
  <2>2. QED
    BY <1>4, <1>14, <1>15, <1>21, <2>1, TogetherStays
<1>23. AbortAhead' /\ Kickoff'
  BY <1>1, <1>4, <1>20, <1>21, PoolFacts DEF AbortAhead, Kickoff
<1>24. QED
  BY <1>1, <1>2, <1>4, <1>12, <1>16, <1>17, <1>18, <1>19, <1>22, <1>23, OneThreadKeeps

-----------------------------------------------------------------------------
(* The application, and a broadcast, which wakes workers outside a graph.  *)

LEMMA WokenFacts ==
    ASSUME Types
    PROVE  \A u \in Workers :
              /\ Woken[u] = pc[u] \/ (pc[u] \in Outside /\ Woken[u] \in Outside)
              /\ Woken[u] \in WorkerPlaces
BY PoolFacts DEF Woken, Outside, WorkerPlaces, Types

LEMMA BroadcastKeeps ==
    ASSUME BarrierInv, NEW place,
           \/ pc[0] = "app" /\ place \in {"app", "join"}
           \/ pc[0] = "broadcast" /\ place = "start",
           pc' = [Woken EXCEPT ![0] = place],
           stop' \in BOOLEAN, pause' \in BOOLEAN,
           UNCHANGED <<n_graph, last_graph, n_barrier, n_barrier_passed,
                       current_chunk, abort, local>>
    PROVE  BarrierInv'
<1> USE DEF BarrierInv
<1>1. /\ n_graph' = n_graph /\ last_graph' = last_graph /\ n_barrier' = n_barrier
      /\ n_barrier_passed' = n_barrier_passed /\ current_chunk' = current_chunk
      /\ abort' = abort /\ local' = local
  OBVIOUS
<1>2. pc' \in [Threads -> MainPlaces \cup WorkerPlaces]
      /\ pc'[0] = place /\ place \in MainPlaces
      /\ \A u \in Workers : pc'[u] = Woken[u]
  <2>1. DOMAIN Woken = Threads /\ 0 \in Threads
    BY PoolFacts DEF Woken
  <2>2. place \in MainPlaces
    BY DEF MainPlaces, Idle, Inside
  <2>3. \A u \in Workers : pc'[u] = Woken[u]
    BY <2>1, PoolFacts
  <2>4. \A u \in Threads : pc'[u] \in MainPlaces \cup WorkerPlaces
    BY <2>1, <2>2, <2>3, WokenFacts, PoolFacts
  <2>5. pc' = [u \in Threads |-> pc'[u]]
    BY <2>1
  <2>6. QED
    BY <2>1, <2>2, <2>3, <2>4, <2>5
<1>3. \A u \in Workers : \/ pc'[u] = pc[u]
                         \/ pc[u] \in Outside /\ pc'[u] \in Outside
  BY <1>2, WokenFacts
<1>4. Types'
  BY <1>1, <1>2, WokenFacts DEF Types
<1>5. ASSUME NEW u \in Workers
      PROVE  /\ Stage(u)' = Stage(u) /\ Mark(u)' = Mark(u) /\ Placed(u)'
             /\ (u \in Arrived' <=> u \in Arrived)
             /\ (IsLast(u)' <=> IsLast(u))
  <2>1. u # 0 /\ u \in Threads /\ Placed(u)
    BY PoolFacts
  <2>2. CASE pc'[u] = pc[u]
    <3>1. /\ Released(u)' = Released(u) /\ Behind(u)' = Behind(u)
      BY <1>1, <2>2 DEF Released, Behind
    <3>2. Point(u)' = Point(u)
      BY <1>1, <2>1, <2>2, <3>1 DEF Point
    <3>3. InNode(u)' = InNode(u)
      BY <3>2 DEF InNode
    <3>4. Stage(u)' = Stage(u) /\ Mark(u)' = Mark(u)
      BY <1>1, <2>2, <3>2, <3>3 DEF Stage, Mark, NodeOf
    <3>5. Placed(u)'
      BY <1>1, <2>1, <2>2, <3>1 DEF Placed, Leaving, Member, Members, Over
    <3>6. QED
      BY <3>4, <3>5, <1>1, <2>2, <1>4 DEF Arrived, IsLast
  <2>3. CASE pc[u] \in Outside /\ pc'[u] \in Outside
    <3>1. ~Released(u)' /\ ~Released(u) /\ Behind(u)' = Behind(u)
          /\ ~Leaving(u)'
      BY <1>1, <2>3 DEF Released, Behind, Outside, Leaving
    <3>2. /\ Point(u)' = IF Behind(u) THEN "start" ELSE pc'[u]
          /\ Point(u) = IF Behind(u) THEN "start" ELSE pc[u]
      BY <2>1, <3>1 DEF Point
    <3>3. ~InNode(u)' /\ ~InNode(u)
      BY <2>3, <3>2 DEF InNode, Outside
    <3>4. Stage(u)' = Stage(u)
      BY <1>1, <2>3, <3>2, <3>3 DEF Stage, Outside, Idle, AtBarrier
    <3>5. Mark(u)' = Mark(u)
      BY <1>1, <2>3, <3>2, <3>3 DEF Mark, NodeOf, Outside
    <3>6. local[u].node = 0
      BY <2>1, <2>3 DEF Placed, Outside, Inside
    <3>7. Placed(u)'
      BY <1>1, <2>3, <3>6 DEF Placed, Outside, Inside, AtBarrier
    <3>8. QED
      BY <3>4, <3>5, <3>7, <2>3, <1>1 DEF Arrived, IsLast, Outside
  <2>4. QED
    BY <1>3, <2>2, <2>3
<1>6. /\ ~Behind(0) /\ ~Behind(0)' /\ ~Released(0) /\ ~Released(0)'
      /\ ~Leaving(0)'
  BY <1>2, PoolFacts DEF Behind, Released, Leaving
<1>7. /\ Point(0) = IF pc[0] = "broadcast" THEN "start" ELSE "app"
      /\ Point(0)' = place
  BY <1>2, <1>6 DEF Point
<1>8. ~InNode(0) /\ ~InNode(0)'
  BY <1>7 DEF InNode
<1>9. Stage(0)' = Stage(0)
  BY <1>7, <1>8 DEF Stage, Idle, Outside, AtBarrier
<1>10. local[0].node = 0
  BY PoolFacts DEF Placed, Inside
<1>11. Mark(0)' = Mark(0)
  BY <1>1, <1>7, <1>8, <1>10 DEF Mark, NodeOf
<1>12. Placed(0)'
  <2>1. place = "start" => 0 \in Members'
    BY <1>1 DEF Kickoff, Types, Graphs, Members
  <2>2. QED
    BY <1>1, <1>2, <1>6, <1>10, <2>1 DEF Placed, Inside, AtBarrier, Member
<1>13. \A u \in Threads : /\ Stage(u)' = Stage(u) /\ Mark(u)' = Mark(u)
                          /\ Placed(u)'
  BY <1>5, <1>9, <1>11, <1>12, PoolFacts
<1>14. Together'
  <2>1. \A u \in Members : u \in Threads
    BY PoolFacts DEF Members, Threads, Types, Graphs
  <2>2. QED
    BY <1>1, <1>13, <2>1, TogetherStays
<1>15. AbortAhead' /\ Kickoff'
  BY <1>1, <1>2, <1>8, <1>9, <1>11 DEF AbortAhead, Kickoff
<1>16. Counted'
  <2>1. 0 \notin Arrived /\ 0 \notin Arrived' /\ ~IsLast(0) /\ ~IsLast(0)'
    BY <1>2 DEF Arrived, IsLast
  <2>2. \A u \in Threads : (u \in Arrived' <=> u \in Arrived) /\ (IsLast(u)' <=> IsLast(u))
    BY <1>5, <2>1, PoolFacts
  <2>3. Arrived' = Arrived
    BY <2>2 DEF Arrived
  <2>4. \A u \in Threads : IsLast(u) => pc'[u] = pc[u]
    BY <1>3, <2>1, PoolFacts DEF IsLast, Outside
  <2>5. QED
    BY <1>1, <2>2, <2>3, <2>4 DEF Counted, Members
<1>17. QED
  BY <1>4, <1>13, <1>14, <1>15, <1>16

(* When the main thread is through with a graph, every thread of it has    *)
(* joined it and is through, too.                                          *)
LEMMA OverForAll ==
    ASSUME BarrierInv, Stage(0) = "over"
    PROVE  /\ \A u \in Threads : /\ pc[u] \notin Inside
                                 /\ pc[u] = "wait" => Leaving(u)
           /\ \A u \in Members : ~Behind(u) /\ Stage(u) = "over"
           /\ Arrived = {} /\ n_barrier = 0
<1> USE DEF BarrierInv
<1>1. \A u \in Members : u \in Threads /\ 0 \in Members
  BY PoolFacts DEF Members, Threads, Types, Graphs
<1>2. \A u \in Members : Stage(u) = "over"
  BY <1>1 DEF Together, Same
<1>3. ASSUME NEW u \in Threads
      PROVE  /\ pc[u] \notin Inside
             /\ pc[u] = "wait" => Leaving(u)
  <2>1. CASE Member(u)
    <3>1. Stage(u) = "over" /\ ~Behind(u)
      BY <1>2, <2>1 DEF Member
    <3>2. ASSUME pc[u] \in Inside PROVE FALSE
      <4>1. Point(u) = pc[u]
        BY <3>1, <3>2 DEF Point, Released, Inside
      <4>2. QED
        BY <3>1, <3>2, <4>1 DEF Stage, Inside, Outside, Idle
    <3>3. ASSUME pc[u] = "wait", ~Leaving(u) PROVE FALSE
      <4>1. local[u].after \in {"chunks", "node", End(u)} /\ Placed(u)
        BY <3>3 DEF Placed, AtBarrier
      <4>2. Point(u) \in {"chunks", "node", "wait"}
        BY <3>1, <3>3, <4>1 DEF Point, Leaving
      <4>3. QED
        BY <3>1, <4>2 DEF Stage, Outside, Idle
    <3>4. QED
      BY <3>2, <3>3
  <2>2. CASE ~Member(u)
    BY <2>2 DEF Placed
  <2>3. QED
    BY <2>1, <2>2
<1>4. ASSUME NEW u \in Members, Behind(u) PROVE FALSE
  <2>1. Point(u) = "start"
    BY <1>4 DEF Point
  <2>2. QED
    BY <1>2, <2>1 DEF Stage, Outside, Idle, InNode, AtBarrier
<1>5. Arrived = {}
  BY <1>3 DEF Arrived, Leaving, Released
<1>6. \A u \in Threads : ~IsLast(u)
  BY <1>3 DEF IsLast, Inside
<1>7. n_barrier = 0
  BY <1>5, <1>6, FS_EmptySet DEF Counted
<1>8. QED
  BY <1>2, <1>3, <1>4, <1>5, <1>7

LEMMA IdleIsOver ==
    ASSUME Types
    PROVE  pc[0] \in Idle => Stage(0) = "over"
<1> SUFFICES ASSUME pc[0] \in Idle PROVE Stage(0) = "over"
  OBVIOUS
<1>1. Point(0) = pc[0]
  BY PoolFacts DEF Point, Behind, Released, Idle
<1>2. QED
  BY <1>1 DEF Stage

LEMMA ComputeKeeps ==
    ASSUME BarrierInv, Compute
    PROVE  BarrierInv'
<1> USE DEF BarrierInv
<1>1. PICK n \in CplanThreads :
          local' = [local EXCEPT ![0].nth = IF n > NThreads THEN NThreads ELSE n]
  BY DEF Compute
<1> DEFINE m == IF n > NThreads THEN NThreads ELSE n
           l == [local[0] EXCEPT !.nth = m]
<1>2. /\ pc' = [pc EXCEPT ![0] = "kickoff"] /\ local' = [local EXCEPT ![0] = l]
      /\ n_graph' = n_graph /\ n_barrier' = n_barrier /\ abort' = -1
      /\ n_barrier_passed' = n_barrier_passed /\ current_chunk' = 0
      /\ stop' = stop /\ pause' = pause /\ last_graph' = last_graph
      /\ pc[0] = "app" /\ n_graph.count < MaxGraphs
  BY <1>1 DEF Compute, Goto, pool
<1>3. l \in Locals /\ l.nth \in 1..NThreads /\ l.node = local[0].node
      /\ l.n_passed = local[0].n_passed
  <2>1. m \in 1..NThreads
    BY PoolAssumption DEF PoolAssumption
  <2>2. local[0] \in Locals
    BY PoolFacts DEF Types
  <2> HIDE DEF m
  <2>3. m \in 0..NThreads
    BY <2>1
  <2>4. QED
    BY <2>1, <2>2, <2>3 DEF Locals
<1> HIDE DEF l
<1>4. /\ pc'[0] = "kickoff" /\ local'[0] = l
      /\ \A u \in Threads \ {0} : pc'[u] = pc[u] /\ local'[u] = local[u]
  BY <1>2, PoolFacts DEF Types
<1>5. Stage(0) = "over"
  BY <1>2, IdleIsOver DEF Idle
<1>6. /\ \A u \in Threads : pc[u] \notin Inside /\ (pc[u] = "wait" => Leaving(u))
      /\ \A u \in Members : ~Behind(u) /\ Stage(u) = "over"
      /\ Arrived = {} /\ n_barrier = 0
  BY <1>5, OverForAll
<1>7. Types'
  <2>1. abort' \in -1..NNodes
    BY <1>2, PoolFacts
  <2>2. local' \in [Threads -> Locals]
    BY <1>2, <1>3 DEF Types
  <2>3. pc' \in [Threads -> MainPlaces \cup WorkerPlaces] /\ pc'[0] \in MainPlaces
        /\ \A u \in Workers : pc'[u] \in WorkerPlaces
    BY <1>2, <1>4, PoolFacts DEF Types, MainPlaces, Idle
  <2>4. QED
    BY <1>2, <2>1, <2>2, <2>3 DEF Types
<1>8. \A u \in Threads \ {0} : Stage(u)' = Stage(u) /\ Mark(u)' = Mark(u)
                               /\ Leaving(u)' = Leaving(u) /\ Released(u)' = Released(u)
                               /\ Member(u)' = Member(u)
  BY <1>2, <1>4, PoolFacts, OthersStay
<1>9. Stage(0)' = "over"
  <2>1. Types' => (pc[0] \in Idle => Stage(0) = "over")'
    BY IdleIsOver, PTL
  <2>2. QED
    BY <1>4, <1>7, <2>1 DEF Idle
<1>10. Together'
  <2>1. \A u \in Members : u \in Threads
    BY PoolFacts DEF Members, Threads, Types, Graphs
  <2>2. \A u \in Members : Stage(u)' = "over"
    BY <1>6, <1>8, <1>9, <2>1
  <2>3. QED
    BY <1>2, <2>2 DEF Together, Same, Members
<1>11. \A u \in Threads : Placed(u)'
  <2>1. local[0].node = 0
    BY <1>2, PoolFacts DEF Placed, Inside
  <2>2. Placed(0)'
    BY <2>1, <1>3, <1>4 DEF Placed, Inside, AtBarrier
  <2>3. ASSUME NEW u \in Threads \ {0} PROVE Placed(u)'
    <3>1. /\ pc'[u] = pc[u] /\ local'[u] = local[u] /\ Leaving(u)' = Leaving(u)
          /\ Released(u)' = Released(u)
      BY <1>4, <1>8
    <3>2. pc[u] \notin Inside /\ (pc[u] = "wait" => Leaving(u)) /\ Placed(u)
      BY <1>6
    <3>3. QED
      BY <1>2, <3>1, <3>2 DEF Placed, Inside, AtBarrier, Leaving
  <2>4. QED
    BY <2>2, <2>3
<1>12. AbortAhead' /\ Kickoff'
  BY <1>2, <1>3, <1>4 DEF AbortAhead, Kickoff
<1>13. Counted'
  <2>1. 0 \notin Arrived' /\ ~IsLast(0)' /\ ~IsLast(0)
    BY <1>2, <1>4 DEF Arrived, IsLast
  <2>2. 0 \notin Arrived
    BY <1>6
  <2>3. QED
    BY <1>2, <1>4, <2>1, <2>2, PoolFacts, CountStays
<1>14. QED
  BY <1>7, <1>10, <1>11, <1>12, <1>13

LEMMA AnnounceKeeps ==
    ASSUME BarrierInv, Announce
    PROVE  BarrierInv'
<1> USE DEF BarrierInv
<1>1. /\ pc' = [pc EXCEPT ![0] = "broadcast"] /\ local' = local
      /\ n_graph' = [count |-> n_graph.count + 1, n |-> local[0].nth]
      /\ n_barrier' = n_barrier /\ abort' = abort
      /\ n_barrier_passed' = n_barrier_passed /\ current_chunk' = current_chunk
      /\ stop' = stop /\ pause' = pause /\ last_graph' = last_graph
      /\ pc[0] = "kickoff"
  BY DEF Announce, Goto
<1>2. /\ pc'[0] = "broadcast" /\ \A u \in Threads \ {0} : pc'[u] = pc[u]
  BY <1>1, PoolFacts DEF Types
<1>3. n_graph.count < MaxGraphs /\ local[0].nth \in 1..NThreads /\ abort = -1
  BY <1>1 DEF Kickoff, AbortAhead
<1>4. /\ \A u \in Threads : pc[u] \notin Inside /\ (pc[u] = "wait" => Leaving(u))
      /\ Arrived = {} /\ n_barrier = 0
  BY <1>1, IdleIsOver, OverForAll DEF Idle
<1>5. Types'
  <2>1. n_graph' \in Graphs
    BY <1>1, <1>3, PoolFacts DEF Types, Graphs
  <2>2. \A u \in Workers : last_graph[u].count <= n_graph'.count
    BY <1>1, <2>1 DEF Types, Graphs
  <2>3. pc' \in [Threads -> MainPlaces \cup WorkerPlaces] /\ pc'[0] \in MainPlaces
        /\ \A u \in Workers : pc'[u] \in WorkerPlaces
    BY <1>1, <1>2, PoolFacts DEF Types, MainPlaces
  <2>4. QED
    BY <1>1, <2>1, <2>2, <2>3 DEF Types
<1>6. \A u \in Workers : Behind(u)'
  BY <1>1 DEF Types, Graphs, Behind
<1>7. \A u \in Threads : Point(u)' = "start"
  BY <1>2, <1>6, PoolFacts DEF Point
<1>8. \A u \in Threads : Stage(u)' = "next" /\ Mark(u)' = 0
  BY <1>7 DEF Stage, Mark, NodeOf, InNode, Outside, Idle, AtBarrier
<1>9. Together'
  <2>1. \A u \in Members' : u \in Threads
    BY <1>5, PoolFacts DEF Members, Threads, Types, Graphs
  <2>2. QED
    BY <1>8, <2>1 DEF Together, Same
<1>10. \A u \in Threads : Placed(u)'
  <2>1. local[0].node = 0 /\ 0 \in Threads
    BY <1>1, PoolFacts DEF Placed, Inside
  <2>2. Placed(0)'
    BY <2>1, <1>1, <1>2 DEF Placed, Inside, AtBarrier
  <2>3. ASSUME NEW u \in Threads \ {0} PROVE Placed(u)'
    <3>1. /\ pc'[u] = pc[u] /\ Leaving(u)' = Leaving(u)
          /\ Released(u)' = Released(u)
      BY <1>1, <1>2 DEF Leaving, Released
    <3>2. pc[u] \notin Inside /\ (pc[u] = "wait" => Leaving(u)) /\ Placed(u)
      BY <1>4
    <3>3. QED
      BY <1>1, <3>1, <3>2 DEF Placed, Inside, AtBarrier, Leaving
  <2>4. QED
    BY <2>2, <2>3
<1>11. Kickoff' /\ AbortAhead'
  BY <1>1, <1>2, <1>3 DEF Kickoff, AbortAhead
<1>12. Counted'
  <2>1. \A u \in Threads : ~IsLast(u)'
    BY <1>2, <1>4, PoolFacts DEF IsLast, Inside
  <2>2. \A u \in Threads : u \notin Arrived'
    BY <1>1, <1>2, <1>4, PoolFacts DEF Arrived
  <2>3. Arrived' = {}
    BY <2>2 DEF Arrived
  <2>4. QED
    BY <1>1, <1>4, <2>1, <2>3, FS_EmptySet DEF Counted
<1>13. QED
  BY <1>5, <1>9, <1>10, <1>11, <1>12

LEMMA JoinKeeps ==
    ASSUME BarrierInv, Join
    PROVE  BarrierInv'
<1> USE DEF BarrierInv
<1>1. /\ pc' = [pc EXCEPT ![0] = "freed"] /\ local' = local
      /\ n_graph' = n_graph /\ n_barrier' = n_barrier /\ abort' = abort
      /\ n_barrier_passed' = n_barrier_passed /\ current_chunk' = current_chunk
      /\ stop' = stop /\ pause' = pause /\ last_graph' = last_graph
      /\ pc[0] = "join"
  BY DEF Join, Goto, pool
<1>2. pc'[0] = "freed" /\ 0 \in Threads
  BY <1>1, PoolFacts DEF Types
<1>3. /\ ~Behind(0) /\ ~Behind(0)' /\ ~Released(0) /\ ~Released(0)'
      /\ ~Leaving(0)'
  BY <1>1, <1>2, PoolFacts DEF Behind, Released, Leaving
<1>4. Point(0) = "join" /\ Point(0)' = "freed"
  BY <1>1, <1>2, <1>3 DEF Point
<1>5. ~InNode(0) /\ ~InNode(0)' /\ Stage(0)' = Stage(0) /\ Mark(0)' = Mark(0)
  BY <1>1, <1>4 DEF InNode, Stage, Mark, NodeOf, Idle
<1>6. Placed(0)'
  <2>1. local[0].node = 0
    BY <1>1, <1>2 DEF Placed, Inside
  <2>2. QED
    BY <2>1, <1>1, <1>2 DEF Placed, Inside, AtBarrier
<1>7. /\ local' = [local EXCEPT ![0] = local[0]] /\ local[0] \in Locals
      /\ last_graph' \in [Workers -> Graphs]
      /\ current_chunk' \in Nat /\ stop' \in BOOLEAN /\ pause' \in BOOLEAN
      /\ "freed" \in MainPlaces
  BY <1>1, PoolFacts DEF Types, MainPlaces, Idle
<1>8. ~IsLast(0)
  BY <1>1 DEF IsLast
<1>9. QED
  BY <1>1, <1>2, <1>5, <1>6, <1>7, <1>8, PoolFacts, SameStageKeeps

-----------------------------------------------------------------------------
(* The barrier. *)

(* A thread that leaves the barrier is where it said it would go on.       *)
LEMMA LeaveFacts ==
    ASSUME Types, NEW t \in Threads, Placed(t), pc[t] \in AtBarrier, Leave(t),
           n_graph' = n_graph, last_graph' = last_graph, abort' = abort
    PROVE  /\ local[t].after \in {"chunks", "node", End(t)}
           /\ pc' = [pc EXCEPT ![t] = local[t].after]
           /\ pc'[t] = local[t].after
           /\ local' = [local EXCEPT ![t] = local'[t]] /\ local'[t] \in Locals
           /\ local[t].after # End(t) => /\ local'[t].node = local[t].node
                                         /\ local'[t].chunk = local[t].chunk
           /\ Placed(t)'
<1> DEFINE l == IF local[t].after = End(t) THEN NoLocal
                ELSE [local[t] EXCEPT !.n = 0, !.n_passed = 0, !.after = ""]
<1>1. local[t].after \in {"chunks", "node", End(t)}
  BY DEF Placed
<1>2. local[t].after \in {"app", "top"} <=> local[t].after = End(t)
  <2>1. CASE t = 0
    BY <1>1, <2>1 DEF End, Leave, Types
  <2>2. CASE t # 0
    BY <1>1, <2>2 DEF End
  <2>3. QED
    BY <2>1, <2>2
<1>3. pc' = [pc EXCEPT ![t] = local[t].after]
  BY DEF Leave, Goto
<1>4. local[t] \in Locals
  BY DEF Types
<1>5. local' = [local EXCEPT ![t] = l]
  <2>1. CASE local[t].after = End(t)
    BY <1>2, <2>1 DEF Leave
  <2>2. CASE local[t].after # End(t)
    <3>1. local' = [local EXCEPT ![t].n = 0, ![t].n_passed = 0, ![t].after = ""]
      BY <1>2, <2>2 DEF Leave
    <3>2. local \in [Threads -> Locals]
      BY DEF Types
    <3>3. QED
      BY <2>2, <3>1, <3>2 DEF Locals
  <2>3. QED
    BY <2>1, <2>2
<1>6. l \in Locals
  <2>1. NoLocal \in Locals
    BY PoolFacts DEF Locals, NoLocal
  <2>2. 0 \in 0..NThreads
    BY PoolFacts
  <2>3. [local[t] EXCEPT !.n = 0, !.n_passed = 0, !.after = ""] \in Locals
    BY <1>4, <2>2 DEF Locals
  <2>4. QED
    BY <2>1, <2>3
<1> HIDE DEF l
<1>7. /\ local'[t] = l /\ pc'[t] = local[t].after
      /\ local' = [local EXCEPT ![t] = local'[t]]
  BY <1>3, <1>5 DEF Types
<1>8. local[t].after # End(t) => /\ l.node = local[t].node /\ l.nth = local[t].nth
                                 /\ l.chunk = local[t].chunk
  BY <1>4 DEF Locals, l
<1>9. local[t].after = End(t) => l.node = 0
  BY DEF NoLocal, l
<1>10. local[t].after # End(t) => Member(t) /\ ~Leaving(t)
  BY DEF Placed, AtBarrier, Inside, Leaving
<1>11. Member(t)' = Member(t)
  BY DEF Member, Members, Behind
<1>12. Placed(t)'
  <2>1. CASE local[t].after = End(t)
    <3>1. pc'[t] \in {"app", "top"}
      BY <1>2, <1>7, <2>1
    <3>2. QED
      BY <1>7, <1>9, <2>1, <3>1 DEF Placed, Inside, AtBarrier
  <2>2. CASE local[t].after # End(t)
    <3>1. pc'[t] \in {"chunks", "node"}
      BY <1>1, <1>7, <2>2
    <3>2. local'[t].nth = n_graph'.n
      BY <1>7, <1>8, <1>10, <2>2 DEF Placed, AtBarrier, Inside
    <3>3. pc'[t] = "chunks" => local'[t].node \in Nodes
      BY <1>7, <1>8, <2>2 DEF Placed
    <3>4. Member(t)'
      BY <1>10, <1>11, <2>2
    <3>5. QED
      BY <3>1, <3>2, <3>3, <3>4 DEF Placed, Inside, AtBarrier
  <2>3. QED
    BY <2>1, <2>2
<1>13. QED
  BY <1>1, <1>3, <1>6, <1>7, <1>8, <1>12

LEMMA WaitKeeps ==
    ASSUME BarrierInv, NEW t \in Threads, Wait(t)
    PROVE  BarrierInv'
<1> USE DEF BarrierInv
<1>1. /\ pc[t] = "wait" /\ Released(t) /\ Leave(t) /\ Types /\ Placed(t)
      /\ n_graph' = n_graph /\ n_barrier' = n_barrier /\ abort' = abort
      /\ n_barrier_passed' = n_barrier_passed /\ current_chunk' = current_chunk
      /\ stop' = stop /\ pause' = pause /\ last_graph' = last_graph
  BY DEF Wait, pool, Released
<1>2. /\ local[t].after \in {"chunks", "node", End(t)}
      /\ pc' = [pc EXCEPT ![t] = local[t].after]
      /\ pc'[t] = local[t].after
      /\ local' = [local EXCEPT ![t] = local'[t]] /\ local'[t] \in Locals
      /\ local[t].after # End(t) => local'[t].node = local[t].node
      /\ Placed(t)'
  BY <1>1, LeaveFacts DEF AtBarrier
<1>3. Behind(t)' = Behind(t) /\ ~Released(t)'
  BY <1>1, <1>2 DEF Behind, Released, End
<1>4. Point(t)' = Point(t)
  BY <1>1, <1>2, <1>3 DEF Point, End
<1>5. Behind(t) => local[t].after = End(t) /\ Point(t) = "start"
  BY <1>1 DEF Placed, Leaving, Member, Point
<1>6. Stage(t)' = Stage(t) /\ (Stage(t) # "over" => Mark(t)' = Mark(t)) /\ InNode(t)' = InNode(t)
  <2>1. CASE Behind(t)
    BY <1>4, <1>5, <2>1 DEF Stage, Mark, NodeOf, InNode, Outside, Idle, AtBarrier
  <2>2. CASE ~Behind(t) /\ local[t].after = End(t)
    <3>1. Point(t) = End(t)
      BY <1>1, <2>2 DEF Point
    <3>2. QED
      BY <1>4, <3>1 DEF Stage, InNode, End, Outside, Idle
  <2>3. CASE ~Behind(t) /\ local[t].after # End(t)
    <3>1. Point(t) \in {"chunks", "node"} /\ local'[t].node = local[t].node
      BY <1>1, <1>2, <2>3 DEF Point
    <3>2. QED
      BY <1>4, <3>1 DEF Stage, Mark, NodeOf, InNode, AtBarrier
  <2>4. QED
    BY <2>1, <2>2, <2>3
<1>7. local[t].after \in IF t = 0 THEN MainPlaces ELSE WorkerPlaces
  BY <1>2, PoolFacts DEF MainPlaces, WorkerPlaces, Inside, Outside, Idle, End
<1>8. local[t].after \notin {"reset", "pass", "wait", "kickoff", "broadcast"}
  BY <1>2 DEF End
<1>9. /\ last_graph' \in [Workers -> Graphs] /\ current_chunk' \in Nat
      /\ stop' \in BOOLEAN /\ pause' \in BOOLEAN
      /\ t \in Workers => last_graph'[t].count <= n_graph.count
      /\ ~IsLast(t)
  BY <1>1 DEF Types, IsLast
<1>10. QED
  BY <1>1, <1>2, <1>6, <1>7, <1>8, <1>9, SameStageKeeps

(* Of a graph with one thread that thread does not wait.                   *)
LEMMA AloneKeeps ==
    ASSUME BarrierInv, NEW t \in Threads, BarrierRead(t), n_graph.n = 1
    PROVE  BarrierInv'
<1> USE DEF BarrierInv
<1>1. /\ pc[t] = "barrier" /\ Leave(t) /\ Types /\ Placed(t)
      /\ n_graph' = n_graph /\ n_barrier' = n_barrier /\ abort' = abort
      /\ n_barrier_passed' = n_barrier_passed /\ current_chunk' = current_chunk
      /\ stop' = stop /\ pause' = pause /\ last_graph' = last_graph
  BY DEF BarrierRead, pool
<1>2. /\ local[t].after \in {"chunks", "node", End(t)}
      /\ pc' = [pc EXCEPT ![t] = local[t].after]
      /\ pc'[t] = local[t].after
      /\ local' = [local EXCEPT ![t] = local'[t]] /\ local'[t] \in Locals
      /\ local[t].after # End(t) => local'[t].node = local[t].node
      /\ Placed(t)'
  BY <1>1, LeaveFacts DEF AtBarrier
<1>3. Members = {0} /\ Members' = {0} /\ t = 0
  <2>1. Members = {0} /\ Members' = {0}
    BY <1>1 DEF Members
  <2>2. t \in Members
    BY <1>1 DEF Placed, Inside, Member
  <2>3. QED
    BY <2>1, <2>2
<1>4. /\ ~Behind(0) /\ ~Behind(0)' /\ ~Released(0) /\ ~Released(0)'
      /\ ~Leaving(0)
  BY <1>1, <1>2, <1>3, PoolFacts DEF Behind, Released, Leaving, End
<1>5. Point(0) = "barrier" /\ Point(0)' = local[0].after
  BY <1>1, <1>2, <1>3, <1>4 DEF Point, End
<1>6. /\ local[0].after # End(0) => Mark(0) = local[0].node
      /\ local[0].after = "node" => Mark(0)' = local[0].node
      /\ InNode(0)' => local[0].after = "chunks"
      /\ local[0].after = End(0) => Stage(0)' = "over"
      /\ Mark(0)' \in Int
  <2>1. local'[0].node \in Int
    <3>1. local'[0].node \in 0..NNodes /\ NNodes \in Nat
      BY <1>2, <1>3, PoolAssumption DEF Locals, PoolAssumption
    <3>2. QED
      BY <3>1
  <2>2. QED
    BY <1>2, <1>3, <1>5, <2>1 DEF Stage, Mark, NodeOf, InNode, End, Idle
<1>7. Together'
  BY <1>3, <1>6 DEF Together, Same
<1>8. Stage(0) # "over"
  BY <1>5 DEF Stage, Outside, Idle
<1>9. AbortAhead'
  <2>1. ASSUME abort # -1, local[0].after = "chunks" PROVE FALSE
    BY <1>1, <1>3, <1>4, <1>6, <1>8, <2>1 DEF AbortAhead, Placed, AtBarrier, End
  <2>2. ASSUME abort # -1, local[0].after = "node"
        PROVE  Mark(0)' = abort /\ ~InNode(0)'
    BY <1>6, <1>8, <2>2 DEF AbortAhead, End
  <2>3. pc'[0] # "kickoff"
    BY <1>2, <1>3 DEF End
  <2>4. QED
    BY <1>1, <1>2, <1>3, <1>6, <2>1, <2>2, <2>3 DEF AbortAhead
<1>10. Kickoff'
  BY <1>2, <1>3 DEF Kickoff, End
<1>11. local[t].after \in IF t = 0 THEN MainPlaces ELSE WorkerPlaces
  BY <1>2, <1>3 DEF MainPlaces, Inside, Idle, End
<1>12. local[t].after \notin {"reset", "pass", "wait"}
  BY <1>2 DEF End
<1>13. /\ last_graph' \in [Workers -> Graphs] /\ current_chunk' \in Nat
       /\ stop' \in BOOLEAN /\ pause' \in BOOLEAN
       /\ t \in Workers => last_graph'[t].count <= n_graph.count
       /\ ~IsLast(t)
  BY <1>1 DEF Types, IsLast
<1>14. QED
  BY <1>1, <1>2, <1>7, <1>9, <1>10, <1>11, <1>12, <1>13, OneThreadKeeps

(* From the entry of the barrier on, a thread keeps what it goes to.       *)
LEMMA InBarrierStays ==
    ASSUME NEW t \in Threads, ~Behind(t), pc[t] \in AtBarrier \ {"wait"},
           pc'[t] \in AtBarrier, pc'[t] = "wait" => ~Released(t)',
           local'[t].after = local[t].after, local'[t].node = local[t].node,
           n_graph' = n_graph, last_graph' = last_graph
    PROVE  /\ Stage(t)' = Stage(t) /\ Mark(t)' = Mark(t)
           /\ ~InNode(t) /\ ~InNode(t)' /\ Stage(t) # "over"
<1>1. ~Behind(t)' /\ ~Released(t) /\ ~Released(t)'
  BY DEF Behind, Released
<1>2. Point(t) = pc[t] /\ Point(t)' = pc'[t]
  BY <1>1 DEF Point, AtBarrier
<1>3. ~InNode(t) /\ ~InNode(t)'
  BY <1>2 DEF InNode, AtBarrier
<1>4. Stage(t)' = Stage(t) /\ Stage(t) # "over"
  BY <1>2, <1>3 DEF Stage, AtBarrier, Outside, Idle
<1>5. Mark(t)' = Mark(t)
  BY <1>2, <1>3 DEF Mark, NodeOf, AtBarrier
<1>6. QED
  BY <1>3, <1>4, <1>5

LEMMA BarrierReadKeeps ==
    ASSUME BarrierInv, NEW t \in Threads, BarrierRead(t)
    PROVE  BarrierInv'
<1> USE DEF BarrierInv
<1>1. CASE n_graph.n = 1
  BY <1>1, AloneKeeps
<1>2. CASE n_graph.n # 1
  <2> DEFINE l == [local[t] EXCEPT !.n = n_graph.n, !.n_passed = n_barrier_passed]
  <2>1. /\ pc[t] = "barrier" /\ pc' = [pc EXCEPT ![t] = "arrive"]
        /\ local' = [local EXCEPT ![t].n = n_graph.n, ![t].n_passed = n_barrier_passed]
        /\ n_graph' = n_graph /\ n_barrier' = n_barrier /\ abort' = abort
        /\ n_barrier_passed' = n_barrier_passed /\ current_chunk' = current_chunk
        /\ stop' = stop /\ pause' = pause /\ last_graph' = last_graph
    BY <1>2 DEF BarrierRead, pool, Goto
  <2>2. local \in [Threads -> Locals] /\ local[t] \in Locals
        /\ n_graph.n \in 0..NThreads /\ n_barrier_passed \in Nat
    BY DEF Types, Graphs
  <2>3. local' = [local EXCEPT ![t] = l] /\ l \in Locals
    BY <2>1, <2>2 DEF Locals
  <2>4. /\ l.n = n_graph.n /\ l.n_passed = n_barrier_passed
        /\ l.node = local[t].node /\ l.after = local[t].after
        /\ l.nth = local[t].nth
    BY <2>2 DEF Locals
  <2> HIDE DEF l
  <2>5. pc'[t] = "arrive" /\ local'[t] = l
    BY <2>1, <2>3 DEF Types
  <2>6. Member(t) /\ ~Behind(t) /\ ~Released(t) /\ ~Released(t)' /\ ~Leaving(t)
        /\ ~Leaving(t)' /\ Placed(t)
    BY <2>1, <2>5 DEF Placed, Inside, Member, Released, Leaving
  <2>7. /\ Stage(t)' = Stage(t) /\ Mark(t)' = Mark(t) /\ ~InNode(t)'
    BY <2>1, <2>4, <2>5, <2>6, InBarrierStays DEF AtBarrier
  <2>8. Member(t)'
    BY <2>1, <2>6 DEF Member, Members, Behind
  <2>9. Placed(t)'
    BY <2>1, <2>4, <2>5, <2>6, <2>8 DEF Placed, Inside, AtBarrier, Over, End
  <2>10. "arrive" \in IF t = 0 THEN MainPlaces ELSE WorkerPlaces
    BY DEF MainPlaces, WorkerPlaces, Inside
  <2>11. /\ last_graph' \in [Workers -> Graphs] /\ current_chunk' \in Nat
         /\ stop' \in BOOLEAN /\ pause' \in BOOLEAN
         /\ t \in Workers => last_graph'[t].count <= n_graph.count
         /\ ~IsLast(t)
    BY <2>1 DEF Types, IsLast
  <2>12. QED
    BY <2>1, <2>3, <2>7, <2>9, <2>10, <2>11, SameStageKeeps
<1>3. QED
  BY <1>1, <1>2

LEMMA ArrivedAreMembers ==
    ASSUME BarrierInv
    PROVE  /\ Arrived \subseteq Members /\ IsFiniteSet(Members)
           /\ Cardinality(Members) = n_graph.n /\ n_graph.n \in Nat
           /\ IsFiniteSet(Arrived) /\ Cardinality(Arrived) <= n_graph.n
<1> USE DEF BarrierInv
<1>1. n_graph.n \in Nat
  BY PoolFacts DEF Types, Graphs
<1>2. IsFiniteSet(Members) /\ Cardinality(Members) = n_graph.n
  <2>1. n_graph.n - 1 \in Int /\ 0 \in Int
    BY <1>1
  <2>2. /\ IsFiniteSet(0..(n_graph.n - 1))
        /\ Cardinality(0..(n_graph.n - 1)) =
              IF 0 > n_graph.n - 1 THEN 0 ELSE (n_graph.n - 1) - 0 + 1
    BY <2>1, FS_Interval
  <2>3. QED
    BY <1>1, <2>2 DEF Members
<1>3. Arrived \subseteq Members
  BY DEF Arrived, Placed, Leaving, Released, Member
<1>4. QED
  BY <1>1, <1>2, <1>3, FS_Subset

(* While a thread of the graph has not arrived, none is the last.          *)
LEMMA NoneIsLast ==
    ASSUME BarrierInv, NEW t \in Threads, Member(t), t \notin Arrived, ~IsLast(t)
    PROVE  (\A u \in Threads : ~IsLast(u)) /\ n_barrier = Cardinality(Arrived)
<1>1. ASSUME NEW u \in Threads, IsLast(u) PROVE FALSE
  <2>1. Arrived = Members \ {u}
    BY <1>1 DEF BarrierInv, Counted
  <2>2. QED
    BY <1>1, <2>1 DEF Member
<1>2. QED
  BY <1>1 DEF BarrierInv, Counted

LEMMA ArriveKeeps ==
    ASSUME BarrierInv, NEW t \in Threads, Arrive(t)
    PROVE  BarrierInv'
<1> USE DEF BarrierInv
<1>1. /\ pc[t] = "arrive" /\ local' = local /\ n_barrier' = n_barrier + 1
      /\ pc' = [pc EXCEPT ![t] = IF n_barrier = local[t].n - 1 THEN "reset" ELSE "wait"]
      /\ n_graph' = n_graph /\ abort' = abort
      /\ n_barrier_passed' = n_barrier_passed /\ current_chunk' = current_chunk
      /\ stop' = stop /\ pause' = pause /\ last_graph' = last_graph
  BY DEF Arrive, pool, Goto
<1>2. /\ pc'[t] = IF n_barrier = local[t].n - 1 THEN "reset" ELSE "wait"
      /\ \A u \in Threads \ {t} : pc'[u] = pc[u]
  BY <1>1 DEF Types
<1>3. /\ Member(t) /\ ~Behind(t) /\ ~Leaving(t) /\ Placed(t) /\ ~IsLast(t) /\ ~Released(t)
      /\ local[t].n = n_graph.n /\ local[t].n_passed = n_barrier_passed
  BY <1>1 DEF Placed, Inside, Member, Leaving, Released, IsLast
<1>4. ~Released(t)' /\ ~Leaving(t)' /\ Member(t)'
  BY <1>1, <1>3 DEF Released, Leaving, Member, Members, Behind
<1>5. Stage(t)' = Stage(t) /\ Mark(t)' = Mark(t) /\ ~InNode(t)'
  BY <1>1, <1>2, <1>3, <1>4, InBarrierStays DEF AtBarrier
<1>6. \A u \in Threads \ {t} : /\ Stage(u)' = Stage(u) /\ Mark(u)' = Mark(u)
                               /\ (InNode(u)' <=> InNode(u)) /\ Placed(u)'
  BY <1>1, <1>2, OthersStay
<1>7. Types'
  <2>1. pc'[t] \in Inside \cup {"wait"}
    BY <1>2 DEF Inside
  <2>2. pc' \in [Threads -> MainPlaces \cup WorkerPlaces] /\ pc'[0] \in MainPlaces
        /\ \A u \in Workers : pc'[u] \in WorkerPlaces
    BY <1>1, <1>2, <2>1, PoolFacts DEF Types, MainPlaces, WorkerPlaces
  <2>3. QED
    BY <1>1, <2>2 DEF Types
<1>8. Together'
  <2>1. \A u \in Members : u \in Threads
    BY PoolFacts DEF Members, Threads, Types, Graphs
  <2>2. QED
    BY <1>1, <1>5, <1>6, <2>1, TogetherStays
<1>9. Placed(t)'
  <2>1. local[t].n_passed \in Nat
    BY DEF Types, Locals
  <2>2. QED
    <3>1. local'[t] = local[t] /\ n_graph' = n_graph /\ abort' = abort
          /\ n_barrier_passed' = n_barrier_passed
      BY <1>1
    <3>2. /\ local[t].after \in {"chunks", "node", End(t)}
          /\ local[t].nth = n_graph.n
          /\ local[t].after = "chunks" => local[t].node \in Nodes /\ local[t].node # abort
          /\ local[t].after = End(t) => Over(local[t])
          /\ local[t].after = "node" => local[t].node \in 1..(NNodes - 1)
      BY <1>1, <1>3 DEF Placed, Inside, AtBarrier
    <3>3. pc'[t] \in {"reset", "wait"}
      BY <1>2
    <3>4. Over(local[t])' = Over(local[t])
      BY <3>1 DEF Over
    <3>5. QED
      BY <1>3, <1>4, <2>1, <3>1, <3>2, <3>3, <3>4 DEF Placed, Inside, AtBarrier
<1>10. AbortAhead' /\ Kickoff'
  BY <1>1, <1>2, <1>5, <1>6, PoolFacts DEF AbortAhead, Kickoff
<1>11. Counted'
  <2>1. t \notin Arrived
    BY <1>1 DEF Arrived
  <2>2. (\A u \in Threads : ~IsLast(u)) /\ n_barrier = Cardinality(Arrived)
    BY <1>3, <2>1, NoneIsLast
  <2>3. /\ Arrived \subseteq Members /\ IsFiniteSet(Members)
        /\ Cardinality(Members) = n_graph.n /\ n_graph.n \in Nat
        /\ IsFiniteSet(Arrived)
    BY ArrivedAreMembers
  <2>4. Members' = Members
    BY <1>1 DEF Members
  <2>5. \A u \in Threads \ {t} : u \in Arrived' <=> u \in Arrived
    BY <1>1, <1>2 DEF Arrived
  <2>6. CASE n_barrier = n_graph.n - 1
    <3>1. pc'[t] = "reset"
      BY <1>2, <1>3, <2>6
    <3>2. Arrived' = Arrived
      BY <2>1, <2>5, <3>1 DEF Arrived
    <3>3. /\ IsFiniteSet(Members \ {t})
          /\ Cardinality(Members \ {t}) = n_graph.n - 1
      BY <1>3, <2>3, FS_RemoveElement DEF Member
    <3>4. Arrived = Members \ {t}
      BY <2>1, <2>2, <2>3, <2>6, <3>3, FS_Subset
    <3>5. \A u \in Threads : IsLast(u)' <=> u = t
      BY <1>2, <2>2, <3>1 DEF IsLast
    <3>6. QED
      BY <1>1, <2>3, <2>4, <2>6, <3>1, <3>2, <3>4, <3>5 DEF Counted
  <2>7. CASE n_barrier # n_graph.n - 1
    <3>1. pc'[t] = "wait"
      BY <1>2, <1>3, <2>7
    <3>2. Arrived' = Arrived \cup {t}
      BY <1>1, <1>3, <2>5, <3>1 DEF Arrived
    <3>3. Cardinality(Arrived') = n_barrier + 1
      BY <2>1, <2>2, <2>3, <3>2, FS_AddElement
    <3>4. \A u \in Threads : ~IsLast(u)'
      BY <1>2, <2>2, <3>1 DEF IsLast
    <3>5. QED
      BY <1>1, <3>3, <3>4 DEF Counted
  <2>8. QED
    BY <2>6, <2>7
<1>12. QED
  BY <1>6, <1>7, <1>8, <1>9, <1>10, <1>11

(* The last thread to arrive is the only one that is not waiting.          *)
LEMMA LastFacts ==
    ASSUME BarrierInv, NEW t \in Threads, IsLast(t)
    PROVE  /\ Member(t) /\ ~Released(t) /\ ~Leaving(t) /\ Arrived = Members \ {t}
           /\ n_barrier = IF pc[t] = "reset" THEN n_graph.n ELSE 0
           /\ \A u \in Threads \ {t} : ~IsLast(u)
<1> USE DEF BarrierInv
<1>1. Member(t) /\ ~Released(t) /\ ~Leaving(t)
  BY DEF Placed, IsLast, Inside, Released, Leaving
<1>2. Arrived = Members \ {t} /\ n_barrier = IF pc[t] = "reset" THEN n_graph.n ELSE 0
  BY DEF Counted
<1>3. ASSUME NEW u \in Threads \ {t}, IsLast(u) PROVE FALSE
  <2>1. Arrived = Members \ {u} /\ u \notin Arrived
    BY <1>3 DEF Counted
  <2>2. u \in Members
    BY <1>3 DEF Placed, IsLast, Inside, Member
  <2>3. QED
    BY <1>1, <1>2, <2>1, <2>2
<1>4. QED
  BY <1>1, <1>2, <1>3

LEMMA ResetBarrierKeeps ==
    ASSUME BarrierInv, NEW t \in Threads, ResetBarrier(t)
    PROVE  BarrierInv'
<1> USE DEF BarrierInv
<1>1. /\ pc[t] = "reset" /\ local' = local /\ n_barrier' = 0
      /\ pc' = [pc EXCEPT ![t] = "pass"]
      /\ n_graph' = n_graph /\ abort' = abort
      /\ n_barrier_passed' = n_barrier_passed /\ current_chunk' = current_chunk
      /\ stop' = stop /\ pause' = pause /\ last_graph' = last_graph
  BY DEF ResetBarrier, pool, Goto
<1>2. pc'[t] = "pass" /\ \A u \in Threads \ {t} : pc'[u] = pc[u]
  BY <1>1 DEF Types
<1>3. /\ Member(t) /\ ~Behind(t) /\ ~Leaving(t) /\ ~Released(t) /\ Placed(t)
      /\ Arrived = Members \ {t} /\ \A u \in Threads \ {t} : ~IsLast(u)
  BY <1>1, LastFacts DEF IsLast, Member
<1>4. ~Released(t)' /\ ~Leaving(t)' /\ Member(t)'
  BY <1>1, <1>2, <1>3 DEF Released, Leaving, Member, Members, Behind
<1>5. Stage(t)' = Stage(t) /\ Mark(t)' = Mark(t) /\ ~InNode(t)'
  BY <1>1, <1>2, <1>3, <1>4, InBarrierStays DEF AtBarrier
<1>6. \A u \in Threads \ {t} : /\ Stage(u)' = Stage(u) /\ Mark(u)' = Mark(u)
                               /\ (InNode(u)' <=> InNode(u)) /\ Placed(u)'
  BY <1>1, <1>2, OthersStay
<1>7. Types'
  <2>1. pc' \in [Threads -> MainPlaces \cup WorkerPlaces] /\ pc'[0] \in MainPlaces
        /\ \A u \in Workers : pc'[u] \in WorkerPlaces
    BY <1>1, <1>2, PoolFacts DEF Types, MainPlaces, WorkerPlaces, Inside
  <2>2. QED
    BY <1>1, <2>1 DEF Types
<1>8. Together'
  <2>1. \A u \in Members : u \in Threads
    BY PoolFacts DEF Members, Threads, Types, Graphs
  <2>2. QED
    BY <1>1, <1>5, <1>6, <2>1, TogetherStays
<1>9. Placed(t)'
  <2>1. local'[t] = local[t] /\ n_graph' = n_graph /\ abort' = abort
        /\ n_barrier_passed' = n_barrier_passed
    BY <1>1
  <2>2. /\ local[t].after \in {"chunks", "node", End(t)}
        /\ local[t].nth = n_graph.n /\ local[t].n = n_graph.n
        /\ local[t].n_passed = n_barrier_passed
        /\ local[t].after = "chunks" => local[t].node \in Nodes /\ local[t].node # abort
        /\ local[t].after = End(t) => Over(local[t])
        /\ local[t].after = "node" => local[t].node \in 1..(NNodes - 1)
    BY <1>1, <1>3 DEF Placed, Inside, AtBarrier
  <2>3. Over(local[t])' = Over(local[t])
    BY <2>1 DEF Over
  <2>4. QED
    BY <1>2, <1>4, <2>1, <2>2, <2>3 DEF Placed, Inside, AtBarrier
<1>10. AbortAhead' /\ Kickoff'
  BY <1>1, <1>2, <1>5, <1>6, PoolFacts DEF AbortAhead, Kickoff
<1>11. Counted'
  <2>1. Arrived' = Arrived
    BY <1>1, <1>2, <1>3 DEF Arrived
  <2>2. \A u \in Threads : IsLast(u)' <=> u = t
    BY <1>2, <1>3 DEF IsLast
  <2>3. QED
    BY <1>1, <1>2, <1>3, <2>1, <2>2 DEF Counted, Members
<1>12. QED
  BY <1>6, <1>7, <1>8, <1>9, <1>10, <1>11

(* When all threads of the graph have arrived, they are at the same        *)
(* barrier.                                                                *)
LEMMA SameBarrier ==
    ASSUME BarrierInv, NEW t \in Threads, pc[t] = "pass",
           NEW u \in Members, NEW v \in Members
    PROVE  /\ u \in Threads /\ pc[u] \in AtBarrier /\ ~Released(u) /\ ~Behind(u)
           /\ local[u].after \in {"chunks", "node", End(u)}
           /\ local[u].node = local[v].node /\ local[u].node \in 0..NNodes
           /\ local[u].after = "chunks" <=> local[v].after = "chunks"
           /\ local[u].after = "node" <=> local[v].after = "node"
<1> USE DEF BarrierInv
<1>1. Member(t) /\ ~Released(t) /\ Arrived = Members \ {t}
  BY LastFacts DEF IsLast
<1>2. ASSUME NEW w \in Members
      PROVE  /\ w \in Threads /\ pc[w] \in AtBarrier /\ ~Released(w) /\ ~Behind(w)
             /\ local[w].after \in {"chunks", "node", End(w)} /\ local[w].node \in 0..NNodes
             /\ local[w].after = "chunks" => local[w].node \in Nodes /\ local[w].node # abort
             /\ local[w].after = End(w) => local[w].node >= NNodes \/ local[w].node = abort
             /\ Stage(w) = IF local[w].after = "node" THEN "end" ELSE "next"
             /\ Mark(w) = local[w].node
  <2>1. w \in Threads
    BY PoolFacts DEF Members, Threads, Types, Graphs
  <2>2. w = t \/ w \in Arrived
    BY <1>1
  <2>3. pc[w] \in {"pass", "wait"} /\ ~Released(w)
    BY <1>1, <2>2 DEF Arrived, Released
  <2>4. ~Behind(w)
    BY <2>1, <2>3 DEF Placed, Leaving, Member, Inside
  <2>5. /\ local[w].after \in {"chunks", "node", End(w)}
        /\ local[w].after = "chunks" => local[w].node \in Nodes /\ local[w].node # abort
        /\ local[w].after = End(w) => local[w].node >= NNodes \/ local[w].node = abort
    BY <2>1, <2>3 DEF Placed, AtBarrier, Over
  <2>6. Point(w) = pc[w]
    BY <2>3, <2>4 DEF Point
  <2>7. Stage(w) = IF local[w].after = "node" THEN "end" ELSE "next"
    BY <2>3, <2>6 DEF Stage, InNode, AtBarrier, Outside, Idle
  <2>8. Mark(w) = local[w].node
    BY <2>3, <2>6 DEF Mark, NodeOf, InNode
  <2>9. local[w] \in Locals
    BY <2>1 DEF Types
  <2>10. QED
    BY <2>1, <2>3, <2>4, <2>5, <2>7, <2>8, <2>9 DEF AtBarrier, Locals
<1>3. Same(u, v) /\ Same(v, u)
  BY DEF Together
<1>4. local[u].after = "node" <=> local[v].after = "node"
  BY <1>2, <1>3 DEF Same
<1>5. CASE local[u].after = "node"
  <2>1. local[u].node = local[v].node /\ local[v].after = "node"
    BY <1>2, <1>3, <1>4, <1>5 DEF Same
  <2>2. QED
    BY <1>2, <1>4, <1>5, <2>1
<1>6. CASE local[u].after # "node"
  <2> DEFINE m == local[u].node
             n == local[v].node
  <2>1. /\ m \in 0..NNodes /\ n \in 0..NNodes /\ NNodes \in Nat
        /\ m \in Nodes => m \notin Empty
        /\ n \in Nodes => n \notin Empty
    BY <1>2, PoolAssumption DEF Nodes, PoolAssumption
  <2>2. \A k \in m..(n - 1) : k \in Empty /\ k # abort
    BY <1>2, <1>3, <1>6 DEF Same
  <2>3. \A k \in n..(m - 1) : k \in Empty /\ k # abort
    BY <1>2, <1>3, <1>4, <1>6 DEF Same
  <2>4. /\ (m \in Nodes /\ m # abort) \/ m >= NNodes \/ m = abort
        /\ (n \in Nodes /\ n # abort) \/ n >= NNodes \/ n = abort
    BY <1>2, <1>4, <1>6
  <2>5. ~(m < n)
    <3>1. ASSUME m < n PROVE m \in m..(n - 1) /\ m < NNodes
      BY <2>1, <3>1
    <3>2. QED
      BY <2>1, <2>2, <2>4, <3>1
  <2>6. ~(n < m)
    <3>1. ASSUME n < m PROVE n \in n..(m - 1) /\ n < NNodes
      BY <2>1, <3>1
    <3>2. QED
      BY <2>1, <2>3, <2>4, <3>1
  <2>7. m = n
    BY <2>1, <2>5, <2>6
  <2>8. local[u].after = "chunks" <=> local[v].after = "chunks"
    <3>1. \A k \in Nodes : k < NNodes
      BY <2>1 DEF Nodes
    <3>2. local[u].after = "chunks" => ~(n >= NNodes \/ n = abort)
      BY <1>2, <2>1, <2>7, <3>1
    <3>3. local[v].after = "chunks" => ~(m >= NNodes \/ m = abort)
      BY <1>2, <2>1, <2>7, <3>1
    <3>4. QED
      BY <1>2, <1>4, <1>6, <3>2, <3>3
  <2>9. QED
    BY <1>2, <1>4, <2>7, <2>8
<1>7. QED
  BY <1>5, <1>6

(* When the barrier opens, every thread of the graph goes on after it.     *)
LEMMA AfterPass ==
    ASSUME BarrierInv, NEW t \in Threads, Pass(t), NEW u \in Members
    PROVE  /\ u \in Threads /\ pc[u] \in AtBarrier /\ ~Released(u) /\ ~Behind(u)
           /\ u # t => pc[u] = "wait" /\ pc'[u] = "wait" /\ local'[u] = local[u] /\ Released(u)'
           /\ local[u].after \in {"chunks", "node", End(u)}
           /\ Point(u) = pc[u] /\ Point(u)' = local[u].after
           /\ local[u].after # End(u) => /\ local'[u].node = local[u].node
                                         /\ local'[u].chunk = local[u].chunk
<1>1. /\ pc[t] = "pass" /\ Leave(t) /\ n_barrier_passed' = n_barrier_passed + 1
      /\ n_graph' = n_graph /\ abort' = abort /\ last_graph' = last_graph
      /\ Types /\ Placed(t)
  BY DEF Pass, pool, BarrierInv
<1>2. /\ u \in Threads /\ pc[u] \in AtBarrier /\ ~Released(u) /\ ~Behind(u)
      /\ local[u].after \in {"chunks", "node", End(u)}
  BY <1>1, SameBarrier
<1>3. Arrived = Members \ {t}
  BY <1>1, LastFacts DEF IsLast
<1>4. ~Behind(u)'
  BY <1>1, <1>2 DEF Behind
<1>5. Point(u) = pc[u]
  BY <1>2 DEF Point, AtBarrier
<1>6. CASE u = t
  <2>1. /\ pc'[t] = local[t].after
        /\ local[t].after # End(t) => /\ local'[t].node = local[t].node
                                      /\ local'[t].chunk = local[t].chunk
    BY <1>1, LeaveFacts DEF AtBarrier
  <2>2. ~Released(t)'
    BY <1>2, <1>6, <2>1 DEF Released, End
  <2>3. Point(t)' = local[t].after
    BY <1>2, <1>4, <1>6, <2>1, <2>2 DEF Point, End
  <2>4. QED
    BY <1>2, <1>5, <1>6, <2>1, <2>3
<1>7. CASE u # t
  <2>1. pc[u] = "wait" /\ local[u].n_passed = n_barrier_passed
    BY <1>3, <1>7 DEF Arrived
  <2>2. pc'[u] = pc[u] /\ local'[u] = local[u]
    <3>1. /\ pc' = [pc EXCEPT ![t] = local[t].after]
          /\ local' = [local EXCEPT ![t] = local'[t]]
      BY <1>1, LeaveFacts DEF AtBarrier
    <3>2. QED
      BY <1>1, <1>2, <1>7, <3>1 DEF Types
  <2>3. Released(u)'
    BY <1>1, <2>1, <2>2 DEF Released, Types
  <2>4. Point(u)' = local[u].after
    BY <1>4, <2>1, <2>2, <2>3 DEF Point
  <2>5. QED
    BY <1>2, <1>5, <1>7, <2>1, <2>2, <2>3, <2>4
<1>8. QED
  BY <1>6, <1>7

LEMMA PassKeeps ==
    ASSUME BarrierInv, NEW t \in Threads, Pass(t)
    PROVE  BarrierInv'
<1> USE DEF BarrierInv
<1>1. /\ pc[t] = "pass" /\ Leave(t) /\ n_barrier_passed' = n_barrier_passed + 1
      /\ n_graph' = n_graph /\ abort' = abort /\ last_graph' = last_graph
      /\ n_barrier' = n_barrier /\ current_chunk' = current_chunk
      /\ stop' = stop /\ pause' = pause /\ Types /\ Placed(t)
  BY DEF Pass, pool
<1>2. /\ local[t].after \in {"chunks", "node", End(t)}
      /\ pc' = [pc EXCEPT ![t] = local[t].after]
      /\ pc'[t] = local[t].after
      /\ local' = [local EXCEPT ![t] = local'[t]] /\ local'[t] \in Locals
      /\ local[t].after # End(t) => local'[t].node = local[t].node
      /\ Placed(t)'
  BY <1>1, LeaveFacts DEF AtBarrier
<1>3. \A u \in Threads \ {t} : pc'[u] = pc[u] /\ local'[u] = local[u]
  BY <1>1, <1>2 DEF Types
<1>4. Member(t) /\ Arrived = Members \ {t} /\ n_barrier = 0
      /\ \A u \in Threads \ {t} : ~IsLast(u)
  BY <1>1, LastFacts DEF IsLast
<1>5. Types'
  <2>1. pc' \in [Threads -> MainPlaces \cup WorkerPlaces] /\ pc'[0] \in MainPlaces
        /\ \A u \in Workers : pc'[u] \in WorkerPlaces
    BY <1>1, <1>2, <1>3, PoolFacts
    DEF Types, MainPlaces, WorkerPlaces, Inside, Outside, Idle, End
  <2>2. local' \in [Threads -> Locals] /\ n_barrier_passed' \in Nat
    BY <1>1, <1>2 DEF Types
  <2>3. QED
    BY <1>1, <2>1, <2>2 DEF Types
<1>6. ASSUME NEW u \in Members
      PROVE  /\ local[u].after = "chunks" =>
                  /\ Stage(u)' = IF local[u].node + 1 < NNodes THEN "end" ELSE "next"
                  /\ Mark(u)' = local[u].node + 1
             /\ local[u].after = "node" =>
                  Stage(u)' = "next" /\ Mark(u)' = local[u].node /\ ~InNode(u)'
             /\ local[u].after = End(u) => Stage(u)' = "over"
             /\ local[u].after \in {"chunks", "node", End(u)}
  <2>1. /\ local[u].after \in {"chunks", "node", End(u)} /\ Point(u)' = local[u].after
        /\ local[u].after # End(u) => local'[u].node = local[u].node
    BY AfterPass
  <2>2. CASE local[u].after = "chunks"
    BY <2>1, <2>2 DEF Stage, Mark, NodeOf, InNode, Outside, Idle, AtBarrier, End
  <2>3. CASE local[u].after = "node"
    BY <2>1, <2>3 DEF Stage, Mark, NodeOf, InNode, Outside, Idle, AtBarrier, End
  <2>4. CASE local[u].after = End(u)
    BY <2>1, <2>4 DEF Stage, Outside, Idle, End
  <2>5. QED
    BY <2>1, <2>2, <2>3, <2>4
<1>7. Together'
  <2> SUFFICES ASSUME NEW u \in Members, NEW v \in Members PROVE Same(u, v)'
    BY <1>1 DEF Together, Members
  <2>1. /\ local[u].node = local[v].node /\ local[u].node \in 0..NNodes
        /\ local[u].after = "chunks" <=> local[v].after = "chunks"
        /\ local[u].after = "node" <=> local[v].after = "node"
    BY <1>1, SameBarrier
  <2>2. Stage(u)' = Stage(v)'
    BY <1>6, <2>1
  <2>3. Stage(u)' # "over" => Mark(u)' = Mark(v)' /\ Mark(u)' \in Int
    <3>1. NNodes \in Nat /\ local[u].node \in Int
      BY <2>1, PoolAssumption DEF PoolAssumption
    <3>2. QED
      BY <1>6, <2>1, <3>1
  <2>4. QED
    BY <2>2, <2>3 DEF Same
<1>8. ASSUME NEW u \in Threads \ {t} PROVE Placed(u)' /\ u \notin Arrived' /\ ~IsLast(u)'
  <2>1. pc'[u] = pc[u] /\ local'[u] = local[u] /\ ~IsLast(u)' /\ Placed(u)
    BY <1>3, <1>4 DEF IsLast
  <2>2. Member(u)' = Member(u)
    BY <1>1 DEF Member, Members, Behind
  <2>3. local[u].n_passed \in Nat /\ n_barrier_passed \in Nat
    BY DEF Types, Locals
  <2>4. CASE u \in Members
    <3>1. pc[u] = "wait" /\ ~Released(u) /\ Released(u)' /\ ~Behind(u)
      BY <2>4, AfterPass
    <3>2. u \notin Arrived'
      BY <3>1 DEF Arrived, Released
    <3>3. /\ local[u].n_passed <= n_barrier_passed /\ Member(u)
          /\ local[u].after \in {"chunks", "node", End(u)}
          /\ local[u].nth = n_graph.n
          /\ local[u].after = "chunks" => local[u].node \in Nodes
          /\ local[u].after = "node" => local[u].node \in 1..(NNodes - 1)
      BY <2>1, <3>1 DEF Placed, AtBarrier, Leaving
    <3>4. local'[u].n_passed <= n_barrier_passed'
      BY <1>1, <2>1, <2>3, <3>3
    <3>5. QED
      BY <1>1, <2>1, <2>2, <3>1, <3>2, <3>3, <3>4 DEF Placed, Inside, AtBarrier, End
  <2>5. CASE u \notin Members
    <3>1. pc[u] \notin Inside /\ (pc[u] = "wait" => Leaving(u))
      BY <2>1, <2>5 DEF Placed, Member
    <3>2. pc[u] = "wait" => /\ local[u].n_passed < n_barrier_passed
                            /\ local[u].after = End(u)
      BY <2>1, <2>3, <3>1 DEF Placed, Leaving, Released
    <3>3. pc[u] = "wait" => /\ Leaving(u)' /\ Released(u)' /\ u \notin Arrived'
                            /\ local'[u].n_passed <= n_barrier_passed'
      BY <1>1, <2>1, <2>3, <3>2 DEF Leaving, Released, Arrived, End
    <3>4. CASE pc[u] = "wait"
      BY <2>1, <3>2, <3>3, <3>4 DEF Placed, Inside, AtBarrier, End
    <3>5. CASE pc[u] # "wait"
      BY <2>1, <3>1, <3>5 DEF Placed, Inside, AtBarrier, Arrived
    <3>6. QED
      BY <3>4, <3>5
  <2>6. QED
    BY <2>1, <2>4, <2>5
<1>9. Counted'
  <2>1. ~IsLast(t)' /\ t \notin Arrived'
    BY <1>2 DEF IsLast, Arrived, End
  <2>2. Arrived' = {}
    BY <1>8, <2>1 DEF Arrived
  <2>3. QED
    BY <1>1, <1>4, <1>8, <2>1, <2>2, FS_EmptySet DEF Counted
<1>10. AbortAhead'
  <2>1. 0 \in Members /\ 0 \in Threads
    BY <1>4, PoolFacts DEF Member, Members, Types, Graphs
  <2>2. /\ pc[0] \in AtBarrier /\ ~Released(0) /\ Point(0) = pc[0] /\ pc'[0] # "kickoff"
    <3>1. pc[0] \in AtBarrier /\ ~Released(0) /\ Point(0) = pc[0]
          /\ (0 # t => pc'[0] = "wait")
      BY <2>1, AfterPass
    <3>2. QED
      BY <3>1, <1>2 DEF End
  <2>3. Stage(0) # "over" /\ Mark(0) = local[0].node
    BY <2>2 DEF Stage, Mark, NodeOf, InNode, AtBarrier, Outside, Idle
  <2>4. abort # -1 => local[0].node = abort
    BY <2>3 DEF AbortAhead
  <2>5. local[0].after = "chunks" => local[0].node # abort
    BY <2>1, <2>2 DEF Placed
  <2>6. QED
    BY <1>1, <1>6, <2>1, <2>2, <2>4, <2>5 DEF AbortAhead
<1>11. Kickoff'
  <2>1. pc'[0] \notin {"kickoff", "broadcast"}
    <3>1. 0 \in Members
      BY <1>4, PoolFacts DEF Member, Members, Types, Graphs
    <3>2. 0 # t => pc'[0] = "wait"
      BY <3>1, AfterPass
    <3>3. QED
      BY <1>2, <3>2 DEF End
  <2>2. QED
    BY <2>1 DEF Kickoff
<1>12. QED
  BY <1>2, <1>5, <1>7, <1>8, <1>9, <1>10, <1>11

-----------------------------------------------------------------------------
(* The work on a graph. *)

LEMMA WorkingFacts ==
    ASSUME BarrierInv, NEW t \in Threads, pc[t] \in {"start", "node", "chunks", "abort?"}
    PROVE  /\ Member(t) /\ ~Behind(t) /\ ~Released(t) /\ ~IsLast(t) /\ pc[t] # "wait"
           /\ Point(t) = pc[t] /\ Placed(t) /\ local[t] \in Locals
           /\ local[t].node \in 0..NNodes /\ NNodes \in Nat
           /\ pc[t] = "start" => local[t].node = 0
           /\ pc[t] # "start" => local[t].nth = n_graph.n
           /\ pc[t] \in {"chunks", "abort?"} =>
                 local[t].node \in Nodes /\ local[t].node + 1 <= NNodes
           /\ Stage(t) = IF pc[t] \in {"chunks", "abort?"} /\ local[t].node + 1 < NNodes
                         THEN "end" ELSE "next"
           /\ Mark(t) = IF pc[t] \in {"chunks", "abort?"} THEN local[t].node + 1
                        ELSE local[t].node
<1>1. Placed(t) /\ local[t] \in Locals /\ NNodes \in Nat
  BY PoolFacts DEF BarrierInv, Types
<1>2. Member(t) /\ ~Behind(t) /\ ~Released(t) /\ ~Leaving(t) /\ ~IsLast(t)
  BY <1>1 DEF Placed, Inside, Member, Released, Leaving, IsLast
<1>3. Point(t) = pc[t]
  BY <1>2 DEF Point
<1>4. local[t].node \in 0..NNodes
  BY <1>1 DEF Locals
<1>5. /\ pc[t] = "start" => local[t].node = 0
      /\ pc[t] # "start" => local[t].nth = n_graph.n
      /\ pc[t] \in {"chunks", "abort?"} => local[t].node \in Nodes
  BY <1>1, <1>2 DEF Placed, Inside
<1>6. Stage(t) = IF pc[t] \in {"chunks", "abort?"} /\ local[t].node + 1 < NNodes
                 THEN "end" ELSE "next"
  BY <1>3 DEF Stage, InNode, Outside, Idle, AtBarrier
<1>7. Mark(t) = IF pc[t] \in {"chunks", "abort?"} THEN local[t].node + 1
                ELSE local[t].node
  BY <1>3, <1>5 DEF Mark, NodeOf, InNode
<1>8. local[t].node \in Nodes => local[t].node + 1 <= NNodes
  BY <1>1 DEF Nodes
<1>9. QED
  BY <1>1, <1>2, <1>3, <1>4, <1>5, <1>6, <1>7, <1>8

(* The step of such a thread to another place, within its stage.           *)
LEMMA WorkKeeps ==
    ASSUME BarrierInv, NEW t \in Threads, pc[t] \in {"start", "node", "chunks", "abort?"},
           NEW place \in {"node", "chunks", "abort?", "barrier"}, NEW l \in Locals,
           pc' = [pc EXCEPT ![t] = place], local' = [local EXCEPT ![t] = l],
           UNCHANGED <<pool, n_barrier, n_barrier_passed, abort>>, current_chunk' \in Nat,
           l.nth = n_graph.n,
           place \in {"chunks", "abort?"} =>
              /\ pc[t] \in {"chunks", "abort?"} /\ l.node = local[t].node,
           place = "node" =>
              /\ l.node = Mark(t) /\ Stage(t) = "next",
           place = "barrier" =>
              /\ l.after \in {"chunks", "node", End(t)} /\ l.node = Mark(t)
              /\ l.after = "node" => Stage(t) = "end" /\ l.node \in 1..(NNodes - 1)
              /\ l.after # "node" => Stage(t) = "next"
              /\ l.after = "chunks" => l.node \in Nodes /\ l.node # abort
              /\ l.after = End(t) => Over(l)
    PROVE  BarrierInv'
<1> USE DEF BarrierInv
<1>1. /\ n_graph' = n_graph /\ n_barrier' = n_barrier /\ abort' = abort
      /\ n_barrier_passed' = n_barrier_passed /\ last_graph' = last_graph
      /\ stop' = stop /\ pause' = pause
  BY DEF pool
<1>2. pc'[t] = place /\ local'[t] = l
  BY DEF Types
<1>3. /\ Member(t) /\ ~Behind(t) /\ ~Released(t) /\ ~IsLast(t) /\ pc[t] # "wait"
      /\ Point(t) = pc[t]
      /\ local[t].node \in 0..NNodes /\ NNodes \in Nat
      /\ pc[t] \in {"chunks", "abort?"} =>
            local[t].node \in Nodes /\ local[t].node + 1 <= NNodes
      /\ Stage(t) = IF pc[t] \in {"chunks", "abort?"} /\ local[t].node + 1 < NNodes
                    THEN "end" ELSE "next"
      /\ Mark(t) = IF pc[t] \in {"chunks", "abort?"} THEN local[t].node + 1
                   ELSE local[t].node
  BY WorkingFacts
<1>4. Member(t)' /\ ~Behind(t)' /\ ~Released(t)' /\ ~Leaving(t)'
  BY <1>1, <1>2, <1>3 DEF Member, Members, Behind, Released, Leaving
<1>5. Point(t)' = place
  BY <1>2, <1>4 DEF Point
<1>6. Stage(t)' = Stage(t) /\ Mark(t)' = Mark(t)
  <2>1. CASE place \in {"chunks", "abort?"}
    <3>1. InNode(t)' /\ Point(t)' # "start"
      BY <1>5, <2>1 DEF InNode
    <3>2. Mark(t)' = l.node + 1
      BY <1>2, <3>1 DEF Mark, NodeOf
    <3>3. Stage(t)' = IF l.node + 1 < NNodes THEN "end" ELSE "next"
      BY <1>2, <1>5, <2>1, <3>1 DEF Stage, Outside, Idle, AtBarrier
    <3>4. QED
      BY <1>3, <2>1, <3>2, <3>3
  <2>2. CASE place = "node"
    <3>1. ~InNode(t)' /\ Point(t)' # "start"
      BY <1>5, <2>2 DEF InNode
    <3>2. Mark(t)' = l.node
      BY <1>2, <3>1 DEF Mark, NodeOf
    <3>3. Stage(t)' = "next"
      BY <1>5, <2>2, <3>1 DEF Stage, Outside, Idle, AtBarrier
    <3>4. QED
      BY <2>2, <3>2, <3>3
  <2>3. CASE place = "barrier"
    <3>1. ~InNode(t)'
      BY <1>5, <2>3 DEF InNode
    <3>2. Mark(t)' = l.node
      BY <1>2, <1>5, <2>3, <3>1 DEF Mark, NodeOf
    <3>3. Stage(t)' = IF l.after = "node" THEN "end" ELSE "next"
      BY <1>2, <1>5, <2>3, <3>1 DEF Stage, Outside, Idle, AtBarrier
    <3>4. QED
      BY <2>3, <3>2, <3>3
  <2>4. QED
    BY <2>1, <2>2, <2>3
<1>7. Placed(t)'
  <2>1. place \in {"chunks", "abort?"} => local'[t].node \in Nodes
    BY <1>2, <1>3
  <2>2. Over(l)' = Over(l)
    BY <1>1 DEF Over
  <2>3. CASE place = "barrier"
    BY <1>1, <1>2, <1>4, <2>2, <2>3 DEF Placed, Inside, AtBarrier, End
  <2>4. CASE place # "barrier"
    BY <1>1, <1>2, <1>4, <2>1, <2>4 DEF Placed, Inside, AtBarrier
  <2>5. QED
    BY <2>3, <2>4
<1>8. InNode(t)' => InNode(t)
  BY <1>3, <1>5 DEF InNode
<1>9. place \in IF t = 0 THEN MainPlaces ELSE WorkerPlaces
  BY DEF MainPlaces, WorkerPlaces, Inside
<1>10. /\ last_graph' \in [Workers -> Graphs]
       /\ stop' \in BOOLEAN /\ pause' \in BOOLEAN
       /\ t \in Workers => last_graph'[t].count <= n_graph.count
  BY <1>1 DEF Types
<1>11. QED
  BY <1>1, <1>3, <1>6, <1>7, <1>8, <1>9, <1>10, SameStageKeeps

LEMMA StartKeeps ==
    ASSUME BarrierInv, NEW t \in Threads, Start(t)
    PROVE  BarrierInv'
<1> DEFINE l == [local[t] EXCEPT !.nth = n_graph.n]
<1>1. pc[t] = "start" /\ UNCHANGED <<pool, n_barrier, n_barrier_passed, abort>>
      /\ pc' = [pc EXCEPT ![t] = "node"] /\ local' = [local EXCEPT ![t] = l]
      /\ current_chunk' \in Nat
  BY DEF Start, Goto, BarrierInv, Types
<1>2. /\ local[t] \in Locals /\ Mark(t) = 0 /\ Stage(t) = "next" /\ local[t].node = 0
  BY <1>1, WorkingFacts
<1>3. n_graph.n \in 0..NThreads
  BY DEF BarrierInv, Types, Graphs
<1>4. l \in Locals /\ l.nth = n_graph.n /\ l.node = Mark(t)
  BY <1>2, <1>3 DEF Locals
<1> HIDE DEF l
<1>5. QED
  BY <1>1, <1>2, <1>4, WorkKeeps

LEMMA FinishKeeps ==
    ASSUME BarrierInv, NEW t \in Threads, Finish(t)
    PROVE  BarrierInv'
<1> DEFINE l == [local[t] EXCEPT !.after = End(t)]
<1>1. pc[t] = "node" /\ UNCHANGED <<pool, n_barrier, n_barrier_passed, abort>>
      /\ pc' = [pc EXCEPT ![t] = "barrier"] /\ local' = [local EXCEPT ![t] = l]
      /\ current_chunk' \in Nat /\ Over(local[t])
  BY DEF Finish, EnterBarrier, Goto, BarrierInv, Types
<1>2. /\ local[t] \in Locals /\ Mark(t) = local[t].node /\ Stage(t) = "next"
      /\ local[t].nth = n_graph.n
  BY <1>1, WorkingFacts
<1>3. /\ l \in Locals /\ l.nth = n_graph.n /\ l.node = local[t].node
      /\ l.after = End(t)
  BY <1>2 DEF Locals, End
<1> HIDE DEF l
<1>4. Over(l) /\ End(t) \notin {"node", "chunks"}
  BY <1>1, <1>3 DEF Over, End
<1>5. QED
  BY <1>1, <1>2, <1>3, <1>4, WorkKeeps

LEMMA NodeKeeps ==
    ASSUME BarrierInv, NEW t \in Threads, Node(t)
    PROVE  BarrierInv'
<1> DEFINE l == [local[t] EXCEPT !.chunk = t, !.after = "chunks"]
<1>1. pc[t] = "node" /\ UNCHANGED <<pool, n_barrier, n_barrier_passed, abort>>
      /\ pc' = [pc EXCEPT ![t] = "barrier"] /\ local' = [local EXCEPT ![t] = l]
      /\ ~Over(local[t]) /\ local[t].node \notin Empty
      /\ current_chunk' = IF t = 0 THEN local[t].nth ELSE current_chunk
  BY DEF Node, EnterBarrier, Goto
<1>2. /\ local[t] \in Locals /\ Mark(t) = local[t].node /\ Stage(t) = "next"
      /\ local[t].nth = n_graph.n /\ local[t].node \in 0..NNodes /\ NNodes \in Nat
  BY <1>1, WorkingFacts
<1>3. current_chunk' \in Nat
  <2>1. local[t].nth \in Nat
    <3>1. local[t] \in Locals
      BY <1>2
    <3>2. local[t].nth \in 0..NThreads
      BY <3>1 DEF Locals
    <3>3. QED
      BY <3>2, PoolFacts
  <2>2. current_chunk \in Nat
    BY DEF BarrierInv, Types
  <2>3. QED
    BY <1>1, <2>1, <2>2
<1>4. /\ l \in Locals /\ l.nth = n_graph.n /\ l.node = local[t].node
      /\ l.after = "chunks"
  BY <1>2, PoolFacts DEF Locals
<1> HIDE DEF l
<1>5. l.node \in Nodes /\ l.node # abort
  BY <1>1, <1>2, <1>4 DEF Over, Nodes
<1>6. End(t) # "chunks"
  BY DEF End
<1>7. QED
  BY <1>1, <1>2, <1>3, <1>4, <1>5, <1>6, WorkKeeps

LEMMA DoChunkKeeps ==
    ASSUME BarrierInv, NEW t \in Threads, DoChunk(t)
    PROVE  BarrierInv'
<1>1. pc[t] = "chunks" /\ UNCHANGED <<pool, n_barrier, n_barrier_passed, abort>>
      /\ current_chunk \in Nat /\ pc \in [Threads -> MainPlaces \cup WorkerPlaces]
      /\ local \in [Threads -> Locals]
  BY DEF DoChunk, BarrierInv, Types
<1>2. local[t] \in Locals /\ local[t].nth = n_graph.n
  BY <1>1, WorkingFacts
<1>3. CASE local[t].nth >= NChunk(local[t].nth)
  <2>1. /\ pc' = [pc EXCEPT ![t] = "abort?"] /\ current_chunk' = current_chunk
        /\ local' = [local EXCEPT ![t] = local[t]]
    BY <1>1, <1>3 DEF DoChunk, Goto
  <2>2. QED
    BY <1>1, <1>2, <2>1, WorkKeeps
<1>4. CASE ~(local[t].nth >= NChunk(local[t].nth))
  <2> DEFINE l == [local[t] EXCEPT !.chunk = current_chunk]
  <2>1. /\ pc' = [pc EXCEPT ![t] = "chunks"] /\ current_chunk' = current_chunk + 1
        /\ local' = [local EXCEPT ![t] = l]
    BY <1>1, <1>4 DEF DoChunk, Goto
  <2>2. l \in Locals /\ l.nth = n_graph.n /\ l.node = local[t].node
    BY <1>1, <1>2 DEF Locals
  <2>3. current_chunk' \in Nat
    BY <1>1, <2>1
  <2> HIDE DEF l
  <2>4. QED
    BY <1>1, <2>1, <2>2, <2>3, WorkKeeps
<1>5. QED
  BY <1>3, <1>4

LEMMA NoChunkKeeps ==
    ASSUME BarrierInv, NEW t \in Threads, NoChunk(t)
    PROVE  BarrierInv'
<1>1. pc[t] = "chunks" /\ UNCHANGED <<pool, n_barrier, n_barrier_passed, abort>>
      /\ pc' = [pc EXCEPT ![t] = "abort?"] /\ local' = [local EXCEPT ![t] = local[t]]
      /\ current_chunk' \in Nat
  BY DEF NoChunk, Goto, BarrierInv, Types
<1>2. local[t] \in Locals /\ local[t].nth = n_graph.n
  BY <1>1, WorkingFacts
<1>3. QED
  BY <1>1, <1>2, WorkKeeps

LEMMA MarkBound ==
    ASSUME BarrierInv, NEW t \in Threads
    PROVE  Mark(t) \in 0..NNodes /\ (InNode(t) => local[t].node \in Nodes)
<1>1. local[t].node \in 0..NNodes /\ NNodes \in Nat /\ Placed(t)
  BY PoolFacts DEF BarrierInv, Types, Locals
<1>2. NodeOf(t) \in 0..NNodes
  BY <1>1 DEF NodeOf
<1>3. ASSUME InNode(t) PROVE local[t].node \in Nodes
  <2>1. pc[t] \in {"chunks", "abort?"} \/ (pc[t] = "wait" /\ local[t].after = "chunks")
    BY <1>1, <1>3 DEF InNode, Point, Released, Placed, AtBarrier, End
  <2>2. QED
    BY <1>1, <2>1 DEF Placed, AtBarrier
<1>4. InNode(t) => NodeOf(t) = local[t].node
  BY DEF InNode, NodeOf
<1>5. QED
  BY <1>1, <1>2, <1>3, <1>4 DEF Mark, Nodes

LEMMA SkipKeeps ==
    ASSUME BarrierInv, NEW t \in Threads, Skip(t)
    PROVE  BarrierInv'
<1> USE DEF BarrierInv
<1> DEFINE l == [local[t] EXCEPT !.node = @ + 1]
<1>1. /\ pc[t] = "node" /\ pc' = pc /\ local' = [local EXCEPT ![t] = l]
      /\ n_graph' = n_graph /\ n_barrier' = n_barrier /\ abort' = abort
      /\ n_barrier_passed' = n_barrier_passed /\ last_graph' = last_graph
      /\ stop' = stop /\ pause' = pause /\ current_chunk' = current_chunk
      /\ ~Over(local[t]) /\ local[t].node \in Empty
  BY DEF Skip, pool
<1>2. /\ Member(t) /\ ~Behind(t) /\ ~Released(t) /\ ~IsLast(t) /\ Point(t) = "node"
      /\ local[t] \in Locals /\ local[t].nth = n_graph.n
      /\ local[t].node \in 0..NNodes /\ NNodes \in Nat
      /\ Stage(t) = "next" /\ Mark(t) = local[t].node
  BY <1>1, WorkingFacts
<1>3. local[t].node < NNodes /\ local[t].node # abort
  BY <1>1, <1>2 DEF Over
<1>4. l \in Locals /\ l.nth = n_graph.n /\ l.node = local[t].node + 1
  <2>1. local[t].node + 1 \in 0..NNodes
    BY <1>2, <1>3
  <2>2. QED
    BY <1>2, <2>1 DEF Locals
<1> HIDE DEF l
<1>5. pc' = [pc EXCEPT ![t] = "node"] /\ pc'[t] = "node" /\ local'[t] = l
      /\ \A u \in Threads \ {t} : pc'[u] = pc[u] /\ local'[u] = local[u]
  BY <1>1 DEF Types
<1>6. Member(t)' /\ ~Behind(t)' /\ ~Released(t)' /\ ~Leaving(t)'
  BY <1>1, <1>2, <1>5 DEF Member, Members, Behind, Released, Leaving
<1>7. Point(t)' = "node" /\ ~InNode(t)'
  BY <1>5, <1>6 DEF Point, InNode
<1>8. Stage(t)' = "next" /\ Mark(t)' = local[t].node + 1
  <2>1. NodeOf(t)' = l.node
    BY <1>5, <1>7 DEF NodeOf
  <2>2. Stage(t)' = "next"
    BY <1>7 DEF Stage, Outside, Idle, AtBarrier
  <2>3. QED
    BY <1>4, <1>7, <2>1, <2>2 DEF Mark
<1>9. \A u \in Threads \ {t} : Stage(u)' = Stage(u) /\ Mark(u)' = Mark(u)
                               /\ InNode(u)' = InNode(u)
  BY <1>1, <1>5, OthersStay
<1>10. \A u \in Members : u \in Threads /\ Mark(u) \in Int
  <2>1. \A u \in Members : u \in Threads
    BY PoolFacts DEF Members, Threads, Types, Graphs
  <2>2. QED
    BY <2>1, MarkBound, PoolFacts
<1>11. Together'
  <2> SUFFICES ASSUME NEW u \in Members, NEW v \in Members PROVE Same(u, v)'
    BY <1>1 DEF Together, Members
  <2>1. t \in Members
    BY <1>2 DEF Member
  <2>2. Same(u, v) /\ Same(t, v) /\ Same(u, t)
    BY <2>1 DEF Together
  <2>3. Stage(u) = "next" /\ Stage(v) = "next"
    BY <1>2, <2>2 DEF Same
  <2>4. Stage(u)' = "next" /\ Stage(v)' = "next"
    BY <1>8, <1>9, <1>10, <2>3
  <2>5. ASSUME NEW m \in Mark(u)'..(Mark(v)' - 1) PROVE m \in Empty /\ m # abort'
    <3>1. CASE m = local[t].node
      BY <1>1, <1>3, <3>1
    <3>2. CASE u = t /\ v = t
      BY <1>2, <1>8, <3>2
    <3>3. CASE u = t /\ v # t /\ m # local[t].node
      <4>1. m \in Mark(t)..(Mark(v) - 1)
        BY <1>2, <1>8, <1>9, <1>10, <3>3
      <4>2. QED
        BY <1>1, <1>2, <2>2, <4>1 DEF Same
    <3>4. CASE u # t /\ v = t /\ m # local[t].node
      <4>1. m \in Mark(u)..(Mark(t) - 1)
        BY <1>2, <1>8, <1>9, <1>10, <3>4
      <4>2. QED
        BY <1>1, <2>2, <2>3, <4>1 DEF Same
    <3>5. CASE u # t /\ v # t
      <4>1. m \in Mark(u)..(Mark(v) - 1)
        BY <1>9, <1>10, <3>5
      <4>2. QED
        BY <1>1, <2>2, <2>3, <4>1 DEF Same
    <3>6. QED
      BY <3>1, <3>2, <3>3, <3>4, <3>5
  <2>6. QED
    BY <2>4, <2>5 DEF Same
<1>12. AbortAhead'
  <2>1. CASE t = 0
    BY <1>1, <1>2, <1>3, <2>1 DEF AbortAhead
  <2>2. CASE t # 0
    BY <1>1, <1>9, <2>2, PoolFacts DEF AbortAhead
  <2>3. QED
    BY <2>1, <2>2
<1>13. Kickoff'
  <2>1. pc'[0] \in {"kickoff", "broadcast"} => local'[0] = local[0]
    BY <1>1, <1>5, PoolFacts
  <2>2. QED
    BY <1>1, <2>1 DEF Kickoff
<1>14. Placed(t)'
  BY <1>1, <1>4, <1>5, <1>6 DEF Placed, Inside, AtBarrier
<1>15. "node" \in IF t = 0 THEN MainPlaces ELSE WorkerPlaces
  BY DEF MainPlaces, WorkerPlaces, Inside
<1>16. /\ last_graph' \in [Workers -> Graphs] /\ current_chunk' \in Nat
       /\ stop' \in BOOLEAN /\ pause' \in BOOLEAN
       /\ t \in Workers => last_graph'[t].count <= n_graph.count
  BY <1>1 DEF Types
<1>17. QED
  BY <1>1, <1>2, <1>4, <1>5, <1>11, <1>12, <1>13, <1>14, <1>15, <1>16, OneThreadKeeps

(* The main thread is told to abort, which it is once: other threads may   *)
(* already be on their way to the next barrier, but not beyond it.         *)
LEMMA AbortKeeps ==
    ASSUME BarrierInv, AfterNode(0), abort' = local[0].node + 1
    PROVE  BarrierInv'
<1> USE DEF BarrierInv
<1> DEFINE l == [local[0] EXCEPT !.node = @ + 1, !.chunk = 0]
           more == l.node < NNodes
           place == IF more THEN "barrier" ELSE "node"
           m == IF more THEN [l EXCEPT !.after = "node"] ELSE l
<1>1. /\ pc[0] = "abort?" /\ n_graph' = n_graph /\ n_barrier' = n_barrier
      /\ n_barrier_passed' = n_barrier_passed /\ last_graph' = last_graph
      /\ stop' = stop /\ pause' = pause /\ current_chunk' = current_chunk
  BY DEF AfterNode, pool
<1>2. /\ Member(0) /\ ~Behind(0) /\ ~Released(0) /\ ~IsLast(0) /\ Point(0) = pc[0]
      /\ local[0] \in Locals /\ local[0].nth = n_graph.n
      /\ local[0].node \in 0..NNodes /\ NNodes \in Nat
      /\ local[0].node \in Nodes /\ local[0].node + 1 <= NNodes
      /\ Stage(0) = IF local[0].node + 1 < NNodes THEN "end" ELSE "next"
      /\ Mark(0) = local[0].node + 1 /\ pc[0] # "wait"
  BY <1>1, PoolFacts, WorkingFacts
<1>3. abort = -1
  <2>1. InNode(0) /\ Stage(0) # "over"
    BY <1>1, <1>2 DEF InNode
  <2>2. QED
    BY <2>1 DEF AbortAhead
<1>4. l \in Locals /\ l.nth = n_graph.n /\ l.node = local[0].node + 1
  <2>1. local[0].node + 1 \in 0..NNodes
    BY <1>2
  <2>2. QED
    BY <1>2, <2>1 DEF Locals
<1>5. pc' = [pc EXCEPT ![0] = place] /\ local' = [local EXCEPT ![0] = m]
  <2>1. l.node = local[0].node + 1
    BY <1>4
  <2>2. QED
    BY <2>1 DEF AfterNode, EnterBarrier, Goto
<1>6. /\ m \in Locals /\ m.nth = n_graph.n /\ m.node = local[0].node + 1
      /\ more => m.after = "node"
  BY <1>4 DEF Locals
<1>7. more <=> local[0].node + 1 < NNodes
  BY <1>4
<1> HIDE DEF m, l, more
<1>8. pc'[0] = place /\ local'[0] = m
      /\ \A u \in Threads \ {0} : pc'[u] = pc[u] /\ local'[u] = local[u]
  BY <1>5, PoolFacts DEF Types
<1>9. Member(0)' /\ ~Behind(0)' /\ ~Released(0)' /\ ~Leaving(0)'
  BY <1>1, <1>2, <1>8 DEF Member, Members, Behind, Released, Leaving
<1>10. Point(0)' = place /\ ~InNode(0)'
  BY <1>8, <1>9 DEF Point, InNode
<1>11. Mark(0)' = local[0].node + 1
  BY <1>6, <1>8, <1>10 DEF Mark, NodeOf
<1>12. Stage(0)' = Stage(0)
  <2>1. CASE more
    <3>1. Point(0)' = "barrier" /\ local'[0].after = "node"
      BY <1>6, <1>8, <1>10, <2>1
    <3>2. Stage(0)' = "end"
      BY <3>1 DEF Stage, Outside, Idle, AtBarrier
    <3>3. QED
      BY <1>2, <1>7, <2>1, <3>2
  <2>2. CASE ~more
    <3>1. Point(0)' = "node"
      BY <1>10, <2>2
    <3>2. Stage(0)' = "next"
      BY <3>1, <1>10 DEF Stage, Outside, Idle, AtBarrier
    <3>3. QED
      BY <1>2, <1>7, <2>2, <3>2
  <2>3. QED
    BY <2>1, <2>2
<1>13. \A u \in Threads \ {0} : /\ Stage(u)' = Stage(u) /\ Mark(u)' = Mark(u)
                                /\ Released(u)' = Released(u) /\ Leaving(u)' = Leaving(u)
                                /\ Member(u)' = Member(u)
  BY <1>1, <1>8, PoolFacts, OthersStay
<1>14. \A u \in Members : u \in Threads /\ Mark(u) \in 0..NNodes
  <2>1. \A u \in Members : u \in Threads
    BY PoolFacts DEF Members, Threads, Types, Graphs
  <2>2. QED
    BY <2>1, MarkBound
<1>15. Together'
  <2> SUFFICES ASSUME NEW u \in Members, NEW v \in Members PROVE Same(u, v)'
    BY <1>1 DEF Together, Members
  <2>1. 0 \in Members
    BY <1>2 DEF Member
  <2>2. Same(u, v) /\ Same(0, u)
    BY <2>1 DEF Together
  <2>3. \A w \in Members : Stage(w)' = Stage(w) /\ Mark(w)' = Mark(w)
    BY <1>2, <1>11, <1>12, <1>13, <1>14
  <2>4. ASSUME Stage(u) = "next", NEW k \in Mark(u)..(Mark(v) - 1)
        PROVE  k \in Empty /\ k # abort'
    <3>1. local[0].node + 1 = NNodes
      BY <1>2, <2>2, <2>4 DEF Same
    <3>2. k < NNodes
      BY <1>2, <1>14, <2>4
    <3>3. QED
      BY <2>2, <2>4, <3>1, <3>2 DEF Same
  <2>5. QED
    BY <2>2, <2>3, <2>4 DEF Same
<1>16. AbortAhead'
  BY <1>8, <1>10, <1>11 DEF AbortAhead
<1>17. Kickoff'
  BY <1>8 DEF Kickoff
<1>18. Placed(0)'
  <2>1. more => m.node \in 1..(NNodes - 1)
    BY <1>2, <1>6, <1>7
  <2>2. CASE more
    BY <1>1, <1>6, <1>8, <1>9, <2>1, <2>2 DEF Placed, Inside, AtBarrier, End
  <2>3. CASE ~more
    BY <1>1, <1>6, <1>8, <1>9, <2>3 DEF Placed, Inside, AtBarrier
  <2>4. QED
    BY <2>2, <2>3
<1>19. ASSUME NEW u \in Threads \ {0} PROVE Placed(u)'
  <2>1. /\ pc'[u] = pc[u] /\ local'[u] = local[u] /\ Member(u)' = Member(u)
        /\ Released(u)' = Released(u) /\ Leaving(u)' = Leaving(u)
        /\ Placed(u) /\ local[u].node \in 0..NNodes
    BY <1>8, <1>13 DEF Types, Locals
  <2>2. ASSUME pc[u] \in AtBarrier, ~Released(u), local[u].after = "chunks"
        PROVE  local[u].node # abort'
    <3>1. Member(u) /\ local[u].node \in Nodes
      BY <2>1, <2>2 DEF Placed, AtBarrier, Inside, Leaving
    <3>2. Point(u) = pc[u] /\ ~InNode(u) /\ Point(u) # "start"
      BY <2>2, <3>1 DEF Point, Member, InNode, AtBarrier
    <3>3. Stage(u) = "next" /\ Mark(u) = local[u].node
      BY <2>2, <3>2 DEF Stage, Mark, NodeOf, AtBarrier, Outside, Idle
    <3>4. Same(0, u)
      BY <1>2, <3>1 DEF Together, Member
    <3>5. local[0].node + 1 = NNodes
      BY <1>2, <3>3, <3>4 DEF Same
    <3>6. QED
      BY <1>2, <3>1, <3>5 DEF Nodes
  <2>3. ASSUME Over(local[u]) PROVE Over(local[u])'
    <3>1. local[u].node >= NNodes
      BY <1>2, <1>3, <2>1, <2>3 DEF Over
    <3>2. QED
      BY <2>1, <3>1 DEF Over
  <2>4. QED
    BY <1>1, <2>1, <2>2, <2>3 DEF Placed, End
<1>20. place \in (IF 0 = 0 THEN MainPlaces ELSE WorkerPlaces)
       /\ place \notin {"reset", "pass", "wait"}
  BY DEF MainPlaces, Inside
<1>21. /\ last_graph' \in [Workers -> Graphs] /\ current_chunk' \in Nat
       /\ stop' \in BOOLEAN /\ pause' \in BOOLEAN /\ abort' \in -1..NNodes
       /\ 0 \notin Workers
  BY <1>1, <1>2, PoolFacts DEF Types
<1> HIDE DEF place
<1>22. QED
  BY <1>1, <1>2, <1>5, <1>6, <1>15, <1>16, <1>17, <1>18, <1>19, <1>20, <1>21,
     PoolFacts, OneThreadKeeps

LEMMA AfterNodeKeeps ==
    ASSUME BarrierInv, NEW t \in Threads, AfterNode(t)
    PROVE  BarrierInv'
<1> DEFINE l == [local[t] EXCEPT !.node = @ + 1, !.chunk = 0]
           more == l.node < NNodes
           place == IF more THEN "barrier" ELSE "node"
           m == IF more THEN [l EXCEPT !.after = "node"] ELSE l
<1>1. pc[t] = "abort?" /\ Aborts(t, local[t].node)
      /\ UNCHANGED <<pool, n_barrier, n_barrier_passed>> /\ current_chunk' \in Nat
  BY DEF AfterNode, BarrierInv, Types
<1>2. CASE t = 0 /\ abort' = local[t].node + 1
  BY <1>2, AbortKeeps
<1>3. CASE UNCHANGED abort
  <2>1. /\ local[t] \in Locals /\ local[t].nth = n_graph.n
        /\ local[t].node \in 0..NNodes /\ NNodes \in Nat
        /\ local[t].node \in Nodes /\ local[t].node + 1 <= NNodes
        /\ Stage(t) = IF local[t].node + 1 < NNodes THEN "end" ELSE "next"
        /\ Mark(t) = local[t].node + 1
    BY <1>1, WorkingFacts
  <2>2. l \in Locals /\ l.nth = n_graph.n /\ l.node = local[t].node + 1
    <3>1. local[t].node + 1 \in 0..NNodes
      BY <2>1
    <3>2. QED
      BY <2>1, <3>1 DEF Locals
  <2>3. pc' = [pc EXCEPT ![t] = place] /\ local' = [local EXCEPT ![t] = m]
    <3>1. l.node = local[t].node + 1
      BY <2>2
    <3>2. QED
      BY <3>1 DEF AfterNode, EnterBarrier, Goto
  <2>4. /\ m \in Locals /\ m.nth = n_graph.n /\ m.node = local[t].node + 1
        /\ more => m.after = "node"
    BY <2>2 DEF Locals
  <2>5. more <=> local[t].node + 1 < NNodes
    BY <2>2
  <2> HIDE DEF m, l, more
  <2>6. place = "barrier" => m.node \in 1..(NNodes - 1) /\ Stage(t) = "end"
    BY <2>1, <2>4, <2>5
  <2>7. place = "node" => m.node = Mark(t) /\ Stage(t) = "next"
    BY <2>1, <2>4, <2>5
  <2>8. place = "barrier" => m.after = "node"
    BY <2>4
  <2>9. place \in {"node", "barrier"} /\ m.node = Mark(t) /\ End(t) # "node"
    BY <2>1, <2>4 DEF End
  <2> HIDE DEF place
  <2>10. QED
    BY <1>1, <1>3, <2>3, <2>4, <2>6, <2>7, <2>8, <2>9, WorkKeeps
<1>4. QED
  BY <1>1, <1>2, <1>3 DEF Aborts

-----------------------------------------------------------------------------
LEMMA BarrierInvInit ==
    ASSUME Init
    PROVE  BarrierInv
<1>1. Types
  <2>1. NoLocal \in Locals /\ NoGraph \in Graphs
    BY PoolFacts DEF NoLocal, NoGraph, Locals, Graphs
  <2>2. abort \in -1..NNodes
    BY PoolFacts DEF Init
  <2>3. pc \in [Threads -> MainPlaces \cup WorkerPlaces] /\ pc[0] \in MainPlaces
        /\ \A t \in Workers : pc[t] \in WorkerPlaces
    BY PoolFacts DEF Init, MainPlaces, WorkerPlaces, Outside, Idle
  <2>4. \A t \in Workers : last_graph[t].count <= n_graph.count
    BY DEF Init, NoGraph
  <2>5. QED
    BY <2>1, <2>2, <2>3, <2>4 DEF Init, Types
<1>2. Members = {}
  BY DEF Init, NoGraph, Members
<1>3. \A t \in Threads : pc[t] \in {"app", "top"} /\ local[t] = NoLocal
  BY DEF Init
<1>4. pc[0] = "app"
  BY PoolFacts DEF Init
<1>5. Arrived = {} /\ \A t \in Threads : ~IsLast(t)
  BY <1>3 DEF Arrived, IsLast
<1>6. Counted
  BY <1>5, FS_EmptySet DEF Counted, Init
<1>7. ASSUME NEW t \in Threads PROVE Placed(t)
  <2>1. pc[t] \in {"app", "top"} /\ local[t].node = 0
    <3>1. NoLocal.node = 0
      BY DEF NoLocal
    <3>2. QED
      BY <1>3, <3>1
  <2>2. pc[t] \notin Inside \cup {"wait"} /\ pc[t] \notin AtBarrier
    BY <2>1 DEF Inside, AtBarrier
  <2>3. QED
    BY <2>1, <2>2 DEF Placed, Inside, AtBarrier
<1>8. Together
  BY <1>2 DEF Together
<1>9. Kickoff /\ AbortAhead
  BY <1>4 DEF Kickoff, AbortAhead, Init
<1>10. QED
  BY <1>1, <1>6, <1>7, <1>8, <1>9 DEF BarrierInv

LEMMA BarrierInvNext ==
    ASSUME BarrierInv, [Next]_vars
    PROVE  BarrierInv'
<1>1. CASE Application
  <2>1. CASE Compute
    BY <2>1, ComputeKeeps
  <2>2. CASE Pause \/ Resume
    <3>1. pc[0] = "app" /\ pc' = [Woken EXCEPT ![0] = "app"]
      BY <2>2, PoolFacts DEF Pause, Resume, Woken
    <3>2. QED
      BY <2>2, <3>1, BroadcastKeeps DEF Pause, Resume, BarrierInv, Types
  <2>3. CASE Free
    BY <2>3, BroadcastKeeps DEF Free
  <2>4. QED
    BY <1>1, <2>1, <2>2, <2>3 DEF Application
<1>2. ASSUME NEW t \in Threads, Works(t)
      PROVE  BarrierInv'
  BY <1>2, BarrierReadKeeps, ArriveKeeps, ResetBarrierKeeps, PassKeeps, WaitKeeps,
     StartKeeps, SkipKeeps, FinishKeeps, NodeKeeps, DoChunkKeeps, NoChunkKeeps,
     AfterNodeKeeps DEF Works
<1>3. CASE Announce \/ Broadcast \/ Join
  <2>1. CASE Broadcast
    BY <2>1, BroadcastKeeps DEF Broadcast, BarrierInv, Types
  <2>2. QED
    BY <1>3, <2>1, AnnounceKeeps, JoinKeeps
<1>4. ASSUME NEW t \in Workers,
             \/ Top(t) \/ Nap(t) \/ Awake(t) \/ CheckStop(t) \/ Poll(t)
             \/ PollGraph(t) \/ Lock(t) \/ WakeUp(t)
      PROVE  BarrierInv'
  <2>1. CASE Top(t) \/ Nap(t) \/ Awake(t) \/ CheckStop(t) \/ Poll(t)
    <3> DEFINE place == IF pc[t] = "top" THEN IF pause THEN "nap" ELSE "stop?"
                        ELSE IF pc[t] = "nap" THEN IF pause THEN "napping" ELSE "top"
                        ELSE IF pc[t] = "awake" THEN "top"
                        ELSE IF pc[t] = "stop?" THEN IF stop THEN "exited" ELSE "poll"
                        ELSE IF stop \/ pause THEN "lock" ELSE "poll graph"
    <3>1. pc[t] \in Outside /\ place \in Outside
      BY <2>1 DEF Top, Nap, Awake, CheckStop, Poll, Outside
    <3>2. pc' = [pc EXCEPT ![t] = place] /\ UNCHANGED <<Waiting, last_graph>>
      BY <2>1 DEF Top, Nap, Awake, CheckStop, Poll, Goto
    <3> HIDE DEF place
    <3>3. QED
      BY <3>1, <3>2, OutsideKeeps
  <2>2. CASE WakeUp(t)
    <3>1. pc[t] \in Outside /\ Woken[t] \in Outside
      BY <2>2, PoolFacts DEF WakeUp, Woken, Outside
    <3>2. QED
      BY <2>2, <3>1, OutsideKeeps DEF WakeUp
  <2>3. CASE PollGraph(t)
    <3> DEFINE place == IF New(t) /\ Joins(t) THEN "start" ELSE "lock"
    <3>1. /\ pc[t] \in Outside /\ Look(t) /\ UNCHANGED Waiting
          /\ pc' = [pc EXCEPT ![t] = place]
      BY <2>3 DEF PollGraph, Outside, Goto
    <3>2. IF New(t) /\ Joins(t) THEN place = "start" ELSE place \in Outside
      BY DEF Outside
    <3> HIDE DEF place
    <3>3. QED
      BY <3>1, <3>2, LookKeeps
  <2>4. CASE Lock(t) /\ (stop \/ pause)
    <3>1. /\ pc[t] \in Outside /\ pc' = [pc EXCEPT ![t] = "top"] /\ "top" \in Outside
          /\ UNCHANGED <<Waiting, last_graph>>
      BY <2>4 DEF Lock, Outside, Goto
    <3>2. QED
      BY <3>1, OutsideKeeps
  <2>5. CASE Lock(t) /\ ~stop /\ ~pause
    <3> DEFINE place == IF ~New(t) THEN "asleep" ELSE IF Joins(t) THEN "start" ELSE "top"
    <3>1. /\ pc[t] \in Outside /\ Look(t) /\ UNCHANGED Waiting
          /\ pc' = [pc EXCEPT ![t] = place]
      BY <2>5 DEF Lock, Outside, Goto
    <3>2. IF New(t) /\ Joins(t) THEN place = "start" ELSE place \in Outside
      BY DEF Outside
    <3> HIDE DEF place
    <3>3. QED
      BY <3>1, <3>2, LookKeeps
  <2>6. QED
    BY <1>4, <2>1, <2>2, <2>3, <2>4, <2>5
<1>5. CASE UNCHANGED vars
  <2>1. /\ n_graph' = n_graph /\ stop' = stop /\ pause' = pause /\ last_graph' = last_graph
        /\ n_barrier' = n_barrier /\ n_barrier_passed' = n_barrier_passed
        /\ current_chunk' = current_chunk /\ abort' = abort /\ pc' = pc /\ local' = local
    BY <1>5 DEF vars, pool
  <2>2. Types' /\ Kickoff'
    BY <2>1 DEF BarrierInv, Types, Kickoff
  <2>3. Arrived' = Arrived /\ Members' = Members
    BY <2>1 DEF Arrived, Members
  <2>4. Counted'
    BY <2>1, <2>3 DEF BarrierInv, Counted, IsLast
  <2>5. ASSUME NEW t \in Threads
        PROVE  /\ Placed(t)' /\ Stage(t)' = Stage(t) /\ Mark(t)' = Mark(t)
               /\ (InNode(t)' <=> InNode(t))
    <3>1. (Released(t)' <=> Released(t)) /\ (Behind(t)' <=> Behind(t))
      BY <2>1 DEF Released, Behind
    <3>2. Point(t)' = Point(t)
      BY <2>1, <3>1 DEF Point
    <3>3. InNode(t)' <=> InNode(t)
      BY <3>2 DEF InNode
    <3>4. Stage(t)' = Stage(t)
      BY <2>1, <3>2, <3>3 DEF Stage
    <3>5. Mark(t)' = Mark(t)
      BY <2>1, <3>2, <3>3 DEF Mark, NodeOf
    <3>6. Placed(t)'
      BY <2>1, <2>3, <3>1 DEF BarrierInv, Placed, Leaving, Member, Over
    <3>7. QED
      BY <3>3, <3>4, <3>5, <3>6
  <2>6. Together'
    <3>1. \A t \in Members : t \in Threads
      BY PoolFacts DEF Members, Threads, BarrierInv, Types, Graphs
    <3>2. QED
      BY <2>1, <2>5, <3>1, TogetherStays DEF BarrierInv
  <2>7. AbortAhead'
    BY <2>1, <2>5, PoolFacts DEF BarrierInv, AbortAhead
  <2>8. QED
    BY <2>2, <2>4, <2>5, <2>6, <2>7 DEF BarrierInv
<1>6. QED
  BY <1>1, <1>2, <1>3, <1>4, <1>5, PoolFacts DEF Next, Runs

(* The threads of a graph pass each barrier together, for every number of  *)
(* threads, of nodes and of graphs (ggml_barrier, ggml_graph_compute and   *)
(* ggml_graph_compute_thread).                                             *)
THEOREM BarrierInvariant == Spec => []BarrierInv
<1>1. Init => BarrierInv
  BY BarrierInvInit
<1>2. BarrierInv /\ [Next]_vars => BarrierInv'
  BY BarrierInvNext
<1>3. QED
  BY <1>1, <1>2, PTL DEF Spec

(* The variables of the pool have their types; the barrier never counts    *)
(* more threads than there are (n_barrier in ggml_barrier), since those    *)
(* that have arrived are different threads of the graph.                   *)
THEOREM TypeCorrect == Spec => []TypeOK
<1>1. BarrierInv => TypeOK
  <2> SUFFICES ASSUME BarrierInv PROVE TypeOK
    OBVIOUS
  <2>1. n_barrier \in 0..NThreads
    <3>1. n_graph.n \in 0..NThreads /\ n_barrier \in Nat /\ NThreads \in Nat
      BY PoolFacts DEF BarrierInv, Types, Graphs
    <3>2. CASE \E t \in Threads : IsLast(t)
      BY <3>1, <3>2 DEF BarrierInv, Counted
    <3>3. CASE \A t \in Threads : ~IsLast(t)
      <4>1. n_barrier = Cardinality(Arrived)
        BY <3>3 DEF BarrierInv, Counted
      <4>2. Cardinality(Arrived) <= n_graph.n
        BY ArrivedAreMembers
      <4>3. QED
        BY <3>1, <4>1, <4>2
    <3>4. QED
      BY <3>2, <3>3
  <2>2. /\ n_graph \in [count : 0..MaxGraphs, n : 0..NThreads]
        /\ n_barrier_passed \in Nat /\ current_chunk \in Nat /\ abort \in -1..NNodes
        /\ stop \in BOOLEAN /\ pause \in BOOLEAN
    BY DEF BarrierInv, Types, Graphs
  <2>3. pc[0] \in Inside \union {"app", "kickoff", "broadcast", "wait", "join", "freed"}
    BY DEF BarrierInv, Types, MainPlaces, Idle
  <2>4. \A t \in Workers : pc[t] \in Inside \union Outside \union {"wait"}
    BY DEF BarrierInv, Types, WorkerPlaces
  <2>5. QED
    BY <2>1, <2>2, <2>3, <2>4 DEF TypeOK
<1>2. QED
  BY <1>1, BarrierInvariant, PTL

(* Whatever the order in which the threads run, no worker is still inside  *)
(* a graph when the main thread has returned from ggml_graph_compute, has  *)
(* begun to set the next graph up, or has freed the pool.                  *)
THEOREM WorkersOutside == Spec => []NoWorkerInside
<1>1. BarrierInv => NoWorkerInside
  <2> SUFFICES ASSUME BarrierInv, pc[0] \in Idle, NEW t \in Workers
               PROVE  pc[t] \notin Inside
    BY DEF NoWorkerInside, Idle
  <2>1. Stage(0) = "over"
    BY IdleIsOver DEF BarrierInv
  <2>2. QED
    BY <2>1, OverForAll, PoolFacts
<1>2. QED
  BY <1>1, BarrierInvariant, PTL

=============================================================================
