--------------------------- MODULE GgmlThreadpool ---------------------------
(***************************************************************************)
(* The CPU thread pool of ggml (ggml-cpu.c, pthreads): the main thread     *)
(* announces a graph, all of its threads compute the nodes in step, with a *)
(* barrier inside and after each node, and workers in between poll and     *)
(* then sleep.  Every node is a matrix product, whose chunks the threads   *)
(* take from a shared counter.                                             *)
(*                                                                         *)
(* A step is at most one access to a variable that another thread may      *)
(* change meanwhile (stop and pause count as one: they change only under   *)
(* the mutex, in one step).  What a thread does while it holds the mutex   *)
(* is one step, except in ggml_graph_compute_kickoff, where pollers read   *)
(* n_graph without it.  Memory is sequentially consistent: the code puts   *)
(* seq_cst operations or fences at the barrier and at the announcement.    *)
(*                                                                         *)
(* X_Fault stands beside X: a faulty variant of it, which no specification *)
(* uses; with it in place of X one of the properties below is violated.    *)
(***************************************************************************)
EXTENDS Integers, Bags

CONSTANTS
    NThreads,         \* size of the pool
    CplanThreads,     \* values of cplan->n_threads
    NNodes, Empty,    \* nodes of a graph; those of them without work
    NPlanned,         \* chunks of a node, by the size of the matrices alone
    MaxGraphs,        \* bound on the graphs computed
    MaxPauses         \* bound on the calls of ggml_threadpool_pause

ASSUME PoolAssumption ==
    /\ NThreads \in Nat \ {0} /\ CplanThreads \subseteq Nat \ {0}
    /\ NNodes \in Nat /\ NPlanned \in Nat \ {0}
    /\ MaxGraphs \in Nat /\ MaxPauses \in Nat

Threads == 0..(NThreads - 1)      \* 0 is the main thread
Workers == Threads \ {0}
Nodes   == 0..(NNodes - 1) \ Empty

(* Too few chunks for so many threads, and there will be one for each.     *)
NChunk(nth) == IF NPlanned < 4 * nth THEN nth ELSE NPlanned

VARIABLES
    n_graph,          \* number of the graph and its active threads
    n_barrier, n_barrier_passed, current_chunk,
    stop, pause, abort,
    pc,               \* where each thread is
    last_graph,       \* the n_graph each worker has seen
    local,            \* the local variables of each thread
    done,             \* the bag of chunks computed, of each node
    pauses            \* number of pauses so far

pool   == <<n_graph, stop, pause, last_graph, pauses>>
vars   == <<pool, n_barrier, n_barrier_passed, current_chunk, abort, pc, local, done>>

NoGraph == [count |-> 0, n |-> 0]

NoLocal == [nth |-> 0, node |-> 0, chunk |-> 0, n |-> 0, n_passed |-> 0, after |-> ""]

NotDone == [n \in Nodes |-> EmptyBag]

Init ==
    /\ n_graph = NoGraph /\ n_barrier = 0 /\ n_barrier_passed = 0
    /\ current_chunk = 0
    /\ stop = FALSE /\ pause \in BOOLEAN /\ abort = -1
    /\ pc = [t \in Threads |-> IF t = 0 THEN "app" ELSE "top"]
    /\ last_graph = [t \in Workers |-> NoGraph]
    /\ local = [t \in Threads |-> NoLocal]
    /\ done = NotDone /\ pauses = 0

Goto(t, label) == pc' = [pc EXCEPT ![t] = label]

(* The mutex is held across steps only by a kick-off. *)
MutexFree == pc[0] # "broadcast"

(* ggml_cond_broadcast; a thread that wakes must take the mutex again. *)
Woken == [t \in Threads |-> IF pc[t] = "asleep" THEN "lock"
                            ELSE IF pc[t] = "napping" THEN "awake"
                            ELSE pc[t]]

-----------------------------------------------------------------------------
(* The application, on the main thread. *)

(* ggml_graph_compute resets the pool for the new graph and kicks it off.  *)
Compute ==
    /\ pc[0] = "app" /\ n_graph.count < MaxGraphs
    /\ current_chunk' = 0 /\ abort' = -1
    /\ \E n \in CplanThreads :
          local' = [local EXCEPT ![0].nth = IF n > NThreads THEN NThreads ELSE n]
    /\ Goto(0, "kickoff")
    /\ UNCHANGED <<pool, n_barrier, n_barrier_passed, done>>

Announce ==
    /\ pc[0] = "kickoff"
    /\ n_graph' = [count |-> n_graph.count + 1, n |-> local[0].nth]
    /\ done' = NotDone
    /\ Goto(0, "broadcast")
    /\ UNCHANGED <<stop, pause, last_graph, pauses, n_barrier, n_barrier_passed,
                   current_chunk, abort, local>>

Broadcast ==
    /\ pc[0] = "broadcast"
    /\ pause' = FALSE
    /\ pc' = [Woken EXCEPT ![0] = "start"]
    /\ UNCHANGED <<n_graph, stop, last_graph, pauses, n_barrier, n_barrier_passed,
                   current_chunk, abort, local, done>>

Pause ==
    /\ pc[0] = "app" /\ pauses < MaxPauses /\ ~pause
    /\ pause' = TRUE /\ pauses' = pauses + 1 /\ pc' = Woken
    /\ UNCHANGED <<n_graph, stop, last_graph, n_barrier, n_barrier_passed,
                   current_chunk, abort, local, done>>

Resume ==
    /\ pc[0] = "app" /\ pause
    /\ pause' = FALSE /\ pc' = Woken
    /\ UNCHANGED <<n_graph, stop, last_graph, pauses, n_barrier, n_barrier_passed,
                   current_chunk, abort, local, done>>

Free_StaysPaused ==
    /\ pc[0] = "app"
    /\ stop' = TRUE /\ pc' = [Woken EXCEPT ![0] = "join"]
    /\ UNCHANGED <<n_graph, pause, last_graph, pauses, n_barrier, n_barrier_passed,
                   current_chunk, abort, local, done>>

Free ==
    /\ pc[0] = "app"
    /\ stop' = TRUE /\ pause' = FALSE /\ pc' = [Woken EXCEPT ![0] = "join"]
    /\ UNCHANGED <<n_graph, last_graph, pauses, n_barrier, n_barrier_passed,
                   current_chunk, abort, local, done>>

Join ==
    /\ pc[0] = "join" /\ \A t \in Workers : pc[t] = "exited"
    /\ Goto(0, "freed")
    /\ UNCHANGED <<pool, n_barrier, n_barrier_passed, current_chunk, abort,
                   local, done>>

-----------------------------------------------------------------------------
(* A worker between graphs: ggml_graph_compute_secondary_thread. *)

Waiting == <<n_graph, stop, pause, pauses, n_barrier, n_barrier_passed,
             current_chunk, abort, local, done>>

(* while (pause): the flag is read again under the mutex before sleeping.  *)
Top(t) ==
    /\ pc[t] = "top"
    /\ Goto(t, IF pause THEN "nap" ELSE "stop?")
    /\ UNCHANGED <<Waiting, last_graph>>

Nap(t) ==
    /\ pc[t] = "nap" /\ MutexFree
    /\ Goto(t, IF pause THEN "napping" ELSE "top")
    /\ UNCHANGED <<Waiting, last_graph>>

Awake(t) ==
    /\ pc[t] = "awake" /\ MutexFree
    /\ Goto(t, "top")
    /\ UNCHANGED <<Waiting, last_graph>>

CheckStop(t) ==
    /\ pc[t] = "stop?"
    /\ Goto(t, IF stop THEN "exited" ELSE "poll")
    /\ UNCHANGED <<Waiting, last_graph>>

(* One look at n_graph: a graph not seen before is noted, and the thread   *)
(* joins it if it is one of its threads (state->pending).                  *)
New(t)   == n_graph # last_graph[t]
Joins(t) == t < n_graph.n
Look(t)  == last_graph' = [last_graph EXCEPT ![t] = n_graph]

(* ggml_graph_compute_poll_for_work: stop and pause end the polling, as a  *)
(* new graph does, or the number of rounds.                                *)
Poll(t) ==
    /\ pc[t] = "poll"
    /\ Goto(t, IF stop \/ pause THEN "lock" ELSE "poll graph")
    /\ UNCHANGED <<Waiting, last_graph>>

PollGraph(t) ==
    /\ pc[t] = "poll graph"
    /\ Look(t)
    /\ Goto(t, IF New(t) /\ Joins(t) THEN "start" ELSE "lock")
    /\ UNCHANGED Waiting

(* ggml_graph_compute_check_for_work, under the mutex: sleep unless there  *)
(* is something to do.                                                     *)
Lock_NoSecondLook(t) ==
    /\ pc[t] = "lock" /\ MutexFree
    /\ Goto(t, IF stop \/ pause THEN "top" ELSE "asleep")
    /\ UNCHANGED <<Waiting, last_graph>>

Lock(t) ==
    /\ pc[t] = "lock" /\ MutexFree
    /\ \/ /\ stop \/ pause
          /\ Goto(t, "top") /\ UNCHANGED last_graph
       \/ /\ ~stop /\ ~pause
          /\ Look(t)
          /\ Goto(t, IF ~New(t) THEN "asleep" ELSE IF Joins(t) THEN "start" ELSE "top")
    /\ UNCHANGED Waiting

(* pthread_cond_wait may also return without a broadcast. *)
WakeUp(t) ==
    /\ pc[t] \in {"asleep", "napping"}
    /\ pc' = [pc EXCEPT ![t] = Woken[t]]
    /\ UNCHANGED <<Waiting, last_graph>>

-----------------------------------------------------------------------------
(* ggml_barrier; the threads that leave it go on at local.after.           *)

EnterBarrier(t, l, after) ==
    local' = [local EXCEPT ![t] = [l EXCEPT !.after = after]]

(* Back from the last barrier of a graph. *)
Leave(t) ==
    LET over == local[t].after \in {"app", "top"}
    IN  /\ Goto(t, local[t].after)
        /\ local' = IF over THEN [local EXCEPT ![t] = NoLocal]
                    ELSE [local EXCEPT ![t].n = 0, ![t].n_passed = 0, ![t].after = ""]

BarrierRead(t) ==
    /\ pc[t] = "barrier"
    /\ IF n_graph.n = 1 THEN Leave(t)
       ELSE /\ local' = [local EXCEPT ![t].n = n_graph.n,
                                      ![t].n_passed = n_barrier_passed]
            /\ Goto(t, "arrive")
    /\ UNCHANGED <<pool, n_barrier, n_barrier_passed, current_chunk, abort, done>>

Arrive(t) ==
    /\ pc[t] = "arrive"
    /\ n_barrier' = n_barrier + 1
    /\ Goto(t, IF n_barrier = local[t].n - 1 THEN "reset" ELSE "wait")
    /\ UNCHANGED <<pool, n_barrier_passed, current_chunk, abort, local, done>>

ResetBarrier_Keeps(t) ==
    /\ pc[t] = "reset"
    /\ Goto(t, "pass")
    /\ UNCHANGED <<pool, n_barrier, n_barrier_passed, current_chunk, abort, local,
                   done>>

ResetBarrier(t) ==
    /\ pc[t] = "reset"
    /\ n_barrier' = 0
    /\ Goto(t, "pass")
    /\ UNCHANGED <<pool, n_barrier_passed, current_chunk, abort, local, done>>

Pass(t) ==
    /\ pc[t] = "pass"
    /\ n_barrier_passed' = n_barrier_passed + 1
    /\ Leave(t)
    /\ UNCHANGED <<pool, n_barrier, current_chunk, abort, done>>

Wait(t) ==
    /\ pc[t] = "wait" /\ n_barrier_passed # local[t].n_passed
    /\ Leave(t)
    /\ UNCHANGED <<pool, n_barrier, n_barrier_passed, current_chunk, abort, done>>

-----------------------------------------------------------------------------
(* ggml_graph_compute_thread, in the main thread and the workers alike.    *)

Start(t) ==
    /\ pc[t] = "start"
    /\ local' = [local EXCEPT ![t].nth = n_graph.n]
    /\ Goto(t, "node")
    /\ UNCHANGED <<pool, n_barrier, n_barrier_passed, current_chunk, abort, done>>

(* The next node, or the end of the graph, which has a barrier too.        *)
End(t) == IF t = 0 THEN "app" ELSE "top"

Over(l) == l.node >= NNodes \/ abort = l.node

Skip(t) ==
    /\ pc[t] = "node" /\ ~Over(local[t]) /\ local[t].node \in Empty
    /\ local' = [local EXCEPT ![t].node = @ + 1]
    /\ UNCHANGED <<pool, n_barrier, n_barrier_passed, current_chunk, abort, pc, done>>

Finish_NoBarrier(t) ==
    /\ pc[t] = "node" /\ Over(local[t])
    /\ local' = [local EXCEPT ![t] = NoLocal] /\ Goto(t, End(t))
    /\ UNCHANGED <<pool, n_barrier, n_barrier_passed, current_chunk, abort, done>>

Finish(t) ==
    /\ pc[t] = "node" /\ Over(local[t])
    /\ EnterBarrier(t, local[t], End(t)) /\ Goto(t, "barrier")
    /\ UNCHANGED <<pool, n_barrier, n_barrier_passed, current_chunk, abort, done>>

(* The first part of a product ends with the main thread setting the       *)
(* counter past the chunks the threads begin with.                         *)
Node_FromLastChunk(t) ==
    /\ pc[t] = "node" /\ ~Over(local[t]) /\ local[t].node \notin Empty
    /\ current_chunk' = IF t = 0 THEN local[t].nth - 1 ELSE current_chunk
    /\ EnterBarrier(t, [local[t] EXCEPT !.chunk = t], "chunks") /\ Goto(t, "barrier")
    /\ UNCHANGED <<pool, n_barrier, n_barrier_passed, abort, done>>

Node(t) ==
    /\ pc[t] = "node" /\ ~Over(local[t]) /\ local[t].node \notin Empty
    /\ current_chunk' = IF t = 0 THEN local[t].nth ELSE current_chunk
    /\ EnterBarrier(t, [local[t] EXCEPT !.chunk = t], "chunks") /\ Goto(t, "barrier")
    /\ UNCHANGED <<pool, n_barrier, n_barrier_passed, abort, done>>

(* One chunk, and the fetch of the next one.                               *)
DoChunk(t) ==
    LET l == local[t]
    IN  /\ pc[t] = "chunks" /\ l.chunk < NChunk(l.nth)
        /\ done' = [done EXCEPT ![l.node] = @ (+) SetToBag({l.chunk})]
        /\ IF l.nth >= NChunk(l.nth)
           THEN Goto(t, "abort?") /\ UNCHANGED <<current_chunk, local>>
           ELSE /\ local' = [local EXCEPT ![t].chunk = current_chunk]
                /\ current_chunk' = current_chunk + 1
                /\ UNCHANGED pc
        /\ UNCHANGED <<pool, n_barrier, n_barrier_passed, abort>>

NoChunk(t) ==
    /\ pc[t] = "chunks" /\ local[t].chunk >= NChunk(local[t].nth)
    /\ Goto(t, "abort?")
    /\ UNCHANGED <<pool, n_barrier, n_barrier_passed, current_chunk, abort, local,
                   done>>

(* The main thread may be told to abort, after the node.  A barrier        *)
(* separates the nodes.                                                    *)
Aborts(t, node) ==
    \/ UNCHANGED abort
    \/ t = 0 /\ abort' = node + 1

AfterNode(t) ==
    LET l    == local[t]
        next == [l EXCEPT !.node = @ + 1, !.chunk = 0]
    IN  /\ pc[t] = "abort?"
        /\ Aborts(t, l.node)
        /\ IF l.node + 1 < NNodes
           THEN EnterBarrier(t, next, "node") /\ Goto(t, "barrier")
           ELSE local' = [local EXCEPT ![t] = next] /\ Goto(t, "node")
        /\ UNCHANGED <<pool, n_barrier, n_barrier_passed, current_chunk, done>>

-----------------------------------------------------------------------------
Application == Compute \/ Pause \/ Resume \/ Free

Works(t) == \/ BarrierRead(t) \/ Arrive(t) \/ ResetBarrier(t) \/ Pass(t) \/ Wait(t)
            \/ Start(t) \/ Skip(t) \/ Finish(t) \/ Node(t)
            \/ DoChunk(t) \/ NoChunk(t) \/ AfterNode(t)

Runs(t) == \/ Works(t)
           \/ t = 0 /\ (Announce \/ Broadcast \/ Join)
           \/ t # 0 /\ \/ Top(t) \/ Nap(t) \/ Awake(t) \/ CheckStop(t)
                       \/ Poll(t) \/ PollGraph(t) \/ Lock(t)

Next == \/ Application
        \/ \E t \in Threads : Runs(t)
        \/ \E t \in Workers : WakeUp(t)

Spec     == Init /\ [][Next]_vars
(* Every thread is scheduled; the application may do nothing, and nothing  *)
(* wakes a sleeper but a broadcast.                                        *)
FairSpec == Spec /\ \A t \in Threads : WF_vars(Runs(t))

-----------------------------------------------------------------------------
Inside == {"start", "node", "chunks", "abort?", "barrier", "arrive", "reset", "pass"}

Outside == {"top", "nap", "napping", "awake", "stop?", "poll", "poll graph",
            "lock", "asleep", "exited"}

(* The variables have their types; the barrier's count (ggml_barrier)      *)
(* never exceeds the number of threads.                                    *)
TypeOK ==
    /\ n_graph \in [count : 0..MaxGraphs, n : 0..NThreads]
    /\ n_barrier \in 0..NThreads /\ n_barrier_passed \in Nat
    /\ current_chunk \in Nat /\ abort \in -1..NNodes
    /\ stop \in BOOLEAN /\ pause \in BOOLEAN
    /\ pc[0] \in Inside \union {"app", "kickoff", "broadcast", "wait", "join", "freed"}
    /\ \A t \in Workers : pc[t] \in Inside \union Outside \union {"wait"}

(* "No worker threads should be accessing the parameters below at this     *)
(* stage" (ggml_graph_compute, ggml-cpu.c:3227): while the main thread is  *)
(* not computing a graph, no worker is; at most it has yet to notice that  *)
(* the last barrier is open.                                               *)
NoWorkerInside ==
    pc[0] \in {"app", "kickoff", "join", "freed"} => \A t \in Workers : pc[t] \notin Inside

(* Together the threads compute the graph as one would: node after node,   *)
(* each chunk once, and none after the node at which the main thread was   *)
(* told to abort; ggml_graph_compute returns when all of that is done.     *)
Graph == INSTANCE GraphExecution WITH
    busy   <- pc[0] \notin {"app", "kickoff", "join", "freed"},
    nchunk <- NChunk(n_graph.n),
    limit  <- IF pc[0] \in {"app", "kickoff", "join", "freed"} \/ abort = -1
              THEN NNodes ELSE abort

ComputesGraph == Graph!Spec

(* No wake-up is lost and no barrier blocks: a graph that was begun ends,  *)
(* and the workers of a pool that is freed exit.                           *)
EveryGraphEnds == pc[0] = "kickoff" ~> pc[0] = "app"
PoolStops      == pc[0] = "join" ~> pc[0] = "freed"

=============================================================================
