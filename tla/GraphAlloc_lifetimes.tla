------------------------ MODULE GraphAlloc_lifetimes ------------------------
(***************************************************************************)
(* What is proved of the tensors of a graph, on top of GraphAlloc_proofs:  *)
(* for every graph, all sizes and every alignment,                         *)
(*                                                                         *)
(*  - while a graph is planned the counters of a tensor are the uses and   *)
(*    views that are left, and it holds memory as long as one is, so that  *)
(*    none is left with memory at the end (LifeInv, MemoryIsFreed);        *)
(*  - a plan keeps apart whatever is needed at the same time, wherever it  *)
(*    is used again: also for another graph of the same make whose tensors *)
(*    fit the planned rooms.  So each tensor holds its value as long as    *)
(*    somebody reads it (ExecInv, InputsStayIntact, ResultsSurvive);       *)
(*  - the chunks there are suffice if all tensors fit the last of them     *)
(*    (ChunksSuffice).                                                     *)
(***************************************************************************)
EXTENDS GraphAlloc_proofs

(* The uses of t that are left when the first j sources of node k, and     *)
(* those of all nodes before it, are done with; and its views that are     *)
(* still to be used, or never are.                                         *)
Left(t, k, j) == {u \in Uses(t) : u[1] > k \/ (u[1] = k /\ u[2] > j)}

StillViews(t, k, j) ==
    {i \in Views(t) : Left(graph.nodes[i], k, j) # {} \/ Uses(graph.nodes[i]) = {}}

GraphIs == TensorsOk(tensors) /\ Wellformed(tensors, graph) /\ Lists(tensors, graph) = T

LEMMA UsesIs ==
    ASSUME GraphIs, NEW t \in T
    PROVE  /\ \A i, l : <<i, l>> \in Uses(t) <=>
                 /\ i \in 1..Len(graph.nodes) /\ l \in 1..Len(Src(graph.nodes[i]))
                 /\ Src(graph.nodes[i])[l] = t
           /\ \A u \in Uses(t) : u = <<u[1], u[2]>> /\ u[1] \in 1..Len(graph.nodes)
                                 /\ u[2] \in 1..Len(Src(graph.nodes[u[1]]))
                                 /\ Src(graph.nodes[u[1]])[u[2]] = t
           /\ IsFiniteSet(Uses(t))
<1> DEFINE n == Len(graph.nodes)
           I == 1..n
           Of(i) == {k \in DOMAIN Src(graph.nodes[i]) : Src(graph.nodes[i])[k] = t}
<1>1. /\ TensorsOk(tensors) /\ graph.nodes \in Seq(T)
      /\ \A i \in I : graph.nodes[i] \in T /\ Src(graph.nodes[i]) \in Seq(T)
  BY ListedSeqs DEF GraphIs
<1>2. n \in Nat /\ DOMAIN graph.nodes = I
  BY <1>1
<1>3. \A i \in I : DOMAIN Src(graph.nodes[i]) = 1..Len(Src(graph.nodes[i]))
  BY <1>1
<1>4. Uses(t) = UNION {{<<i, j>> : j \in Of(i)} : i \in I}
  BY <1>2 DEF Uses
<1>5. \A i, l : <<i, l>> \in Uses(t) <=> i \in I /\ l \in Of(i)
  <2> HIDE DEF Of, I
  <2>1. QED
    BY <1>4
<1>6. \A u \in Uses(t) : u = <<u[1], u[2]>> /\ u[1] \in I /\ u[2] \in Of(u[1])
  <2> HIDE DEF Of, I
  <2>1. QED
    BY <1>4
<1>7. IsFiniteSet(Uses(t))
  BY <1>1, UsesFinite
<1>8. QED
  BY <1>3, <1>5, <1>6, <1>7

(* Uses go one by one: that of p as source j of node k is over. *)
UseGone(p, k, j) ==
    /\ <<k, j>> \in Left(p, k, j - 1) /\ Left(p, k, j) = Left(p, k, j - 1) \ {<<k, j>>}
    /\ \A t \in T : t # p => Left(t, k, j) = Left(t, k, j - 1)

LEMMA LeftOne ==
    ASSUME GraphIs, NEW k \in 1..Len(graph.nodes), NEW j \in 1..Len(Src(graph.nodes[k])),
           NEW p \in T, p = Src(graph.nodes[k])[j]
    PROVE  UseGone(p, k, j)
<1>1. Len(graph.nodes) \in Nat /\ Len(Src(graph.nodes[k])) \in Nat
  BY ListedSeqs DEF GraphIs
<1>2. k \in Nat /\ j \in Nat
  BY <1>1
<1>3. ASSUME NEW t \in T, NEW u \in Uses(t)
      PROVE  /\ u \in Left(t, k, j - 1) <=> u \in Left(t, k, j) \/ (u[1] = k /\ u[2] = j)
             /\ u \in Left(t, k, j) => ~(u[1] = k /\ u[2] = j)
             /\ u[1] = k /\ u[2] = j => u = <<k, j>> /\ t = p
  <2>1. /\ u = <<u[1], u[2]>> /\ u[1] \in 1..Len(graph.nodes)
        /\ u[2] \in 1..Len(Src(graph.nodes[u[1]])) /\ Src(graph.nodes[u[1]])[u[2]] = t
    BY <1>3, UsesIs
  <2> DEFINE a == u[1]
             b == u[2]
  <2>2. a \in Nat /\ b \in Nat
    <3>1. graph.nodes[a] \in T /\ Src(graph.nodes[a]) \in Seq(T)
      BY <2>1, ListedSeqs DEF GraphIs
    <3>2. Len(Src(graph.nodes[a])) \in Nat
      BY <3>1
    <3>3. QED
      BY <1>1, <2>1, <3>2
  <2>3. /\ u \in Left(t, k, j - 1) <=> a > k \/ (a = k /\ b > j - 1)
        /\ u \in Left(t, k, j) <=> a > k \/ (a = k /\ b > j)
    BY <1>3 DEF Left
  <2>4. a = k /\ b = j => u = <<k, j>> /\ t = p
    BY <2>1
  <2> HIDE DEF a, b
  <2>5. /\ a > k \/ (a = k /\ b > j - 1) <=> (a > k \/ (a = k /\ b > j)) \/ (a = k /\ b = j)
        /\ a > k \/ (a = k /\ b > j) => ~(a = k /\ b = j)
    BY <1>2, <2>2
  <2>6. QED
    BY <2>3, <2>4, <2>5 DEF a, b
<1>4. <<k, j>> \in Uses(p)
  BY UsesIs
<1>5. <<k, j>>[1] = k /\ <<k, j>>[2] = j
  OBVIOUS
<1>6. <<k, j>> \in Left(p, k, j - 1)
  BY <1>3, <1>4, <1>5
<1>7. ASSUME NEW t \in T
      PROVE  Left(t, k, j) \subseteq Uses(t) /\ Left(t, k, j - 1) \subseteq Uses(t)
  BY DEF Left
<1>8. Left(p, k, j) = Left(p, k, j - 1) \ {<<k, j>>}
  <2>1. ASSUME NEW u PROVE u \in Left(p, k, j) <=> u \in Left(p, k, j - 1) /\ u # <<k, j>>
    BY <1>3, <1>5, <1>7
  <2>2. QED
    BY <2>1
<1>9. ASSUME NEW t \in T, t # p PROVE Left(t, k, j) = Left(t, k, j - 1)
  <2>1. ASSUME NEW u PROVE u \in Left(t, k, j) <=> u \in Left(t, k, j - 1)
    BY <1>3, <1>7, <1>9
  <2>2. QED
    BY <2>1
<1>10. QED
  BY <1>6, <1>8, <1>9 DEF UseGone

(* All are left at first; and with the last source of a node the next      *)
(* node's turn comes.                                                      *)
LEMMA LeftFirst ==
    ASSUME GraphIs, NEW t \in T
    PROVE  Left(t, 1, 0) = Uses(t)
<1>1. ASSUME NEW u \in Uses(t) PROVE u[1] > 1 \/ (u[1] = 1 /\ u[2] > 0)
  <2>1. u[1] \in 1..Len(graph.nodes) /\ u[2] \in 1..Len(Src(graph.nodes[u[1]]))
    BY UsesIs
  <2>2. graph.nodes[u[1]] \in T /\ Src(graph.nodes[u[1]]) \in Seq(T) /\ Len(graph.nodes) \in Nat
    BY <2>1, ListedSeqs DEF GraphIs
  <2>3. Len(Src(graph.nodes[u[1]])) \in Nat
    BY <2>2
  <2> DEFINE a == u[1]
             b == u[2]
             la == Len(graph.nodes)
             lb == Len(Src(graph.nodes[u[1]]))
  <2>4. a \in 1..la /\ b \in 1..lb /\ la \in Nat /\ lb \in Nat
    BY <2>1, <2>2, <2>3
  <2> HIDE DEF a, b, la, lb
  <2>5. a > 1 \/ (a = 1 /\ b > 0)
    BY <2>4
  <2>6. QED
    BY <2>5 DEF a, b
<1>2. QED
  BY <1>1 DEF Left

LEMMA LeftNext ==
    ASSUME GraphIs, NEW k \in 1..Len(graph.nodes), NEW t \in T
    PROVE  /\ Left(t, k, Len(Src(graph.nodes[k]))) = Left(t, k + 1, 0)
           /\ StillViews(t, k, Len(Src(graph.nodes[k]))) = StillViews(t, k + 1, 0)
<1> DEFINE n == Len(Src(graph.nodes[k]))
<1>0. Len(graph.nodes) \in Nat /\ DOMAIN graph.nodes = 1..Len(graph.nodes)
      /\ \A i \in 1..Len(graph.nodes) : graph.nodes[i] \in T
  BY ListedSeqs DEF GraphIs
<1>1. ASSUME NEW v \in T PROVE Left(v, k, n) = Left(v, k + 1, 0)
  <2>1. ASSUME NEW u \in Uses(v)
        PROVE  u[1] > k \/ (u[1] = k /\ u[2] > n) <=> u[1] > k + 1 \/ (u[1] = k + 1 /\ u[2] > 0)
    <3> DEFINE a == u[1]
               b == u[2]
               la == Len(graph.nodes)
               lb == Len(Src(graph.nodes[a]))
    <3>1. a \in 1..la /\ b \in 1..lb /\ la \in Nat
      BY <1>0, <2>1, UsesIs
    <3>2. Src(graph.nodes[a]) \in Seq(T)
      BY <3>1, ListedSeqs DEF GraphIs
    <3>3. lb \in Nat /\ (a = k => lb = n)
      BY <3>2
    <3>4. k \in Nat
      BY <1>0
    <3> HIDE DEF a, b, la, lb, n
    <3>5. a > k \/ (a = k /\ b > n) <=> a > k + 1 \/ (a = k + 1 /\ b > 0)
      BY <3>1, <3>3, <3>4
    <3>6. QED
      BY <3>5 DEF a, b
  <2>2. QED
    BY <2>1 DEF Left
<1>2. StillViews(t, k, n) = StillViews(t, k + 1, 0)
  <2>1. \A i \in Views(t) : graph.nodes[i] \in T
    BY <1>0 DEF Views
  <2> HIDE DEF n
  <2>2. \A i \in Views(t) : Left(graph.nodes[i], k, n) = Left(graph.nodes[i], k + 1, 0)
    BY <1>1, <2>1
  <2>3. QED
    BY <2>2 DEF StillViews
<1>3. QED
  BY <1>1, <1>2

(* A view has no views; and when the last use of a view is over, there is  *)
(* one view less to be used.                                               *)
ViewGone(p, k, j) ==
    LET root == tensors[p].root IN
    /\ \A t \in T : t # root => StillViews(t, k, j) = StillViews(t, k, j - 1)
    /\ root # 0 /\ Left(p, k, j) # {} => StillViews(root, k, j) = StillViews(root, k, j - 1)
    /\ root # 0 /\ Left(p, k, j) = {} => \E i \in StillViews(root, k, j - 1) :
          graph.nodes[i] = p /\ StillViews(root, k, j) = StillViews(root, k, j - 1) \ {i}

LEMMA NoViewsOfViews ==
    ASSUME GraphIs, NEW t \in T, tensors[t].root # 0
    PROVE  Views(t) = {}
<1> SUFFICES ASSUME NEW i \in Views(t) PROVE FALSE
  OBVIOUS
<1>1. i \in DOMAIN graph.nodes /\ tensors[graph.nodes[i]].root = t
  BY DEF Views
<1> DEFINE v == graph.nodes[i]
<1>2. v \in T /\ v \in 1..Len(tensors)
  BY <1>1, ListedSeqs DEF GraphIs, T, TensorsOk
<1>3. TensorOk(tensors, v)
  BY <1>2 DEF GraphIs, TensorsOk
<1>4. t # 0
  BY DEF GraphIs, TensorsOk, T
<1> HIDE DEF v
<1>5. tensors[tensors[v].root].root = 0
  BY <1>1, <1>3, <1>4 DEF TensorOk, v
<1>6. QED
  BY <1>1, <1>5 DEF v

LEMMA ViewsOne ==
    ASSUME GraphIs, NEW k \in 1..Len(graph.nodes), NEW j \in 1..Len(Src(graph.nodes[k])),
           NEW p \in T, p = Src(graph.nodes[k])[j]
    PROVE  ViewGone(p, k, j)
<1> DEFINE root == tensors[p].root
<1>1. /\ DOMAIN graph.nodes = 1..Len(graph.nodes)
      /\ \A i \in 1..Len(graph.nodes) : graph.nodes[i] \in T
  BY ListedSeqs DEF GraphIs
<1>2. UseGone(p, k, j)
  BY LeftOne
<1>3. ASSUME NEW i \in 1..Len(graph.nodes)
      PROVE  /\ graph.nodes[i] # p => Left(graph.nodes[i], k, j) = Left(graph.nodes[i], k, j - 1)
             /\ graph.nodes[i] = p => Left(graph.nodes[i], k, j - 1) # {}
                                      /\ Uses(graph.nodes[i]) # {}
  <2>1. Left(p, k, j - 1) \subseteq Uses(p)
    BY DEF Left
  <2>2. QED
    BY <1>1, <1>2, <1>3, <2>1 DEF UseGone
<1>4. ASSUME NEW t \in T, t # root PROVE StillViews(t, k, j) = StillViews(t, k, j - 1)
  <2>1. \A i \in Views(t) : i \in 1..Len(graph.nodes) /\ graph.nodes[i] # p
    BY <1>1, <1>4 DEF Views
  <2>2. QED
    BY <1>3, <2>1 DEF StillViews
<1>5. ASSUME root # 0, Left(p, k, j) # {}
      PROVE  StillViews(root, k, j) = StillViews(root, k, j - 1)
  <2>1. \A i \in Views(root) : i \in 1..Len(graph.nodes)
    BY <1>1 DEF Views
  <2>2. \A i \in Views(root) : (Left(graph.nodes[i], k, j) # {} \/ Uses(graph.nodes[i]) = {})
                          <=> (Left(graph.nodes[i], k, j - 1) # {} \/ Uses(graph.nodes[i]) = {})
    BY <1>3, <1>5, <2>1
  <2>3. QED
    BY <2>2 DEF StillViews
<1>6. ASSUME root # 0, Left(p, k, j) = {}
      PROVE  \E i \in StillViews(root, k, j - 1) :
                graph.nodes[i] = p /\ StillViews(root, k, j) = StillViews(root, k, j - 1) \ {i}
  <2>1. PICK i \in 1..Len(graph.nodes) : graph.nodes[i] = p
    <3>1. p \in Lists(tensors, graph) /\ tensors[p].kind \in Sharers
      BY <1>6 DEF GraphIs, TensorsOk, TensorOk, T
    <3>2. \A m \in 1..Len(graph.leafs) : graph.leafs[m] # p
      BY <3>1 DEF GraphIs, Wellformed, LeafsOk, IsLeaf, Sharers
    <3>3. QED
      BY <3>1, <3>2 DEF Lists
  <2>2. \A m \in 1..Len(graph.nodes) : m # i => graph.nodes[m] # p
    BY <2>1 DEF GraphIs, Wellformed, NodesOk
  <2>3. i \in Views(root)
    BY <1>1, <2>1 DEF Views
  <2>4. i \in StillViews(root, k, j - 1) /\ i \notin StillViews(root, k, j)
    BY <1>3, <1>6, <2>1, <2>3 DEF StillViews
  <2>5. \A m \in Views(root) : m \in 1..Len(graph.nodes)
    BY <1>1 DEF Views
  <2>6. \A m \in Views(root) : m # i =>
           Left(graph.nodes[m], k, j) = Left(graph.nodes[m], k, j - 1)
    BY <1>3, <2>2, <2>5
  <2>7. \A m \in Views(root) : m # i =>
           (m \in StillViews(root, k, j) <=> m \in StillViews(root, k, j - 1))
    BY <2>6 DEF StillViews
  <2>8. StillViews(root, k, j) \subseteq Views(root) /\ StillViews(root, k, j - 1) \subseteq Views(root)
    BY DEF StillViews
  <2>9. StillViews(root, k, j) = StillViews(root, k, j - 1) \ {i}
    BY <2>4, <2>7, <2>8
  <2>10. QED
    BY <2>1, <2>4, <2>9
<1>7. QED
  BY <1>4, <1>5, <1>6 DEF ViewGone

-----------------------------------------------------------------------------
(* What the steps of planning do to the hash values, tensor by tensor, and *)
(* to the extent of the chunks, which never shrink.                        *)
Sized(cs, ds) ==
    /\ Len(ds) <= Len(cs)
    /\ \A c \in 1..Len(ds) : ds[c].max_size <= cs[c].max_size

SameCounts(h, g, t) == h[t].children = g[t].children /\ h[t].views = g[t].views

SameHolding(h, g, t) == h[t].addr = g[t].addr /\ h[t].allocated = g[t].allocated

(* A tensor that is used no more is freed, unless it is an output.         *)
Released(r, s, t) ==
    /\ Sized(r.chunks, s.chunks)
    /\ \A u \in T : SameCounts(r.hash, s.hash, u) /\ r.hash[u].addr = s.hash[u].addr
    /\ \A u \in T : u # t => r.hash[u].allocated = s.hash[u].allocated
    /\ r.hash[t].allocated = TRUE <=>
          /\ s.hash[t].allocated = TRUE
          /\ \/ s.hash[t].children # 0 \/ s.hash[t].views # 0
             \/ tensors[t].output = TRUE

LEMMA SizedSame ==
    ASSUME NEW cs \in Seq(Chunk)
    PROVE  Sized(cs, cs)
BY ChunkTyped DEF Sized

LEMMA FreeBytesSized ==
    ASSUME NEW cs \in Seq(Chunk), NEW addr, NEW bytes
    PROVE  Sized(FreeBytes(cs, addr, bytes), cs)
<1> DEFINE f == Freed(cs[addr.chunk].free, Block(addr.offset, Aligned(bytes)))
           c == addr.chunk
           new == [cs[c] EXCEPT !.free = f]
<1>1. FreeBytes(cs, addr, bytes) = [cs EXCEPT ![c] = new]
  BY DEF FreeBytes
<1>2. /\ DOMAIN cs = 1..Len(cs) /\ Len(cs) \in Nat
      /\ \A d \in 1..Len(cs) : cs[d] \in Chunk /\ cs[d].max_size \in Nat
  BY ChunkTyped
<1>3. c \in 1..Len(cs) => new.max_size = cs[c].max_size
  <2> HIDE DEF f, c
  <2>1. QED
    BY <1>2 DEF Chunk
<1> HIDE DEF new, c
<1> DEFINE ds == [cs EXCEPT ![c] = new]
<1>4. Len(ds) = Len(cs) /\ \A d \in 1..Len(cs) : ds[d] = IF d = c THEN new ELSE cs[d]
  BY <1>2
<1> HIDE DEF ds
<1>5. Sized(ds, cs)
  BY <1>2, <1>3, <1>4 DEF Sized
<1>6. QED
  BY <1>1, <1>5 DEF ds

LEMMA FreeIfUnusedIs ==
    ASSUME TensorsOk(tensors), NEW s, MemOk(s), NEW t \in T
    PROVE  Released(FreeIfUnused(s, t), s, t)
<1>1. /\ s \in States /\ s.hash \in [T -> HashEntry] /\ s.chunks \in Seq(Chunk)
      /\ s.hash[t].allocated \in BOOLEAN
  BY HashTyped DEF MemOk, States
<1>2. tensors[t].output \in BOOLEAN
  <2>1. tensors \in Seq(TensorRecord) /\ t \in 1..Len(tensors)
    BY DEF TensorsOk, T
  <2>2. tensors[t] \in TensorRecord
    BY <2>1, ElementOfSeq
  <2>3. QED
    BY <2>2 DEF TensorRecord
<1>3. CASE Unused(s, t) /\ s.hash[t].allocated = TRUE /\ tensors[t].output = FALSE
  <2> DEFINE h == [s.hash EXCEPT ![t].allocated = FALSE]
             cs == FreeBytes(s.chunks, s.hash[t].addr, tensors[t].size)
  <2>1. FreeIfUnused(s, t) = State(cs, h)
    BY <1>3 DEF FreeIfUnused, FreeNode
  <2>2. \A u \in T : /\ h[u].children = s.hash[u].children /\ h[u].views = s.hash[u].views
                     /\ h[u].addr = s.hash[u].addr
                     /\ u # t => h[u].allocated = s.hash[u].allocated
                     /\ u = t => h[u].allocated = FALSE
    BY <1>1 DEF HashEntry
  <2>3. Sized(cs, s.chunks)
    BY <1>1, FreeBytesSized
  <2> HIDE DEF h, cs
  <2>4. State(cs, h).chunks = cs /\ State(cs, h).hash = h
    BY DEF State
  <2>5. QED
    BY <1>3, <2>1, <2>2, <2>3, <2>4 DEF Released, SameCounts, Unused
<1>4. CASE ~(Unused(s, t) /\ s.hash[t].allocated = TRUE /\ tensors[t].output = FALSE)
  <2>1. FreeIfUnused(s, t) = s
    BY <1>1, <1>2, <1>4 DEF FreeIfUnused, FreeNode
  <2>2. Sized(s.chunks, s.chunks)
    BY <1>1, SizedSame
  <2>3. QED
    BY <1>1, <1>2, <1>4, <2>1, <2>2 DEF Released, SameCounts, Unused
<1>5. QED
  BY <1>1, <1>2, <1>3, <1>4

(* A use of p is over.                                                     *)
LastUse(s, p) == s.hash[p].children = 1 /\ s.hash[p].views = 0

OneUseLess(r, s, p) ==
    LET owner == RootOf(tensors, p) IN
    /\ Sized(r.chunks, s.chunks)
    /\ \A t \in T :
          /\ r.hash[t].addr = s.hash[t].addr
          /\ r.hash[t].children = s.hash[t].children - (IF t = p THEN 1 ELSE 0)
          /\ r.hash[t].views = s.hash[t].views
                               - (IF LastUse(s, p) /\ tensors[p].root = t THEN 1 ELSE 0)
          /\ t # owner => r.hash[t].allocated = s.hash[t].allocated
    /\ r.hash[owner].allocated = TRUE <=>
          /\ s.hash[owner].allocated = TRUE
          /\ \/ ~LastUse(s, p) \/ tensors[owner].output = TRUE
             \/ r.hash[owner].children # 0 \/ r.hash[owner].views # 0

LEMMA UseOverIs ==
    ASSUME TensorsOk(tensors), NEW s, MemOk(s), NEW p \in T
    PROVE  OneUseLess(UseOver(s, p), s, p)
<1> DEFINE x == [s.hash[p] EXCEPT !.children = s.hash[p].children - 1]
           less == [s EXCEPT !.hash = [@ EXCEPT ![p] = x]]
           root == tensors[p].root
           y == [less.hash[root] EXCEPT !.views = less.hash[root].views - 1]
           fewer == [less EXCEPT !.hash = [@ EXCEPT ![root] = y]]
<1>1. s \in States /\ s.hash \in [T -> HashEntry] /\ s.chunks \in Seq(Chunk)
  BY DEF MemOk, States
<1>2. /\ x \in HashEntry /\ x.addr = s.hash[p].addr /\ x.allocated = s.hash[p].allocated
      /\ x.children = s.hash[p].children - 1 /\ x.views = s.hash[p].views
      /\ s.hash[p].children \in Int /\ s.hash[p].views \in Int
  <2> DEFINE k == s.hash[p].children - 1
  <2>1. k \in Int /\ s.hash[p] \in HashEntry /\ s.hash[p].children \in Int /\ s.hash[p].views \in Int
    BY <1>1, HashTyped
  <2> HIDE DEF k
  <2>2. QED
    BY <2>1 DEF HashEntry
<1>3. UseOver(s, p) = IF ~Unused(less, p) THEN less
                      ELSE IF IsView(tensors, p) THEN FreeIfUnused(fewer, root)
                      ELSE FreeIfUnused(less, p)
  <2>1. less = [s EXCEPT !.hash[p].children = @ - 1]
    OBVIOUS
  <2> HIDE DEF less
  <2>2. fewer = [less EXCEPT !.hash[root].views = @ - 1]
    OBVIOUS
  <2> HIDE DEF fewer
  <2>3. QED
    BY <2>1, <2>2 DEF UseOver
<1> HIDE DEF x
<1>4. MemOk(less)
  BY <1>2, CountedOk
<1>5. /\ less.chunks = s.chunks
      /\ less.hash \in [T -> HashEntry] /\ less.hash[p] = x
      /\ \A t \in T : t # p => less.hash[t] = s.hash[t]
  BY <1>1, <1>2 DEF States
<1> HIDE DEF less
<1>6. Unused(less, p) <=> LastUse(s, p)
  <2> DEFINE k == s.hash[p].children
  <2>1. k \in Int
    BY <1>2
  <2>2. less.hash[p].children = k - 1 /\ less.hash[p].views = s.hash[p].views
    BY <1>2, <1>5
  <2> HIDE DEF k
  <2>3. less.hash[p].children = 0 <=> k = 1
    BY <2>1, <2>2
  <2>4. QED
    BY <2>2, <2>3 DEF Unused, LastUse, k
<1>7. IsView(tensors, p) =>
         /\ MemOk(fewer) /\ root \in T /\ root # p /\ fewer.chunks = s.chunks
         /\ fewer.hash[root] = y /\ \A t \in T : t # root => fewer.hash[t] = less.hash[t]
  <2> SUFFICES ASSUME IsView(tensors, p)
               PROVE  /\ MemOk(fewer) /\ root \in T /\ root # p /\ fewer.chunks = s.chunks
                      /\ fewer.hash[root] = y
                      /\ \A t \in T : t # root => fewer.hash[t] = less.hash[t]
    OBVIOUS
  <2>1. root \in T /\ root # p
    BY DEF TensorsOk, TensorOk, T, IsView
  <2>2. less.hash \in [T -> HashEntry] /\ less \in States
    BY <1>4 DEF MemOk, States
  <2>3. y \in HashEntry /\ y.addr = less.hash[root].addr /\ y.allocated = less.hash[root].allocated
    <3> DEFINE k == less.hash[root].views - 1
    <3>1. k \in Int /\ less.hash[root] \in HashEntry
      <4> HIDE DEF root
      <4>1. QED
        BY <2>1, <2>2, HashTyped
    <3> HIDE DEF k
    <3>2. QED
      BY <3>1 DEF HashEntry
  <2> HIDE DEF y, root
  <2>4. MemOk(fewer)
    BY <1>4, <2>1, <2>3, CountedOk
  <2>5. QED
    BY <1>5, <2>1, <2>2, <2>3, <2>4 DEF States
<1> HIDE DEF fewer
<1>8. CASE ~LastUse(s, p)
  <2>1. UseOver(s, p) = less
    BY <1>3, <1>6, <1>8
  <2>2. Sized(less.chunks, s.chunks)
    BY <1>1, <1>5, SizedSame
  <2>3. \A t \in T : /\ less.hash[t].addr = s.hash[t].addr
                     /\ less.hash[t].views = s.hash[t].views
                     /\ less.hash[t].allocated = s.hash[t].allocated
                     /\ t # p => less.hash[t].children = s.hash[t].children
                     /\ t = p => less.hash[t].children = s.hash[t].children - 1
    BY <1>2, <1>5
  <2>4. RootOf(tensors, p) \in T
    BY DEF TensorsOk, TensorOk, T, RootOf
  <2>5. \A t \in T : s.hash[t].children \in Int /\ s.hash[t].views \in Int
    BY <1>1, HashTyped
  <2>6. QED
    BY <1>8, <2>1, <2>2, <2>3, <2>4, <2>5 DEF OneUseLess
<1>9. CASE LastUse(s, p) /\ ~IsView(tensors, p)
  <2>1. UseOver(s, p) = FreeIfUnused(less, p)
    BY <1>3, <1>6, <1>9
  <2> DEFINE r == FreeIfUnused(less, p)
  <2>2. Released(r, less, p)
    BY <1>4, FreeIfUnusedIs
  <2> HIDE DEF r
  <2>3. RootOf(tensors, p) = p /\ root = 0 /\ 0 \notin T
    BY <1>9 DEF RootOf, IsView, TensorsOk, T
  <2>4. \A t \in T : /\ less.hash[t].addr = s.hash[t].addr
                     /\ less.hash[t].views = s.hash[t].views
                     /\ less.hash[t].allocated = s.hash[t].allocated
                     /\ t # p => less.hash[t].children = s.hash[t].children
                     /\ t = p => less.hash[t].children = s.hash[t].children - 1
    BY <1>2, <1>5
  <2>5. \A t \in T : s.hash[t].children \in Int /\ s.hash[t].views \in Int
    BY <1>1, HashTyped
  <2>6. OneUseLess(r, s, p)
    BY <1>5, <1>9, <2>2, <2>3, <2>4, <2>5 DEF OneUseLess, Released, SameCounts
  <2>7. QED
    BY <2>1, <2>6 DEF r
<1>10. CASE LastUse(s, p) /\ IsView(tensors, p)
  <2>1. UseOver(s, p) = FreeIfUnused(fewer, root)
    BY <1>3, <1>6, <1>10
  <2> DEFINE r == FreeIfUnused(fewer, root)
  <2>2. Released(r, fewer, root)
    BY <1>7, <1>10, FreeIfUnusedIs
  <2> HIDE DEF r
  <2>3. RootOf(tensors, p) = root /\ root \in T /\ root # p
    BY <1>7, <1>10 DEF RootOf, IsView
  <2>4. /\ y.addr = less.hash[root].addr /\ y.allocated = less.hash[root].allocated
        /\ y.children = less.hash[root].children
        /\ y.views = less.hash[root].views - 1
    <3> HIDE DEF root
    <3>1. less.hash[root] \in HashEntry
      BY <1>5, <2>3
    <3>2. QED
      BY <3>1 DEF HashEntry
  <2>5. \A t \in T : s.hash[t].children \in Int /\ s.hash[t].views \in Int
    BY <1>1, HashTyped
  <2> HIDE DEF y
  <2>6. \A t \in T : /\ fewer.hash[t].addr = s.hash[t].addr
                     /\ fewer.hash[t].allocated = s.hash[t].allocated
                     /\ t # p => fewer.hash[t].children = s.hash[t].children
                     /\ t = p => fewer.hash[t].children = s.hash[t].children - 1
                     /\ t # root => fewer.hash[t].views = s.hash[t].views
                     /\ t = root => fewer.hash[t].views = s.hash[t].views - 1
    <3> HIDE DEF root
    <3>1. QED
      BY <1>2, <1>5, <1>7, <1>10, <2>3, <2>4
  <2>7. OneUseLess(r, s, p)
    BY <1>7, <1>10, <2>2, <2>3, <2>5, <2>6 DEF OneUseLess, Released, SameCounts
  <2>8. QED
    BY <2>1, <2>7 DEF r
<1>11. QED
  BY <1>8, <1>9, <1>10

(* Memory is found for a tensor that needs it and has none: it may take    *)
(* over that of a source.                                                  *)
Owner(t) == tensors[t].root = 0 /\ tensors[t].kind # "weight"

TakesOver(r, s, t, p) ==
    /\ tensors[t].kind = "inplace" /\ p \in T /\ p # t
    /\ \E j \in 1..Len(Src(t)) : Src(t)[j] = p
    /\ s.hash[p].allocated = TRUE /\ tensors[p].output = FALSE
    /\ tensors[p].size = tensors[t].size
    /\ s.hash[p].children = 1 /\ s.hash[p].views = 0
    /\ r.hash[t].addr = s.hash[p].addr /\ r.hash[p].allocated = FALSE

Given(r, s, t) ==
    /\ Sized(r.chunks, s.chunks)
    /\ Owner(t) /\ r.hash[t].allocated = TRUE
    /\ \A u \in T : SameCounts(r.hash, s.hash, u)
    /\ \A u \in T : u # t => r.hash[u].addr = s.hash[u].addr
    /\ \/ \A u \in T : u # t => r.hash[u].allocated = s.hash[u].allocated
       \/ \E p \in T : /\ TakesOver(r, s, t, p)
                       /\ \A u \in T : u # t /\ u # p =>
                             r.hash[u].allocated = s.hash[u].allocated

LEMMA GrownSized ==
    ASSUME NEW cs \in Seq(Chunk), NEW size \in Nat, NEW from, Grown(from, cs, size)
    PROVE  from \in Seq(Chunk) /\ Sized(from, cs)
<1>1. Len(cs) \in Nat /\ \A c \in 1..Len(cs) : cs[c].max_size \in Nat
  BY ChunkTyped
<1>2. QED
  BY <1>1 DEF Grown, Sized

LEMMA AllocSized ==
    ASSUME NEW cs \in Seq(Chunk), NEW bytes, NEW size \in Nat, size = Aligned(bytes),
           size <= Endless
    PROVE  Sized(Alloc(cs, bytes).chunks, cs)
<1> DEFINE a == Alloc(cs, bytes)
<1>1. Allocated(a, cs, size)
  BY AllocIs
<1> HIDE DEF a
<1>2. PICK from, c, i : (from = cs \/ Grown(from, cs, size)) /\ AllocatedAt(a, from, c, i, size)
  BY <1>1 DEF Allocated
<1>3. from \in Seq(Chunk) /\ Sized(from, cs)
  BY <1>2, GrownSized, SizedSame
<1> DEFINE new == TakenAt(from, c, i, size)
<1>4. /\ c \in 1..Len(from) /\ i \in 1..Len(from[c].free) /\ a.chunks = [from EXCEPT ![c] = new]
  BY <1>2 DEF AllocatedAt
<1>5. /\ DOMAIN from = 1..Len(from) /\ Len(from) \in Nat
      /\ \A d \in 1..Len(from) : from[d].max_size \in Nat
      /\ from[c].free[i].offset \in Nat
  BY <1>3, <1>4, ChunkTyped
<1>6. new.max_size >= from[c].max_size
  <2> DEFINE x == from[c].max_size
             y == from[c].free[i].offset + size
  <2>1. new.max_size = IF y > x THEN y ELSE x
    BY DEF TakenAt
  <2>2. x \in Nat /\ y \in Nat
    BY <1>4, <1>5
  <2> HIDE DEF x, y
  <2>3. (IF y > x THEN y ELSE x) >= x
    BY <2>2
  <2>4. QED
    BY <2>1, <2>3 DEF x
<1> HIDE DEF new
<1> DEFINE ds == [from EXCEPT ![c] = new]
<1>7. Len(ds) = Len(from) /\ \A d \in 1..Len(from) : ds[d] = IF d = c THEN new ELSE from[d]
  BY <1>5
<1> HIDE DEF ds
<1>8. \A d \in 1..Len(from) : from[d].max_size <= ds[d].max_size
  BY <1>5, <1>6, <1>7
<1>9. Len(cs) \in Nat /\ \A d \in 1..Len(cs) : cs[d].max_size \in Nat
  BY ChunkTyped
<1>10. Len(cs) <= Len(from) /\ \A d \in 1..Len(cs) : cs[d].max_size <= from[d].max_size
  BY <1>3 DEF Sized
<1>11. \A d \in 1..Len(cs) : d \in 1..Len(from)
  BY <1>5, <1>9, <1>10
<1>12. new.max_size \in Nat
  BY <1>4, <1>5 DEF TakenAt, new
<1>13. \A d \in 1..Len(cs) : cs[d].max_size <= ds[d].max_size
  <2>1. \A d \in 1..Len(from) : ds[d].max_size \in Nat
    BY <1>5, <1>7, <1>12
  <2>2. QED
    BY <1>5, <1>8, <1>9, <1>10, <1>11, <2>1
<1>14. Sized(ds, cs)
  BY <1>7, <1>10, <1>13 DEF Sized
<1>15. QED
  BY <1>4, <1>14 DEF ds, a

LEMMA AllocateNodeIs ==
    ASSUME TensorsOk(tensors), NEW s, MemOk(s), NEW t \in T
    PROVE  \/ AllocateNode(s, t) = s /\ (s.hash[t].allocated = TRUE \/ ~Owner(t))
           \/ s.hash[t].allocated = FALSE /\ Given(AllocateNode(s, t), s, t)
<1>1. /\ s \in States /\ s.hash \in [T -> HashEntry] /\ s.chunks \in Seq(Chunk)
      /\ s.hash[t].allocated \in BOOLEAN
  BY HashTyped DEF MemOk, States
<1>2. CASE IsAllocated(s.hash, t) \/ IsView(tensors, t)
  BY <1>1, <1>2 DEF AllocateNode, IsAllocated, IsView, Owner
<1>3. CASE ~(IsAllocated(s.hash, t) \/ IsView(tensors, t))
  <2>1. s.hash[t].allocated = FALSE /\ Owner(t)
    BY <1>1, <1>3 DEF IsAllocated, IsView, Owner
  <2>2. TensorOk(tensors, t) /\ tensors[t].src \in Seq(1..(t - 1)) /\ t \in 1..Len(tensors)
    BY DEF TensorsOk, TensorOk, T
  <2>3. tensors[t].size \in Sizes
    BY <2>1, <2>2 DEF TensorOk, Owner
  <2>4. CASE Reusable(s, t) # {}
    <3> DEFINE p == FirstReusable(s, t)
               h == [s.hash EXCEPT ![t].allocated = TRUE, ![t].addr = s.hash[p].addr,
                                   ![p].allocated = FALSE]
    <3>1. AllocateNode(s, t) = State(s.chunks, h)
      <4>1. AllocateNode(s, t) = [s EXCEPT !.hash = h]
        BY <1>3, <2>4 DEF AllocateNode
      <4> HIDE DEF h
      <4>2. QED
        BY <1>1, <4>1 DEF States, State
    <3>2. /\ p \in T /\ p # t /\ MayReuse(s, t, p)
          /\ \E j \in 1..Len(Src(t)) : Src(t)[j] = p
      <4> DEFINE R == Reusable(s, t)
                 j == CHOOSE j \in R : \A k \in R : j <= k
      <4>1. \A k \in R : /\ k \in Nat /\ k \in 1..Len(Src(t)) /\ Src(t)[k] \in T
                         /\ Src(t)[k] # t /\ MayReuse(s, t, Src(t)[k])
        <5>1. DOMAIN Src(t) = 1..Len(tensors[t].src) /\ Len(tensors[t].src) \in Nat
          BY <2>2 DEF Src
        <5>2. \A k \in 1..Len(tensors[t].src) : tensors[t].src[k] \in 1..(t - 1)
          BY <2>2, ElementOfSeq
        <5>3. 1..(t - 1) \subseteq T /\ t \notin 1..(t - 1)
          BY <2>2 DEF TensorsOk, T
        <5>4. QED
          BY <5>1, <5>2, <5>3 DEF Reusable, Src
      <4>2. \E x \in R : \A k \in R : x <= k
        <5>1. R \subseteq Nat /\ R # {}
          BY <2>4, <4>1
        <5> HIDE DEF R
        <5>2. QED
          BY <5>1, Smallest
      <4>3. j \in R
        BY <4>2
      <4>4. p = Src(t)[j]
        BY DEF FirstReusable
      <4> HIDE DEF R, j, p
      <4>5. QED
        BY <4>1, <4>3, <4>4
    <3>3. /\ tensors[t].kind = "inplace"
          /\ s.hash[p].allocated = TRUE /\ tensors[p].output = FALSE
          /\ tensors[p].size = tensors[t].size
          /\ s.hash[p].children = 1 /\ s.hash[p].views = 0
      <4> HIDE DEF p
      <4>1. s.hash[p].allocated \in BOOLEAN
        BY <1>1, <3>2, HashTyped
      <4>2. tensors[p].output \in BOOLEAN
        <5>1. tensors \in Seq(TensorRecord) /\ p \in 1..Len(tensors)
          BY <3>2 DEF TensorsOk, T
        <5>2. tensors[p] \in TensorRecord
          BY <5>1, ElementOfSeq
        <5>3. QED
          BY <5>2 DEF TensorRecord
      <4>3. QED
        BY <3>2, <4>1, <4>2 DEF MayReuse
    <3> HIDE DEF p
    <3>4. \A u \in T : /\ h[u].children = s.hash[u].children /\ h[u].views = s.hash[u].views
                       /\ u # t => h[u].addr = s.hash[u].addr
                       /\ u = t => h[u].addr = s.hash[p].addr /\ h[u].allocated = TRUE
                       /\ u # t /\ u # p => h[u].allocated = s.hash[u].allocated
                       /\ u = p => h[u].allocated = FALSE
      BY <1>1, <3>2 DEF HashEntry
    <3> HIDE DEF h
    <3>5. State(s.chunks, h).chunks = s.chunks /\ State(s.chunks, h).hash = h
      BY DEF State
    <3> DEFINE r == State(s.chunks, h)
    <3> HIDE DEF r
    <3>6. r.chunks = s.chunks /\ r.hash = h
      BY <3>5 DEF r
    <3>7. TakesOver(r, s, t, p)
      BY <3>2, <3>3, <3>4, <3>6 DEF TakesOver
    <3>8. Sized(r.chunks, s.chunks)
      BY <1>1, <3>6, SizedSame
    <3>9. Given(r, s, t)
      BY <2>1, <3>2, <3>4, <3>6, <3>7, <3>8 DEF Given, SameCounts
    <3>10. QED
      BY <2>1, <3>1, <3>9 DEF r
  <2>5. CASE Reusable(s, t) = {}
    <3> DEFINE a == Alloc(s.chunks, tensors[t].size)
               h == [s.hash EXCEPT ![t].allocated = TRUE, ![t].addr = a.addr]
    <3>1. AllocateNode(s, t) = State(a.chunks, h)
      BY <1>3, <2>5 DEF AllocateNode
    <3>2. Sized(a.chunks, s.chunks)
      <4>1. Aligned(tensors[t].size) \in Nat /\ Aligned(tensors[t].size) <= Endless
        BY <2>3, AlignedIs
      <4>2. QED
        BY <1>1, <4>1, AllocSized
    <3> HIDE DEF a
    <3>3. \A u \in T : /\ h[u].children = s.hash[u].children /\ h[u].views = s.hash[u].views
                       /\ u # t => h[u].addr = s.hash[u].addr /\ h[u].allocated = s.hash[u].allocated
                       /\ u = t => h[u].allocated = TRUE
      BY <1>1 DEF HashEntry
    <3> HIDE DEF h
    <3>4. State(a.chunks, h).chunks = a.chunks /\ State(a.chunks, h).hash = h
      BY DEF State
    <3>5. Given(State(a.chunks, h), s, t)
      BY <2>1, <3>2, <3>3, <3>4 DEF Given, SameCounts
    <3>6. QED
      BY <2>1, <3>1, <3>5
  <2>6. QED
    BY <2>4, <2>5
<1>4. QED
  BY <1>2, <1>3

-----------------------------------------------------------------------------
(* What the application does not make: a leaf that is computed from        *)
(* something, or a view or store whose memory is not that of its last      *)
(* source.                                                                 *)
LastSource(r) == r.src[Len(r.src)]

SharesLast(ts, r) ==
    r.root # 0 => Len(r.src) > 0 /\ RootOf(ts, LastSource(r)) = r.root

MadeOk(ts, t) == (IsLeaf(ts, t) => Len(ts[t].src) = 0) /\ SharesLast(ts, ts[t])

WellMade(ts) == \A t \in 1..Len(ts) : MadeOk(ts, t)

(* So every view is a node, and what has a view is used.                   *)
LEMMA NodeIndex ==
    ASSUME GraphIs, NEW t \in T, ~IsLeaf(tensors, t)
    PROVE  \E i \in 1..Len(graph.nodes) : graph.nodes[i] = t
<1>1. t \in Lists(tensors, graph)
  BY DEF GraphIs
<1>2. \A m \in 1..Len(graph.leafs) : graph.leafs[m] # t
  BY DEF GraphIs, Wellformed, LeafsOk
<1>3. QED
  BY <1>1, <1>2 DEF Lists

LEMMA SinkIs ==
    ASSUME GraphIs, WellMade(tensors), NEW t \in T
    PROVE  t \in Sinks(tensors) <=> Uses(t) = {}
<1>1. ASSUME NEW u \in Uses(t) PROVE t \notin Sinks(tensors)
  <2>1. /\ u[1] \in 1..Len(graph.nodes) /\ u[2] \in 1..Len(Src(graph.nodes[u[1]]))
        /\ Src(graph.nodes[u[1]])[u[2]] = t
    BY UsesIs
  <2> DEFINE v == graph.nodes[u[1]]
             l == u[2]
  <2>2. v \in DOMAIN tensors /\ Src(v) \in Seq(T)
    BY <2>1, ListedSeqs DEF GraphIs, T
  <2>3. l \in DOMAIN tensors[v].src /\ tensors[v].src[l] = t
    BY <2>1, <2>2 DEF Src
  <2> HIDE DEF v, l
  <2>4. t \in ToSet(tensors[v].src)
    BY <2>3 DEF ToSet
  <2>5. QED
    BY <2>2, <2>4 DEF Sinks
<1>2. ASSUME t \notin Sinks(tensors) PROVE Uses(t) # {}
  <2>1. PICK v \in DOMAIN tensors : t \in ToSet(tensors[v].src)
    BY <1>2 DEF Sinks, T
  <2>2. PICK l \in DOMAIN tensors[v].src : tensors[v].src[l] = t
    BY <2>1 DEF ToSet
  <2>3. v \in 1..Len(tensors) /\ DOMAIN tensors[v].src = 1..Len(tensors[v].src)
    BY SrcTyped DEF GraphIs
  <2>4. ~IsLeaf(tensors, v)
    BY <2>2, <2>3 DEF WellMade, MadeOk
  <2>5. PICK i \in 1..Len(graph.nodes) : graph.nodes[i] = v
    BY <2>4, NodeIndex DEF T
  <2>6. <<i, l>> \in Uses(t)
    BY <2>2, <2>3, <2>5, UsesIs DEF Src
  <2>7. QED
    BY <2>6
<1>3. QED
  BY <1>1, <1>2

LEMMA ViewsUsed ==
    ASSUME GraphIs, WellMade(tensors), NEW t \in T, Views(t) # {}
    PROVE  Uses(t) # {}
<1> DEFINE S == {v \in T : tensors[v].root = t}
<1>1. T = 1..Len(tensors) /\ T \subseteq Nat /\ 0 \notin T
  BY DEF GraphIs, TensorsOk, T
<1>2. S # {} /\ S \subseteq Nat
  <2>1. PICK i \in DOMAIN graph.nodes : tensors[graph.nodes[i]].root = t
    BY DEF Views
  <2>2. i \in 1..Len(graph.nodes)
    BY <2>1, ListedSeqs DEF GraphIs
  <2>3. graph.nodes[i] \in T
    BY <2>2, ListedSeqs DEF GraphIs
  <2>4. QED
    BY <1>1, <2>1, <2>3
<1>3. PICK v \in S : \A w \in S : v <= w
  <2> HIDE DEF S
  <2>1. QED
    BY <1>2, Smallest
<1>4. /\ v \in T /\ tensors[v].root = t /\ TensorOk(tensors, v) /\ MadeOk(tensors, v)
      /\ v \in DOMAIN tensors
  BY <1>1, <1>3 DEF GraphIs, TensorsOk, WellMade, T
<1> DEFINE j == Len(tensors[v].src)
           q == tensors[v].src[j]
<1>5. j > 0 /\ RootOf(tensors, q) = t
  BY <1>1, <1>4 DEF MadeOk, SharesLast, LastSource
<1>6. q \in DOMAIN tensors /\ q < v /\ j \in 1..Len(tensors[v].src)
  <2>1. tensors[v].src \in Seq(1..(v - 1))
    BY <1>4 DEF TensorOk
  <2>2. j \in Nat
    BY <2>1
  <2>3. j \in 1..Len(tensors[v].src)
    BY <1>5, <2>2
  <2>4. QED
    BY <1>4, <2>3, SrcTyped DEF GraphIs
<1> HIDE DEF j, q
<1>7. q \notin S
  <2>1. \A x, y \in Nat : x < y => ~(y <= x)
    OBVIOUS
  <2> HIDE DEF S
  <2>2. q \in Nat /\ v \in Nat
    BY <1>1, <1>4, <1>6 DEF T
  <2>3. QED
    BY <1>3, <1>6, <2>1, <2>2
<1>8. q = t
  BY <1>1, <1>5, <1>6, <1>7 DEF RootOf, T
<1>9. ~IsLeaf(tensors, v)
  BY <1>1, <1>4 DEF TensorOk, IsLeaf, Sharers
<1>10. PICK i \in 1..Len(graph.nodes) : graph.nodes[i] = v
  BY <1>4, <1>9, NodeIndex
<1>11. <<i, j>> \in Uses(t)
  BY <1>6, <1>8, <1>10, UsesIs DEF Src, q
<1>12. QED
  BY <1>11

(* The counters say what is left. *)
Counts(h, k, j) == \A t \in T :
    /\ h[t].children = Cardinality(Left(t, k, j))
    /\ h[t].views = Cardinality(StillViews(t, k, j))

CountsSayIt(h, t, k, j) ==
    /\ h[t].children \in Nat /\ h[t].views \in Nat
    /\ h[t].children = 0 <=> Left(t, k, j) = {}
    /\ h[t].views = 0 <=> StillViews(t, k, j) = {}

LEMMA LeftFinite ==
    ASSUME GraphIs, NEW t \in T, NEW k, NEW j
    PROVE  IsFiniteSet(Left(t, k, j)) /\ IsFiniteSet(StillViews(t, k, j))
<1>1. IsFiniteSet(Uses(t)) /\ IsFiniteSet(Views(t))
  BY UsesFinite, ListedSeqs DEF GraphIs
<1>2. Left(t, k, j) \subseteq Uses(t) /\ StillViews(t, k, j) \subseteq Views(t)
  BY DEF Left, StillViews
<1>3. QED
  BY <1>1, <1>2, FS_Subset

LEMMA CountsSay ==
    ASSUME GraphIs, NEW t \in T, NEW h, NEW k, NEW j, Counts(h, k, j)
    PROVE  CountsSayIt(h, t, k, j)
<1>1. IsFiniteSet(Left(t, k, j)) /\ IsFiniteSet(StillViews(t, k, j))
  BY LeftFinite
<1>2. QED
  BY <1>1, FS_CardinalityType, FS_EmptySet DEF Counts, CountsSayIt

(* A tensor's memory is held from its creation until nothing needs it: t   *)
(* has its place when d nodes are planned, and is needed after source j of *)
(* node k.                                                                 *)
Placed(t, d) ==
    Owner(t) /\ (IsLeaf(tensors, t) \/ \E i \in 1..(d - 1) : graph.nodes[i] = t)

Needed(t, k, j) ==
    \/ tensors[t].output = TRUE \/ Left(t, k, j) # {} \/ StillViews(t, k, j) # {}
    \/ Uses(t) = {}

(* R: what has been taken over.                                            *)
Live(h, d, k, j, R) == \A t \in T :
    h[t].allocated = TRUE <=> Placed(t, d) /\ Needed(t, k, j) /\ t \notin R

LEMMA CountsGo ==
    ASSUME GraphIs, NEW k \in 1..Len(graph.nodes), NEW j \in 1..Len(Src(graph.nodes[k])),
           NEW p \in T, p = Src(graph.nodes[k])[j],
           NEW r, NEW s, OneUseLess(r, s, p), Counts(s.hash, k, j - 1)
    PROVE  Counts(r.hash, k, j)
<1>1. UseGone(p, k, j) /\ ViewGone(p, k, j)
  BY LeftOne, ViewsOne
<1>2. ASSUME NEW t \in T PROVE CountsSayIt(s.hash, t, k, j - 1)
  BY CountsSay
<1>3. Left(p, k, j - 1) # {}
  BY <1>1 DEF UseGone
<1>4. /\ Cardinality(Left(p, k, j)) = Cardinality(Left(p, k, j - 1)) - 1
  <2>1. IsFiniteSet(Left(p, k, j - 1))
    BY LeftFinite
  <2>2. QED
    BY <1>1, <2>1, FS_RemoveElement DEF UseGone
<1>5. LastUse(s, p) <=> Left(p, k, j) = {} /\ StillViews(p, k, j - 1) = {}
  <2> DEFINE X == Left(p, k, j)
  <2>1. Cardinality(X) \in Nat /\ (Cardinality(X) = 0 <=> X = {})
    <3>1. IsFiniteSet(X)
      BY LeftFinite
    <3> HIDE DEF X
    <3>2. QED
      BY <3>1, FS_CardinalityType, FS_EmptySet
  <2>2. s.hash[p].children = Cardinality(Left(p, k, j - 1)) /\ s.hash[p].children \in Nat
    BY <1>2 DEF Counts, CountsSayIt
  <2>3. Cardinality(X) = s.hash[p].children - 1
    BY <1>4, <2>2
  <2> HIDE DEF X
  <2>4. s.hash[p].children = 1 <=> X = {}
    BY <2>1, <2>2, <2>3
  <2>5. s.hash[p].views = 0 <=> StillViews(p, k, j - 1) = {}
    BY <1>2 DEF CountsSayIt
  <2>6. QED
    BY <2>4, <2>5 DEF LastUse, X
<1>6. ASSUME NEW t \in T
      PROVE  r.hash[t].children = Cardinality(Left(t, k, j))
  <2>1. s.hash[t].children = Cardinality(Left(t, k, j - 1)) /\ s.hash[t].children \in Nat
    BY <1>2 DEF Counts, CountsSayIt
  <2>2. r.hash[t].children = s.hash[t].children - (IF t = p THEN 1 ELSE 0)
    BY DEF OneUseLess
  <2>3. CASE t = p
    BY <1>4, <2>1, <2>2, <2>3
  <2>4. CASE t # p
    BY <1>1, <2>1, <2>2, <2>4 DEF UseGone
  <2>5. QED
    BY <2>3, <2>4
<1>7. ASSUME NEW t \in T
      PROVE  r.hash[t].views = Cardinality(StillViews(t, k, j))
  <2>1. s.hash[t].views = Cardinality(StillViews(t, k, j - 1)) /\ s.hash[t].views \in Nat
    BY <1>2 DEF Counts, CountsSayIt
  <2>2. r.hash[t].views = s.hash[t].views
                          - (IF LastUse(s, p) /\ tensors[p].root = t THEN 1 ELSE 0)
    BY DEF OneUseLess
  <2>3. t # 0
    BY DEF GraphIs, TensorsOk, T
  <2>4. CASE tensors[p].root # t
    BY <1>1, <2>1, <2>2, <2>4 DEF ViewGone
  <2>5. CASE tensors[p].root = t /\ Left(p, k, j) # {}
    <3>1. StillViews(t, k, j) = StillViews(t, k, j - 1)
      BY <1>1, <2>3, <2>5 DEF ViewGone
    <3>2. QED
      BY <1>5, <2>1, <2>2, <2>5, <3>1
  <2>6. CASE tensors[p].root = t /\ Left(p, k, j) = {}
    <3>1. PICK i \in StillViews(t, k, j - 1) :
             StillViews(t, k, j) = StillViews(t, k, j - 1) \ {i}
      BY <1>1, <2>3, <2>6 DEF ViewGone
    <3>2. IsFiniteSet(StillViews(t, k, j - 1))
      BY LeftFinite
    <3>3. Cardinality(StillViews(t, k, j)) = Cardinality(StillViews(t, k, j - 1)) - 1
      BY <3>1, <3>2, FS_RemoveElement
    <3>4. Views(p) = {}
      BY <2>3, <2>6, NoViewsOfViews
    <3>5. StillViews(p, k, j - 1) = {}
      BY <3>4 DEF StillViews
    <3>6. LastUse(s, p)
      BY <1>5, <2>6, <3>5
    <3>7. QED
      BY <2>1, <2>2, <2>6, <3>3, <3>6
  <2>7. QED
    BY <2>4, <2>5, <2>6
<1>8. QED
  BY <1>6, <1>7 DEF Counts

LEMMA NotNeeded ==
    ASSUME GraphIs, NEW k \in 1..Len(graph.nodes), NEW j \in 1..Len(Src(graph.nodes[k])),
           NEW p \in T, p = Src(graph.nodes[k])[j], NEW t \in T, t # p, t # tensors[p].root
    PROVE  Needed(t, k, j) <=> Needed(t, k, j - 1)
<1>1. UseGone(p, k, j) /\ ViewGone(p, k, j)
  BY LeftOne, ViewsOne
<1>2. Left(t, k, j) = Left(t, k, j - 1) /\ StillViews(t, k, j) = StillViews(t, k, j - 1)
  BY <1>1 DEF UseGone, ViewGone
<1>3. QED
  BY <1>2 DEF Needed

(* A view is a node, and its memory is that of another tensor. *)
ViewNode(p, root) ==
    /\ root \in T /\ root # p /\ tensors[root].root = 0
    /\ \E i \in 1..Len(graph.nodes) : graph.nodes[i] = p /\ i \in Views(root)

LEMMA ViewIs ==
    ASSUME GraphIs, NEW p \in T, NEW root, root = tensors[p].root, root # 0
    PROVE  ViewNode(p, root)
<1>1. T = 1..Len(tensors) /\ Len(tensors) \in Nat
  BY DEF GraphIs, TensorsOk, T
<1>2. TensorOk(tensors, p)
  BY <1>1 DEF GraphIs, TensorsOk
<1>3. root \in 1..(p - 1) /\ tensors[p].kind \in Sharers /\ tensors[root].root = 0
  BY <1>2 DEF TensorOk
<1>4. root \in T /\ root # p
  BY <1>1, <1>3
<1>5. ~IsLeaf(tensors, p)
  BY <1>3 DEF IsLeaf, Sharers
<1>6. PICK i \in 1..Len(graph.nodes) : graph.nodes[i] = p
  BY <1>5, NodeIndex
<1>7. DOMAIN graph.nodes = 1..Len(graph.nodes)
  BY ListedSeqs DEF GraphIs
<1>8. i \in Views(root)
  BY <1>6, <1>7 DEF Views
<1>9. QED
  BY <1>3, <1>4, <1>6, <1>8 DEF ViewNode

LEMMA LiveGoes ==
    ASSUME GraphIs, WellMade(tensors), NEW k \in 1..Len(graph.nodes),
           NEW j \in 1..Len(Src(graph.nodes[k])),
           NEW p \in T, p = Src(graph.nodes[k])[j],
           NEW r, NEW s, OneUseLess(r, s, p), Counts(s.hash, k, j - 1), NEW d, NEW R,
           Live(s.hash, d, k, j - 1, R)
    PROVE  Live(r.hash, d, k, j, R)
<1> DEFINE owner == RootOf(tensors, p)
<1>1. UseGone(p, k, j) /\ ViewGone(p, k, j)
  BY LeftOne, ViewsOne
<1>2. Counts(r.hash, k, j)
  BY CountsGo
<1>3. /\ tensors[p].root # 0 => tensors[p].root \in T /\ owner = tensors[p].root
                                /\ ~Owner(p) /\ owner # p
      /\ tensors[p].root = 0 => owner = p
      /\ owner \in T /\ 0 \notin T
  <2>1. 0 \notin T
    BY DEF GraphIs, TensorsOk, T
  <2>2. tensors[p].root # 0 => ViewNode(p, tensors[p].root)
    BY ViewIs
  <2>3. QED
    BY <2>1, <2>2 DEF ViewNode, RootOf, Owner
<1> HIDE DEF owner
<1>4. Left(p, k, j - 1) # {} /\ Uses(p) # {}
  BY <1>1 DEF UseGone, Left
<1>5. CountsSayIt(s.hash, p, k, j - 1) /\ CountsSayIt(r.hash, p, k, j)
      /\ CountsSayIt(r.hash, owner, k, j)
  BY <1>2, <1>3, CountsSay
<1>6. LastUse(s, p) <=> Left(p, k, j) = {} /\ StillViews(p, k, j - 1) = {}
  <2>1. r.hash[p].children = s.hash[p].children - 1
    BY DEF OneUseLess
  <2>2. s.hash[p].children \in Nat
    BY <1>5 DEF CountsSayIt
  <2>3. s.hash[p].children = 1 <=> r.hash[p].children = 0
    BY <2>1, <2>2
  <2>4. QED
    BY <1>5, <2>3 DEF LastUse, CountsSayIt
<1>7. ASSUME NEW t \in T, t # owner
      PROVE  r.hash[t].allocated = TRUE <=> Placed(t, d) /\ Needed(t, k, j) /\ t \notin R
  <2>1. r.hash[t].allocated = s.hash[t].allocated
    BY <1>7 DEF OneUseLess, owner
  <2>2. CASE t = p
    <3>1. ~Placed(t, d)
      BY <1>3, <1>7, <2>2 DEF Placed
    <3>2. QED
      BY <2>1, <3>1 DEF Live
  <2>3. CASE t # p
    <3>1. t # tensors[p].root
      BY <1>3, <1>7
    <3>2. QED
      BY <2>1, <2>3, <3>1, NotNeeded DEF Live
  <2>4. QED
    BY <2>2, <2>3
<1>8. Needed(owner, k, j - 1)
  <2>1. CASE tensors[p].root = 0
    BY <1>3, <1>4, <2>1 DEF Needed
  <2>2. CASE tensors[p].root # 0 /\ Left(p, k, j) = {}
    BY <1>1, <1>3, <2>2 DEF ViewGone, Needed
  <2>3. CASE tensors[p].root # 0 /\ Left(p, k, j) # {}
    <3>1. ViewNode(p, tensors[p].root)
      BY <2>3, ViewIs
    <3>2. PICK i \in 1..Len(graph.nodes) : graph.nodes[i] = p /\ i \in Views(owner)
      BY <1>3, <2>3, <3>1 DEF ViewNode
    <3>3. i \in StillViews(owner, k, j - 1)
      BY <1>4, <3>2 DEF StillViews
    <3>4. QED
      BY <3>3 DEF Needed
  <2>4. QED
    BY <2>1, <2>2, <2>3
<1>9. Uses(owner) # {}
  <2>1. CASE tensors[p].root = 0
    BY <1>3, <1>4, <2>1
  <2>2. CASE tensors[p].root # 0
    <3>1. ViewNode(p, tensors[p].root)
      BY <2>2, ViewIs
    <3>2. PICK i \in 1..Len(graph.nodes) : graph.nodes[i] = p /\ i \in Views(owner)
      BY <1>3, <2>2, <3>1 DEF ViewNode
    <3>3. QED
      BY <1>3, <3>2, ViewsUsed
  <2>3. QED
    BY <2>1, <2>2
<1>10. Needed(owner, k, j) <=> ~LastUse(s, p) \/ tensors[owner].output = TRUE
                              \/ r.hash[owner].children # 0 \/ r.hash[owner].views # 0
  <2>1. Needed(owner, k, j) <=> tensors[owner].output = TRUE \/ r.hash[owner].children # 0
                               \/ r.hash[owner].views # 0
    BY <1>5, <1>9 DEF Needed, CountsSayIt
  <2>2. ASSUME ~LastUse(s, p) PROVE Needed(owner, k, j)
    <3>1. CASE tensors[p].root = 0
      <4>1. StillViews(p, k, j) = StillViews(p, k, j - 1)
        BY <1>1, <1>3, <3>1 DEF ViewGone
      <4>2. QED
        BY <1>3, <1>6, <2>2, <3>1, <4>1 DEF Needed
    <3>2. CASE tensors[p].root # 0
      <4>1. Views(p) = {}
        BY <3>2, NoViewsOfViews
      <4>2. StillViews(p, k, j - 1) = {}
        BY <4>1 DEF StillViews
      <4>3. Left(p, k, j) # {}
        BY <1>6, <2>2, <4>2
      <4>4. StillViews(owner, k, j) = StillViews(owner, k, j - 1)
        BY <1>1, <1>3, <3>2, <4>3 DEF ViewGone
      <4>5. Left(owner, k, j) = Left(owner, k, j - 1)
        BY <1>1, <1>3, <3>2 DEF UseGone
      <4>6. QED
        BY <1>8, <4>4, <4>5 DEF Needed
    <3>3. QED
      BY <3>1, <3>2
  <2>3. QED
    BY <2>1, <2>2
<1>11. r.hash[owner].allocated = TRUE <=>
          Placed(owner, d) /\ Needed(owner, k, j) /\ owner \notin R
  <2>1. s.hash[owner].allocated = TRUE <=> Placed(owner, d) /\ owner \notin R
    BY <1>3, <1>8 DEF Live
  <2>2. r.hash[owner].allocated = TRUE <=>
            /\ s.hash[owner].allocated = TRUE
            /\ \/ ~LastUse(s, p) \/ tensors[owner].output = TRUE
               \/ r.hash[owner].children # 0 \/ r.hash[owner].views # 0
    BY DEF OneUseLess, owner
  <2>3. QED
    BY <1>10, <2>1, <2>2
<1>12. QED
  BY <1>7, <1>11 DEF Live

(* What the operations leave alone: where tensors lie.                     *)
SameAddresses(h, g) == \A t \in T : h[t].addr = g[t].addr

(* The sources of a node, one after the other.                             *)
UsesGone(r, s, k, d, R) ==
    /\ Counts(r.hash, k + 1, 0) /\ Live(r.hash, d, k + 1, 0, R)
    /\ Sized(r.chunks, s.chunks) /\ SameAddresses(r.hash, s.hash)

LEMMA SizedOn ==
    ASSUME NEW cs \in Seq(Chunk), NEW ds \in Seq(Chunk), NEW es \in Seq(Chunk),
           Sized(cs, ds), Sized(ds, es)
    PROVE  Sized(cs, es)
<1>1. /\ Len(cs) \in Nat /\ Len(ds) \in Nat /\ Len(es) \in Nat
      /\ \A c \in 1..Len(cs) : cs[c].max_size \in Nat
      /\ \A c \in 1..Len(ds) : ds[c].max_size \in Nat
      /\ \A c \in 1..Len(es) : es[c].max_size \in Nat
  BY ChunkTyped
<1>2. Len(es) <= Len(ds) /\ Len(ds) <= Len(cs)
  BY DEF Sized
<1>3. \A c \in 1..Len(es) : c \in 1..Len(ds) /\ c \in 1..Len(cs)
  BY <1>1, <1>2
<1>4. \A c \in 1..Len(es) : es[c].max_size <= cs[c].max_size
  <2>1. \A x, y, z \in Nat : x <= y /\ y <= z => x <= z
    OBVIOUS
  <2>2. QED
    BY <1>1, <1>3, <2>1 DEF Sized
<1>5. QED
  BY <1>1, <1>2, <1>4 DEF Sized

LEMMA UsesOverIs ==
    ASSUME GraphIs, WellMade(tensors), NEW k \in 1..Len(graph.nodes), NEW s, MemOk(s),
           Counts(s.hash, k, 0), NEW d, NEW R, Live(s.hash, d, k, 0, R)
    PROVE  UsesGone(UsesOver(s, Src(graph.nodes[k])), s, k, d, R)
<1> DEFINE ts == Src(graph.nodes[k])
           n == Len(ts)
           V == {r \in States : MemOk(r)}
           step == [i \in 1..n |-> [r \in V |-> UseOver(r, ts[i])]]
           Is(f) == f = [i \in 0..n |-> IF i = 0 THEN s ELSE UseOver(f[i - 1], ts[i])]
           Ok(r, m) == /\ MemOk(r) /\ Counts(r.hash, k, m) /\ Live(r.hash, d, k, m, R)
                       /\ Sized(r.chunks, s.chunks) /\ SameAddresses(r.hash, s.hash)
<1>0. TensorsOk(tensors) /\ ts \in Seq(T)
  BY ListedSeqs DEF GraphIs
<1>1. n \in Nat /\ \A i \in 1..n : ts[i] \in T
  BY <1>0, ElementOfSeq
<1> HIDE DEF ts
<1>2. s \in V
  BY DEF MemOk
<1>3. \A i \in 1..n, r \in V : UseOver(r, ts[i]) \in V
  <2> SUFFICES ASSUME NEW i \in 1..n, NEW r \in V PROVE UseOver(r, ts[i]) \in V
    OBVIOUS
  <2>1. MemOk(UseOver(r, ts[i]))
    BY <1>0, <1>1, UseOverOk
  <2>2. QED
    BY <2>1 DEF MemOk
<1> HIDE DEF V
<1>4. step \in [1..n -> [V -> V]]
  BY <1>3
<1>5. PICK f : Follows(f, n, V, s, step)
  <2> HIDE DEF step, n
  <2>1. QED
    BY <1>1, <1>2, <1>4, Recursion
<1>6. Is(f)
  <2>1. f \in [0..n -> V] /\ f[0] = s /\ \A i \in 1..n : f[i] = step[i][f[i - 1]]
    BY <1>5 DEF Follows
  <2>2. ASSUME NEW i \in 0..n
        PROVE  f[i] = IF i = 0 THEN s ELSE UseOver(f[i - 1], ts[i])
    <3>1. CASE i = 0
      BY <2>1, <3>1
    <3>2. CASE i # 0
      <4>1. i \in 1..n /\ i - 1 \in 0..n
        BY <1>1, <3>2
      <4>2. f[i - 1] \in V /\ f[i] = step[i][f[i - 1]]
        BY <2>1, <4>1
      <4>3. QED
        BY <3>2, <4>1, <4>2
    <3>3. QED
      BY <3>1, <3>2
  <2> HIDE DEF n
  <2>3. QED
    BY <2>1, <2>2
<1>7. UsesOver(s, ts) = (CHOOSE g : Is(g))[n]
  BY DEF UsesOver
<1>8. PICK g : Is(g) /\ UsesOver(s, ts) = g[n]
  <2> HIDE DEF Is
  <2>1. QED
    BY <1>6, <1>7
<1>9. Ok(s, 0)
  <2>1. Sized(s.chunks, s.chunks)
    BY SizedSame DEF MemOk, States
  <2>2. QED
    BY <2>1 DEF SameAddresses
<1>10. ASSUME NEW r, NEW m \in 1..n, Ok(r, m - 1) PROVE Ok(UseOver(r, ts[m]), m)
  <2> DEFINE q == UseOver(r, ts[m])
             p == ts[m]
  <2>1. p \in T /\ m \in 1..Len(Src(graph.nodes[k])) /\ p = Src(graph.nodes[k])[m]
    BY <1>1 DEF ts
  <2>2. MemOk(q) /\ OneUseLess(q, r, p)
    BY <1>0, <1>10, <2>1, UseOverOk, UseOverIs
  <2> HIDE DEF q, p
  <2>3. Counts(q.hash, k, m)
    BY <1>10, <2>1, <2>2, CountsGo
  <2>4. Live(q.hash, d, k, m, R)
    BY <1>10, <2>1, <2>2, LiveGoes
  <2>5. Sized(q.chunks, s.chunks)
    <3>1. q.chunks \in Seq(Chunk) /\ r.chunks \in Seq(Chunk) /\ s.chunks \in Seq(Chunk)
      BY <1>10, <2>2 DEF MemOk, States
    <3>2. QED
      BY <1>10, <2>2, <3>1, SizedOn DEF OneUseLess
  <2>6. SameAddresses(q.hash, s.hash)
    BY <1>10, <2>2 DEF SameAddresses, OneUseLess
  <2>7. QED
    BY <2>2, <2>3, <2>4, <2>5, <2>6 DEF q, p
<1> HIDE DEF Ok
<1>11. \A m \in 0..n : Ok(g[m], m)
  <2> DEFINE S == {m \in 0..n : Ok(g[m], m)}
  <2>1. 0 \in S
    BY <1>1, <1>8, <1>9
  <2>2. \A m \in 0..(n - 1) : m \in S => m + 1 \in S
    <3> SUFFICES ASSUME NEW m \in 0..(n - 1), m \in S PROVE m + 1 \in S
      OBVIOUS
    <3>1. m + 1 \in 1..n /\ m + 1 \in 0..n /\ m + 1 # 0 /\ (m + 1) - 1 = m
      BY <1>1
    <3>2. g[m + 1] = UseOver(g[m], ts[m + 1]) /\ Ok(g[m], m)
      BY <1>8, <3>1
    <3>3. Ok(UseOver(g[m], ts[m + 1]), m + 1)
      <4> DEFINE e == m + 1
      <4>1. e \in 1..n /\ Ok(g[m], e - 1)
        BY <3>1, <3>2
      <4> HIDE DEF e
      <4>2. Ok(UseOver(g[m], ts[e]), e)
        BY <1>10, <4>1
      <4>3. QED
        BY <4>2 DEF e
    <3>4. QED
      BY <3>1, <3>2, <3>3
  <2>3. \A m \in 0..n : m \in S
    <3> HIDE DEF S, Is, n
    <3>1. QED
      BY <1>1, <2>1, <2>2, Induction
  <2>4. QED
    BY <2>3
<1>12. Ok(g[n], n)
  BY <1>1, <1>11
<1> DEFINE r == UsesOver(s, ts)
<1>13. Ok(r, n)
  BY <1>8, <1>12
<1> HIDE DEF r
<1>14. \A t \in T : Left(t, k, n) = Left(t, k + 1, 0) /\ StillViews(t, k, n) = StillViews(t, k + 1, 0)
  BY LeftNext DEF ts
<1>15. Counts(r.hash, k + 1, 0) /\ Live(r.hash, d, k + 1, 0, R)
  BY <1>13, <1>14 DEF Ok, Counts, Live, Needed
<1>16. UsesGone(r, s, k, d, R)
  BY <1>13, <1>15 DEF Ok, UsesGone
<1>17. QED
  BY <1>16 DEF r, ts

-----------------------------------------------------------------------------

(* Where memory is held.  Two tensors that hold memory at the same time    *)
(* lie apart, inside their chunks.                                         *)
Beside(a, x, b, y) ==
    \/ a.chunk # b.chunk
    \/ a.offset + x <= b.offset
    \/ b.offset + y <= a.offset

Inside(a, x, cs) == a.chunk \in 1..Len(cs) /\ a.offset + x <= cs[a.chunk].max_size

Room(t) == Aligned(tensors[t].size)

LEMMA HeldIs ==
    ASSUME NEW s, MemOk(s), NEW t \in T, s.hash[t].allocated = TRUE
    PROVE  /\ s.hash[t].addr.chunk \in 1..Len(s.chunks) /\ s.hash[t].addr.offset \in Nat
           /\ Room(t) \in Nat /\ Room(t) > 0
           /\ t \in HeldIn(s.hash, s.hash[t].addr.chunk)
           /\ At(s.hash)[t] = Block(s.hash[t].addr.offset, Room(t))
<1>1. s.hash \in [T -> HashEntry]
  BY DEF MemOk, States
<1>2. tensors[t].size \in Sizes /\ s.hash[t].addr.chunk \in 1..Len(s.chunks)
  BY DEF MemOk
<1>3. Room(t) \in Nat /\ Room(t) > 0
  BY <1>2, AlignedIs DEF Room
<1>4. /\ s.hash[t].addr.offset \in Nat
      /\ At(s.hash)[t] = Block(s.hash[t].addr.offset, Room(t))
  BY <1>1, HashTyped DEF Room
<1>5. t \in HeldIn(s.hash, s.hash[t].addr.chunk)
  BY DEF HeldIn
<1>6. QED
  BY <1>2, <1>3, <1>4, <1>5

LEMMA HeldInside ==
    ASSUME NEW s, MemOk(s), NEW t \in T, s.hash[t].allocated = TRUE
    PROVE  Inside(s.hash[t].addr, Room(t), s.chunks)
<1> DEFINE c == s.hash[t].addr.chunk
           a == s.hash[t].addr.offset
           x == Room(t)
           b == At(s.hash)[t]
<1>1. /\ c \in 1..Len(s.chunks) /\ a \in Nat /\ x \in Nat /\ t \in HeldIn(s.hash, c)
      /\ b = Block(a, x)
  BY HeldIs
<1>2. Tiled(s.chunks[c], HeldIn(s.hash, c), At(s.hash))
  BY <1>1 DEF MemOk
<1>3. End(b) <= s.chunks[c].max_size
  BY <1>1, <1>2 DEF Tiled
<1> HIDE DEF a, x, b
<1>4. a + x <= s.chunks[c].max_size
  BY <1>1, <1>3, BlockIs
<1>5. QED
  BY <1>1, <1>4 DEF Inside, a, x

LEMMA HeldBeside ==
    ASSUME NEW s, MemOk(s), NEW t \in T, NEW u \in T, t # u,
           s.hash[t].allocated = TRUE, s.hash[u].allocated = TRUE
    PROVE  Beside(s.hash[t].addr, Room(t), s.hash[u].addr, Room(u))
<1> DEFINE c == s.hash[t].addr.chunk
           a == s.hash[t].addr.offset
           x == Room(t)
           b == s.hash[u].addr.offset
           y == Room(u)
           p == At(s.hash)[t]
           q == At(s.hash)[u]
<1> SUFFICES ASSUME c = s.hash[u].addr.chunk PROVE a + x <= b \/ b + y <= a
  BY DEF Beside
<1>1. /\ c \in 1..Len(s.chunks) /\ a \in Nat /\ x \in Nat /\ x > 0 /\ t \in HeldIn(s.hash, c)
      /\ p = Block(a, x)
  BY HeldIs
<1>2. b \in Nat /\ y \in Nat /\ y > 0 /\ u \in HeldIn(s.hash, c) /\ q = Block(b, y)
  BY HeldIs
<1>3. Tiled(s.chunks[c], HeldIn(s.hash, c), At(s.hash))
  BY <1>1 DEF MemOk
<1>4. \A n \in Nat : In(n, p) => ~In(n, q)
  BY <1>1, <1>2, <1>3 DEF Tiled
<1> HIDE DEF a, x, b, y, p, q
<1>5. p.offset = a /\ End(p) = a + x /\ q.offset = b /\ End(q) = b + y
  BY <1>1, <1>2, BlockIs
<1>6. \A n \in Nat : a <= n /\ n < a + x => ~(b <= n /\ n < b + y)
  BY <1>4, <1>5 DEF In
<1>7. QED
  BY <1>1, <1>2, <1>6

(* One allocation after the other. *)
AllocateRuns(g, s, ts) ==
    /\ g[0] = s /\ \A i \in 0..Len(ts) : MemOk(g[i])
    /\ \A i \in 1..Len(ts) : g[i] = AllocateNode(g[i - 1], ts[i])
    /\ AllocateAll(s, ts) = g[Len(ts)]

LEMMA AllocateAllRuns ==
    ASSUME TensorsOk(tensors), NEW s, MemOk(s), NEW ts, ts \in Seq(T)
    PROVE  \E g : AllocateRuns(g, s, ts)
<1> DEFINE V == {r \in States : MemOk(r)}
           n == Len(ts)
           step == [i \in 1..n |-> [r \in V |-> AllocateNode(r, ts[i])]]
           Is(f) == f = [i \in 0..n |-> IF i = 0 THEN s ELSE AllocateNode(f[i - 1], ts[i])]
<1>1. n \in Nat /\ \A i \in 1..n : ts[i] \in T
  BY ElementOfSeq
<1>2. s \in V
  BY DEF MemOk
<1>3. \A i \in 1..n, r \in V : AllocateNode(r, ts[i]) \in V
  <2> SUFFICES ASSUME NEW i \in 1..n, NEW r \in V PROVE AllocateNode(r, ts[i]) \in V
    OBVIOUS
  <2>1. MemOk(AllocateNode(r, ts[i]))
    BY <1>1, AllocateNodeOk
  <2>2. QED
    BY <2>1 DEF MemOk
<1> HIDE DEF V
<1>4. step \in [1..n -> [V -> V]]
  BY <1>3
<1>5. PICK f : Follows(f, n, V, s, step)
  <2> HIDE DEF step, n
  <2>1. QED
    BY <1>1, <1>2, <1>4, Recursion
<1>6. Is(f)
  <2>1. f \in [0..n -> V] /\ f[0] = s /\ \A i \in 1..n : f[i] = step[i][f[i - 1]]
    BY <1>5 DEF Follows
  <2>2. ASSUME NEW i \in 0..n
        PROVE  f[i] = IF i = 0 THEN s ELSE AllocateNode(f[i - 1], ts[i])
    <3>1. CASE i = 0
      BY <2>1, <3>1
    <3>2. CASE i # 0
      <4>1. i \in 1..n /\ i - 1 \in 0..n
        BY <1>1, <3>2
      <4>2. f[i - 1] \in V /\ f[i] = step[i][f[i - 1]]
        BY <2>1, <4>1
      <4>3. QED
        BY <3>2, <4>1, <4>2
    <3>3. QED
      BY <3>1, <3>2
  <2> HIDE DEF n
  <2>3. QED
    BY <2>1, <2>2
<1>7. AllocateAll(s, ts) = (CHOOSE g : Is(g))[n]
  BY DEF AllocateAll
<1>8. PICK g : Is(g) /\ AllocateAll(s, ts) = g[n]
  <2> HIDE DEF Is
  <2>1. QED
    BY <1>6, <1>7
<1>9. \A m \in 0..n : g[m] \in V
  <2> DEFINE S == {m \in 0..n : g[m] \in V}
  <2>1. 0 \in S
    BY <1>1, <1>2, <1>8
  <2>2. \A m \in 0..(n - 1) : m \in S => m + 1 \in S
    <3> SUFFICES ASSUME NEW m \in 0..(n - 1), m \in S PROVE m + 1 \in S
      OBVIOUS
    <3>1. m + 1 \in 1..n /\ m + 1 \in 0..n /\ m + 1 # 0 /\ (m + 1) - 1 = m
      BY <1>1
    <3>2. g[m + 1] = AllocateNode(g[m], ts[m + 1]) /\ g[m] \in V
      BY <1>8, <3>1
    <3>3. QED
      BY <1>3, <3>1, <3>2
  <2>3. \A m \in 0..n : m \in S
    <3> HIDE DEF S, Is, n
    <3>1. QED
      BY <1>1, <2>1, <2>2, Induction
  <2>4. QED
    BY <2>3
<1>10. g[0] = s /\ \A i \in 1..n : g[i] = AllocateNode(g[i - 1], ts[i])
  BY <1>1, <1>8
<1>11. \A i \in 0..n : MemOk(g[i])
  BY <1>9 DEF V
<1>12. QED
  BY <1>8, <1>10, <1>11 DEF AllocateRuns

(* When a node's turn comes each of its sources has its place already, *)
LEMMA SourcesHeld ==
    ASSUME GraphIs, NEW k \in 1..Len(graph.nodes), NEW s, MemOk(s),
           Live(s.hash, k, k, 0, {}), NEW j \in 1..Len(Src(graph.nodes[k])), NEW q \in T,
           q = Src(graph.nodes[k])[j]
    PROVE  AllocateNode(s, q) = s
<1>0. TensorsOk(tensors)
  BY DEF GraphIs
<1>1. \/ AllocateNode(s, q) = s
      \/ s.hash[q].allocated = FALSE /\ Given(AllocateNode(s, q), s, q)
  BY <1>0, AllocateNodeIs, Zenon
<1>2. ASSUME s.hash[q].allocated = FALSE, Owner(q) PROVE FALSE
  <2>1. UseGone(q, k, j)
    BY LeftOne
  <2>2. Left(q, k, 0) # {}
    <3>1. <<k, j>> \in Uses(q)
      BY <2>1 DEF UseGone, Left
    <3>2. j > 0
      <4>1. Src(graph.nodes[k]) \in Seq(T)
        BY ListedSeqs DEF GraphIs
      <4>2. QED
        BY <4>1
    <3>3. QED
      BY <3>1, <3>2 DEF Left
  <2>3. IsLeaf(tensors, q) \/ \E i \in 1..(k - 1) : graph.nodes[i] = q
    BY DEF GraphIs, Wellformed, NodesOk, Src
  <2>4. Placed(q, k) /\ Needed(q, k, 0)
    BY <1>2, <2>2, <2>3 DEF Placed, Needed
  <2>5. QED
    BY <1>2, <2>4 DEF Live
<1>3. QED
  BY <1>1, <1>2 DEF Given

LEMMA ParentsHeld ==
    ASSUME GraphIs, NEW k \in 1..Len(graph.nodes), NEW s, MemOk(s),
           Live(s.hash, k, k, 0, {})
    PROVE  AllocateAll(s, Src(graph.nodes[k])) = s
<1> DEFINE ts == Src(graph.nodes[k])
           n == Len(ts)
<1>1. TensorsOk(tensors) /\ ts \in Seq(T) /\ n \in Nat
  BY ListedSeqs DEF GraphIs
<1>2. \A i \in 1..n : ts[i] \in T /\ AllocateNode(s, ts[i]) = s
  <2>1. \A i \in 1..n : ts[i] \in T
    BY <1>1, ElementOfSeq
  <2>2. QED
    BY <2>1, SourcesHeld
<1> HIDE DEF ts
<1>3. PICK g : AllocateRuns(g, s, ts)
  BY <1>1, AllocateAllRuns
<1> DEFINE S == {m \in 0..n : g[m] = s}
<1>4. 0 \in S
  BY <1>1, <1>3 DEF AllocateRuns
<1>5. \A m \in 0..(n - 1) : m \in S => m + 1 \in S
  <2> SUFFICES ASSUME NEW m \in 0..(n - 1), m \in S PROVE m + 1 \in S
    OBVIOUS
  <2>1. m + 1 \in 1..n /\ m + 1 \in 0..n /\ (m + 1) - 1 = m
    BY <1>1
  <2>2. g[m + 1] = AllocateNode(g[m], ts[m + 1])
    BY <1>3, <2>1 DEF AllocateRuns
  <2>3. QED
    BY <1>2, <2>1, <2>2
<1>6. n \in S
  <2> HIDE DEF S, n
  <2>1. \A m \in 0..n : m \in S
    BY <1>1, <1>4, <1>5, Induction
  <2>2. QED
    BY <1>1, <2>1
<1>7. QED
  BY <1>3, <1>6 DEF AllocateRuns, ts

(* which the leafs are given before all nodes.                             *)
LEMMA LeafsGiven ==
    ASSUME GraphIs, NEW s, MemOk(s), \A t \in T : s.hash[t].allocated = FALSE,
           NEW r, r = AllocateAll(s, graph.leafs)
    PROVE  \A t \in T : r.hash[t].allocated = TRUE <=> Owner(t) /\ IsLeaf(tensors, t)
<1> DEFINE ts == graph.leafs
           n == Len(ts)
<1>1. TensorsOk(tensors) /\ ts \in Seq(T) /\ n \in Nat
  BY ListedSeqs DEF GraphIs
<1>2. \A i \in 1..n : ts[i] \in T /\ IsLeaf(tensors, ts[i])
  BY <1>1, ElementOfSeq DEF GraphIs, Wellformed, LeafsOk
<1>3. \A t \in T : IsLeaf(tensors, t) => \E i \in 1..n : ts[i] = t
  <2>1. \A i \in 1..Len(graph.nodes) : ~IsLeaf(tensors, graph.nodes[i])
    BY DEF GraphIs, Wellformed, NodesOk
  <2>2. QED
    BY <2>1 DEF GraphIs, Lists
<1> HIDE DEF ts
<1>4. PICK g : AllocateRuns(g, s, ts)
  BY <1>1, AllocateAllRuns
<1> DEFINE Ok(m) == \A t \in T : g[m].hash[t].allocated = TRUE <=>
                        Owner(t) /\ \E i \in 1..m : ts[i] = t
           S == {m \in 0..n : Ok(m)}
<1>5. Ok(0)
  BY <1>4 DEF AllocateRuns
<1>6. ASSUME NEW m \in 0..(n - 1), Ok(m) PROVE Ok(m + 1)
  <2> DEFINE q == ts[m + 1]
             a == g[m]
             b == g[m + 1]
  <2>1. m \in Nat /\ m + 1 \in 1..n /\ m \in 0..n /\ (m + 1) - 1 = m
    BY <1>1, <1>6
  <2>2. b = AllocateNode(a, q) /\ MemOk(a) /\ q \in T /\ IsLeaf(tensors, q)
    BY <1>2, <1>4, <2>1 DEF AllocateRuns
  <2>3. \A t \in T : a.hash[t].allocated = TRUE <=> Owner(t) /\ \E i \in 1..m : ts[i] = t
    BY <1>6
  <2> HIDE DEF a, b
  <2>4. \A t \in T : (\E i \in 1..(m + 1) : ts[i] = t) <=> t = q \/ \E i \in 1..m : ts[i] = t
    <3>1. \A i \in 1..(m + 1) : i \in 1..m \/ i = m + 1
      BY <2>1
    <3>2. \A i \in 1..m : i \in 1..(m + 1)
      BY <2>1
    <3>3. m + 1 \in 1..(m + 1)
      BY <2>1
    <3>4. QED
      BY <3>1, <3>2, <3>3
  <2> HIDE DEF q
  <2>5. ASSUME NEW t \in T PROVE b.hash[t].allocated = TRUE <=>
                                    Owner(t) /\ (t = q \/ \E i \in 1..m : ts[i] = t)
    <3>1. CASE b = a /\ (a.hash[q].allocated = TRUE \/ ~Owner(q))
      BY <2>2, <2>3, <3>1
    <3>2. CASE Given(b, a, q)
      <4>1. \A p \in T : ~TakesOver(b, a, q, p)
        BY <2>2 DEF TakesOver, IsLeaf
      <4>2. QED
        BY <2>2, <2>3, <3>2, <4>1 DEF Given, TakesOver, IsLeaf
    <3>3. QED
      BY <1>1, <2>2, <3>1, <3>2, AllocateNodeIs
  <2>6. QED
    BY <2>4, <2>5 DEF b
<1>7. \A m \in 0..n : m \in S
  <2>1. 0 \in S
    BY <1>1, <1>5
  <2>2. \A m \in 0..(n - 1) : m \in S => m + 1 \in S
    <3> HIDE DEF Ok
    <3>1. \A m \in 0..(n - 1) : m + 1 \in 0..n
      BY <1>1
    <3>2. QED
      BY <1>6, <3>1
  <2> HIDE DEF S, n, Ok
  <2>3. QED
    BY <1>1, <2>1, <2>2, Induction
<1>8. Ok(n) /\ r = g[n]
  BY <1>1, <1>4, <1>7 DEF AllocateRuns, ts
<1>9. QED
  BY <1>2, <1>3, <1>8

(* A node has no place before its turn, and when it comes nothing that     *)
(* needs the node is over.                                                 *)
LEMMA TurnIs ==
    ASSUME GraphIs, NEW k \in 1..Len(graph.nodes), NEW x \in T, x = graph.nodes[k]
    PROVE  /\ ~Placed(x, k) /\ Needed(x, k, 0)
           /\ \A t \in T : Placed(t, k + 1) <=> Placed(t, k) \/ (t = x /\ Owner(x))
<1>0. Len(graph.nodes) \in Nat /\ k \in Nat
  BY ListedSeqs DEF GraphIs
<1>1. /\ ~IsLeaf(tensors, x)
      /\ \A i \in 1..Len(graph.nodes) : graph.nodes[i] = x => i = k
  BY DEF GraphIs, Wellformed, NodesOk
<1>2. ~Placed(x, k)
  <2>1. \A i \in 1..(k - 1) : i \in 1..Len(graph.nodes) /\ i # k
    BY <1>0
  <2>2. QED
    BY <1>1, <2>1 DEF Placed
<1>3. Needed(x, k, 0)
  <2> SUFFICES ASSUME NEW u \in Uses(x) PROVE u \in Left(x, k, 0)
    BY DEF Needed
  <2> DEFINE i == u[1]
             l == u[2]
  <2>1. i \in 1..Len(graph.nodes) /\ l \in 1..Len(Src(graph.nodes[i])) /\ Src(graph.nodes[i])[l] = x
    BY UsesIs
  <2> HIDE DEF i, l
  <2>2. \E m \in 1..(i - 1) : graph.nodes[m] = x
    BY <1>1, <2>1 DEF GraphIs, Wellformed, NodesOk, Src
  <2>3. \A m \in 1..(i - 1) : m \in 1..Len(graph.nodes) /\ m < i
    BY <1>0, <2>1
  <2>4. k < i
    BY <1>1, <2>2, <2>3
  <2>5. i > k
    BY <1>0, <2>1, <2>4
  <2>6. QED
    BY <2>5 DEF Left, i
<1>4. ASSUME NEW t \in T PROVE Placed(t, k + 1) <=> Placed(t, k) \/ (t = x /\ Owner(x))
  <2>1. \A i \in 1..((k + 1) - 1) : i \in 1..(k - 1) \/ i = k
    BY <1>0
  <2>2. \A i \in 1..(k - 1) : i \in 1..((k + 1) - 1)
    BY <1>0
  <2>3. k \in 1..((k + 1) - 1)
    BY <1>0
  <2>4. (\E i \in 1..((k + 1) - 1) : graph.nodes[i] = t)
           <=> t = x \/ \E i \in 1..(k - 1) : graph.nodes[i] = t
    BY <2>1, <2>2, <2>3
  <2>5. QED
    BY <2>4 DEF Placed
<1>5. QED
  BY <1>2, <1>3, <1>4

(* A tensor whose only use left is by node k, and that no view needs, is   *)
(* not needed behind it.                                                   *)
LEMMA OnlyUse ==
    ASSUME GraphIs, NEW k \in 1..Len(graph.nodes), NEW j \in 1..Len(Src(graph.nodes[k])),
           NEW p \in T, p = Src(graph.nodes[k])[j], NEW h, Counts(h, k, 0),
           h[p].children = 1, h[p].views = 0, tensors[p].output = FALSE
    PROVE  ~Needed(p, k + 1, 0)
<1>0. Len(graph.nodes) \in Nat /\ k \in Nat /\ j \in Nat /\ j > 0
  <2>1. Src(graph.nodes[k]) \in Seq(T) /\ Len(graph.nodes) \in Nat
    BY ListedSeqs DEF GraphIs
  <2>2. QED
    BY <2>1
<1>1. /\ Cardinality(Left(p, k, 0)) = 1 /\ StillViews(p, k, 0) = {}
      /\ IsFiniteSet(Left(p, k, 0))
  <2>1. CountsSayIt(h, p, k, 0)
    BY CountsSay
  <2>2. QED
    BY <2>1, LeftFinite DEF Counts, CountsSayIt
<1>2. <<k, j>> \in Left(p, k, 0) /\ Uses(p) # {}
  <2>1. <<k, j>> \in Uses(p)
    BY UsesIs
  <2>2. QED
    BY <1>0, <2>1 DEF Left
<1>3. Left(p, k, 0) = {<<k, j>>}
  <2> DEFINE X == Left(p, k, 0)
             e == <<k, j>>
  <2>1. IsFiniteSet(X) /\ e \in X /\ Cardinality(X) = 1
    BY <1>1, <1>2
  <2> HIDE DEF X, e
  <2>2. IsFiniteSet(X \ {e}) /\ Cardinality(X \ {e}) = 0
    BY <2>1, FS_RemoveElement
  <2>3. X \ {e} = {}
    BY <2>2, FS_EmptySet
  <2>4. X = {e}
    BY <2>1, <2>3
  <2>5. QED
    BY <2>4 DEF X, e
<1>4. ASSUME NEW t \in T PROVE Left(t, k + 1, 0) \subseteq Left(t, k, 0)
  <2> SUFFICES ASSUME NEW u \in Left(t, k + 1, 0) PROVE u \in Left(t, k, 0)
    OBVIOUS
  <2>1. u \in Uses(t) /\ (u[1] > k + 1 \/ (u[1] = k + 1 /\ u[2] > 0))
    BY DEF Left
  <2>2. u[1] \in Nat
    BY <1>0, <2>1, UsesIs
  <2> DEFINE a == u[1]
  <2>3. a > k + 1 \/ a = k + 1
    BY <2>1
  <2>4. a \in Nat
    BY <2>2
  <2> HIDE DEF a
  <2>5. a > k
    BY <1>0, <2>3, <2>4
  <2>6. QED
    BY <2>1, <2>5 DEF Left, a
<1>5. Left(p, k + 1, 0) = {}
  <2>1. <<k, j>> \notin Left(p, k + 1, 0)
    <3>1. <<k, j>>[1] = k
      OBVIOUS
    <3>2. ~(k > k + 1) /\ k # k + 1
      BY <1>0
    <3>3. QED
      BY <3>1, <3>2 DEF Left
  <2>2. QED
    BY <1>3, <1>4, <2>1
<1>6. StillViews(p, k + 1, 0) = {}
  <2>1. \A i \in Views(p) : graph.nodes[i] \in T
    <3>1. \A i \in Views(p) : i \in 1..Len(graph.nodes)
      BY ListedSeqs DEF GraphIs, Views
    <3>2. QED
      BY <3>1, ListedSeqs DEF GraphIs
  <2>2. \A i \in Views(p) : Left(graph.nodes[i], k, 0) = {} => Left(graph.nodes[i], k + 1, 0) = {}
    BY <1>4, <2>1
  <2>3. QED
    BY <1>1, <2>2 DEF StillViews
<1>7. QED
  BY <1>2, <1>5, <1>6 DEF Needed

(* Node m, which got its place after t: they lie apart, or it has taken    *)
(* over the memory of t, which nothing needs behind it.                    *)
WellPlaced(addr, room, t, m) ==
    LET x == graph.nodes[m] IN
    \/ Beside(addr[t], room[t], addr[x], room[x])
    \/ tensors[x].kind = "inplace" /\ addr[t] = addr[x] /\ ~Needed(t, m + 1, 0)

(* All leafs, and the nodes before node d.                                 *)
Sound(addr, room, d) ==
    /\ \A t, u \in T : Owner(t) /\ IsLeaf(tensors, t) /\ Owner(u) /\ IsLeaf(tensors, u)
                       /\ t # u => Beside(addr[t], room[t], addr[u], room[u])
    /\ \A m \in 1..(d - 1) : \A t \in T :
          Owner(graph.nodes[m]) /\ Placed(t, m) /\ Needed(t, m, 0)
             => WellPlaced(addr, room, t, m)

Addrs(h) == [t \in T |-> h[t].addr]
Rooms == [t \in T |-> Room(t)]

(* Node k is given memory. *)
NodeGiven(r, s, k, R) ==
    /\ MemOk(r) /\ Counts(r.hash, k, 0) /\ Live(r.hash, k + 1, k, 0, R)
    /\ \A p \in R : ~Needed(p, k + 1, 0)
    /\ Sized(r.chunks, s.chunks)
    /\ Owner(graph.nodes[k]) => r.hash[graph.nodes[k]].allocated = TRUE
    /\ \A t \in T : Placed(t, k) => r.hash[t].addr = s.hash[t].addr
    /\ \A t \in T : Owner(graph.nodes[k]) /\ Placed(t, k) /\ Needed(t, k, 0)
                       => WellPlaced(Addrs(r.hash), Rooms, t, k)

LEMMA NodeGivenIs ==
    ASSUME GraphIs, NEW k \in 1..Len(graph.nodes), NEW s, MemOk(s), Counts(s.hash, k, 0),
           Live(s.hash, k, k, 0, {}), NEW r, r = AllocateNode(s, graph.nodes[k])
    PROVE  \E R : NodeGiven(r, s, k, R)
<1> DEFINE x == graph.nodes[k]
<1>0. TensorsOk(tensors) /\ x \in T
  BY ListedSeqs DEF GraphIs
<1>1. /\ ~Placed(x, k) /\ Needed(x, k, 0)
      /\ \A t \in T : Placed(t, k + 1) <=> Placed(t, k) \/ (t = x /\ Owner(x))
  BY <1>0, TurnIs
<1>2. MemOk(r)
  BY <1>0, AllocateNodeOk
<1>3. s.hash[x].allocated # TRUE
  BY <1>0, <1>1 DEF Live
<1>4. \/ r = s /\ ~Owner(x)
      \/ Given(r, s, x)
  BY <1>0, <1>3, AllocateNodeIs
<1>5. \A t \in T : Addrs(r.hash)[t] = r.hash[t].addr /\ Rooms[t] = Room(t)
  BY DEF Addrs, Rooms
<1> HIDE DEF x
<1>6. CASE r = s /\ ~Owner(x)
  <2>1. Live(r.hash, k + 1, k, 0, {})
    BY <1>1, <1>6 DEF Live
  <2>2. Sized(r.chunks, s.chunks)
    BY <1>6, SizedSame DEF MemOk, States
  <2>3. NodeGiven(r, s, k, {})
    BY <1>2, <1>6, <2>1, <2>2 DEF NodeGiven, x
  <2>4. QED
    BY <2>3
<1>7. CASE Given(r, s, x)
  <2>1. /\ Counts(r.hash, k, 0) /\ Sized(r.chunks, s.chunks) /\ Owner(x)
        /\ r.hash[x].allocated = TRUE
    BY <1>7 DEF Given, Counts, SameCounts
  <2>2. \A t \in T : Placed(t, k) => r.hash[t].addr = s.hash[t].addr
    BY <1>1, <1>7 DEF Given
  <2>3. CASE \A u \in T : u # x => r.hash[u].allocated = s.hash[u].allocated
    <3>1. Live(r.hash, k + 1, k, 0, {})
      BY <1>1, <1>7, <2>1, <2>3 DEF Live, Given
    <3>2. ASSUME NEW t \in T, Placed(t, k), Needed(t, k, 0)
          PROVE  WellPlaced(Addrs(r.hash), Rooms, t, k)
      <4>1. t # x
        BY <1>1, <3>2
      <4>2. r.hash[t].allocated = TRUE /\ r.hash[x].allocated = TRUE
        BY <1>7, <2>3, <3>2, <4>1 DEF Live, Given
      <4>3. Beside(r.hash[t].addr, Room(t), r.hash[x].addr, Room(x))
        BY <1>0, <1>2, <4>1, <4>2, HeldBeside
      <4>4. QED
        BY <1>0, <1>5, <4>3 DEF WellPlaced, x
    <3>3. NodeGiven(r, s, k, {})
      BY <1>2, <2>1, <2>2, <3>1, <3>2 DEF NodeGiven, x, x
    <3>4. QED
      BY <3>3
  <2>4. CASE \E p \in T : /\ TakesOver(r, s, x, p)
                          /\ \A u \in T : u # x /\ u # p =>
                                r.hash[u].allocated = s.hash[u].allocated
    <3>1. PICK p \in T : /\ TakesOver(r, s, x, p)
                         /\ \A u \in T : u # x /\ u # p =>
                               r.hash[u].allocated = s.hash[u].allocated
      BY <2>4
    <3>2. /\ tensors[x].kind = "inplace" /\ p # x
          /\ s.hash[p].allocated = TRUE /\ tensors[p].output = FALSE
          /\ tensors[p].size = tensors[x].size
          /\ s.hash[p].children = 1 /\ s.hash[p].views = 0
          /\ r.hash[x].addr = s.hash[p].addr /\ r.hash[p].allocated = FALSE
      BY <3>1 DEF TakesOver
    <3>3. PICK j \in 1..Len(Src(x)) : Src(x)[j] = p
      BY <3>1 DEF TakesOver
    <3>4. ~Needed(p, k + 1, 0)
      BY <3>2, <3>3, OnlyUse DEF x
    <3>5. Room(p) = Room(x)
      BY <3>2 DEF Room
    <3>6. Live(r.hash, k + 1, k, 0, {p})
      <4> SUFFICES ASSUME NEW t \in T
                   PROVE  r.hash[t].allocated = TRUE <=>
                             Placed(t, k + 1) /\ Needed(t, k, 0) /\ t \notin {p}
        BY DEF Live
      <4>1. CASE t = x
        BY <1>1, <1>7, <2>1, <3>2, <4>1 DEF Given
      <4>2. CASE t = p
        BY <3>2, <4>2
      <4>3. CASE t # x /\ t # p
        BY <1>1, <3>1, <4>3 DEF Live
      <4>4. QED
        BY <4>1, <4>2, <4>3
    <3>7. ASSUME NEW t \in T, Placed(t, k), Needed(t, k, 0)
          PROVE  WellPlaced(Addrs(r.hash), Rooms, t, k)
      <4>1. t # x /\ s.hash[t].allocated = TRUE
        BY <1>1, <3>7 DEF Live
      <4>2. r.hash[t].addr = s.hash[t].addr
        BY <2>2, <3>7
      <4>3. CASE t = p
        BY <1>0, <1>5, <3>2, <3>4, <4>2, <4>3 DEF WellPlaced, x
      <4>4. CASE t # p
        <5>1. Beside(s.hash[t].addr, Room(t), s.hash[p].addr, Room(p))
          BY <3>2, <4>1, <4>4, HeldBeside
        <5>2. QED
          BY <1>0, <1>5, <3>2, <3>5, <4>2, <5>1 DEF WellPlaced, x
      <4>5. QED
        BY <4>3, <4>4
    <3>8. NodeGiven(r, s, k, {p})
      BY <1>2, <2>1, <2>2, <3>4, <3>6, <3>7 DEF NodeGiven, x
    <3>9. QED
      BY <3>8
  <2>5. QED
    BY <1>7, <2>3, <2>4 DEF Given
<1>8. QED
  BY <1>4, <1>6, <1>7

(* The state of planning before node k: what is counted, what holds        *)
(* memory, and where everything has been put so far.                       *)
AllInside(h, cs, d) == \A t \in T : Placed(t, d) => Inside(h[t].addr, Room(t), cs)

Planned(h, cs, k) ==
    /\ Counts(h, k, 0) /\ Live(h, k, k, 0, {})
    /\ AllInside(h, cs, k) /\ Sound(Addrs(h), Rooms, k)

LEMMA StaysInside ==
    ASSUME NEW cs \in Seq(Chunk), NEW ds \in Seq(Chunk), Sized(cs, ds),
           NEW a, a.offset \in Nat, NEW x \in Nat, Inside(a, x, ds)
    PROVE  Inside(a, x, cs)
<1> DEFINE c == a.chunk
           o == a.offset
<1>1. /\ Len(cs) \in Nat /\ Len(ds) \in Nat
      /\ \A i \in 1..Len(cs) : cs[i].max_size \in Nat
      /\ \A i \in 1..Len(ds) : ds[i].max_size \in Nat
  BY ChunkTyped
<1>2. c \in 1..Len(ds) /\ o + x <= ds[c].max_size /\ o \in Nat
  BY DEF Inside
<1>3. Len(ds) <= Len(cs) /\ ds[c].max_size <= cs[c].max_size
  BY <1>2 DEF Sized
<1> HIDE DEF c, o
<1>4. c \in 1..Len(cs)
  BY <1>1, <1>2, <1>3
<1>5. o + x <= cs[c].max_size
  <2>1. \A i, j, l \in Nat : i <= j /\ j <= l => i <= l
    OBVIOUS
  <2>2. o + x \in Nat
    BY <1>2
  <2>3. QED
    BY <1>1, <1>2, <1>3, <1>4, <2>1, <2>2
<1>6. QED
  BY <1>4, <1>5 DEF Inside, c, o

LEMMA RoomTyped ==
    ASSUME TensorsOk(tensors), NEW t \in T, Owner(t)
    PROVE  tensors[t].size \in Sizes /\ Room(t) \in Nat /\ Room(t) > 0
<1>1. TensorOk(tensors, t)
  BY DEF TensorsOk, T
<1>2. tensors[t].size \in Sizes
  BY <1>1 DEF TensorOk, Owner
<1>3. QED
  BY <1>2, AlignedIs DEF Room

LEMMA NodePlanned ==
    ASSUME GraphIs, WellMade(tensors), NEW k \in 1..Len(graph.nodes), NEW s, MemOk(s),
           Planned(s.hash, s.chunks, k), NEW x, x = graph.nodes[k],
           NEW r, r = UsesOver(AllocateNode(AllocateAll(s, Src(x)), x), Src(x))
    PROVE  Planned(r.hash, r.chunks, k + 1)
<1>0. /\ TensorsOk(tensors) /\ x \in T /\ Src(x) \in Seq(T)
      /\ Counts(s.hash, k, 0) /\ Live(s.hash, k, k, 0, {})
  BY ListedSeqs DEF GraphIs, Planned
<1>1. AllocateAll(s, Src(x)) = s
  BY <1>0, ParentsHeld
<1> DEFINE a == AllocateNode(s, x)
<1>2. PICK R : NodeGiven(a, s, k, R)
  BY <1>0, NodeGivenIs
<1>3. r = UsesOver(a, Src(x))
  BY <1>1
<1> HIDE DEF a
<1>4. /\ MemOk(a) /\ Counts(a.hash, k, 0) /\ Live(a.hash, k + 1, k, 0, R)
      /\ \A p \in R : ~Needed(p, k + 1, 0)
      /\ Sized(a.chunks, s.chunks)
      /\ Owner(x) => a.hash[x].allocated = TRUE
      /\ \A t \in T : Placed(t, k) => a.hash[t].addr = s.hash[t].addr
      /\ \A t \in T : Owner(x) /\ Placed(t, k) /\ Needed(t, k, 0)
                         => WellPlaced(Addrs(a.hash), Rooms, t, k)
  BY <1>2 DEF NodeGiven
<1>5. UsesGone(r, a, k, k + 1, R)
  BY <1>3, <1>4, UsesOverIs
<1>6. MemOk(r)
  BY <1>0, <1>3, <1>4, UsesOverOk
<1>7. /\ Counts(r.hash, k + 1, 0) /\ Live(r.hash, k + 1, k + 1, 0, R)
      /\ Sized(r.chunks, a.chunks) /\ \A t \in T : r.hash[t].addr = a.hash[t].addr
  BY <1>5 DEF UsesGone, SameAddresses
<1>8. Live(r.hash, k + 1, k + 1, 0, {})
  BY <1>4, <1>7 DEF Live
<1>9. /\ \A t \in T : Placed(t, k + 1) <=> Placed(t, k) \/ (t = x /\ Owner(x))
      /\ Needed(x, k, 0) /\ ~Placed(x, k)
  BY <1>0, TurnIs
<1>10. Addrs(r.hash) = Addrs(a.hash)
  BY <1>7 DEF Addrs
<1>11. AllInside(r.hash, r.chunks, k + 1)
  <2> SUFFICES ASSUME NEW t \in T, Placed(t, k + 1) PROVE Inside(r.hash[t].addr, Room(t), r.chunks)
    BY DEF AllInside
  <2>1. Room(t) \in Nat
    BY <1>0, RoomTyped DEF Placed
  <2>2. /\ r.chunks \in Seq(Chunk) /\ a.chunks \in Seq(Chunk) /\ s.chunks \in Seq(Chunk)
        /\ r.hash \in [T -> HashEntry] /\ s.hash \in [T -> HashEntry]
    BY <1>4, <1>6 DEF MemOk, States
  <2>3. r.hash[t].addr.offset \in Nat /\ s.hash[t].addr.offset \in Nat
    BY <2>2, HashTyped
  <2>4. Inside(r.hash[t].addr, Room(t), a.chunks)
    <3>1. CASE Placed(t, k)
      <4>1. Inside(s.hash[t].addr, Room(t), s.chunks)
        BY <3>1 DEF Planned, AllInside
      <4>2. r.hash[t].addr = s.hash[t].addr
        BY <1>4, <1>7, <3>1
      <4>3. QED
        BY <1>4, <2>1, <2>2, <2>3, <4>1, <4>2, StaysInside
    <3>2. CASE t = x /\ ~Placed(t, k)
      <4>1. a.hash[x].allocated = TRUE
        BY <1>4, <1>9, <3>2
      <4>4. Inside(a.hash[x].addr, Room(x), a.chunks)
        BY <1>0, <1>4, <4>1, HeldInside
      <4>5. QED
        BY <1>7, <3>2, <4>4
    <3>3. QED
      BY <1>9, <3>1, <3>2
  <2>5. QED
    BY <1>7, <2>1, <2>2, <2>3, <2>4, StaysInside
<1>12. Sound(Addrs(r.hash), Rooms, k + 1)
  <2>1. \A t \in T : Placed(t, k) => Addrs(r.hash)[t] = Addrs(s.hash)[t]
    BY <1>4, <1>7 DEF Addrs
  <2>2. ASSUME NEW t \in T, NEW u \in T, Owner(t), IsLeaf(tensors, t), Owner(u),
               IsLeaf(tensors, u), t # u
        PROVE  Beside(Addrs(r.hash)[t], Rooms[t], Addrs(r.hash)[u], Rooms[u])
    <3>1. Placed(t, k) /\ Placed(u, k)
      BY <2>2 DEF Placed
    <3>2. Beside(Addrs(s.hash)[t], Rooms[t], Addrs(s.hash)[u], Rooms[u])
      BY <2>2 DEF Planned, Sound
    <3>3. QED
      BY <2>1, <3>1, <3>2
  <2>3. ASSUME NEW m \in 1..((k + 1) - 1), NEW t \in T, Owner(graph.nodes[m]), Placed(t, m),
               Needed(t, m, 0)
        PROVE  WellPlaced(Addrs(r.hash), Rooms, t, m)
    <3>0. k \in Nat /\ Len(graph.nodes) \in Nat
      BY ListedSeqs DEF GraphIs
    <3>1. CASE m = k
      BY <1>4, <1>10, <2>3, <3>1
    <3>2. CASE m # k
      <4>1. m \in 1..(k - 1) /\ m \in 1..Len(graph.nodes)
        BY <2>3, <3>0, <3>2
      <4>2. graph.nodes[m] \in T
        BY <4>1, ListedSeqs DEF GraphIs
      <4>3. WellPlaced(Addrs(s.hash), Rooms, t, m)
        BY <2>3, <4>1 DEF Planned, Sound
      <4>4. Placed(graph.nodes[m], k)
        BY <2>3, <4>1 DEF Placed
      <4>5. Placed(t, k)
        <5>1. \A i \in 1..(m - 1) : i \in 1..(k - 1)
          BY <3>0, <4>1
        <5>2. QED
          BY <2>3, <5>1 DEF Placed
      <4>6. QED
        BY <2>1, <4>2, <4>3, <4>4, <4>5 DEF WellPlaced
    <3>3. QED
      BY <3>1, <3>2
  <2>4. QED
    BY <2>2, <2>3 DEF Sound
<1>13. QED
  BY <1>7, <1>8, <1>11, <1>12 DEF Planned

LEMMA LeafsPlanned ==
    ASSUME GraphIs, NEW s,
           s = AllocateAll(State(NoChunks, [t \in T |-> Unplanned]), graph.leafs)
    PROVE  MemOk(s) /\ Planned(Counted(s.hash), s.chunks, 1)
<1> DEFINE h0 == [t \in T |-> Unplanned]
           s0 == State(NoChunks, h0)
           h == Counted(s.hash)
<1>0. TensorsOk(tensors) /\ graph.leafs \in Seq(T) /\ graph.nodes \in Seq(T)
  BY ListedSeqs DEF GraphIs
<1>1. MemOk(s0) /\ \A t \in T : s0.hash[t].allocated = FALSE
  <2>1. s0.hash = h0
    BY DEF State
  <2>2. \A t \in T : h0[t].allocated = FALSE
    BY DEF Unplanned
  <2> HIDE DEF h0
  <2>3. QED
    BY <2>1, <2>2, UnplannedOk DEF h0
<1> HIDE DEF s0
<1>2. s = AllocateAll(s0, graph.leafs)
  BY DEF s0
<1>3. MemOk(s)
  BY <1>0, <1>1, <1>2, AllocateAllOk
<1>4. \A t \in T : s.hash[t].allocated = TRUE <=> Owner(t) /\ IsLeaf(tensors, t)
  BY <1>1, <1>2, LeafsGiven
<1>5. s.hash \in [T -> HashEntry]
  BY <1>3 DEF MemOk, States
<1>6. \A t \in T : /\ h[t].addr = s.hash[t].addr /\ h[t].allocated = s.hash[t].allocated
                   /\ h[t].children = Cardinality(Uses(t))
                   /\ h[t].views = Cardinality(Views(t))
  BY <1>5 DEF Counted, HashEntry
<1> HIDE DEF h
<1>7. \A t \in T : Left(t, 1, 0) = Uses(t) /\ StillViews(t, 1, 0) = Views(t)
  <2>1. \A t \in T : Left(t, 1, 0) = Uses(t)
    BY LeftFirst
  <2>2. \A t \in T : \A i \in Views(t) : graph.nodes[i] \in T
    <3>1. \A t \in T : \A i \in Views(t) : i \in 1..Len(graph.nodes)
      BY <1>0 DEF Views
    <3>2. QED
      BY <3>1, ListedSeqs DEF GraphIs
  <2>3. \A t \in T : \A i \in Views(t) : Left(graph.nodes[i], 1, 0) = Uses(graph.nodes[i])
    BY <2>1, <2>2
  <2>4. \A t \in T : StillViews(t, 1, 0) = Views(t)
    BY <2>3 DEF StillViews
  <2>5. QED
    BY <2>1, <2>4
<1>8. \A t \in T : Placed(t, 1) <=> Owner(t) /\ IsLeaf(tensors, t)
  BY DEF Placed
<1>9. Counts(h, 1, 0)
  BY <1>6, <1>7 DEF Counts
<1>10. Live(h, 1, 1, 0, {})
  BY <1>4, <1>6, <1>7, <1>8 DEF Live, Needed
<1>11. AllInside(h, s.chunks, 1)
  <2> SUFFICES ASSUME NEW t \in T, Placed(t, 1) PROVE Inside(h[t].addr, Room(t), s.chunks)
    BY DEF AllInside
  <2>1. s.hash[t].allocated = TRUE
    BY <1>4, <1>8
  <2>2. Inside(s.hash[t].addr, Room(t), s.chunks)
    BY <1>3, <2>1, HeldInside
  <2>3. QED
    BY <1>6, <2>2
<1>12. Sound(Addrs(h), Rooms, 1)
  <2>1. ASSUME NEW t \in T, NEW u \in T, Owner(t), IsLeaf(tensors, t), Owner(u),
               IsLeaf(tensors, u), t # u
        PROVE  Beside(Addrs(h)[t], Rooms[t], Addrs(h)[u], Rooms[u])
    <3>1. s.hash[t].allocated = TRUE /\ s.hash[u].allocated = TRUE
      BY <1>4, <2>1
    <3>2. Beside(s.hash[t].addr, Room(t), s.hash[u].addr, Room(u))
      BY <1>3, <2>1, <3>1, HeldBeside
    <3>3. QED
      BY <1>6, <3>2 DEF Addrs, Rooms
  <2>2. 1..(1 - 1) = {}
    OBVIOUS
  <2>3. QED
    BY <2>1, <2>2 DEF Sound
<1>13. QED
  BY <1>3, <1>9, <1>10, <1>11, <1>12 DEF Planned, h

-----------------------------------------------------------------------------
(* The invariant of planning. *)
ToPlan == phase = "plan" /\ next > 0

AllPlanned == phase \in {"measured", "failed"}

LifeInv ==
    /\ PlanInv /\ WellMade(tensors)
    /\ phase # "create" => \A t \in Sinks(tensors) : ~IsLeaf(tensors, t)
    /\ phase \in {"plan", "measured", "failed"} => next \in 0..(Len(graph.nodes) + 1)
    /\ AllPlanned => next = Len(graph.nodes) + 1 /\ MemOk(State(chunks, hash))
    /\ ToPlan \/ AllPlanned => Planned(hash, chunks, next)

LEMMA SamePlanned ==
    ASSUME tensors' = tensors, graph' = graph, Planned(hash', chunks', next')
    PROVE  Planned(hash, chunks, next)'
<1>1. \A t : Uses(t)' = Uses(t) /\ Views(t)' = Views(t) /\ Owner(t)' = Owner(t) /\ Room(t)' = Room(t)
  BY DEF Uses, Views, Owner, Room, Src
<1>2. \A t, k, j : Left(t, k, j)' = Left(t, k, j)
  BY <1>1 DEF Left
<1>3. \A t, k, j : StillViews(t, k, j)' = StillViews(t, k, j)
  BY <1>1, <1>2 DEF StillViews
<1>4. \A t, k, j : Needed(t, k, j)' = Needed(t, k, j)
  BY <1>1, <1>2, <1>3 DEF Needed
<1>5. \A t, d : Placed(t, d)' = Placed(t, d)
  BY <1>1 DEF Placed
<1>6. T' = T /\ Rooms' = Rooms /\ Addrs(hash)' = Addrs(hash')
  BY <1>1 DEF T, Rooms, Addrs
<1>7. Counts(hash, next, 0)'
  BY <1>2, <1>3, <1>6 DEF Planned, Counts
<1>8. Live(hash, next, next, 0, {})'
  BY <1>4, <1>5, <1>6 DEF Planned, Live
<1>9. AllInside(hash, chunks, next)'
  BY <1>1, <1>5, <1>6 DEF Planned, AllInside
<1>10. \A a, b, t, m : WellPlaced(a, b, t, m)' = WellPlaced(a', b', t, m)
  BY <1>4 DEF WellPlaced
<1>11. Sound(Addrs(hash), Rooms, next)'
  BY <1>1, <1>4, <1>5, <1>6, <1>10 DEF Planned, Sound
<1>12. QED
  BY <1>7, <1>8, <1>9, <1>11 DEF Planned

LEMMA TensorOkAt ==
    ASSUME NEW ts, TensorsOk(ts), NEW t \in 1..Len(ts)
    PROVE  Len(ts[t].src) \in Nat
<1>1. ts[t].src \in Seq(1..(t - 1))
  BY DEF TensorsOk, TensorOk
<1>2. QED
  BY <1>1

(* New tensors are made that way, *)
LEMMA WellMadeMore ==
    ASSUME NEW ts, TensorsOk(ts), WellMade(ts), NEW r, Addable(ts, r),
           r.kind \in {"weight", "leaf"} => Len(r.src) = 0,
           SharesLast(ts, r)
    PROVE  WellMade(Append(ts, r))
<1> DEFINE us == Append(ts, r)
           n == Len(ts)
<1>1. ts \in Seq(TensorRecord) /\ n \in Nat /\ r \in TensorRecord
  BY DEF TensorsOk, Addable
<1>2. Len(us) = n + 1 /\ us[n + 1] = r /\ \A t \in 1..n : us[t] = ts[t]
  BY <1>1
<1>3. \A t \in 1..n : \A j \in 1..Len(ts[t].src) : ts[t].src[j] \in 1..n
  <2>1. DOMAIN ts = 1..n
    BY <1>1
  <2>2. QED
    BY <2>1, SrcTyped
<1>4. r.src \in Seq(1..n)
  BY DEF Addable
<1> HIDE DEF us
<1>5. \A q \in 1..n : RootOf(us, q) = RootOf(ts, q)
  BY <1>2 DEF RootOf
<1>6. ASSUME NEW t \in 1..n PROVE MadeOk(us, t)
  <2>1. MadeOk(ts, t) /\ us[t] = ts[t]
    BY <1>2 DEF WellMade
  <2>2. Len(ts[t].src) > 0 => LastSource(ts[t]) \in 1..n
    <3>1. Len(ts[t].src) \in Nat
      BY TensorOkAt
    <3>2. QED
      BY <1>3, <3>1 DEF LastSource
  <2>3. QED
    BY <1>5, <2>1, <2>2 DEF MadeOk, SharesLast, IsLeaf
<1>7. MadeOk(us, n + 1)
  <2>1. Len(r.src) > 0 => LastSource(r) \in 1..n
    BY <1>4 DEF LastSource
  <2>2. QED
    BY <1>2, <1>5, <2>1 DEF MadeOk, SharesLast, IsLeaf
<1>8. \A t \in 1..Len(us) : t \in 1..n \/ t = n + 1
  BY <1>1, <1>2
<1>9. WellMade(us)
  BY <1>6, <1>7, <1>8 DEF WellMade
<1>10. QED
  BY <1>9 DEF us

(* and sizes and outputs do not matter.                                    *)
LEMMA WellMadeStill ==
    ASSUME NEW ts, TensorsOk(ts), WellMade(ts), NEW us, Remade(us, ts)
    PROVE  WellMade(us) /\ Sinks(us) = Sinks(ts)
           /\ \A t \in Sinks(ts) : IsLeaf(us, t) <=> IsLeaf(ts, t)
<1>1. /\ DOMAIN ts = 1..Len(ts) /\ DOMAIN us = 1..Len(ts) /\ Len(us) = Len(ts)
      /\ \A t \in 1..Len(ts) : us[t].kind = ts[t].kind /\ us[t].src = ts[t].src
                               /\ us[t].root = ts[t].root
  BY DEF TensorsOk, Remade
<1>2. \A t \in 1..Len(ts) : \A j \in 1..Len(ts[t].src) : ts[t].src[j] \in 1..Len(ts)
  BY <1>1, SrcTyped
<1>3. \A q \in 1..Len(ts) : RootOf(us, q) = RootOf(ts, q)
  BY <1>1 DEF RootOf
<1>4. ASSUME NEW t \in 1..Len(us) PROVE MadeOk(us, t)
  <2>1. MadeOk(ts, t) /\ t \in 1..Len(ts)
    BY <1>1 DEF WellMade
  <2>2. Len(ts[t].src) > 0 => LastSource(ts[t]) \in 1..Len(ts)
    <3>1. Len(ts[t].src) \in Nat
      BY <2>1, TensorOkAt
    <3>2. QED
      BY <1>2, <2>1, <3>1 DEF LastSource
  <2>3. QED
    BY <1>1, <1>3, <2>1, <2>2 DEF MadeOk, SharesLast, LastSource, IsLeaf
<1>5. Sinks(us) = Sinks(ts)
  BY <1>1 DEF Sinks
<1>6. \A t \in 1..Len(ts) : IsLeaf(us, t) <=> IsLeaf(ts, t)
  BY <1>1 DEF IsLeaf
<1>7. QED
  BY <1>1, <1>4, <1>5, <1>6 DEF WellMade, Sinks

LEMMA LifeInit == Init => LifeInv
<1> SUFFICES ASSUME Init PROVE LifeInv
  OBVIOUS
<1>1. tensors = <<>> /\ phase = "create" /\ PlanInv
  BY PlanInit DEF Init
<1>2. WellMade(tensors)
  BY <1>1 DEF WellMade
<1>3. QED
  BY <1>1, <1>2 DEF LifeInv, ToPlan, AllPlanned

LEMMA LifeGraph ==
    ASSUME PlanInv, phase # "create"
    PROVE  GraphIs
BY DEF PlanInv, GraphIs

LEMMA LifeNext == LifeInv /\ [Next]_vars => LifeInv'
<1> SUFFICES ASSUME LifeInv, [Next]_vars PROVE LifeInv'
  OBVIOUS
<1>0. PlanInv /\ PlanInv' /\ WellMade(tensors)
  BY PlanNext DEF LifeInv
<1>1. TensorsOk(tensors) /\ SizesOk(tensors) /\ T = 1..Len(tensors)
  BY <1>0 DEF PlanInv, TensorsOk, T
<1>2. ASSUME NEW r, NewTensor(r), Addable(tensors, r),
             r.kind \in {"weight", "leaf"} => Len(r.src) = 0,
             SharesLast(tensors, r)
      PROVE  LifeInv'
  <2>1. phase' = "create" /\ tensors' = Append(tensors, r)
    BY <1>2 DEF NewTensor
  <2>2. WellMade(tensors')
    BY <1>0, <1>1, <1>2, <2>1, WellMadeMore
  <2>3. QED
    BY <1>0, <2>1, <2>2 DEF LifeInv, ToPlan, AllPlanned
<1>3. CASE NewLeaf
  <2>0. <<>> \in Seq(Nat) /\ Len(<<>>) = 0
    OBVIOUS
  <2>1. CASE NewTensor(Tensor("weight", <<>>, 0, 0))
    <3>1. Addable(tensors, Tensor("weight", <<>>, 0, 0))
      BY <1>1, LeafAddable
    <3>2. Tensor("weight", <<>>, 0, 0).src = <<>> /\ Tensor("weight", <<>>, 0, 0).root = 0
      BY DEF Tensor
    <3>3. QED
      BY <1>2, <2>0, <2>1, <3>1, <3>2 DEF SharesLast
  <2>2. CASE \E size \in Sizes : NewTensor(Tensor("leaf", <<>>, 0, size))
    <3>1. PICK size \in Sizes : NewTensor(Tensor("leaf", <<>>, 0, size))
      BY <2>2
    <3>2. Addable(tensors, Tensor("leaf", <<>>, 0, size))
      BY <1>1, LeafAddable
    <3>3. Tensor("leaf", <<>>, 0, size).src = <<>> /\ Tensor("leaf", <<>>, 0, size).root = 0
      BY DEF Tensor
    <3>4. QED
      BY <1>2, <2>0, <3>1, <3>2, <3>3 DEF SharesLast
  <2>3. QED
    BY <1>3, <2>1, <2>2 DEF NewLeaf
<1>4. CASE NewOp
  <2>1. PICK src \in Sources :
            \/ \E size \in Sizes : NewTensor(Tensor("op", src, 0, size))
            \/ LET size == tensors[RootOf(tensors, src[1])].size
               IN  size > 0 /\ NewTensor(Tensor("inplace", src, 0, size))
    BY <1>4 DEF NewOp
  <2>2. CASE \E size \in Sizes : NewTensor(Tensor("op", src, 0, size))
    <3>1. PICK size \in Sizes : NewTensor(Tensor("op", src, 0, size))
      BY <2>2
    <3>2. Addable(tensors, Tensor("op", src, 0, size))
      BY <1>1, OpAddable
    <3>3. Tensor("op", src, 0, size).kind = "op" /\ Tensor("op", src, 0, size).root = 0
      BY DEF Tensor
    <3>4. QED
      BY <1>2, <3>1, <3>2, <3>3 DEF SharesLast
  <2>3. CASE LET size == tensors[RootOf(tensors, src[1])].size
             IN  size > 0 /\ NewTensor(Tensor("inplace", src, 0, size))
    <3> DEFINE p == src[1]
               size == tensors[RootOf(tensors, p)].size
    <3>1. size > 0 /\ NewTensor(Tensor("inplace", src, 0, size))
      BY <2>3
    <3>2. size # 0 => size \in Sizes
      <4>1. p \in DOMAIN tensors
        BY <1>1, SourcesTyped DEF T
      <4>2. QED
        BY <1>1, <4>1, RootIs
    <3>3. size # 0
      BY <3>1
    <3> HIDE DEF size
    <3>4. Addable(tensors, Tensor("inplace", src, 0, size))
      BY <1>1, <3>2, <3>3, OpAddable
    <3>5. Tensor("inplace", src, 0, size).kind = "inplace" /\ Tensor("inplace", src, 0, size).root = 0
      BY DEF Tensor
    <3>6. QED
      BY <1>2, <3>1, <3>4, <3>5 DEF SharesLast
  <2>4. QED
    BY <2>1, <2>2, <2>3
<1>5. CASE NewView
  <2>1. PICK t \in T : NewTensor(Tensor("view", <<t>>, RootOf(tensors, t), 0))
    BY <1>5 DEF NewView
  <2>2. Addable(tensors, Tensor("view", <<t>>, RootOf(tensors, t), 0))
    BY <1>1, ViewAddable
  <2> DEFINE r == Tensor("view", <<t>>, RootOf(tensors, t), 0)
  <2>3. r.kind = "view" /\ r.src = <<t>> /\ r.root = RootOf(tensors, t)
    BY DEF Tensor
  <2>4. Len(<<t>>) = 1 /\ <<t>>[1] = t
    OBVIOUS
  <2> HIDE DEF r
  <2>5. SharesLast(tensors, r)
    BY <2>3, <2>4 DEF SharesLast, LastSource
  <2>6. QED
    BY <1>2, <2>1, <2>2, <2>3, <2>5 DEF r
<1>17. CASE NewStore
  <2>1. PICK a \in T, b \in T : NewTensor(Tensor("store", <<a, b>>, RootOf(tensors, b), 0))
    BY <1>17 DEF NewStore
  <2>2. Addable(tensors, Tensor("store", <<a, b>>, RootOf(tensors, b), 0))
    BY <1>1, StoreAddable
  <2> DEFINE r == Tensor("store", <<a, b>>, RootOf(tensors, b), 0)
  <2>3. r.kind = "store" /\ r.src = <<a, b>> /\ r.root = RootOf(tensors, b)
    BY DEF Tensor
  <2>4. Len(<<a, b>>) = 2 /\ <<a, b>>[2] = b
    OBVIOUS
  <2> HIDE DEF r
  <2>5. SharesLast(tensors, r)
    BY <2>3, <2>4 DEF SharesLast, LastSource
  <2>6. QED
    BY <1>2, <2>1, <2>2, <2>3, <2>5 DEF r
<1>6. CASE SetOutput
  <2>1. PICK t \in T : tensors' = [tensors EXCEPT ![t].output = TRUE] /\ phase' = "create"
    BY <1>6 DEF SetOutput
  <2>2. WellMade(tensors')
    <3>1. Remade(tensors', tensors)
      BY <1>1, <2>1, MarkedIs
    <3>2. QED
      BY <1>0, <1>1, <3>1, WellMadeStill
  <2>3. QED
    BY <1>0, <2>1, <2>2 DEF LifeInv, ToPlan, AllPlanned
<1>7. CASE BuildForward
  <2>1. /\ phase' = "plan" /\ next' = 0 /\ tensors' = tensors
        /\ \A t \in Sinks(tensors) : ~IsLeaf(tensors, t)
    BY <1>7 DEF BuildForward, built
  <2>2. Len(graph'.nodes) \in Nat
    BY <1>0, <2>1, ListedSeqs DEF PlanInv, Wellformed, NodesOk
  <2>3. QED
    BY <1>0, <2>1, <2>2 DEF LifeInv, ToPlan, AllPlanned
<1>8. CASE PlanLeafs
  <2> DEFINE s == AllocateAll(State(NoChunks, [t \in T |-> Unplanned]), graph.leafs)
  <2>1. /\ phase = "plan" /\ phase' = phase /\ tensors' = tensors /\ graph' = graph
        /\ chunks' = s.chunks /\ hash' = Counted(s.hash) /\ next' = 1
    BY <1>8 DEF PlanLeafs, built, Counted
  <2>2. GraphIs
    BY <1>0, <2>1, LifeGraph
  <2>3. Planned(Counted(s.hash), s.chunks, 1)
    BY <2>2, LeafsPlanned
  <2> HIDE DEF s
  <2>4. Planned(hash, chunks, next)'
    BY <2>1, <2>3, SamePlanned
  <2>5. next' \in 0..(Len(graph'.nodes) + 1)
    <3>1. Len(graph.nodes) \in Nat
      BY <2>2, ListedSeqs DEF GraphIs
    <3>2. QED
      BY <2>1, <3>1
  <2>6. QED
    BY <1>0, <2>1, <2>4, <2>5 DEF LifeInv, ToPlan, AllPlanned
<1>9. CASE PlanNode
  <2> DEFINE x == Node
             s == State(chunks, hash)
             r == UsesOver(AllocateNode(AllocateAll(s, Src(x)), x), Src(x))
  <2>1. /\ phase = "plan" /\ phase' = phase /\ tensors' = tensors /\ graph' = graph
        /\ next \in 1..Len(graph.nodes) /\ chunks' = r.chunks /\ hash' = r.hash
        /\ next' = next + 1
    BY <1>9 DEF PlanNode, built
  <2>2. GraphIs /\ Len(graph.nodes) \in Nat
    BY <1>0, <2>1, LifeGraph, ListedSeqs DEF GraphIs
  <2>3. next > 0
    BY <2>1, <2>2
  <2>4. MemOk(s) /\ Planned(hash, chunks, next)
    BY <1>0, <2>1, <2>3 DEF PlanInv, LifeInv, ToPlan
  <2>5. s.hash = hash /\ s.chunks = chunks /\ x = graph.nodes[next]
    BY DEF State, Node
  <2>6. r = UsesOver(AllocateNode(AllocateAll(s, Src(x)), x), Src(x))
    OBVIOUS
  <2> HIDE DEF r, s, x
  <2>7. Planned(r.hash, r.chunks, next + 1)
    BY <1>0, <2>1, <2>2, <2>4, <2>5, <2>6, NodePlanned
  <2>8. Planned(hash, chunks, next)'
    BY <2>1, <2>7, SamePlanned
  <2>9. next' \in 0..(Len(graph'.nodes) + 1)
    BY <2>1, <2>2
  <2>10. QED
    BY <1>0, <2>1, <2>8, <2>9 DEF LifeInv, ToPlan, AllPlanned
<1>10. CASE Reserve
  <2>1. /\ phase = "plan" /\ phase' \in {"measured", "reserved", "failed"}
        /\ tensors' = tensors /\ graph' = graph /\ next' = next
        /\ chunks' = chunks /\ hash' = hash /\ next = Len(graph.nodes) + 1
    BY <1>10 DEF Reserve, NewBuffer, Ready, built
  <2>2. Len(graph.nodes) \in Nat
    BY <1>0, <2>1, LifeGraph, ListedSeqs DEF GraphIs
  <2>3. Planned(hash, chunks, next)
    BY <2>1, <2>2 DEF LifeInv, ToPlan, AllPlanned
  <2>4. Planned(hash, chunks, next)'
    BY <2>1, <2>3, SamePlanned
  <2>5. MemOk(State(chunks', hash'))
    BY <1>0, <2>1, <2>2 DEF PlanInv
  <2>6. MemOk(State(chunks, hash))'
    BY <2>1, <2>5, SamePlan
  <2>7. QED
    BY <1>0, <2>1, <2>4, <2>6 DEF LifeInv, ToPlan, AllPlanned
<1>18. CASE ReserveAgain
  <2>1. /\ phase = "failed" /\ phase' \in {"measured", "reserved", "crashed"}
        /\ tensors' = tensors /\ graph' = graph /\ next' = next
        /\ chunks' = chunks /\ hash' = hash
    BY <1>18 DEF ReserveAgain, NewBuffer, Ready, built
  <2>2. Planned(hash, chunks, next) /\ MemOk(State(chunks', hash'))
        /\ next = Len(graph.nodes) + 1
    BY <2>1 DEF LifeInv, AllPlanned
  <2>3. Planned(hash, chunks, next)'
    BY <2>1, <2>2, SamePlanned
  <2>4. MemOk(State(chunks, hash))'
    BY <2>1, <2>2, SamePlan
  <2>5. QED
    BY <1>0, <2>1, <2>2, <2>3, <2>4 DEF LifeInv, ToPlan, AllPlanned
<1>11. CASE Rebuild
  <2>1. PICK now \in [Sizes -> Sizes] :
            /\ tensors' = [t \in T |-> [tensors[t] EXCEPT !.size = IF @ > 0 THEN now[@] ELSE 0]]
            /\ phase = "measured" /\ phase' = "alloc" /\ graph' = graph
    BY <1>11 DEF Rebuild
  <2>2. Remade(tensors', tensors)
    BY <1>1, <2>1, RebuiltIs
  <2>3. /\ WellMade(tensors') /\ Sinks(tensors') = Sinks(tensors)
        /\ \A t \in Sinks(tensors) : IsLeaf(tensors', t) <=> IsLeaf(tensors, t)
    BY <1>0, <1>1, <2>2, WellMadeStill
  <2>4. QED
    BY <1>0, <2>1, <2>3 DEF LifeInv, ToPlan, AllPlanned
<1>12. CASE AllocGraph
  <2>1. /\ phase = "alloc" /\ tensors' = tensors /\ graph' = graph
        /\ (phase' = "plan" /\ next' = 0) \/ phase' = "reserved"
    BY <1>12 DEF AllocGraph, built
  <2>2. Len(graph.nodes) \in Nat
    BY <1>0, <2>1, LifeGraph, ListedSeqs DEF GraphIs
  <2>3. QED
    BY <1>0, <2>1, <2>2 DEF LifeInv, ToPlan, AllPlanned
<1>13. CASE SetInputs
  <2>1. phase = "reserved" /\ phase' = "compute" /\ tensors' = tensors /\ graph' = graph
    BY <1>13 DEF SetInputs, built
  <2>2. QED
    BY <1>0, <2>1 DEF LifeInv, ToPlan, AllPlanned
<1>14. CASE Compute
  <2>1. /\ phase = "compute" /\ phase' \in {"done", "compute"}
        /\ tensors' = tensors /\ graph' = graph
    BY <1>14 DEF Compute, built
  <2>2. QED
    BY <1>0, <2>1 DEF LifeInv, ToPlan, AllPlanned
<1>15. CASE UNCHANGED vars
  <2>1. /\ phase' = phase /\ tensors' = tensors /\ graph' = graph /\ next' = next
        /\ chunks' = chunks /\ hash' = hash
    BY <1>15 DEF vars
  <2>2. ToPlan \/ AllPlanned => Planned(hash, chunks, next)'
    BY <2>1, SamePlanned DEF LifeInv
  <2>3. AllPlanned => MemOk(State(chunks', hash'))
    BY <2>1 DEF LifeInv
  <2>4. AllPlanned => MemOk(State(chunks, hash))'
    BY <2>1, <2>3, SamePlan
  <2>5. QED
    BY <1>0, <2>1, <2>2, <2>4 DEF LifeInv, ToPlan, AllPlanned
<1>16. QED
  BY <1>3, <1>4, <1>5, <1>6, <1>7, <1>8, <1>9, <1>10, <1>11, <1>12, <1>13, <1>14, <1>15,
     <1>17, <1>18 DEF Next

(* The invariant of planning: the counters of ggml_gallocr's hash values   *)
(* say how many uses and views are left, a tensor holds memory from when   *)
(* it gets its place until nothing needs it, and whatever got its place    *)
(* while another was needed lies beside it, or took over its memory.       *)
THEOREM LifetimesInvariant == Spec => []LifeInv
<1>1. Init => LifeInv
  BY LifeInit
<1>2. LifeInv /\ [Next]_vars => LifeInv'
  BY LifeNext
<1>3. QED
  BY <1>1, <1>2, PTL DEF Spec

(* When the graph is planned every tensor that still holds memory is an    *)
(* output or one that nothing is computed from, or that such a tensor is a *)
(* view of: ggml_gallocr_free_node frees all others at their last use,     *)
(* whatever the graph.                                                     *)
THEOREM MemoryIsFreed == Spec => []NothingLeaks
<1>1. LifeInv => NothingLeaks
  <2> SUFFICES ASSUME LifeInv, phase = "measured", NEW t \in T, hash[t].allocated
               PROVE  tensors[t].output \/ \E u \in Sinks(tensors) : RootOf(tensors, u) = t
    BY DEF NothingLeaks
  <2> DEFINE n == Len(graph.nodes)
  <2>1. /\ GraphIs /\ WellMade(tensors) /\ next = n + 1
        /\ Live(hash, next, next, 0, {}) /\ n \in Nat
    BY LifeGraph, ListedSeqs DEF LifeInv, AllPlanned, Planned, GraphIs
  <2>2. hash[t].allocated = TRUE
    <3>1. MemOk(State(chunks, hash)) /\ State(chunks, hash).hash = hash
      BY DEF LifeInv, AllPlanned, State
    <3>2. hash \in [T -> HashEntry]
      BY <3>1 DEF MemOk, States
    <3>3. hash[t].allocated \in BOOLEAN
      BY <3>2, HashTyped
    <3>4. QED
      BY <3>3
  <2>3. Placed(t, next) /\ Needed(t, next, 0)
    BY <2>1, <2>2 DEF Live
  <2>4. \A v \in T : Left(v, next, 0) = {}
    <3> SUFFICES ASSUME NEW v \in T, NEW u \in Uses(v) PROVE u \notin Left(v, next, 0)
      BY DEF Left
    <3>1. u[1] \in 1..n
      BY <2>1, UsesIs
    <3> DEFINE a == u[1]
    <3> HIDE DEF a, n
    <3>2. ~(a > n + 1 \/ a = n + 1)
      BY <2>1, <3>1 DEF a
    <3>3. QED
      BY <2>1, <3>2 DEF Left, a
  <2>5. CASE Uses(t) = {}
    <3>1. t \in Sinks(tensors)
      BY <2>1, <2>5, SinkIs
    <3>2. RootOf(tensors, t) = t
      BY <2>3 DEF Placed, Owner, RootOf
    <3>3. QED
      BY <3>1, <3>2
  <2>6. CASE StillViews(t, next, 0) # {}
    <3>1. PICK i \in StillViews(t, next, 0) : TRUE
      BY <2>6
    <3> DEFINE v == graph.nodes[i]
    <3>2. i \in 1..n /\ tensors[v].root = t
      BY <2>1, ListedSeqs DEF StillViews, Views, GraphIs
    <3>3. v \in T
      BY <2>1, <3>2, ListedSeqs DEF GraphIs
    <3>4. Uses(v) = {}
      BY <2>4, <3>1, <3>3 DEF StillViews
    <3> HIDE DEF v
    <3>5. v \in Sinks(tensors)
      BY <2>1, <3>3, <3>4, SinkIs
    <3>6. RootOf(tensors, v) = t
      <4>1. t # 0
        BY <2>1 DEF GraphIs, TensorsOk, T
      <4>2. QED
        BY <3>2, <4>1 DEF RootOf
    <3>7. QED
      BY <3>5, <3>6
  <2>7. QED
    BY <2>3, <2>4, <2>5, <2>6 DEF Needed
<1>2. QED
  BY <1>1, LifetimesInvariant, PTL

-----------------------------------------------------------------------------
(* What a tensor needs does not depend on its size: another graph of the   *)
(* same make needs the same.                                               *)
SameMake ==
    /\ graph' = graph /\ T' = T
    /\ \A t \in T : /\ tensors'[t].kind = tensors[t].kind /\ tensors'[t].src = tensors[t].src
                    /\ tensors'[t].root = tensors[t].root
                    /\ tensors'[t].output = tensors[t].output

LEMMA SameNeeds ==
    ASSUME GraphIs, SameMake
    PROVE  /\ \A t \in T : IsLeaf(tensors, t)' <=> IsLeaf(tensors, t)
           /\ \A t \in T : Owner(t)' <=> Owner(t)
           /\ \A t \in T : Src(t)' = Src(t)
           /\ \A t \in T : \A d : Placed(t, d)' <=> Placed(t, d)
           /\ \A t \in T : \A k, j : Needed(t, k, j)' <=> Needed(t, k, j)
<1>0. /\ graph' = graph /\ T' = T /\ DOMAIN graph.nodes = 1..Len(graph.nodes)
      /\ \A i \in DOMAIN graph.nodes : graph.nodes[i] \in T
  BY ListedSeqs DEF GraphIs, SameMake
<1>1. \A t \in T : /\ IsLeaf(tensors, t)' <=> IsLeaf(tensors, t)
                   /\ Owner(t)' <=> Owner(t)
                   /\ Src(t)' = Src(t)
  BY DEF SameMake, IsLeaf, Owner, Src
<1>2. \A t : Uses(t)' = Uses(t)
  BY <1>0, <1>1 DEF Uses
<1>3. \A t : Views(t)' = Views(t)
  BY <1>0 DEF Views, SameMake
<1>4. \A t, k, j : Left(t, k, j)' = Left(t, k, j)
  BY <1>2 DEF Left
<1>5. \A t, k, j : StillViews(t, k, j)' = StillViews(t, k, j)
  BY <1>0, <1>2, <1>3, <1>4 DEF StillViews
<1>6. \A t \in T : \A k, j : Needed(t, k, j)' <=> Needed(t, k, j)
  BY <1>2, <1>4, <1>5 DEF Needed, SameMake
<1>7. \A t \in T : \A d : Placed(t, d)' <=> Placed(t, d)
  BY <1>0, <1>1 DEF Placed
<1>8. QED
  BY <1>1, <1>6, <1>7

(* The plan: all owners have room in the buffer, where nothing that is     *)
(* needed lies in the way, and the entries of the plan say where.          *)
Within(a, x) ==
    a.chunk \in 1..Len(buffer) /\ a.offset \in Nat /\ a.offset + x <= buffer[a.chunk]

EntryOk(e, t, room) ==
    IF Owner(t) THEN /\ e.planned = TRUE /\ e.addr = hash[t].addr
                     /\ e.size_max \in Nat /\ e.size_max <= room[t]
                ELSE e.planned = FALSE

EntriesOk(room) ==
    /\ Len(plan.leafs) = Len(graph.leafs) /\ Len(plan.nodes) = Len(graph.nodes)
    /\ \A i \in 1..Len(graph.leafs) : EntryOk(plan.leafs[i], graph.leafs[i], room)
    /\ \A i \in 1..Len(graph.nodes) :
          /\ EntryOk(plan.nodes[i].dst, graph.nodes[i], room)
          /\ \A j \in 1..Len(Src(graph.nodes[i])) :
                EntryOk(plan.nodes[i].src[j], Src(graph.nodes[i])[j], room)

PlanOk(room) ==
    /\ \A t \in T : Owner(t) => room[t] \in Nat /\ Within(hash[t].addr, room[t])
    /\ Sound([t \in T |-> hash[t].addr], room, Len(graph.nodes) + 1)
    /\ EntriesOk(room)

Fits(room) == \A t \in T : Owner(t) => tensors[t].size <= room[t]

LEMMA PlanStays ==
    ASSUME GraphIs, SameMake, hash' = hash, plan' = plan, buffer' = buffer,
           NEW room, PlanOk(room)
    PROVE  PlanOk(room)'
<1>0. /\ graph' = graph /\ T' = T /\ Len(graph.nodes) \in Nat
      /\ \A i \in 1..Len(graph.nodes) : graph.nodes[i] \in T /\ Src(graph.nodes[i]) \in Seq(T)
      /\ graph.leafs \in Seq(T)
  BY ListedSeqs DEF GraphIs, SameMake
<1>1. /\ \A t \in T : IsLeaf(tensors, t)' <=> IsLeaf(tensors, t)
      /\ \A t \in T : Owner(t)' <=> Owner(t)
      /\ \A t \in T : Src(t)' = Src(t)
      /\ \A t \in T : \A d : Placed(t, d)' <=> Placed(t, d)
      /\ \A t \in T : \A k, j : Needed(t, k, j)' <=> Needed(t, k, j)
  BY SameNeeds
<1>2. \A a, x : Within(a, x)' <=> Within(a', x')
  BY DEF Within
<1>3. (\A t \in T : Owner(t) => room[t] \in Nat /\ Within(hash[t].addr, room[t]))'
  BY <1>0, <1>1, <1>2 DEF PlanOk
<1>4. \A t \in T : \A e : EntryOk(e, t, room)' <=> EntryOk(e', t, room)
  BY <1>1 DEF EntryOk
<1>5. EntriesOk(room)'
  <2>1. \A i \in 1..Len(graph.leafs) : graph.leafs[i] \in T
    BY <1>0
  <2>2. \A i \in 1..Len(graph.nodes) : /\ Src(graph.nodes[i])' = Src(graph.nodes[i])
                                       /\ \A j \in 1..Len(Src(graph.nodes[i])) :
                                             Src(graph.nodes[i])[j] \in T
    BY <1>0, <1>1
  <2>3. EntriesOk(room)
    BY DEF PlanOk
  <2>4. (\A i \in 1..Len(graph.leafs) : EntryOk(plan.leafs[i], graph.leafs[i], room))'
    BY <1>0, <1>1, <2>1, <2>3 DEF EntriesOk, EntryOk
  <2>5. ASSUME NEW i \in 1..Len(graph.nodes)
        PROVE  /\ EntryOk(plan.nodes[i].dst, graph.nodes[i], room)'
               /\ \A j \in 1..Len(Src(graph.nodes[i])) :
                     EntryOk(plan.nodes[i].src[j], Src(graph.nodes[i])[j], room)'
    BY <1>0, <1>1, <2>2, <2>3 DEF EntriesOk, EntryOk
  <2>6. QED
    BY <1>0, <2>2, <2>3, <2>4, <2>5 DEF EntriesOk
<1>6. Sound([t \in T |-> hash[t].addr], room, Len(graph.nodes) + 1)'
  <2> DEFINE addr == [t \in T |-> hash[t].addr]
             n == Len(graph.nodes)
  <2>1. Sound(addr, room, n + 1) /\ addr' = addr
    BY <1>0 DEF PlanOk
  <2> HIDE DEF addr
  <2>2. (\A t, u \in T : Owner(t) /\ IsLeaf(tensors, t) /\ Owner(u) /\ IsLeaf(tensors, u)
                       /\ t # u => Beside(addr[t], room[t], addr[u], room[u]))'
    BY <1>0, <1>1, <2>1 DEF Sound, Beside
  <2>3. ASSUME NEW m \in 1..((n + 1) - 1), NEW t \in T, Owner(graph.nodes[m])', Placed(t, m)',
               Needed(t, m, 0)'
        PROVE  WellPlaced(addr, room, t, m)'
    <3>1. m \in 1..n /\ graph.nodes[m] \in T
      BY <1>0
    <3>2. Owner(graph.nodes[m]) /\ Placed(t, m) /\ Needed(t, m, 0)
      BY <1>0, <1>1, <2>3, <3>1
    <3>3. WellPlaced(addr, room, t, m)
      BY <2>1, <3>2 DEF Sound
    <3>4. QED
      BY <1>0, <1>1, <2>1, <3>1, <3>3 DEF WellPlaced, Beside, SameMake
  <2>4. QED
    BY <1>0, <2>2, <2>3 DEF Sound, addr
<1>7. QED
  BY <1>3, <1>5, <1>6 DEF PlanOk

LEMMA OwnersPlaced ==
    ASSUME GraphIs, NEW t \in T, Owner(t)
    PROVE  Placed(t, Len(graph.nodes) + 1)
<1>1. CASE IsLeaf(tensors, t)
  BY <1>1 DEF Placed
<1>2. CASE ~IsLeaf(tensors, t)
  <2>1. PICK i \in 1..Len(graph.nodes) : graph.nodes[i] = t
    BY <1>2, NodeIndex
  <2>2. Len(graph.nodes) \in Nat
    BY ListedSeqs DEF GraphIs
  <2>3. i \in 1..((Len(graph.nodes) + 1) - 1)
    BY <2>2
  <2>4. QED
    BY <2>1, <2>3 DEF Placed
<1>3. QED
  BY <1>1, <1>2

(* An aligned size is no smaller.                                          *)
LEMMA AlignedCovers ==
    ASSUME NEW size \in Nat
    PROVE  size <= Aligned(size)
<1> DEFINE x == size + alignment - 1
           q == x \div alignment
           r == x % alignment
<1>1. alignment \in Nat /\ alignment >= 1 /\ x \in Nat
  BY TallocrAssumption
<1>2. q \in Nat /\ r \in 0..(alignment - 1) /\ x = alignment * q + r
  BY <1>1
<1>3. Aligned(size) = q * alignment
  BY DEF Aligned
<1>4. alignment * q = q * alignment /\ alignment * q \in Nat
  <2> HIDE DEF q
  <2>1. QED
    BY <1>1, <1>2
<1>5. size = x - alignment + 1
  BY <1>1
<1> HIDE DEF x, q, r
<1> DEFINE p == alignment * q
<1>6. p \in Nat /\ Aligned(size) = p /\ x = p + r
  BY <1>2, <1>3, <1>4
<1> HIDE DEF p
<1>7. QED
  BY <1>1, <1>2, <1>5, <1>6

(* When the plan is kept it is such a plan, and has room for the tensors   *)
(* it was made for.                                                        *)
LEMMA BufferIs ==
    ASSUME chunks \in Seq(Chunk), buffer \in Seq(Nat), NEW after,
           after = ChunkSizes \/ (after = buffer /\ ~TooSmall)
    PROVE  /\ after \in Seq(Nat) /\ Len(chunks) <= Len(after)
           /\ \A c \in 1..Len(chunks) : chunks[c].max_size <= after[c]
<1>1. /\ Len(chunks) \in Nat /\ DOMAIN chunks = 1..Len(chunks)
      /\ \A c \in 1..Len(chunks) : chunks[c].max_size \in Nat
  BY ChunkTyped
<1>2. CASE after = ChunkSizes
  <2>1. after = [c \in 1..Len(chunks) |-> chunks[c].max_size]
    BY <1>1, <1>2 DEF ChunkSizes
  <2>2. after \in [1..Len(chunks) -> Nat]
    BY <1>1, <2>1
  <2>2a. after \in Seq(Nat) /\ Len(after) = Len(chunks)
    BY <1>1, <2>2
  <2>3. QED
    BY <1>1, <2>1, <2>2a
<1>3. CASE after = buffer /\ ~TooSmall
  <2>1. Len(buffer) \in Nat /\ \A c \in 1..Len(buffer) : buffer[c] \in Nat
    BY ElementOfSeq
  <2>2. \A c \in 1..Len(chunks) : ~(c > Len(buffer)) /\ ~(chunks[c].max_size > buffer[c])
    BY <1>1, <1>3 DEF TooSmall
  <2>3. \A c \in 1..Len(chunks) : c \in 1..Len(buffer) /\ chunks[c].max_size <= buffer[c]
    BY <1>1, <2>1, <2>2
  <2>4. Len(chunks) <= Len(buffer)
    BY <1>1, <2>1, <2>3
  <2>5. QED
    BY <1>3, <2>3, <2>4
<1>4. QED
  BY <1>2, <1>3

LEMMA EntryIs ==
    ASSUME GraphIs, NEW t \in T
    PROVE  EntryOk(Entry(t), t, Rooms)
<1>1. Owner(t) <=> ~(IsView(tensors, t) \/ tensors[t].kind = "weight")
  BY DEF Owner, IsView
<1>2. CASE Owner(t)
  <2>1. Entry(t) = [planned |-> TRUE, addr |-> hash[t].addr, size_max |-> tensors[t].size]
    BY <1>1, <1>2 DEF Entry
  <2>2. tensors[t].size \in Nat
    BY <1>2, RoomTyped, GraphAssumption DEF GraphIs
  <2>3. tensors[t].size <= Rooms[t]
    BY <2>2, AlignedCovers DEF Rooms, Room
  <2>4. QED
    BY <1>2, <2>1, <2>2, <2>3 DEF EntryOk
<1>3. CASE ~Owner(t)
  BY <1>1, <1>3 DEF Entry, EntryOk, NoEntry
<1>4. QED
  BY <1>2, <1>3

(* What Reserve and ReserveAgain do if they get the memory they ask for. *)
Reserved ==
    /\ tensors' = tensors /\ graph' = graph /\ next' = next
    /\ chunks' = chunks /\ hash' = hash /\ data' = data /\ plan' = NewPlan
    /\ buffer' = ChunkSizes \/ (buffer' = buffer /\ ~TooSmall)

(* And if they do not. *)
Refused(failed) ==
    /\ tensors' = tensors /\ graph' = graph /\ next' = next
    /\ chunks' = chunks /\ hash' = hash /\ data' = data
    /\ phase' = failed /\ buffer' = <<>>

LEMMA ReserveCases ==
    ASSUME Reserve \/ ReserveAgain
    PROVE  /\ Reserve => phase = "plan"
           /\ ReserveAgain => phase = "failed"
           /\ \/ Reserved /\ phase' \in {"measured", "reserved"}
              \/ Reserve /\ Refused("failed")
              \/ ReserveAgain /\ Refused("crashed")
<1>1. CASE Reserve
  <2>1. /\ phase = "plan" /\ tensors' = tensors /\ graph' = graph /\ next' = next
        /\ chunks' = chunks /\ hash' = hash /\ data' = data /\ plan' = NewPlan
    BY <1>1 DEF Reserve, built, placed
  <2>2. \/ phase' = Ready /\ (buffer' = ChunkSizes \/ (buffer' = buffer /\ ~TooSmall))
        \/ phase' = "failed" /\ buffer' = <<>>
    BY <1>1 DEF Reserve, NewBuffer
  <2>3. ~ReserveAgain
    BY <2>1 DEF ReserveAgain
  <2>4. QED
    BY <1>1, <2>1, <2>2, <2>3 DEF Reserved, Refused, Ready
<1>2. CASE ReserveAgain
  <2>1. /\ phase = "failed" /\ tensors' = tensors /\ graph' = graph /\ next' = next
        /\ chunks' = chunks /\ hash' = hash /\ data' = data /\ plan' = NewPlan
    BY <1>2 DEF ReserveAgain, built, placed
  <2>2. \/ phase' = Ready /\ buffer' = ChunkSizes
        \/ phase' = "crashed" /\ buffer' = <<>>
    BY <1>2 DEF ReserveAgain, NewBuffer
  <2>3. ~Reserve
    BY <2>1 DEF Reserve
  <2>4. QED
    BY <1>2, <2>1, <2>2, <2>3 DEF Reserved, Refused, Ready
<1>3. QED
  BY <1>1, <1>2

LEMMA ReserveIs ==
    ASSUME GraphIs, Reserved, next = Len(graph.nodes) + 1, MemOk(State(chunks, hash)),
           Planned(hash, chunks, next), buffer \in Seq(Nat)
    PROVE  buffer' \in Seq(Nat) /\ \E room : PlanOk(room)' /\ Fits(room)'
<1> DEFINE n == Len(graph.nodes)
<1>1. PICK room : room = Rooms
  OBVIOUS
<1>0. /\ n \in Nat /\ graph.leafs \in Seq(T) /\ graph.nodes \in Seq(T) /\ TensorsOk(tensors)
      /\ \A i \in 1..n : graph.nodes[i] \in T /\ Src(graph.nodes[i]) \in Seq(T)
  BY ListedSeqs DEF GraphIs
<1>2. /\ graph' = graph /\ tensors' = tensors /\ hash' = hash /\ T' = T
      /\ plan' = [leafs |-> Entries(graph.leafs),
                  nodes |-> [i \in DOMAIN graph.nodes |->
                      LET t == graph.nodes[i]
                      IN  [dst |-> Entry(t), src |-> Entries(Src(t))]]]
      /\ buffer' = ChunkSizes \/ (buffer' = buffer /\ ~TooSmall)
  BY DEF Reserved, NewPlan, T
<1>3. /\ \A t \in T : IsLeaf(tensors, t)' <=> IsLeaf(tensors, t)
      /\ \A t \in T : Owner(t)' <=> Owner(t)
      /\ \A t \in T : Src(t)' = Src(t)
      /\ \A t \in T : \A d : Placed(t, d)' <=> Placed(t, d)
      /\ \A t \in T : \A k, j : Needed(t, k, j)' <=> Needed(t, k, j)
  <2>1. SameMake
    BY <1>2 DEF SameMake
  <2>2. QED
    BY <2>1, SameNeeds
<1>4. \A t \in T : Owner(t) => room[t] = Room(t) /\ room[t] \in Nat /\ tensors[t].size \in Nat
  BY <1>0, <1>1, RoomTyped, GraphAssumption DEF Rooms
<1>5. chunks \in Seq(Chunk) /\ hash \in [T -> HashEntry] /\ Len(chunks) \in Nat
  <2>1. State(chunks, hash).chunks = chunks /\ State(chunks, hash).hash = hash
    BY DEF State
  <2>2. QED
    BY <2>1 DEF MemOk, States
<1>6. /\ buffer' \in Seq(Nat) /\ Len(chunks) <= Len(buffer')
      /\ \A c \in 1..Len(chunks) : chunks[c].max_size <= buffer'[c]
  BY <1>2, <1>5, BufferIs
<1>7. ASSUME NEW t \in T, Owner(t) PROVE room[t] \in Nat /\ Within(hash[t].addr, room[t])'
  <2>1. Placed(t, n + 1)
    BY <1>7, OwnersPlaced
  <2>2. Inside(hash[t].addr, Room(t), chunks)
    BY <2>1 DEF Planned, AllInside
  <2> DEFINE c == hash[t].addr.chunk
             o == hash[t].addr.offset
  <2>3. c \in 1..Len(chunks) /\ o + Room(t) <= chunks[c].max_size /\ o \in Nat
    BY <1>5, <2>2, HashTyped DEF Inside
  <2>4. Len(buffer') \in Nat /\ \A i \in 1..Len(buffer') : buffer'[i] \in Nat
    BY <1>6, ElementOfSeq
  <2>5. chunks[c].max_size \in Nat /\ chunks[c].max_size <= buffer'[c]
    BY <1>5, <1>6, <2>3, ChunkTyped
  <2> HIDE DEF c, o
  <2>6. c \in 1..Len(buffer')
    BY <1>5, <1>6, <2>3, <2>4
  <2>7. o + Room(t) <= buffer'[c]
    <3>1. \A i, j, l \in Nat : i <= j /\ j <= l => i <= l
      OBVIOUS
    <3>2. o + Room(t) \in Nat
      BY <1>4, <1>7, <2>3
    <3>3. QED
      BY <2>3, <2>4, <2>5, <2>6, <3>1, <3>2
  <2>8. QED
    BY <1>2, <1>4, <1>7, <2>3, <2>6, <2>7 DEF Within, c, o
<1>8. Sound([t \in T |-> hash[t].addr], room, n + 1)'
  <2> DEFINE addr == [t \in T |-> hash[t].addr]
  <2>1. Sound(addr, room, n + 1) /\ addr' = addr
    BY <1>1, <1>2 DEF Planned, Addrs
  <2> HIDE DEF addr
  <2>2. (\A t, u \in T : Owner(t) /\ IsLeaf(tensors, t) /\ Owner(u) /\ IsLeaf(tensors, u)
                       /\ t # u => Beside(addr[t], room[t], addr[u], room[u]))'
    BY <1>2, <1>3, <2>1 DEF Sound, Beside
  <2>3. ASSUME NEW m \in 1..((n + 1) - 1), NEW t \in T, Owner(graph.nodes[m])', Placed(t, m)',
               Needed(t, m, 0)'
        PROVE  WellPlaced(addr, room, t, m)'
    <3>1. m \in 1..n /\ graph.nodes[m] \in T
      BY <1>0
    <3>2. Owner(graph.nodes[m]) /\ Placed(t, m) /\ Needed(t, m, 0)
      BY <1>2, <1>3, <2>3, <3>1
    <3>3. WellPlaced(addr, room, t, m)
      BY <2>1, <3>2 DEF Sound
    <3>4. QED
      BY <1>2, <1>3, <2>1, <3>1, <3>3 DEF WellPlaced, Beside
  <2>4. QED
    BY <1>2, <2>2, <2>3 DEF Sound, addr
<1>9. EntriesOk(room)'
  <2>1. \A t \in T : EntryOk(Entry(t), t, room)
    BY <1>1, EntryIs
  <2>2. \A t \in T : \A e : EntryOk(e, t, room)' <=> EntryOk(e', t, room)
    BY <1>2, <1>3 DEF EntryOk
  <2>3. DOMAIN graph.nodes = 1..n /\ DOMAIN graph.leafs = 1..Len(graph.leafs)
        /\ \A i \in 1..n : DOMAIN Src(graph.nodes[i]) = 1..Len(Src(graph.nodes[i]))
    BY <1>0
  <2>4. /\ plan'.leafs = [i \in 1..Len(graph.leafs) |-> Entry(graph.leafs[i])]
        /\ Len(graph.leafs) \in Nat
    BY <1>0, <1>2, <2>3 DEF Entries
  <2>5. Len(plan'.leafs) = Len(graph.leafs)
    BY <2>4
  <2>6. /\ Len(plan'.nodes) = n
        /\ \A i \in 1..n :
              /\ plan'.nodes[i].dst = Entry(graph.nodes[i])
              /\ \A j \in 1..Len(Src(graph.nodes[i])) :
                    plan'.nodes[i].src[j] = Entry(Src(graph.nodes[i])[j])
    <3> DEFINE e(i) == [dst |-> Entry(graph.nodes[i]), src |-> Entries(Src(graph.nodes[i]))]
    <3>1. plan'.nodes = [i \in 1..n |-> e(i)]
      BY <1>2, <2>3
    <3>2. Len(plan'.nodes) = n
      <4> HIDE DEF e
      <4>1. QED
        BY <1>0, <3>1
    <3>3. \A i \in 1..n : plan'.nodes[i] = e(i)
      <4> HIDE DEF e
      <4>1. QED
        BY <3>1
    <3>4. \A i \in 1..n : /\ e(i).dst = Entry(graph.nodes[i])
                          /\ e(i).src = Entries(Src(graph.nodes[i]))
      OBVIOUS
    <3>5. ASSUME NEW i \in 1..n
          PROVE  \A j \in 1..Len(Src(graph.nodes[i])) :
                    Entries(Src(graph.nodes[i]))[j] = Entry(Src(graph.nodes[i])[j])
      BY <2>3, <3>5 DEF Entries
    <3> HIDE DEF e
    <3>6. QED
      BY <3>2, <3>3, <3>4, <3>5
  <2>7. ASSUME NEW i \in 1..Len(graph.leafs)
        PROVE  EntryOk(plan.leafs[i], graph.leafs[i], room)'
    <3>1. graph.leafs[i] \in T /\ plan'.leafs[i] = Entry(graph.leafs[i])
      BY <1>0, <2>4
    <3>2. EntryOk(plan'.leafs[i], graph.leafs[i], room)
      BY <2>1, <3>1
    <3>3. QED
      BY <1>2, <1>3, <3>1, <3>2 DEF EntryOk
  <2>8. ASSUME NEW i \in 1..n
        PROVE  /\ EntryOk(plan.nodes[i].dst, graph.nodes[i], room)'
               /\ \A j \in 1..Len(Src(graph.nodes[i])) :
                     EntryOk(plan.nodes[i].src[j], Src(graph.nodes[i])[j], room)'
    <3>1. EntryOk(plan'.nodes[i].dst, graph.nodes[i], room)
      BY <1>0, <2>1, <2>6
    <3>2. \A j \in 1..Len(Src(graph.nodes[i])) :
             /\ Src(graph.nodes[i])[j] \in T
             /\ EntryOk(plan'.nodes[i].src[j], Src(graph.nodes[i])[j], room)
      <4>1. \A j \in 1..Len(Src(graph.nodes[i])) : Src(graph.nodes[i])[j] \in T
        BY <1>0, ElementOfSeq
      <4>2. QED
        BY <2>1, <2>6, <4>1
    <3>3. Src(graph.nodes[i])' = Src(graph.nodes[i]) /\ graph.nodes[i] \in T
      BY <1>0, <1>2, <1>3
    <3>4. EntryOk(plan.nodes[i].dst, graph.nodes[i], room)'
      BY <1>2, <1>3, <3>1, <3>3 DEF EntryOk
    <3>5. \A j \in 1..Len(Src(graph.nodes[i])) :
             EntryOk(plan.nodes[i].src[j], Src(graph.nodes[i])[j], room)'
      BY <1>2, <1>3, <3>2, <3>3 DEF EntryOk
    <3>6. QED
      BY <3>4, <3>5
  <2>9. \A i \in 1..n : Src(graph.nodes[i])' = Src(graph.nodes[i])
    BY <1>0, <1>2, <1>3
  <2>10. QED
    BY <1>2, <2>5, <2>6, <2>7, <2>8, <2>9 DEF EntriesOk
<1>10. PlanOk(room)'
  BY <1>2, <1>3, <1>7, <1>8, <1>9 DEF PlanOk
<1>11. Fits(room)'
  <2>1. \A t \in T : Owner(t) => tensors[t].size <= room[t]
    BY <1>4, AlignedCovers DEF Room
  <2>2. QED
    BY <1>2, <1>3, <2>1 DEF Fits
<1>12. QED
  BY <1>6, <1>10, <1>11

-----------------------------------------------------------------------------
(* ggml_gallocr_init_tensor gives every owner the address the plan has for *)
(* it, in whatever order the tensors come and however often.               *)
Initial(S) == [t \in T |-> IF t \in S /\ Owner(t) THEN hash[t].addr ELSE Nowhere]

Somewhere == \A t \in T : Owner(t) => hash[t].addr # Nowhere

LEMMA InitTensorIs ==
    ASSUME Somewhere, NEW S, NEW t \in T, NEW e, NEW room, EntryOk(e, t, room)
    PROVE  InitTensor(Initial(S), t, e) = Initial(S \cup {t})
<1> DEFINE d == Initial(S)
           f == Initial(S \cup {t})
<1>1. /\ d = [u \in T |-> d[u]] /\ f = [u \in T |-> f[u]]
      /\ \A u \in T : d[u] = IF u \in S /\ Owner(u) THEN hash[u].addr ELSE Nowhere
      /\ \A u \in T : f[u] = IF u \in S \cup {t} /\ Owner(u) THEN hash[u].addr ELSE Nowhere
  BY DEF Initial
<1>2. InitTensor(d, t, e) = IF d[t] # Nowhere \/ ~e.planned THEN d
                            ELSE [d EXCEPT ![t] = e.addr]
  BY DEF InitTensor
<1> HIDE DEF d, f
<1>3. CASE d[t] # Nowhere \/ e.planned = FALSE
  <2>1. InitTensor(d, t, e) = d
    BY <1>2, <1>3
  <2>2. \A u \in T : d[u] = f[u]
    BY <1>1, <1>3 DEF EntryOk
  <2>3. d = f
    BY <1>1, <2>2
  <2>4. QED
    BY <2>1, <2>3 DEF d, f
<1>4. CASE d[t] = Nowhere /\ e.planned = TRUE
  <2>1. InitTensor(d, t, e) = [d EXCEPT ![t] = e.addr]
    BY <1>2, <1>4
  <2>2. Owner(t) /\ e.addr = hash[t].addr
    BY <1>4 DEF EntryOk
  <2> DEFINE g == [d EXCEPT ![t] = e.addr]
  <2>3. g = [u \in T |-> g[u]] /\ \A u \in T : g[u] = IF u = t THEN e.addr ELSE d[u]
    BY <1>1
  <2> HIDE DEF g
  <2>4. \A u \in T : g[u] = f[u]
    BY <1>1, <2>2, <2>3
  <2>5. g = f
    BY <1>1, <2>3, <2>4
  <2>6. QED
    BY <2>1, <2>5 DEF d, f, g
<1>5. QED
  BY <1>3, <1>4 DEF EntryOk

LEMMA InitAllIs ==
    ASSUME Somewhere, NEW S, NEW ts, ts \in Seq(T), NEW entries, NEW room,
           \A i \in 1..Len(ts) : EntryOk(entries[i], ts[i], room)
    PROVE  InitAll(Initial(S), ts, entries) = Initial(S \cup ToSet(ts))
<1> DEFINE n == Len(ts)
           U(i) == S \cup {ts[k] : k \in 1..i}
           f == [i \in 0..n |-> Initial(U(i))]
           Is(g) == g = [i \in 0..n |->
                            IF i = 0 THEN Initial(S)
                            ELSE InitTensor(g[i - 1], ts[i], entries[i])]
<1>1. n \in Nat /\ \A i \in 1..n : ts[i] \in T
  BY ElementOfSeq
<1>2. U(0) = S
  OBVIOUS
<1>3. \A i \in 1..n : U(i) = U(i - 1) \cup {ts[i]}
  <2> SUFFICES ASSUME NEW i \in 1..n PROVE U(i) = U(i - 1) \cup {ts[i]}
    OBVIOUS
  <2>1. 1..i = 1..(i - 1) \cup {i}
    BY <1>1
  <2>2. QED
    BY <2>1
<1> HIDE DEF U
<1>4. ASSUME NEW i \in 1..n
      PROVE  InitTensor(Initial(U(i - 1)), ts[i], entries[i]) = Initial(U(i))
  BY <1>1, <1>3, InitTensorIs
<1>5. Is(f)
  <2>1. ASSUME NEW i \in 0..n
        PROVE  f[i] = IF i = 0 THEN Initial(S)
                      ELSE InitTensor(f[i - 1], ts[i], entries[i])
    <3>1. CASE i = 0
      BY <1>2, <3>1
    <3>2. CASE i # 0
      <4>1. i \in 1..n /\ i - 1 \in 0..n
        BY <1>1, <3>2
      <4>2. f[i] = Initial(U(i)) /\ f[i - 1] = Initial(U(i - 1))
        BY <4>1
      <4>3. QED
        BY <1>4, <3>2, <4>1, <4>2
    <3>3. QED
      BY <3>1, <3>2
  <2> DEFINE g == [i \in 0..n |-> IF i = 0 THEN Initial(S)
                                  ELSE InitTensor(f[i - 1], ts[i], entries[i])]
  <2>2. f = [i \in 0..n |-> f[i]]
    OBVIOUS
  <2> HIDE DEF f, n
  <2>3. QED
    BY <2>1, <2>2
<1>6. InitAll(Initial(S), ts, entries) = (CHOOSE g : Is(g))[n]
  BY DEF InitAll
<1>7. PICK g : Is(g) /\ InitAll(Initial(S), ts, entries) = g[n]
  <2> HIDE DEF Is, f
  <2>1. QED
    BY <1>5, <1>6
<1> HIDE DEF f
<1>8. \A m \in 0..n : g[m] = Initial(U(m))
  <2> DEFINE M == {m \in 0..n : g[m] = Initial(U(m))}
  <2>1. 0 \in M
    BY <1>1, <1>2, <1>7
  <2>2. \A m \in 0..(n - 1) : m \in M => m + 1 \in M
    <3> SUFFICES ASSUME NEW m \in 0..(n - 1), m \in M PROVE m + 1 \in M
      OBVIOUS
    <3>1. m + 1 \in 1..n /\ m + 1 \in 0..n /\ m + 1 # 0 /\ (m + 1) - 1 = m
      BY <1>1
    <3>2. g[m + 1] = InitTensor(g[m], ts[m + 1], entries[m + 1]) /\ g[m] = Initial(U(m))
      BY <1>7, <3>1
    <3>3. QED
      BY <1>4, <3>1, <3>2
  <2>3. \A m \in 0..n : m \in M
    <3> HIDE DEF M, Is, n
    <3>1. QED
      BY <1>1, <2>1, <2>2, Induction
  <2>4. QED
    BY <2>3
<1>9. g[n] = Initial(U(n))
  BY <1>1, <1>8
<1>10. U(n) = S \cup ToSet(ts)
  BY <1>1 DEF U, ToSet
<1>11. QED
  BY <1>7, <1>9, <1>10

Placement == [t \in T |-> IF Owner(t) THEN hash[t].addr ELSE Nowhere]

LEMMA AddressesIs ==
    ASSUME GraphIs, Somewhere, NEW room, EntriesOk(room)
    PROVE  Addresses = Placement
<1> DEFINE n == Len(graph.nodes)
           x(i) == graph.nodes[i]
           Srcs(i) == ToSet(Src(x(i)))
           Leafs == ToSet(graph.leafs)
           U(i) == Leafs \cup UNION {Srcs(k) \cup {x(k)} : k \in 1..i}
           step(d, i) == InitTensor(InitAll(d, Src(x(i)), plan.nodes[i].src), x(i),
                                    plan.nodes[i].dst)
           first == InitAll([t \in T |-> Nowhere], graph.leafs, plan.leafs)
           f == [i \in 0..n |-> Initial(U(i))]
           Is(g) == g = [i \in 0..n |-> IF i = 0 THEN first ELSE step(g[i - 1], i)]
<1>1. /\ n \in Nat /\ graph.leafs \in Seq(T)
      /\ \A i \in 1..n : x(i) \in T /\ Src(x(i)) \in Seq(T)
  BY ListedSeqs DEF GraphIs
<1>2. first = Initial(U(0))
  <2>1. [t \in T |-> Nowhere] = Initial({})
    BY DEF Initial
  <2>2. \A l \in 1..Len(graph.leafs) : EntryOk(plan.leafs[l], graph.leafs[l], room)
    BY DEF EntriesOk
  <2>3. first = Initial({} \cup Leafs)
    BY <1>1, <2>1, <2>2, InitAllIs
  <2>4. {} \cup Leafs = U(0)
    OBVIOUS
  <2>5. QED
    BY <2>3, <2>4
<1>3. ASSUME NEW i \in 1..n PROVE step(Initial(U(i - 1)), i) = Initial(U(i))
  <2>1. \A j \in 1..Len(Src(x(i))) : EntryOk(plan.nodes[i].src[j], Src(x(i))[j], room)
    BY DEF EntriesOk
  <2>2. EntryOk(plan.nodes[i].dst, x(i), room)
    BY DEF EntriesOk
  <2>3. InitAll(Initial(U(i - 1)), Src(x(i)), plan.nodes[i].src) = Initial(U(i - 1) \cup Srcs(i))
    <3> HIDE DEF U
    <3>1. QED
      BY <1>1, <2>1, InitAllIs
  <2>4. step(Initial(U(i - 1)), i) = Initial((U(i - 1) \cup Srcs(i)) \cup {x(i)})
    <3> HIDE DEF U, Srcs
    <3>1. QED
      BY <1>1, <2>2, <2>3, InitTensorIs
  <2>5. (U(i - 1) \cup Srcs(i)) \cup {x(i)} = U(i)
    <3>1. 1..i = 1..(i - 1) \cup {i}
      BY <1>1
    <3> HIDE DEF Srcs, Leafs, x
    <3>2. QED
      BY <3>1
  <2>6. QED
    BY <2>4, <2>5
<1> HIDE DEF step, first
<1>4. Is(f)
  <2>1. ASSUME NEW i \in 0..n PROVE f[i] = IF i = 0 THEN first ELSE step(f[i - 1], i)
    <3> HIDE DEF U
    <3>1. CASE i = 0
      BY <1>2, <3>1
    <3>2. CASE i # 0
      <4>1. i \in 1..n /\ i - 1 \in 0..n
        BY <1>1, <3>2
      <4>2. f[i] = Initial(U(i)) /\ f[i - 1] = Initial(U(i - 1))
        BY <4>1
      <4>3. QED
        BY <1>3, <3>2, <4>1, <4>2
    <3>3. QED
      BY <3>1, <3>2
  <2>2. f = [i \in 0..n |-> f[i]]
    OBVIOUS
  <2> HIDE DEF f, n
  <2>3. QED
    BY <2>1, <2>2
<1>5. Addresses = (CHOOSE g : Is(g))[n]
  BY DEF Addresses, step, first
<1>6. PICK g : Is(g) /\ Addresses = g[n]
  <2> HIDE DEF Is, f
  <2>1. QED
    BY <1>4, <1>5
<1> HIDE DEF f, U
<1>7. \A m \in 0..n : g[m] = Initial(U(m))
  <2> DEFINE M == {m \in 0..n : g[m] = Initial(U(m))}
  <2>1. 0 \in M
    BY <1>1, <1>2, <1>6
  <2>2. \A m \in 0..(n - 1) : m \in M => m + 1 \in M
    <3> SUFFICES ASSUME NEW m \in 0..(n - 1), m \in M PROVE m + 1 \in M
      OBVIOUS
    <3>1. m + 1 \in 1..n /\ m + 1 \in 0..n /\ m + 1 # 0 /\ (m + 1) - 1 = m
      BY <1>1
    <3>2. g[m + 1] = step(g[m], m + 1) /\ g[m] = Initial(U(m))
      BY <1>6, <3>1
    <3>3. QED
      BY <1>3, <3>1, <3>2
  <2>3. \A m \in 0..n : m \in M
    <3> HIDE DEF M, Is, n
    <3>1. QED
      BY <1>1, <2>1, <2>2, Induction
  <2>4. QED
    BY <2>3
<1>8. g[n] = Initial(U(n))
  BY <1>1, <1>7
<1>9. \A t \in T : t \in U(n)
  <2> SUFFICES ASSUME NEW t \in T PROVE t \in U(n)
    OBVIOUS
  <2>1. (\E i \in 1..n : x(i) = t) \/ \E l \in 1..Len(graph.leafs) : graph.leafs[l] = t
    BY DEF GraphIs, Lists
  <2>2. (\E i \in 1..n : x(i) = t) \/ t \in Leafs
    BY <1>1, <2>1 DEF ToSet
  <2> HIDE DEF x, n, Srcs, Leafs
  <2>3. QED
    BY <2>2 DEF U
<1>10. Initial(U(n)) = Placement
  BY <1>9 DEF Initial, Placement
<1>11. QED
  BY <1>6, <1>8, <1>10

-----------------------------------------------------------------------------
(* The memory of the buffer, and what a tensor's value written to it       *)
(* leaves alone.                                                           *)
Memories ==
    {m \in [1..Len(buffer) -> UNION {[0..(buffer[c] - 1) -> Nat] : c \in 1..Len(buffer)}] :
        \A c \in 1..Len(buffer) : m[c] \in [0..(buffer[c] - 1) -> Nat]}

HoldsIn(m, t, a) == \A b \in Bytes(t, a) : m[a.chunk][b] = t

Writes(w, m, t, a) ==
    /\ w \in Memories /\ HoldsIn(w, t, a)
    /\ \A c \in 1..Len(buffer) : \A b \in 0..(buffer[c] - 1) :
          ~(c = a.chunk /\ b \in Bytes(t, a)) => w[c][b] = m[c][b]

LEMMA MemoryIs ==
    ASSUME NEW f, \A c \in 1..Len(buffer) : f[c] \in [0..(buffer[c] - 1) -> Nat],
           f = [c \in 1..Len(buffer) |-> f[c]]
    PROVE  f \in Memories
<1> DEFINE X == UNION {[0..(buffer[c] - 1) -> Nat] : c \in 1..Len(buffer)}
<1>1. \A c \in 1..Len(buffer) : f[c] \in X
  OBVIOUS
<1> HIDE DEF X
<1>2. f \in [1..Len(buffer) -> X]
  BY <1>1
<1>3. QED
  BY <1>2 DEF Memories, X

(* A tensor of no greater size than its room lies within the buffer. *)
LEMMA BytesInside ==
    ASSUME buffer \in Seq(Nat), NEW t, tensors[t].size \in Nat, NEW x \in Nat,
           tensors[t].size <= x, NEW a, Within(a, x)
    PROVE  Bytes(t, a) \subseteq 0..(buffer[a.chunk] - 1)
<1> DEFINE o == a.offset
           s == tensors[t].size
           z == buffer[a.chunk]
<1>1. o \in Nat /\ o + x <= z /\ s \in Nat /\ s <= x /\ z \in Nat
  BY ElementOfSeq DEF Within
<1>2. Bytes(t, a) = o..(o + s - 1)
  BY DEF Bytes
<1> HIDE DEF o, s, z
<1>3. o..(o + s - 1) \subseteq 0..(z - 1)
  BY <1>1
<1>4. QED
  BY <1>2, <1>3 DEF z

LEMMA WrittenIs ==
    ASSUME buffer \in Seq(Nat), NEW m \in Memories, NEW t \in Nat, tensors[t].size \in Nat,
           NEW x \in Nat, tensors[t].size <= x, NEW a, Within(a, x)
    PROVE  Writes(Written(m, t, a), m, t, a)
<1> DEFINE d == a.chunk
           e == [b \in DOMAIN m[d] |-> IF b \in Bytes(t, a) THEN t ELSE m[d][b]]
           w == [m EXCEPT ![d] = e]
<1>1. Written(m, t, a) = w
  BY DEF Written
<1>2. Bytes(t, a) \subseteq 0..(buffer[d] - 1) /\ d \in 1..Len(buffer)
  BY BytesInside DEF Within
<1>3. /\ m = [c \in 1..Len(buffer) |-> m[c]]
      /\ \A c \in 1..Len(buffer) : m[c] \in [0..(buffer[c] - 1) -> Nat]
  BY DEF Memories
<1>4. /\ e \in [0..(buffer[d] - 1) -> Nat]
      /\ \A b \in 0..(buffer[d] - 1) : e[b] = IF b \in Bytes(t, a) THEN t ELSE m[d][b]
  BY <1>2, <1>3
<1>5. /\ w = [c \in 1..Len(buffer) |-> w[c]]
      /\ w[d] = e /\ \A c \in 1..Len(buffer) : c # d => w[c] = m[c]
  <2> HIDE DEF e, d
  <2>1. QED
    BY <1>2, <1>3
<1> HIDE DEF e, w, d
<1>6. w \in Memories
  <2>1. \A c \in 1..Len(buffer) : w[c] \in [0..(buffer[c] - 1) -> Nat]
    BY <1>2, <1>3, <1>4, <1>5
  <2>2. QED
    BY <1>5, <2>1, MemoryIs
<1>7. HoldsIn(w, t, a)
  BY <1>2, <1>4, <1>5 DEF HoldsIn, d
<1>8. ASSUME NEW c \in 1..Len(buffer), NEW b \in 0..(buffer[c] - 1),
             ~(c = a.chunk /\ b \in Bytes(t, a))
      PROVE  w[c][b] = m[c][b]
  <2>1. CASE c = d
    BY <1>4, <1>5, <1>8, <2>1 DEF d
  <2>2. CASE c # d
    BY <1>5, <2>2
  <2>3. QED
    BY <2>1, <2>2
<1>9. QED
  BY <1>1, <1>6, <1>7, <1>8 DEF Writes

(* Another tensor beside it keeps its value. *)
LEMMA BytesApart ==
    ASSUME NEW t, NEW u, tensors[t].size \in Nat, tensors[u].size \in Nat,
           NEW x \in Nat, NEW y \in Nat, tensors[t].size <= x, tensors[u].size <= y,
           NEW a, NEW b, a.offset \in Nat, b.offset \in Nat, Beside(a, x, b, y)
    PROVE  a.chunk # b.chunk \/ Bytes(t, a) \cap Bytes(u, b) = {}
<1> DEFINE o == a.offset
           p == b.offset
           s == tensors[t].size
           z == tensors[u].size
<1>1. CASE o + x <= p \/ p + y <= o
  <2>1. o \in Nat /\ p \in Nat /\ s \in Nat /\ z \in Nat /\ s <= x /\ z <= y
    OBVIOUS
  <2>2. Bytes(t, a) = o..(o + s - 1) /\ Bytes(u, b) = p..(p + z - 1)
    BY DEF Bytes
  <2> HIDE DEF o, p, s, z
  <2>3. \A i : ~(i \in o..(o + s - 1) /\ i \in p..(p + z - 1))
    BY <1>1, <2>1
  <2>4. QED
    BY <2>2, <2>3
<1>2. QED
  BY <1>1 DEF Beside

LEMMA HeldStill ==
    ASSUME buffer \in Seq(Nat), NEW t, NEW u, tensors[t].size \in Nat, tensors[u].size \in Nat,
           NEW x \in Nat, NEW y \in Nat, tensors[t].size <= x, tensors[u].size <= y,
           NEW a, NEW b, a.offset \in Nat, Within(b, y), Beside(a, x, b, y),
           NEW m, NEW w, Writes(w, m, t, a), HoldsIn(m, u, b)
    PROVE  HoldsIn(w, u, b)
<1>1. a.chunk # b.chunk \/ Bytes(t, a) \cap Bytes(u, b) = {}
  BY BytesApart DEF Within
<1>2. Bytes(u, b) \subseteq 0..(buffer[b.chunk] - 1) /\ b.chunk \in 1..Len(buffer)
  BY BytesInside DEF Within
<1>3. QED
  BY <1>1, <1>2 DEF Writes, HoldsIn

(* The application writes each input, which none of the others touches.    *)
RoomOk(room) == \A t \in T : Owner(t) =>
    /\ room[t] \in Nat /\ Within(hash[t].addr, room[t])
    /\ tensors[t].size \in Nat /\ tensors[t].size <= room[t] /\ t \in Nat

LEMMA RoomIs ==
    ASSUME GraphIs, NEW room, PlanOk(room), Fits(room)
    PROVE  RoomOk(room)
<1>1. \A t \in T : t \in Nat
  BY DEF GraphIs, TensorsOk, T
<1>2. \A t \in T : Owner(t) => tensors[t].size \in Nat
  BY RoomTyped, GraphAssumption DEF GraphIs
<1>3. QED
  BY <1>1, <1>2 DEF RoomOk, PlanOk, Fits

LEMMA LeafIs ==
    ASSUME GraphIs, NEW t \in T
    PROVE  tensors[t].kind = "leaf" <=> Owner(t) /\ IsLeaf(tensors, t)
<1>1. TensorOk(tensors, t)
  BY DEF GraphIs, TensorsOk, T
<1>2. QED
  BY <1>1 DEF TensorOk, Owner, IsLeaf, Sharers

InputsAre(m) ==
    /\ m \in Memories
    /\ \A t \in T : tensors[t].kind = "leaf" => HoldsIn(m, t, hash[t].addr)

LEMMA InputsIs ==
    ASSUME GraphIs, buffer \in Seq(Nat), NEW room, PlanOk(room), Fits(room)
    PROVE  InputsAre(InputsWritten(Placement))
<1> DEFINE n == Len(graph.leafs)
           l(i) == graph.leafs[i]
           V == Memories
           z == [c \in DOMAIN buffer |-> [b \in 0..(buffer[c] - 1) |-> 0]]
           one(m, i) == IF tensors[l(i)].kind = "leaf"
                        THEN Written(m, l(i), Placement[l(i)]) ELSE m
           step == [i \in 1..n |-> [m \in V |-> one(m, i)]]
           Is(f) == f = [i \in 0..n |-> IF i = 0 THEN z ELSE one(f[i - 1], i)]
<1>1. /\ n \in Nat /\ \A i \in 1..n : l(i) \in T
      /\ \A i, k \in 1..n : i # k => l(i) # l(k)
  <2>1. graph.leafs \in Seq(T)
    BY ListedSeqs DEF GraphIs
  <2>2. QED
    BY <2>1, ElementOfSeq DEF GraphIs, Wellformed, LeafsOk
<1>2. RoomOk(room)
  BY RoomIs
<1>3. \A t \in T : Owner(t) => Placement[t] = hash[t].addr
  BY DEF Placement
<1>4. z \in V
  <2>1. DOMAIN buffer = 1..Len(buffer)
    OBVIOUS
  <2>2. z = [c \in 1..Len(buffer) |-> z[c]]
    BY <2>1
  <2>3. \A c \in 1..Len(buffer) : z[c] \in [0..(buffer[c] - 1) -> Nat]
    BY <2>1
  <2> HIDE DEF z
  <2>4. QED
    BY <2>2, <2>3, MemoryIs
<1>5. ASSUME NEW i \in 1..n, NEW m \in V
      PROVE  IF tensors[l(i)].kind = "leaf"
             THEN Writes(one(m, i), m, l(i), hash[l(i)].addr) ELSE one(m, i) = m
  <2>1. CASE tensors[l(i)].kind = "leaf"
    <3> DEFINE t == l(i)
    <3>1. t \in T /\ Owner(t)
      BY <1>1, <2>1, LeafIs
    <3>2. one(m, i) = Written(m, t, hash[t].addr)
      BY <1>3, <2>1, <3>1
    <3>3. /\ room[t] \in Nat /\ Within(hash[t].addr, room[t])
          /\ tensors[t].size \in Nat /\ tensors[t].size <= room[t] /\ t \in Nat
      BY <1>2, <3>1 DEF RoomOk
    <3> HIDE DEF t, one
    <3>4. Writes(Written(m, t, hash[t].addr), m, t, hash[t].addr)
      BY <3>3, WrittenIs
    <3>5. QED
      BY <2>1, <3>2, <3>4 DEF t
  <2>2. CASE tensors[l(i)].kind # "leaf"
    BY <2>2
  <2>3. QED
    BY <2>1, <2>2
<1>6. \A i \in 1..n, m \in V : one(m, i) \in V
  <2> SUFFICES ASSUME NEW i \in 1..n, NEW m \in V PROVE one(m, i) \in V
    OBVIOUS
  <2> HIDE DEF one
  <2>1. QED
    BY <1>5 DEF Writes
<1> HIDE DEF V, z, one
<1>7. step \in [1..n -> [V -> V]]
  BY <1>6
<1>8. PICK f : Follows(f, n, V, z, step)
  <2> HIDE DEF step, n
  <2>1. QED
    BY <1>1, <1>4, <1>7, Recursion
<1>9. Is(f)
  <2>1. f \in [0..n -> V] /\ f[0] = z /\ \A i \in 1..n : f[i] = step[i][f[i - 1]]
    BY <1>8 DEF Follows
  <2>2. ASSUME NEW i \in 0..n PROVE f[i] = IF i = 0 THEN z ELSE one(f[i - 1], i)
    <3>1. CASE i = 0
      BY <2>1, <3>1
    <3>2. CASE i # 0
      <4>1. i \in 1..n /\ i - 1 \in 0..n
        BY <1>1, <3>2
      <4>2. f[i - 1] \in V /\ f[i] = step[i][f[i - 1]]
        BY <2>1, <4>1
      <4>3. QED
        BY <3>2, <4>1, <4>2
    <3>3. QED
      BY <3>1, <3>2
  <2> HIDE DEF n
  <2>3. QED
    BY <2>1, <2>2
<1>10. InputsWritten(Placement) = (CHOOSE g : Is(g))[n]
  BY DEF InputsWritten, one, z
<1>11. PICK g : Is(g) /\ InputsWritten(Placement) = g[n]
  <2> HIDE DEF Is
  <2>1. QED
    BY <1>9, <1>10
<1>12. ASSUME NEW i \in 1..n, NEW k \in 1..n, i # k, NEW m \in V,
              tensors[l(k)].kind = "leaf", HoldsIn(m, l(k), hash[l(k)].addr)
       PROVE  HoldsIn(one(m, i), l(k), hash[l(k)].addr)
  <2>1. CASE tensors[l(i)].kind = "leaf"
    <3> DEFINE t == l(i)
               u == l(k)
    <3>1. t \in T /\ u \in T /\ t # u
      BY <1>1, <1>12
    <3>2. Owner(t) /\ IsLeaf(tensors, t) /\ Owner(u) /\ IsLeaf(tensors, u)
      BY <1>12, <2>1, <3>1, LeafIs
    <3>3. Beside(hash[t].addr, room[t], hash[u].addr, room[u])
      BY <3>1, <3>2 DEF PlanOk, Sound
    <3>4. Writes(one(m, i), m, t, hash[t].addr) /\ HoldsIn(m, u, hash[u].addr)
      BY <1>5, <1>12, <2>1 DEF V
    <3> HIDE DEF t, u
    <3>5. /\ room[t] \in Nat /\ Within(hash[t].addr, room[t])
          /\ tensors[t].size \in Nat /\ tensors[t].size <= room[t]
          /\ room[u] \in Nat /\ Within(hash[u].addr, room[u])
          /\ tensors[u].size \in Nat /\ tensors[u].size <= room[u]
      BY <1>2, <3>1, <3>2 DEF RoomOk
    <3>6. hash[t].addr.offset \in Nat
      BY <3>5 DEF Within
    <3>7. HoldsIn(one(m, i), u, hash[u].addr)
      BY <3>3, <3>4, <3>5, <3>6, HeldStill
    <3>8. QED
      BY <3>7 DEF u
  <2>2. CASE tensors[l(i)].kind # "leaf"
    BY <1>5, <1>12, <2>2 DEF V
  <2>3. QED
    BY <2>1, <2>2
<1> DEFINE All(i) == \A k \in 1..i : tensors[l(k)].kind = "leaf"
                                     => HoldsIn(g[i], l(k), hash[l(k)].addr)
<1>13. ASSUME NEW m \in 0..(n - 1), g[m] \in V, All(m)
       PROVE  g[m + 1] \in V /\ All(m + 1)
  <2>1. m + 1 \in 1..n /\ m + 1 \in 0..n /\ m + 1 # 0 /\ (m + 1) - 1 = m
    BY <1>1
  <2>2. g[m + 1] = one(g[m], m + 1)
    BY <1>11, <2>1
  <2>3. ASSUME NEW k \in 1..(m + 1), tensors[l(k)].kind = "leaf"
        PROVE  HoldsIn(g[m + 1], l(k), hash[l(k)].addr)
    <3>1. CASE k = m + 1
      <4>1. Writes(one(g[m], m + 1), g[m], l(m + 1), hash[l(m + 1)].addr)
        BY <1>5, <1>13, <2>1, <2>3, <3>1 DEF V
      <4>2. QED
        BY <2>2, <3>1, <4>1 DEF Writes
    <3>2. CASE k # m + 1
      <4>1. k \in 1..m /\ k \in 1..n
        BY <1>1, <3>2
      <4>2. HoldsIn(g[m], l(k), hash[l(k)].addr)
        BY <1>13, <2>3, <4>1
      <4>3. QED
        BY <1>12, <1>13, <2>1, <2>2, <2>3, <3>2, <4>1, <4>2
    <3>3. QED
      BY <3>1, <3>2
  <2>4. QED
    BY <1>6, <1>13, <2>1, <2>2, <2>3
<1>14. \A m \in 0..n : g[m] \in V /\ All(m)
  <2> DEFINE S == {m \in 0..n : g[m] \in V /\ All(m)}
  <2>1. 0 \in S
    <3>1. g[0] = z /\ 1..0 = {}
      BY <1>1, <1>11
    <3>2. QED
      BY <1>1, <1>4, <3>1
  <2>2. \A m \in 0..(n - 1) : m \in S => m + 1 \in S
    <3> HIDE DEF All, Is
    <3>1. \A m \in 0..(n - 1) : m + 1 \in 0..n
      BY <1>1
    <3>2. QED
      BY <1>13, <3>1
  <2>3. \A m \in 0..n : m \in S
    <3> HIDE DEF S, Is, n
    <3>1. QED
      BY <1>1, <2>1, <2>2, Induction
  <2>4. QED
    BY <2>3
<1>15. g[n] \in V /\ All(n)
  BY <1>1, <1>14
<1>16. ASSUME NEW t \in T, tensors[t].kind = "leaf" PROVE HoldsIn(g[n], t, hash[t].addr)
  <2>1. PICK k \in 1..n : l(k) = t
    <3>1. t \in Lists(tensors, graph) /\ IsLeaf(tensors, t)
      BY <1>16 DEF GraphIs, IsLeaf
    <3>2. \A i \in 1..Len(graph.nodes) : graph.nodes[i] # t
      BY <3>1 DEF GraphIs, Wellformed, NodesOk
    <3>3. QED
      BY <3>1, <3>2 DEF Lists
  <2>2. QED
    BY <1>15, <1>16, <2>1
<1>17. QED
  BY <1>11, <1>15, <1>16 DEF InputsAre, V

-----------------------------------------------------------------------------
(* What is needed behind a node is needed when its turn comes. *)
LEMMA NeededBefore ==
    ASSUME GraphIs, NEW k \in 1..Len(graph.nodes), NEW t \in T, Needed(t, k + 1, 0)
    PROVE  Needed(t, k, 0)
<1>0. /\ Len(graph.nodes) \in Nat /\ k \in Nat
      /\ \A i \in Views(t) : graph.nodes[i] \in T
  <2>1. graph.nodes \in Seq(T)
    BY ListedSeqs DEF GraphIs
  <2>2. QED
    BY <2>1 DEF Views
<1>1. ASSUME NEW v \in T PROVE Left(v, k + 1, 0) \subseteq Left(v, k, 0)
  <2> SUFFICES ASSUME NEW u \in Uses(v), u[1] > k + 1 \/ (u[1] = k + 1 /\ u[2] > 0)
               PROVE  u[1] > k
    BY DEF Left
  <2> DEFINE a == u[1]
  <2>1. a \in 1..Len(graph.nodes)
    BY UsesIs
  <2>2. a > k + 1 \/ a = k + 1
    OBVIOUS
  <2> HIDE DEF a
  <2>3. a > k
    BY <1>0, <2>1, <2>2
  <2>4. QED
    BY <2>3 DEF a
<1>2. StillViews(t, k + 1, 0) \subseteq StillViews(t, k, 0)
  <2> SUFFICES ASSUME NEW i \in StillViews(t, k + 1, 0) PROVE i \in StillViews(t, k, 0)
    OBVIOUS
  <2>1. i \in Views(t) /\ graph.nodes[i] \in T
    BY <1>0 DEF StillViews
  <2>2. Left(graph.nodes[i], k + 1, 0) \subseteq Left(graph.nodes[i], k, 0)
    BY <1>1, <2>1
  <2>3. QED
    BY <2>1, <2>2 DEF StillViews
<1>3. QED
  BY <1>1, <1>2 DEF Needed

(* A view comes behind the tensor whose memory it shares, whatever views   *)
(* lie in between.                                                         *)
LEMMA RootPlaced ==
    ASSUME GraphIs, WellMade(tensors), NEW k \in 1..Len(graph.nodes),
           tensors[graph.nodes[k]].root # 0,
           tensors[tensors[graph.nodes[k]].root].kind # "weight"
    PROVE  Placed(tensors[graph.nodes[k]].root, k)
<1> DEFINE n == Len(graph.nodes)
           x(i) == graph.nodes[i]
           root(i) == tensors[x(i)].root
           Bad == {i \in 1..n : /\ root(i) # 0 /\ tensors[root(i)].kind # "weight"
                                /\ ~Placed(root(i), i)}
<1>0. /\ n \in Nat /\ \A i \in 1..n : x(i) \in T
      /\ \A i \in 1..n : Src(x(i)) \in Seq(T) /\ x(i) \in 1..Len(tensors)
  <2>1. TensorsOk(tensors) /\ Wellformed(tensors, graph)
    BY DEF GraphIs
  <2>2. /\ graph.nodes \in Seq(T)
        /\ \A i \in 1..n : x(i) \in T /\ Src(x(i)) \in Seq(T)
    BY <2>1, ListedSeqs
  <2>3. n \in Nat
    BY <2>2, LenProperties
  <2>4. T = 1..Len(tensors)
    <3>1. tensors \in Seq(TensorRecord)
      BY <2>1 DEF TensorsOk
    <3>2. QED
      BY <3>1, LenProperties DEF T
  <2>5. QED
    BY <2>2, <2>3, <2>4
<1>1. SUFFICES ASSUME Bad # {} PROVE FALSE
  OBVIOUS
<1>2. PICK i \in Bad : \A l \in Bad : i <= l
  <2>1. Bad \subseteq Nat
    BY <1>0
  <2> HIDE DEF Bad
  <2>2. QED
    BY <1>1, <2>1, Smallest
<1> DEFINE v == x(i)
           r == tensors[v].root
           q == Src(v)[Len(Src(v))]
<1>3. i \in 1..n /\ r # 0 /\ tensors[r].kind # "weight" /\ ~Placed(r, i)
  BY <1>2
<1>4. Len(Src(v)) \in 1..Len(Src(v)) /\ RootOf(tensors, q) = r
  <2>1. Len(Src(v)) > 0 /\ RootOf(tensors, q) = r
    BY <1>0, <1>3 DEF WellMade, MadeOk, SharesLast, LastSource, Src
  <2>2. Len(Src(v)) \in Nat
    BY <1>0, <1>3
  <2>3. QED
    BY <2>1, <2>2
<1>5. r \in T /\ Owner(r)
  <2>1. v \in T
    BY <1>0, <1>3
  <2> HIDE DEF v
  <2>2. ViewNode(v, r)
    BY <1>3, <2>1, ViewIs
  <2>3. QED
    BY <1>3, <2>2 DEF ViewNode, Owner
<1>6. IsLeaf(tensors, q) \/ \E l \in 1..(i - 1) : x(l) = q
  BY <1>3, <1>4 DEF GraphIs, Wellformed, NodesOk, Src
<1>7. CASE tensors[q].root = 0
  <2>1. q = r
    BY <1>4, <1>7 DEF RootOf
  <2>2. QED
    BY <1>3, <1>5, <1>6, <2>1 DEF Placed
<1>8. CASE tensors[q].root # 0
  <2>1. tensors[q].root = r
    BY <1>4, <1>8 DEF RootOf
  <2>2. q \in T
    BY <1>0, <1>3, <1>4
  <2>3. ~IsLeaf(tensors, q)
    <3>1. TensorOk(tensors, q)
      BY <2>2 DEF GraphIs, TensorsOk, T
    <3>2. QED
      BY <1>8, <3>1 DEF TensorOk, IsLeaf, Sharers
  <2>4. PICK l \in 1..(i - 1) : x(l) = q
    BY <1>6, <2>3
  <2>5. l \in 1..n /\ l < i /\ i \in Nat
    BY <1>0, <1>3
  <2>6. l \notin Bad
    BY <1>2, <2>5
  <2>7. Placed(r, l)
    BY <1>3, <1>8, <2>1, <2>4, <2>5, <2>6
  <2>8. \A m \in 1..(l - 1) : m \in 1..(i - 1)
    BY <2>5
  <2>9. Placed(r, i)
    BY <2>7, <2>8 DEF Placed
  <2>10. QED
    BY <1>3, <2>9
<1>9. QED
  BY <1>7, <1>8

(* So when a node's turn comes what it reads has its place, and is needed. *)
ReadAt(p, k) ==
    /\ p \in T /\ tensors[p].root = 0
    /\ tensors[p].kind # "weight" => Owner(p) /\ Placed(p, k) /\ Needed(p, k, 0)

LEMMA ReadsAre ==
    ASSUME GraphIs, WellMade(tensors), NEW k \in 1..Len(graph.nodes),
           NEW j \in 1..Len(Src(graph.nodes[k])), NEW q, q = Src(graph.nodes[k])[j]
    PROVE  ReadAt(RootOf(tensors, q), k)
<1>0. /\ Len(graph.nodes) \in Nat /\ graph.nodes[k] \in T /\ q \in T
      /\ Len(Src(graph.nodes[k])) \in Nat
  <2>1. graph.nodes \in Seq(T) /\ Src(graph.nodes[k]) \in Seq(T)
    BY ListedSeqs DEF GraphIs
  <2>2. QED
    BY <2>1, ElementOfSeq
<1>1. Left(q, k, 0) # {}
  <2>1. <<k, j>> \in Uses(q)
    BY <1>0, UsesIs
  <2>2. <<k, j>>[1] = k /\ <<k, j>>[2] = j /\ j > 0
    BY <1>0
  <2>3. QED
    BY <2>1, <2>2 DEF Left
<1>2. IsLeaf(tensors, q) \/ \E l \in 1..(k - 1) : graph.nodes[l] = q
  BY <1>0 DEF GraphIs, Wellformed, NodesOk, Src
<1>3. CASE tensors[q].root = 0
  <2>1. RootOf(tensors, q) = q
    BY <1>3 DEF RootOf
  <2>2. QED
    BY <1>0, <1>1, <1>2, <1>3, <2>1 DEF ReadAt, Owner, Placed, Needed
<1>4. CASE tensors[q].root # 0
  <2> DEFINE r == tensors[q].root
  <2>1. RootOf(tensors, q) = r
    BY <1>4 DEF RootOf
  <2>2. ViewNode(q, r)
    BY <1>0, <1>4, ViewIs
  <2>3. r \in T /\ tensors[r].root = 0
    BY <2>2 DEF ViewNode
  <2>4. PICK i \in 1..Len(graph.nodes) : graph.nodes[i] = q /\ i \in Views(r)
    BY <2>2 DEF ViewNode
  <2>5. i \in StillViews(r, k, 0)
    BY <1>1, <2>4 DEF StillViews
  <2>6. PICK l \in 1..(k - 1) : graph.nodes[l] = q
    <3>1. TensorOk(tensors, q)
      BY <1>0 DEF GraphIs, TensorsOk, T
    <3>2. QED
      BY <1>2, <1>4, <3>1 DEF TensorOk, IsLeaf, Sharers
  <2>7. l \in 1..Len(graph.nodes) /\ \A m \in 1..(l - 1) : m \in 1..(k - 1)
    BY <1>0
  <2>8. CASE tensors[r].kind = "weight"
    BY <2>1, <2>3, <2>8 DEF ReadAt
  <2>9. CASE tensors[r].kind # "weight"
    <3>1. Placed(r, l)
      BY <1>4, <2>6, <2>7, <2>9, RootPlaced
    <3>2. Placed(r, k)
      BY <2>7, <3>1 DEF Placed
    <3>3. QED
      BY <2>1, <2>3, <2>5, <2>9, <3>2 DEF ReadAt, Needed, Owner
  <2>10. QED
    BY <2>8, <2>9
<1>5. QED
  BY <1>3, <1>4

(* Whatever has been computed, and is needed, is in memory. *)
Computed(m, k) ==
    \A t \in T : Placed(t, k) /\ Needed(t, k, 0) => HoldsIn(m, t, hash[t].addr)

LEMMA NodeOwns ==
    ASSUME GraphIs, NEW k \in 1..Len(graph.nodes), ~IsView(tensors, graph.nodes[k])
    PROVE  Owner(graph.nodes[k])
BY DEF GraphIs, Wellformed, NodesOk, IsLeaf, IsView, Owner

LEMMA InputsComputed ==
    ASSUME GraphIs, NEW m, InputsAre(m)
    PROVE  Computed(m, 1)
<1>1. \A t \in T : Placed(t, 1) => Owner(t) /\ IsLeaf(tensors, t)
  <2>1. 1..(1 - 1) = {}
    OBVIOUS
  <2>2. QED
    BY <2>1 DEF Placed
<1>2. QED
  BY <1>1, LeafIs DEF Computed, InputsAre

LEMMA NodeComputed ==
    ASSUME GraphIs, buffer \in Seq(Nat), NEW room, PlanOk(room), Fits(room),
           NEW k \in 1..Len(graph.nodes), NEW m \in Memories, Computed(m, k), NEW w,
           w = IF IsView(tensors, graph.nodes[k]) THEN m
               ELSE Written(m, graph.nodes[k], Placement[graph.nodes[k]])
    PROVE  w \in Memories /\ Computed(w, k + 1)
<1> DEFINE x == graph.nodes[k]
<1>1. Len(graph.nodes) \in Nat /\ x \in T
  BY ListedSeqs DEF GraphIs
<1>2. \A t \in T : Placed(t, k + 1) <=> Placed(t, k) \/ (t = x /\ Owner(x))
  BY <1>1, TurnIs
<1>3. CASE IsView(tensors, x)
  <2>1. w = m /\ ~Owner(x)
    BY <1>3 DEF IsView, Owner
  <2>2. QED
    BY <1>2, <2>1, NeededBefore DEF Computed
<1>4. CASE ~IsView(tensors, x)
  <2>1. Owner(x) /\ Placement[x] = hash[x].addr
    BY <1>1, <1>4, NodeOwns DEF Placement
  <2>2. RoomOk(room)
    BY RoomIs
  <2>3. /\ room[x] \in Nat /\ Within(hash[x].addr, room[x])
        /\ tensors[x].size \in Nat /\ tensors[x].size <= room[x] /\ x \in Nat
    BY <1>1, <2>1, <2>2 DEF RoomOk
  <2>4. w = Written(m, x, hash[x].addr)
    BY <1>4, <2>1
  <2> HIDE DEF x
  <2>5. Writes(w, m, x, hash[x].addr)
    BY <2>3, <2>4, WrittenIs
  <2>6. ASSUME NEW t \in T, Placed(t, k + 1), Needed(t, k + 1, 0)
        PROVE  HoldsIn(w, t, hash[t].addr)
    <3>1. CASE t = x
      BY <2>5, <3>1 DEF Writes
    <3>2. CASE t # x
      <4>1. Placed(t, k) /\ Needed(t, k, 0)
        BY <1>2, <2>6, <3>2, NeededBefore
      <4>2. HoldsIn(m, t, hash[t].addr)
        BY <4>1 DEF Computed
      <4>3. k \in 1..((Len(graph.nodes) + 1) - 1)
        BY <1>1
      <4>4. WellPlaced([u \in T |-> hash[u].addr], room, t, k)
        BY <2>1, <4>1, <4>3 DEF PlanOk, Sound, x
      <4>5. Beside(hash[t].addr, room[t], hash[x].addr, room[x])
        BY <1>1, <2>6, <4>4 DEF WellPlaced, x
      <4>6. /\ room[t] \in Nat /\ Within(hash[t].addr, room[t])
            /\ tensors[t].size \in Nat /\ tensors[t].size <= room[t]
        BY <2>2, <4>1 DEF RoomOk, Placed
      <4>7. Beside(hash[x].addr, room[x], hash[t].addr, room[t]) /\ hash[x].addr.offset \in Nat
        BY <2>3, <4>5 DEF Beside, Within
      <4>8. QED
        BY <2>3, <2>5, <4>2, <4>6, <4>7, HeldStill
    <3>3. QED
      BY <3>1, <3>2
  <2>7. QED
    BY <2>5, <2>6 DEF Writes, Computed
<1>5. QED
  BY <1>3, <1>4

(* If the plan is kept it has room for every tensor: for the leafs too,    *)
(* which ggml_gallocr_needs_realloc looks at as sources only.              *)
LEMMA KeptFits ==
    ASSUME GraphIs, WellMade(tensors), \A t \in Sinks(tensors) : ~IsLeaf(tensors, t),
           NEW room, PlanOk(room), ~NeedsRealloc
    PROVE  Fits(room)
<1> SUFFICES ASSUME NEW t \in T, Owner(t) PROVE tensors[t].size <= room[t]
  BY DEF Fits
<1> DEFINE n == Len(graph.nodes)
<1>0. /\ DOMAIN graph.nodes = 1..n
      /\ \A i \in 1..n : graph.nodes[i] \in T /\ DOMAIN Src(graph.nodes[i]) = 1..Len(Src(graph.nodes[i]))
  BY ListedSeqs DEF GraphIs
<1>1. /\ tensors[t].size \in Nat /\ room[t] \in Nat
      /\ ~(IsView(tensors, t) \/ tensors[t].kind = "weight")
  BY RoomTyped, GraphAssumption DEF GraphIs, PlanOk, Owner, IsView
<1>2. ASSUME NEW e, EntryOk(e, t, room), PlanGoodFor(t, e)
      PROVE  tensors[t].size <= room[t]
  <2>1. e.size_max \in Nat /\ e.size_max <= room[t]
    BY <1>2 DEF EntryOk
  <2>2. e.size_max >= tensors[t].size
    BY <1>1, <1>2 DEF PlanGoodFor
  <2>3. QED
    BY <1>1, <2>1, <2>2
<1>3. CASE ~IsLeaf(tensors, t)
  <2>1. PICK i \in 1..n : graph.nodes[i] = t
    BY <1>3, NodeIndex
  <2>2. PlanGoodFor(t, plan.nodes[i].dst)
    BY <1>0, <2>1 DEF NeedsRealloc
  <2>3. EntryOk(plan.nodes[i].dst, t, room)
    BY <2>1 DEF PlanOk, EntriesOk
  <2>4. QED
    BY <1>2, <2>2, <2>3
<1>4. CASE IsLeaf(tensors, t)
  <2>1. Uses(t) # {}
    BY <1>4, SinkIs
  <2>2. PICK u \in Uses(t) : TRUE
    BY <2>1
  <2> DEFINE i == u[1]
             j == u[2]
  <2>3. i \in 1..n /\ j \in 1..Len(Src(graph.nodes[i])) /\ Src(graph.nodes[i])[j] = t
    BY UsesIs
  <2> HIDE DEF i, j
  <2>4. PlanGoodFor(t, plan.nodes[i].src[j])
    BY <1>0, <2>3 DEF NeedsRealloc
  <2>5. EntryOk(plan.nodes[i].src[j], t, room)
    BY <2>3 DEF PlanOk, EntriesOk
  <2>6. QED
    BY <1>2, <2>4, <2>5
<1>5. QED
  BY <1>3, <1>4

-----------------------------------------------------------------------------
(* The invariant of the memory a graph is computed in. *)
ExecInv ==
    /\ LifeInv
    /\ phase # "create" => T # {}
    /\ \A t \in T : tensors[t].output = TRUE => tensors[t].kind \in {"op", "inplace"}
    /\ buffer \in Seq(Nat)
    /\ phase \in {"measured", "alloc"} => \E room : PlanOk(room)
    /\ phase \in {"reserved", "compute", "done"} => \E room : PlanOk(room) /\ Fits(room)
    /\ phase \in {"compute", "done"} =>
          data = Placement /\ memory \in Memories /\ Computed(memory, next)
    /\ phase = "compute" => next \in 1..Len(graph.nodes)
    /\ phase = "done" => next = Len(graph.nodes) + 1

LEMMA NodesThere ==
    ASSUME GraphIs, WellMade(tensors), \A t \in Sinks(tensors) : ~IsLeaf(tensors, t), T # {}
    PROVE  1 \in 1..Len(graph.nodes)
<1> DEFINE n == Len(tensors)
<1>1. n \in Nat /\ T = 1..n /\ n \in T
  BY DEF GraphIs, TensorsOk, T
<1>2. n \in Sinks(tensors)
  <2>1. ASSUME NEW u \in T, n \in ToSet(tensors[u].src) PROVE FALSE
    <3>1. tensors[u].src \in Seq(1..(u - 1))
      BY DEF GraphIs, TensorsOk, TensorOk, T
    <3>2. n \in 1..(u - 1)
      <4> DEFINE src == tensors[u].src
      <4>1. src \in Seq(1..(u - 1)) /\ \E j \in DOMAIN src : src[j] = n
        BY <2>1, <3>1 DEF ToSet
      <4>2. DOMAIN src = 1..Len(src)
        BY <4>1
      <4>3. QED
        BY <4>1, <4>2, ElementOfSeq
    <3>3. QED
      BY <1>1, <3>2
  <2>2. QED
    BY <1>1, <2>1 DEF Sinks, T
<1>3. PICK i \in 1..Len(graph.nodes) : graph.nodes[i] = n
  BY <1>1, <1>2, NodeIndex
<1>4. Len(graph.nodes) \in Nat
  BY ListedSeqs DEF GraphIs
<1>5. QED
  BY <1>3, <1>4

LEMMA SameRest ==
    ASSUME GraphIs, graph' = graph, tensors' = tensors, hash' = hash, plan' = plan,
           buffer' = buffer
    PROVE  /\ \A room : PlanOk(room) => PlanOk(room)'
           /\ \A room : Fits(room) => Fits(room)'
           /\ Placement' = Placement /\ Memories' = Memories
           /\ Computed(memory', next') => Computed(memory, next)'
<1>1. SameMake /\ T' = T
  BY DEF SameMake, T
<1>2. \A room : PlanOk(room) => PlanOk(room)'
  BY <1>1, PlanStays
<1>3. \A t \in T : Owner(t)' <=> Owner(t)
  BY <1>1, SameNeeds
<1>4. \A room : Fits(room) => Fits(room)'
  BY <1>1, <1>3 DEF Fits
<1>5. Placement' = Placement
  BY <1>1, <1>3 DEF Placement
<1>6. Memories' = Memories
  BY DEF Memories
<1>7. Computed(memory', next') => Computed(memory, next)'
  <2>1. \A t \in T : (\A d : Placed(t, d)' <=> Placed(t, d))
                     /\ \A k, j : Needed(t, k, j)' <=> Needed(t, k, j)
    BY <1>1, SameNeeds
  <2>2. \A t, a : Bytes(t, a)' = Bytes(t, a')
    BY DEF Bytes
  <2>3. \A t : HoldsIn(memory, t, hash[t].addr)' <=> HoldsIn(memory', t, hash[t].addr)
    BY <2>2 DEF HoldsIn
  <2>4. QED
    BY <1>1, <2>1, <2>3 DEF Computed
<1>8. QED
  BY <1>2, <1>4, <1>5, <1>6, <1>7

LEMMA ExecInit == Init => ExecInv
<1> SUFFICES ASSUME Init PROVE ExecInv
  OBVIOUS
<1>1. LifeInv /\ phase = "create" /\ T = {} /\ buffer = <<>>
  BY LifeInit DEF Init, T
<1>2. QED
  BY <1>1 DEF ExecInv

LEMMA ExecNext == ExecInv /\ [Next]_vars => ExecInv'
<1> SUFFICES ASSUME ExecInv, [Next]_vars PROVE ExecInv'
  OBVIOUS
<1>0. LifeInv /\ LifeInv' /\ PlanInv /\ WellMade(tensors)
  BY LifeNext DEF ExecInv, LifeInv
<1>1. /\ TensorsOk(tensors) /\ SizesOk(tensors) /\ T = 1..Len(tensors) /\ Len(tensors) \in Nat
      /\ buffer \in Seq(Nat) /\ tensors \in Seq(TensorRecord)
      /\ \A t \in T : tensors[t].output = TRUE => tensors[t].kind \in {"op", "inplace"}
  BY <1>0 DEF PlanInv, TensorsOk, T, ExecInv
<1>2. phase # "create" => GraphIs /\ Len(graph.nodes) \in Nat /\ T # {}
                          /\ \A t \in Sinks(tensors) : ~IsLeaf(tensors, t)
  BY <1>0, LifeGraph, ListedSeqs DEF GraphIs, ExecInv, LifeInv
<1>3. ASSUME NEW r, NewTensor(r), r.output = FALSE, r \in TensorRecord
      PROVE  ExecInv'
  <2>1. phase' = "create" /\ tensors' = Append(tensors, r) /\ buffer' = buffer
    BY <1>3 DEF NewTensor, galloc
  <2>2. \A t \in T' : tensors'[t].output = TRUE => tensors'[t].kind \in {"op", "inplace"}
    <3>1. T' = 1..(Len(tensors) + 1)
      BY <1>1, <1>3, <2>1 DEF T
    <3>2. \A t \in T' : t \in T \/ t = Len(tensors) + 1
      BY <1>1, <3>1
    <3>3. tensors'[Len(tensors) + 1] = r /\ \A t \in T : tensors'[t] = tensors[t]
      BY <1>1, <1>3, <2>1
    <3>4. QED
      BY <1>1, <1>3, <3>2, <3>3
  <2>3. QED
    BY <1>0, <1>1, <2>1, <2>2 DEF ExecInv
<1>4. ASSUME NEW kind \in Kinds, NEW src \in Seq(Nat), NEW root \in Nat, NEW size \in Nat,
             NewTensor(Tensor(kind, src, root, size))
      PROVE  ExecInv'
  <2>1. Tensor(kind, src, root, size) \in TensorRecord
    BY TensorIs
  <2>2. Tensor(kind, src, root, size).output = FALSE
    BY DEF Tensor
  <2>3. QED
    BY <1>3, <1>4, <2>1, <2>2
<1>5. CASE NewLeaf
  <2>1. <<>> \in Seq(Nat) /\ "weight" \in Kinds /\ "leaf" \in Kinds
    BY DEF Kinds
  <2>2. QED
    BY <1>4, <1>5, <2>1, GraphAssumption DEF NewLeaf
<1>6. CASE NewOp
  <2>1. PICK src \in Sources :
            \/ \E size \in Sizes : NewTensor(Tensor("op", src, 0, size))
            \/ LET size == tensors[RootOf(tensors, src[1])].size
               IN  size > 0 /\ NewTensor(Tensor("inplace", src, 0, size))
    BY <1>6 DEF NewOp
  <2>2. src \in Seq(Nat) /\ src[1] \in T
    BY <1>1, SourcesTyped, SeqOfNat
  <2>3. CASE \E size \in Sizes : NewTensor(Tensor("op", src, 0, size))
    <3>1. PICK size \in Sizes : NewTensor(Tensor("op", src, 0, size))
      BY <2>3
    <3>2. size \in Nat /\ "op" \in Kinds
      BY GraphAssumption DEF Kinds
    <3>3. QED
      BY <1>4, <2>2, <3>1, <3>2
  <2>4. CASE LET size == tensors[RootOf(tensors, src[1])].size
             IN  size > 0 /\ NewTensor(Tensor("inplace", src, 0, size))
    <3> DEFINE p == src[1]
               size == tensors[RootOf(tensors, p)].size
    <3>1. NewTensor(Tensor("inplace", src, 0, size))
      BY <2>4
    <3>2. size # 0 => size \in Sizes
      <4>1. p \in DOMAIN tensors
        BY <2>2 DEF T
      <4>2. QED
        BY <1>1, <4>1, RootIs
    <3> HIDE DEF size
    <3>3. size \in Nat /\ "inplace" \in Kinds
      <4>1. Sizes \subseteq Nat
        BY GraphAssumption
      <4>2. size \in Nat
        <5>1. CASE size = 0
          BY <5>1
        <5>2. CASE size # 0
          BY <3>2, <4>1, <5>2
        <5>3. QED
          BY <5>1, <5>2
      <4>3. QED
        BY <4>2 DEF Kinds
    <3>4. QED
      BY <1>4, <2>2, <3>1, <3>3
  <2>5. QED
    BY <2>1, <2>3, <2>4
<1>7. CASE NewView
  <2>1. PICK t \in T : NewTensor(Tensor("view", <<t>>, RootOf(tensors, t), 0))
    BY <1>7 DEF NewView
  <2>2. RootOf(tensors, t) \in Nat /\ <<t>> \in Seq(Nat) /\ "view" \in Kinds
    <3>1. RootOf(tensors, t) \in 1..Len(tensors)
      BY <1>1, RootIs DEF T
    <3>2. QED
      BY <1>1, <3>1 DEF Kinds
  <2>3. QED
    BY <1>4, <2>1, <2>2
<1>18. CASE NewStore
  <2>1. PICK a \in T, b \in T : NewTensor(Tensor("store", <<a, b>>, RootOf(tensors, b), 0))
    BY <1>18 DEF NewStore
  <2>2. RootOf(tensors, b) \in Nat /\ <<a, b>> \in Seq(Nat) /\ "store" \in Kinds
    <3>1. RootOf(tensors, b) \in 1..Len(tensors)
      BY <1>1, RootIs DEF T
    <3>2. QED
      BY <1>1, <3>1 DEF Kinds
  <2>3. QED
    BY <1>4, <2>1, <2>2
<1>8. CASE SetOutput
  <2>1. PICK t \in T : /\ phase' = phase /\ phase = "create" /\ buffer' = buffer
                       /\ tensors[t].kind \in {"op", "inplace"}
                       /\ tensors' = [tensors EXCEPT ![t].output = TRUE]
    BY <1>8 DEF SetOutput, galloc
  <2>2. T' = T /\ \A u \in T : tensors'[u].kind = tensors[u].kind
                               /\ (u # t => tensors'[u].output = tensors[u].output)
    <3> DEFINE r == [tensors[t] EXCEPT !.output = TRUE]
    <3>1. tensors[t] \in TensorRecord
      BY <1>1, ElementOfSeq
    <3>2. r.kind = tensors[t].kind
      BY <3>1 DEF TensorRecord
    <3>3. tensors' = [tensors EXCEPT ![t] = r]
      BY <2>1
    <3> HIDE DEF r
    <3>4. QED
      BY <1>1, <3>2, <3>3 DEF T
  <2>3. QED
    BY <1>0, <1>1, <2>1, <2>2 DEF ExecInv
<1>9. CASE BuildForward
  <2>1. /\ phase' = "plan" /\ T # {} /\ tensors' = tensors /\ buffer' = buffer
    BY <1>9 DEF BuildForward, built, galloc
  <2>2. T' = T
    BY <2>1 DEF T
  <2>3. QED
    BY <1>0, <1>1, <2>1, <2>2 DEF ExecInv
<1>10. CASE PlanLeafs \/ PlanNode
  <2>1. phase = "plan" /\ phase' = phase /\ tensors' = tensors /\ buffer' = buffer
    BY <1>10 DEF PlanLeafs, PlanNode, built
  <2>2. T' = T
    BY <2>1 DEF T
  <2>3. QED
    BY <1>0, <1>1, <1>2, <2>1, <2>2 DEF ExecInv
<1>11. CASE Reserve \/ ReserveAgain
  <2>1. /\ tensors' = tensors /\ phase \in {"plan", "failed"}
        /\ Reserve => next = Len(graph.nodes) + 1 /\ phase = "plan"
        /\ ReserveAgain => phase = "failed"
        /\ \/ Reserved /\ phase' \in {"measured", "reserved"}
           \/ phase' \in {"failed", "crashed"} /\ buffer' = <<>>
    BY <1>11, ReserveCases DEF Reserve, Reserved, Refused
  <2>2. T' = T
    BY <2>1 DEF T
  <2>3. CASE Reserved /\ phase' \in {"measured", "reserved"}
    <3>1. /\ next = Len(graph.nodes) + 1
          /\ MemOk(State(chunks, hash)) /\ Planned(hash, chunks, next)
      <4>1. CASE Reserve
        <5>1. next > 0
          BY <1>2, <2>1, <4>1
        <5>2. QED
          BY <1>0, <2>1, <4>1, <5>1 DEF LifeInv, PlanInv, ToPlan
      <4>2. CASE ReserveAgain
        BY <1>0, <2>1, <4>2 DEF LifeInv, AllPlanned
      <4>3. QED
        BY <1>11, <4>1, <4>2
    <3>2. buffer' \in Seq(Nat) /\ \E room : PlanOk(room)' /\ Fits(room)'
      BY <1>1, <1>2, <2>1, <2>3, <3>1, ReserveIs
    <3>3. QED
      BY <1>0, <1>1, <1>2, <2>1, <2>2, <2>3, <3>2 DEF ExecInv
  <2>4. CASE phase' \in {"failed", "crashed"} /\ buffer' = <<>>
    <3>1. <<>> \in Seq(Nat)
      OBVIOUS
    <3>2. QED
      BY <1>0, <1>1, <1>2, <2>1, <2>2, <2>4, <3>1 DEF ExecInv
  <2>5. QED
    BY <2>1, <2>3, <2>4
<1>12. CASE Rebuild
  <2>1. PICK now \in [Sizes -> Sizes] :
            /\ tensors' = [t \in T |-> [tensors[t] EXCEPT !.size = IF @ > 0 THEN now[@] ELSE 0]]
            /\ phase = "measured" /\ phase' = "alloc" /\ graph' = graph
            /\ hash' = hash /\ plan' = plan /\ buffer' = buffer
    BY <1>12 DEF Rebuild, galloc
  <2>2. SameMake
    <3> DEFINE z(t) == IF tensors[t].size > 0 THEN now[tensors[t].size] ELSE 0
               r(t) == [tensors[t] EXCEPT !.size = z(t)]
    <3>1. tensors' = [t \in T |-> r(t)]
      BY <2>1
    <3>2. ASSUME NEW t \in T
          PROVE  /\ r(t).kind = tensors[t].kind /\ r(t).src = tensors[t].src
                 /\ r(t).root = tensors[t].root /\ r(t).output = tensors[t].output
      <4>1. tensors[t] \in TensorRecord
        BY <1>1, ElementOfSeq
      <4> HIDE DEF z
      <4>2. QED
        BY <4>1 DEF TensorRecord
    <3> HIDE DEF r
    <3>3. \A t \in T : tensors'[t] = r(t)
      BY <3>1
    <3>4. T' = T
      BY <3>1 DEF T
    <3>5. QED
      BY <2>1, <3>2, <3>3, <3>4 DEF SameMake
  <2>3. PICK room : PlanOk(room)
    BY <2>1 DEF ExecInv
  <2>4. PlanOk(room)'
    BY <1>2, <2>1, <2>2, <2>3, PlanStays
  <2>5. QED
    BY <1>0, <1>1, <1>2, <2>1, <2>2, <2>4 DEF ExecInv, SameMake
<1>13. CASE AllocGraph
  <2>1. /\ phase = "alloc" /\ tensors' = tensors /\ graph' = graph
        /\ hash' = hash /\ plan' = plan /\ buffer' = buffer
        /\ phase' = "plan" \/ (phase' = "reserved" /\ ~NeedsRealloc)
    BY <1>13 DEF AllocGraph, built, galloc
  <2>2. T' = T
    BY <2>1 DEF T
  <2>3. PICK room : PlanOk(room)
    BY <2>1 DEF ExecInv
  <2>4. PlanOk(room)'
    BY <1>2, <2>1, <2>3, SameRest
  <2>5. ~NeedsRealloc => Fits(room)'
    BY <1>0, <1>2, <2>1, <2>3, KeptFits, SameRest
  <2>6. QED
    BY <1>0, <1>1, <1>2, <2>1, <2>2, <2>4, <2>5 DEF ExecInv
<1>14. CASE SetInputs
  <2>1. /\ phase = "reserved" /\ phase' = "compute" /\ tensors' = tensors /\ graph' = graph
        /\ hash' = hash /\ plan' = plan /\ buffer' = buffer /\ next' = 1
        /\ data' = Addresses /\ memory' = InputsWritten(Addresses)
    BY <1>14 DEF SetInputs, built, galloc
  <2>2. T' = T
    BY <2>1 DEF T
  <2>3. PICK room : PlanOk(room) /\ Fits(room)
    BY <2>1 DEF ExecInv
  <2>4. PlanOk(room)' /\ Fits(room)' /\ Placement' = Placement /\ Memories' = Memories
    BY <1>2, <2>1, <2>3, SameRest
  <2>5. Addresses = Placement
    <3>1. Somewhere
      <4>1. \A t \in T : Owner(t) => Within(hash[t].addr, room[t])
        BY <2>3 DEF PlanOk
      <4>2. Nowhere.chunk \notin 1..Len(buffer)
        BY DEF Nowhere
      <4>3. QED
        BY <4>1, <4>2 DEF Somewhere, Within
    <3>2. QED
      BY <1>2, <2>1, <2>3, <3>1, AddressesIs DEF PlanOk
  <2>6. InputsAre(memory')
    BY <1>1, <1>2, <2>1, <2>3, <2>5, InputsIs
  <2>7. memory' \in Memories /\ Computed(memory', 1)
    BY <1>2, <2>1, <2>6, InputsComputed DEF InputsAre
  <2>8. Computed(memory, next)'
    BY <1>2, <2>1, <2>7, SameRest
  <2>9. next' \in 1..Len(graph'.nodes)
    BY <1>0, <1>2, <2>1, NodesThere
  <2>10. QED
    BY <1>0, <1>1, <1>2, <2>1, <2>2, <2>4, <2>5, <2>7, <2>8, <2>9 DEF ExecInv
<1>15. CASE Compute
  <2>1. /\ phase = "compute" /\ tensors' = tensors /\ graph' = graph
        /\ hash' = hash /\ plan' = plan /\ buffer' = buffer /\ next' = next + 1 /\ data' = data
        /\ memory' = IF IsView(tensors, Node) THEN memory ELSE Written(memory, Node, data[Node])
        /\ phase' = IF next' > Len(graph.nodes) THEN "done" ELSE "compute"
        /\ next \in 1..Len(graph.nodes)
    BY <1>15 DEF Compute, built, galloc
  <2>2. T' = T
    BY <2>1 DEF T
  <2>3. PICK room : PlanOk(room) /\ Fits(room)
    BY <2>1 DEF ExecInv
  <2>4. PlanOk(room)' /\ Fits(room)' /\ Placement' = Placement /\ Memories' = Memories
    BY <1>2, <2>1, <2>3, SameRest
  <2>5. data = Placement /\ memory \in Memories /\ Computed(memory, next)
    BY <2>1 DEF ExecInv
  <2>6. memory' \in Memories /\ Computed(memory', next + 1)
    BY <1>1, <1>2, <2>1, <2>3, <2>5, NodeComputed DEF Node
  <2>7. Computed(memory, next)'
    BY <1>2, <2>1, <2>6, SameRest
  <2>8. /\ phase' = "compute" => next' \in 1..Len(graph'.nodes)
        /\ phase' = "done" => next' = Len(graph'.nodes) + 1
    BY <1>2, <2>1
  <2>9. phase' \in {"compute", "done"}
    BY <2>1
  <2>10. QED
    BY <1>0, <1>1, <1>2, <2>1, <2>2, <2>4, <2>5, <2>6, <2>7, <2>8, <2>9 DEF ExecInv
<1>16. CASE UNCHANGED vars
  <2>1. /\ phase' = phase /\ tensors' = tensors /\ graph' = graph /\ next' = next
        /\ hash' = hash /\ plan' = plan /\ buffer' = buffer
        /\ data' = data /\ memory' = memory
    BY <1>16 DEF vars
  <2>2. T' = T
    BY <2>1 DEF T
  <2>3. CASE phase = "create"
    BY <1>0, <1>1, <2>1, <2>2, <2>3 DEF ExecInv
  <2>4. CASE phase # "create"
    <3>1. phase \in {"measured", "alloc"} => \E room : PlanOk(room)'
      BY <1>2, <2>1, <2>4, SameRest DEF ExecInv
    <3>2. phase \in {"reserved", "compute", "done"} => \E room : PlanOk(room)' /\ Fits(room)'
      BY <1>2, <2>1, <2>4, SameRest DEF ExecInv
    <3>3. phase \in {"compute", "done"} => Computed(memory', next')
      BY <2>1 DEF ExecInv
    <3>4. /\ Placement' = Placement /\ Memories' = Memories
          /\ phase \in {"compute", "done"} => Computed(memory, next)'
      BY <1>2, <2>1, <2>4, <3>3, SameRest
    <3>5. QED
      BY <1>0, <1>1, <1>2, <2>1, <2>2, <2>4, <3>1, <3>2, <3>4 DEF ExecInv
  <2>5. QED
    BY <2>3, <2>4
<1>17. QED
  BY <1>5, <1>6, <1>7, <1>8, <1>9, <1>10, <1>11, <1>12, <1>13, <1>14, <1>15, <1>16, <1>18
     DEF Next

(* The invariant of execution: the plan has room in the buffer for every   *)
(* tensor of the graph at hand, also if it was made for other sizes;       *)
(* ggml_gallocr_init_tensor puts every tensor where the plan says; and     *)
(* what has been computed is in memory as long as anything needs it.       *)
THEOREM ExecutionInvariant == Spec => []ExecInv
<1>1. Init => ExecInv
  BY ExecInit
<1>2. ExecInv /\ [Next]_vars => ExecInv'
  BY ExecNext
<1>3. QED
  BY <1>1, <1>2, PTL DEF Spec

LEMMA HoldsWhatIs ==
    ASSUME data = Placement, NEW t \in T, Owner(t), HoldsIn(memory, t, hash[t].addr)
    PROVE  Holds(t)
<1>1. data[t] = hash[t].addr
  BY DEF Placement
<1>2. QED
  BY <1>1 DEF Holds, HoldsIn

(* When a node is computed each of its inputs has the value that was set   *)
(* or computed for it, and the result goes where it does no harm: for all  *)
(* graphs, sizes and alignments, in whatever memory ggml_gallocr found.    *)
THEOREM InputsStayIntact == Spec => []InputsIntact
<1>1. ExecInv => InputsIntact
  <2> SUFFICES ASSUME ExecInv, phase = "compute" PROVE InputsIntact
    BY DEF InputsIntact
  <2>1. /\ GraphIs /\ WellMade(tensors) /\ \A t \in Sinks(tensors) : ~IsLeaf(tensors, t)
        /\ next \in 1..Len(graph.nodes) /\ Len(graph.nodes) \in Nat
        /\ data = Placement /\ Computed(memory, next)
    BY LifeGraph, ListedSeqs DEF ExecInv, LifeInv, GraphIs
  <2>2. PICK room : PlanOk(room) /\ Fits(room)
    BY DEF ExecInv
  <2>3. RoomOk(room)
    BY <2>1, <2>2, RoomIs
  <2>4. ASSUME next = 1, NEW t \in ToSet(graph.leafs) PROVE Holds(t)
    <3>1. t \in T /\ IsLeaf(tensors, t)
      <4>1. graph.leafs \in Seq(T) /\ LeafsOk(tensors, graph.leafs)
        BY <2>1, ListedSeqs DEF GraphIs, Wellformed
      <4>2. PICK i \in 1..Len(graph.leafs) : graph.leafs[i] = t
        BY <2>4, <4>1 DEF ToSet
      <4>3. QED
        BY <4>1, <4>2, ElementOfSeq DEF LeafsOk
    <3>2. CASE tensors[t].kind = "weight"
      BY <3>2 DEF Holds
    <3>3. CASE tensors[t].kind # "weight"
      <4>1. tensors[t].kind = "leaf"
        BY <3>1, <3>3 DEF IsLeaf
      <4>2. Owner(t) /\ Placed(t, 1)
        BY <2>1, <3>1, <4>1, LeafIs DEF Placed
      <4>3. Uses(t) # {}
        BY <2>1, <3>1, SinkIs
      <4>4. Needed(t, 1, 0)
        BY <2>1, <3>1, <4>3, LeftFirst DEF Needed
      <4>5. HoldsIn(memory, t, hash[t].addr)
        BY <2>1, <2>4, <3>1, <4>2, <4>4 DEF Computed
      <4>6. QED
        BY <2>1, <3>1, <4>2, <4>5, HoldsWhatIs
    <3>4. QED
      BY <3>2, <3>3
  <2>5. ASSUME NEW q \in ToSet(Src(Node)), NEW p, p = RootOf(tensors, q)
        PROVE  /\ Holds(p)
               /\ \/ IsView(tensors, Node) \/ tensors[p].kind = "weight"
                  \/ Apart(p, Node)
                  \/ tensors[Node].kind = "inplace" /\ data[p] = data[Node]
    <3> DEFINE k == next
               x == graph.nodes[k]
    <3>1. Node = x /\ x \in T
      BY <2>1, ListedSeqs DEF Node, GraphIs
    <3>2. PICK j \in 1..Len(Src(x)) : Src(x)[j] = q
      <4>1. Src(x) \in Seq(T)
        BY <2>1, ListedSeqs DEF GraphIs
      <4>2. QED
        BY <2>5, <3>1, <4>1 DEF ToSet
    <3>3. ReadAt(p, k)
      BY <2>1, <2>5, <3>2, ReadsAre
    <3>4. CASE tensors[p].kind = "weight"
      BY <3>4 DEF Holds
    <3>5. CASE tensors[p].kind # "weight"
      <4>1. p \in T /\ Owner(p) /\ Placed(p, k) /\ Needed(p, k, 0)
        BY <3>3, <3>5 DEF ReadAt
      <4>2. HoldsIn(memory, p, hash[p].addr)
        BY <2>1, <4>1 DEF Computed
      <4>3. Holds(p)
        BY <2>1, <4>1, <4>2, HoldsWhatIs
      <4>0. SUFFICES ASSUME Owner(x)
                     PROVE  Apart(p, x) \/ (tensors[x].kind = "inplace" /\ data[p] = data[x])
        BY <2>1, <3>1, <4>3, NodeOwns
      <4>4. k \in 1..((Len(graph.nodes) + 1) - 1)
        BY <2>1
      <4>5. WellPlaced([u \in T |-> hash[u].addr], room, p, k)
        BY <2>2, <4>0, <4>1, <4>4 DEF PlanOk, Sound
      <4>6. data[p] = hash[p].addr /\ data[x] = hash[x].addr
        BY <2>1, <3>1, <4>0, <4>1 DEF Placement
      <4>7. CASE Beside(hash[p].addr, room[p], hash[x].addr, room[x])
        <5> HIDE DEF x, k
        <5>1. /\ room[p] \in Nat /\ Within(hash[p].addr, room[p])
              /\ tensors[p].size \in Nat /\ tensors[p].size <= room[p]
              /\ room[x] \in Nat /\ Within(hash[x].addr, room[x])
              /\ tensors[x].size \in Nat /\ tensors[x].size <= room[x]
          BY <2>3, <3>1, <4>0, <4>1 DEF RoomOk
        <5>2. hash[p].addr.offset \in Nat /\ hash[x].addr.offset \in Nat
          BY <5>1 DEF Within
        <5>3. \/ hash[p].addr.chunk # hash[x].addr.chunk
              \/ Bytes(p, hash[p].addr) \cap Bytes(x, hash[x].addr) = {}
          BY <4>7, <5>1, <5>2, BytesApart
        <5>4. Apart(p, x)
          BY <4>6, <5>3 DEF Apart
        <5>5. QED
          BY <5>4
      <4>8. CASE tensors[x].kind = "inplace" /\ hash[p].addr = hash[x].addr
        BY <4>6, <4>8
      <4>9. QED
        BY <3>1, <4>1, <4>5, <4>7, <4>8 DEF WellPlaced
    <3>6. QED
      BY <3>4, <3>5
  <2>6. QED
    BY <2>4, <2>5 DEF InputsIntact
<1>2. QED
  BY <1>1, ExecutionInvariant, PTL

(* When a graph is computed each of its results is in memory: the tensors  *)
(* that were made outputs, as ggml-alloc.h says, and those that nothing is *)
(* computed from, as whisper.cpp relies on when it reads logits and        *)
(* embd_enc.                                                               *)
THEOREM ResultsSurvive == Spec => []OutputsSurvive
<1>1. ExecInv => OutputsSurvive
  <2> SUFFICES ASSUME ExecInv, phase = "done", NEW t \in T,
                      tensors[t].output \/ \E u \in Sinks(tensors) : RootOf(tensors, u) = t
               PROVE  Holds(t)
    BY DEF OutputsSurvive
  <2> DEFINE n == Len(graph.nodes)
  <2>1. /\ GraphIs /\ WellMade(tensors) /\ next = n + 1 /\ n \in Nat
        /\ data = Placement /\ Computed(memory, next)
        /\ TensorsOk(tensors) /\ SizesOk(tensors)
    BY LifeGraph, ListedSeqs DEF ExecInv, LifeInv, GraphIs, PlanInv
  <2>2. SUFFICES ASSUME tensors[t].kind # "weight" PROVE Holds(t)
    BY DEF Holds
  <2>3. tensors[t].output \in BOOLEAN
    <3>1. tensors \in Seq(TensorRecord) /\ t \in 1..Len(tensors)
      BY <2>1 DEF TensorsOk, T
    <3>2. tensors[t] \in TensorRecord
      BY <3>1, ElementOfSeq
    <3>3. QED
      BY <3>2 DEF TensorRecord
  <2>4. Owner(t) /\ Needed(t, n + 1, 0)
    <3>1. CASE tensors[t].output = TRUE
      <4>1. tensors[t].kind \in {"op", "inplace"}
        BY <3>1 DEF ExecInv
      <4>2. TensorOk(tensors, t)
        BY <2>1 DEF TensorsOk, T
      <4>3. QED
        BY <2>2, <3>1, <4>1, <4>2 DEF TensorOk, Owner, Needed, Sharers
    <3>2. CASE \E u \in Sinks(tensors) : RootOf(tensors, u) = t
      <4>1. PICK u \in Sinks(tensors) : RootOf(tensors, u) = t
        BY <3>2
      <4>2. u \in T /\ Uses(u) = {}
        BY <2>1, <4>1, SinkIs DEF Sinks, T
      <4>3. tensors[t].root = 0
        BY <2>1, <4>1, <4>2, RootIs DEF T
      <4>4. CASE tensors[u].root = 0
        BY <2>2, <4>1, <4>2, <4>3, <4>4 DEF RootOf, Owner, Needed
      <4>5. CASE tensors[u].root # 0
        <5>1. tensors[u].root = t
          BY <4>1, <4>5 DEF RootOf
        <5>2. ViewNode(u, t)
          BY <2>1, <4>2, <4>5, <5>1, ViewIs
        <5>3. PICK i \in 1..n : graph.nodes[i] = u /\ i \in Views(t)
          BY <5>2 DEF ViewNode
        <5>4. i \in StillViews(t, n + 1, 0)
          BY <4>2, <5>3 DEF StillViews
        <5>5. QED
          BY <2>2, <4>3, <5>4 DEF Owner, Needed
      <4>6. QED
        BY <4>4, <4>5
    <3>3. QED
      BY <2>3, <3>1, <3>2
  <2>5. Placed(t, n + 1)
    BY <2>1, <2>4, OwnersPlaced
  <2>6. HoldsIn(memory, t, hash[t].addr)
    BY <2>1, <2>4, <2>5 DEF Computed
  <2>7. QED
    BY <2>1, <2>4, <2>6, HoldsWhatIs
<1>2. QED
  BY <1>1, ExecutionInvariant, PTL

-----------------------------------------------------------------------------
(* Planning never needs more chunks than there may be: the last one is as  *)
(* good as endless.  Of that chunk, everything from "used" on is free.     *)
Top(chunk, used) ==
    /\ chunk.max_size <= Endless
    /\ \A b \in Nat : used <= b /\ b < Endless => b \in Available(chunk.free)
    /\ \A b \in Available(chunk.free) : b < Endless

Roomy(cs, used) ==
    /\ Len(cs) <= MaxChunks
    /\ Len(cs) = MaxChunks => Top(cs[MaxChunks], used)

(* So its last block is large, and no other begins behind it.              *)
LargeBlock(free, used) ==
    /\ Len(free) > 0 /\ End(free[Len(free)]) = Endless
    /\ \A i \in 1..Len(free) : free[i].offset <= used /\ End(free[i]) <= Endless

LEMMA TopBlock ==
    ASSUME NEW chunk \in Chunk, Neat(chunk.free), NEW used \in Nat, used < Endless,
           Top(chunk, used)
    PROVE  LargeBlock(chunk.free, used)
<1> DEFINE free == chunk.free
           n == Len(free)
<1>0. Endless \in Nat /\ Endless - 1 \in Nat /\ used <= Endless - 1
  BY TallocrAssumption
<1>1. /\ n \in Nat
      /\ \A i \in 1..n : /\ free[i].offset \in Nat /\ free[i].size \in Nat /\ free[i].size > 0
                         /\ End(free[i]) = free[i].offset + free[i].size
      /\ \A i, k \in 1..n : i < k => End(free[i]) < free[k].offset
  BY FreeTyped DEF Neat
<1>2. \A b \in Nat : used <= b /\ b < Endless => \E i \in 1..n : In(b, free[i])
  BY DEF Top, Available
<1>3. ASSUME NEW i \in 1..n PROVE End(free[i]) <= Endless
  <2> DEFINE b == End(free[i]) - 1
  <2>1. b \in Nat /\ In(b, free[i])
    <3> DEFINE x == free[i].offset
               z == free[i].size
               e == End(free[i])
    <3>1. x \in Nat /\ z \in Nat /\ z > 0 /\ e = x + z
      BY <1>1
    <3> HIDE DEF x, z, e
    <3>2. e - 1 \in Nat /\ x <= e - 1 /\ e - 1 < e
      BY <3>1
    <3>3. QED
      BY <3>2 DEF In, x, e
  <2> HIDE DEF b
  <2>2. b < Endless
    <3>1. b \in Available(free)
      BY <2>1 DEF Available
    <3>2. QED
      BY <3>1 DEF Top
  <2>3. QED
    BY <1>0, <1>1, <2>2 DEF b
<1>4. PICK l \in 1..n : In(Endless - 1, free[l])
  BY <1>0, <1>2
<1> HIDE DEF n, free
<1>5. End(free[l]) = Endless
  BY <1>0, <1>1, <1>3, <1>4 DEF In
<1>6. l = n
  <2>1. ASSUME l < n PROVE FALSE
    <3>1. n \in 1..n
      BY <1>1, <1>4
    <3>2. End(free[l]) < free[n].offset /\ End(free[n]) <= Endless
      BY <1>1, <1>3, <2>1, <3>1
    <3>3. QED
      BY <1>0, <1>1, <1>5, <3>1, <3>2
  <2>2. QED
    BY <1>1, <1>4, <2>1
<1>7. free[l].offset <= used
  <2>1. ASSUME free[l].offset > used PROVE FALSE
    <3> DEFINE b == free[l].offset - 1
    <3>1. b \in Nat /\ used <= b /\ b < Endless
      BY <1>0, <1>1, <1>4, <1>5, <2>1
    <3>2. PICK j \in 1..n : In(b, free[j])
      BY <1>2, <3>1
    <3>3. free[j].offset <= b /\ b < End(free[j])
      BY <3>2 DEF In
    <3>4. CASE j = l
      BY <1>1, <3>3, <3>4
    <3>5. CASE j < l
      BY <1>1, <1>4, <3>3, <3>5
    <3>6. QED
      BY <1>1, <1>4, <1>6, <3>4, <3>5
  <2>2. QED
    BY <1>1, <2>1
<1>8. ASSUME NEW i \in 1..n PROVE free[i].offset <= used
  <2>1. CASE i = l
    BY <1>7, <2>1
  <2>2. CASE i < l
    BY <1>1, <1>4, <1>7, <2>2
  <2>3. QED
    BY <1>1, <1>4, <1>6, <2>1, <2>2
<1>9. n > 0
  BY <1>1, <1>4
<1>10. QED
  BY <1>3, <1>5, <1>6, <1>8, <1>9 DEF LargeBlock, free, n

LEMMA RoomLater ==
    ASSUME NEW cs, NEW used \in Nat, NEW later \in Nat, used <= later, Roomy(cs, used)
    PROVE  Roomy(cs, later)
BY TallocrAssumption DEF Roomy, Top

(* An allocation takes memory below "used" and its own size; the last      *)
(* chunk never is too small for it.                                        *)
LEMMA NewRoomy ==
    ASSUME NEW cs \in Seq(Chunk), Len(cs) < MaxChunks, NEW size \in Nat, size > 0,
           size <= Endless, NEW used \in Nat
    PROVE  /\ Roomy(NewChunk(cs, size), used) /\ NewChunk(cs, size) \in Seq(Chunk)
           /\ \A c \in 1..Len(NewChunk(cs, size)) :
                 c \notin 1..Len(cs) => Neat(NewChunk(cs, size)[c].free)
           /\ \A c \in 1..Len(cs) : NewChunk(cs, size)[c] = cs[c]
<1> DEFINE limit == IF size > max_chunk_size THEN size ELSE max_chunk_size
           z == IF Len(cs) = MaxChunks - 1 THEN Endless ELSE limit
           e == [free |-> <<Block(0, z)>>, max_size |-> 0]
           from == NewChunk(cs, size)
<1>1. z \in Nat /\ z > 0 /\ Endless \in Nat /\ MaxChunks \in Nat /\ Len(cs) \in Nat
  BY TallocrAssumption, ChunkTyped
<1>2. from = Append(cs, e)
  BY DEF NewChunk
<1>3. Len(cs) = MaxChunks - 1 => z = Endless
  OBVIOUS
<1> HIDE DEF z
<1>4. /\ Block(0, z) \in FreeBlock /\ Block(0, z).offset = 0 /\ Block(0, z).size = z
      /\ End(Block(0, z)) = z
  <2> DEFINE o == 0
  <2>1. o \in Nat /\ o + z = z
    BY <1>1
  <2> HIDE DEF o
  <2>2. /\ Block(o, z) \in FreeBlock /\ Block(o, z).offset = o /\ Block(o, z).size = z
        /\ End(Block(o, z)) = o + z
    BY <1>1, <2>1, BlockIs
  <2>3. QED
    BY <2>1, <2>2 DEF o
<1>5. /\ e \in Chunk /\ e.free \in Seq(FreeBlock) /\ Len(e.free) = 1
      /\ e.free[1] = Block(0, z) /\ e.max_size = 0
  BY <1>4 DEF Chunk
<1> HIDE DEF e, from
<1>6. /\ from \in Seq(Chunk) /\ Len(from) = Len(cs) + 1 /\ from[Len(cs) + 1] = e
      /\ \A c \in 1..Len(cs) : from[c] = cs[c]
  BY <1>2, <1>5
<1>7. Neat(e.free)
  BY <1>1, <1>4, <1>5 DEF Neat
<1>8. \A b \in Nat : b \in Available(e.free) <=> b < z
  BY <1>1, <1>4, <1>5 DEF Available, In
<1>9. Len(cs) = MaxChunks - 1 => Top(e, used)
  <2>1. \A b \in Available(e.free) : b \in Nat
    BY DEF Available
  <2>2. QED
    BY <1>1, <1>3, <1>5, <1>8, <2>1 DEF Top
<1>10. Roomy(from, used)
  <2>1. Len(from) <= MaxChunks
    BY <1>1, <1>6
  <2>2. ASSUME Len(from) = MaxChunks PROVE Top(from[MaxChunks], used)
    <3>1. Len(cs) = MaxChunks - 1 /\ from[MaxChunks] = e
      BY <1>1, <1>6, <2>2
    <3>2. QED
      BY <1>9, <3>1
  <2>3. QED
    BY <2>1, <2>2 DEF Roomy
<1>11. \A c \in 1..Len(from) : c \notin 1..Len(cs) => from[c] = e
  BY <1>1, <1>6
<1>12. QED
  BY <1>6, <1>7, <1>10, <1>11 DEF from

LEMMA TakeRoomy ==
    ASSUME NEW cs \in Seq(Chunk), NEW used \in Nat, Roomy(cs, used),
           NEW c \in 1..Len(cs), Neat(cs[c].free), NEW i \in 1..Len(cs[c].free),
           NEW size \in Nat, size > 0, size <= cs[c].free[i].size, used + size <= Endless
    PROVE  Roomy([cs EXCEPT ![c] = TakenAt(cs, c, i, size)], used + size)
<1> DEFINE e == TakenAt(cs, c, i, size)
           after == [cs EXCEPT ![c] = e]
<1>0. /\ Len(cs) \in Nat /\ MaxChunks \in Nat /\ Endless \in Nat /\ cs[c] \in Chunk
      /\ cs[c].max_size \in Nat /\ cs[c].free[i].offset \in Nat /\ cs[c].free[i].size \in Nat
      /\ End(cs[c].free[i]) = cs[c].free[i].offset + cs[c].free[i].size
  BY TallocrAssumption, ChunkTyped DEF End
<1>1. TookFrom(e.free, cs[c].free, i, size)
  BY TakenIs DEF TakenAt
<1>2. e.max_size = IF cs[c].free[i].offset + size > cs[c].max_size
                   THEN cs[c].free[i].offset + size ELSE cs[c].max_size
  BY DEF TakenAt
<1> HIDE DEF e
<1>3. Len(after) = Len(cs) /\ after[c] = e /\ \A d \in 1..Len(cs) : d # c => after[d] = cs[d]
  OBVIOUS
<1> HIDE DEF after
<1>4. ASSUME Len(cs) = MaxChunks PROVE Top(after[MaxChunks], used + size)
  <2>1. Top(cs[MaxChunks], used) /\ MaxChunks \in 1..Len(cs)
    BY <1>0, <1>4, TallocrAssumption DEF Roomy
  <2>2. CASE c # MaxChunks
    <3>1. after[MaxChunks] = cs[MaxChunks]
      BY <1>3, <2>1, <2>2
    <3>2. QED
      BY <1>0, <2>1, <3>1 DEF Top
  <2>3. CASE c = MaxChunks
    <3> DEFINE free == cs[c].free
    <3>1. used < Endless
      BY <1>0
    <3>2. LargeBlock(free, used)
      BY <1>0, <2>1, <2>3, <3>1, TopBlock
    <3>3. free[i].offset <= used /\ End(free[i]) <= Endless
      BY <3>2 DEF LargeBlock
    <3>4. e.max_size <= Endless
      BY <1>0, <1>2, <2>1, <2>3, <3>3 DEF Top
    <3>5. \A b \in Nat : b \in Available(e.free) <=>
              b \in Available(free) /\ ~(free[i].offset <= b /\ b < free[i].offset + size)
      BY <1>1 DEF TookFrom
    <3> DEFINE x == free[i].offset
    <3>6. x \in Nat /\ x <= used
      BY <1>0, <3>3
    <3>7. ASSUME NEW b \in Nat, used + size <= b, b < Endless PROVE b \in Available(e.free)
      <4>1. b \in Available(free)
        BY <1>0, <2>1, <2>3, <3>7 DEF Top
      <4> HIDE DEF free, x
      <4>2. ~(x <= b /\ b < x + size)
        BY <1>0, <3>6, <3>7
      <4>3. QED
        BY <3>5, <4>1, <4>2 DEF x
    <3>8. \A b \in Available(e.free) : b < Endless
      <4>1. \A b \in Available(e.free) : b \in Nat
        BY DEF Available
      <4>2. \A b \in Available(e.free) : b \in Available(free)
        BY <3>5, <4>1
      <4>3. QED
        BY <2>1, <2>3, <4>2 DEF Top
    <3>9. QED
      BY <1>3, <2>3, <3>4, <3>7, <3>8 DEF Top
  <2>4. QED
    BY <2>2, <2>3
<1>5. QED
  BY <1>3, <1>4 DEF Roomy, after, e

LEMMA AllocRoomy ==
    ASSUME NEW cs \in Seq(Chunk), \A c \in 1..Len(cs) : Neat(cs[c].free), NEW bytes,
           NEW size \in Nat, size = Aligned(bytes), size > 0, NEW used \in Nat,
           used + size <= Endless, Roomy(cs, used)
    PROVE  Roomy(Alloc(cs, bytes).chunks, used + size)
<1>0. Endless \in Nat /\ size <= Endless /\ used < Endless /\ MaxChunks \in Nat \ {0} /\ Len(cs) \in Nat
  BY TallocrAssumption, ChunkTyped
<1>1. PICK from, c, i : /\ from = cs \/ (Growing(cs, size) = {} /\ from = NewChunk(cs, size))
                        /\ AllocatedAt(Alloc(cs, bytes), from, c, i, size)
  BY <1>0, AllocFrom
<1>2. ASSUME Growing(cs, size) = {} PROVE Len(cs) < MaxChunks
  <2>1. ASSUME Len(cs) = MaxChunks PROVE FALSE
    <3> DEFINE n == MaxChunks
               free == cs[n].free
    <3>1. n \in 1..Len(cs) /\ Top(cs[n], used)
      BY <1>0, <2>1 DEF Roomy
    <3>2. cs[n] \in Chunk /\ Neat(free) /\ free \in Seq(FreeBlock) /\ Len(free) \in Nat
      BY <3>1, ChunkTyped
    <3>3. LargeBlock(free, used)
      BY <1>0, <3>1, <3>2, TopBlock
    <3> DEFINE l == Len(free)
    <3>4. /\ l \in 1..l /\ free[l].offset <= used
          /\ free[l].offset + free[l].size = Endless
          /\ free[l].offset \in Nat /\ free[l].size \in Nat
      <4>1. l \in 1..l
        BY <3>2, <3>3 DEF LargeBlock
      <4>2. QED
        BY <3>2, <3>3, <4>1, FreeTyped DEF LargeBlock
    <3>5. free[l].size >= size
      BY <1>0, <3>4
    <3>6. n \in Growing(cs, size)
      BY <3>1, <3>2, <3>4, <3>5 DEF Growing, Last
    <3>7. QED
      BY <1>2, <3>6
  <2>2. QED
    BY <1>0, <2>1 DEF Roomy
<1>3. from \in Seq(Chunk) /\ Roomy(from, used) /\ \A d \in 1..Len(from) : Neat(from[d].free)
  <2>1. CASE from = cs
    BY <2>1
  <2>2. CASE Growing(cs, size) = {} /\ from = NewChunk(cs, size)
    <3>1. Len(cs) < MaxChunks
      BY <1>2, <2>2
    <3>2. /\ Roomy(from, used) /\ from \in Seq(Chunk)
          /\ \A d \in 1..Len(from) : d \notin 1..Len(cs) => Neat(from[d].free)
          /\ \A d \in 1..Len(cs) : from[d] = cs[d]
      BY <1>0, <2>2, <3>1, NewRoomy
    <3>3. QED
      BY <3>2
  <2>3. QED
    BY <1>1, <2>1, <2>2
<1>4. /\ c \in 1..Len(from) /\ i \in 1..Len(from[c].free) /\ size <= from[c].free[i].size
      /\ Alloc(cs, bytes).chunks = [from EXCEPT ![c] = TakenAt(from, c, i, size)]
  BY <1>1 DEF AllocatedAt
<1>5. QED
  BY <1>0, <1>3, <1>4, TakeRoomy

(* Memory that is given back lies below the end of the chunk.              *)
LEMMA GiveRoomy ==
    ASSUME NEW s, MemOk(s), NEW t \in T, s.hash[t].allocated = TRUE, NEW used,
           Roomy(s.chunks, used)
    PROVE  Roomy(FreeBytes(s.chunks, s.hash[t].addr, tensors[t].size), used)
<1> DEFINE c == s.hash[t].addr.chunk
           block == At(s.hash)[t]
           free == s.chunks[c].free
           after == [s.chunks[c] EXCEPT !.free = Freed(free, block)]
           cs == [s.chunks EXCEPT ![c] = after]
<1>0. MaxChunks \in Nat /\ Endless \in Nat /\ MaxChunks > 0
  BY TallocrAssumption
<1>1. s.chunks \in Seq(Chunk) /\ s.hash \in [T -> HashEntry] /\ c \in 1..Len(s.chunks)
  BY DEF MemOk, States
<1>2. FreeBytes(s.chunks, s.hash[t].addr, tensors[t].size) = cs
  <2>1. block = Block(s.hash[t].addr.offset, Aligned(tensors[t].size))
    BY DEF At
  <2>2. QED
    BY <1>1, <2>1 DEF FreeBytes
<1>3. /\ Neat(free) /\ s.chunks[c].max_size \in Nat
      /\ block \in FreeBlock /\ block.size > 0 /\ Busy(free, block)
      /\ End(block) <= s.chunks[c].max_size
  <2>1. Tiled(s.chunks[c], HeldIn(s.hash, c), At(s.hash))
    BY <1>1 DEF MemOk
  <2>2. t \in HeldIn(s.hash, c)
    BY DEF HeldIn
  <2>3. QED
    BY <2>1, <2>2 DEF Tiled
<1> HIDE DEF block
<1>4. Returned(Freed(free, block), free, block)
  BY <1>3, FreedIs
<1>5. after.free = Freed(free, block) /\ after.max_size = s.chunks[c].max_size
  <2>1. s.chunks[c] \in Chunk
    BY <1>1, ChunkTyped
  <2>2. QED
    BY <2>1 DEF Chunk
<1> HIDE DEF after
<1>6. /\ Len(cs) = Len(s.chunks) /\ cs[c] = after
      /\ \A d \in 1..Len(s.chunks) : d # c => cs[d] = s.chunks[d]
  BY <1>1
<1> HIDE DEF cs, c, free
<1>7. ASSUME Len(s.chunks) = MaxChunks PROVE Top(cs[MaxChunks], used)
  <2>1. Top(s.chunks[MaxChunks], used) /\ MaxChunks \in 1..Len(s.chunks)
    BY <1>0, <1>7 DEF Roomy
  <2>2. CASE c # MaxChunks
    BY <1>6, <2>1, <2>2
  <2>3. CASE c = MaxChunks
    <3>1. /\ s.chunks[c].max_size <= Endless
          /\ \A b \in Nat : used <= b /\ b < Endless => b \in Available(free)
          /\ \A b \in Available(free) : b < Endless
      BY <2>1, <2>3 DEF Top, free
    <3>2. \A b \in Nat : b \in Available(after.free) <=> b \in Available(free) \/ In(b, block)
      BY <1>4, <1>5 DEF Returned
    <3>3. \A b \in Nat : In(b, block) => b < Endless
      <4> DEFINE e == End(block)
                 m == s.chunks[c].max_size
      <4>1. e \in Nat /\ m \in Nat /\ e <= m /\ m <= Endless
        BY <1>3, <3>1 DEF End, FreeBlock
      <4>2. \A b \in Nat : In(b, block) => b < e
        BY DEF In
      <4> HIDE DEF e, m
      <4>3. QED
        BY <1>0, <4>1, <4>2
    <3>4. \A b \in Available(after.free) : b \in Nat
      BY DEF Available
    <3>5. Top(after, used)
      BY <1>5, <3>1, <3>2, <3>3, <3>4 DEF Top
    <3>6. QED
      BY <1>6, <2>3, <3>5
  <2>4. QED
    BY <2>2, <2>3
<1>8. QED
  BY <1>2, <1>6, <1>7 DEF Roomy

LEMMA FreeIfUnusedRoomy ==
    ASSUME NEW s, MemOk(s), NEW t \in T, NEW used, Roomy(s.chunks, used)
    PROVE  Roomy(FreeIfUnused(s, t).chunks, used)
<1> DEFINE cs == FreeBytes(s.chunks, s.hash[t].addr, tensors[t].size)
           h == [s.hash EXCEPT ![t].allocated = FALSE]
<1>1. s.hash[t].allocated \in BOOLEAN
  BY HashTyped DEF MemOk, States
<1>2. FreeIfUnused(s, t) = s \/ (s.hash[t].allocated = TRUE /\ FreeIfUnused(s, t) = State(cs, h))
  BY <1>1 DEF FreeIfUnused, FreeNode
<1>3. s.hash[t].allocated = TRUE => Roomy(cs, used)
  BY GiveRoomy
<1> HIDE DEF cs, h
<1>4. State(cs, h).chunks = cs
  BY DEF State
<1>5. QED
  BY <1>2, <1>3, <1>4

LEMMA UseOverRoomy ==
    ASSUME TensorsOk(tensors), NEW s, MemOk(s), NEW p \in T, NEW used, Roomy(s.chunks, used)
    PROVE  Roomy(UseOver(s, p).chunks, used)
<1> DEFINE x == [s.hash[p] EXCEPT !.children = s.hash[p].children - 1]
           less == [s EXCEPT !.hash = [@ EXCEPT ![p] = x]]
           root == tensors[p].root
           y == [less.hash[root] EXCEPT !.views = less.hash[root].views - 1]
           fewer == [less EXCEPT !.hash = [@ EXCEPT ![root] = y]]
<1>1. s \in States /\ s.hash \in [T -> HashEntry] /\ s.chunks \in Seq(Chunk)
  BY DEF MemOk, States
<1>2. x \in HashEntry /\ x.addr = s.hash[p].addr /\ x.allocated = s.hash[p].allocated
  <2> DEFINE k == s.hash[p].children - 1
  <2>1. k \in Int /\ s.hash[p] \in HashEntry
    BY <1>1, HashTyped
  <2> HIDE DEF k
  <2>2. QED
    BY <2>1 DEF HashEntry
<1>3. UseOver(s, p) = IF ~Unused(less, p) THEN less
                      ELSE IF IsView(tensors, p) THEN FreeIfUnused(fewer, root)
                      ELSE FreeIfUnused(less, p)
  <2>1. less = [s EXCEPT !.hash[p].children = @ - 1]
    OBVIOUS
  <2> HIDE DEF less
  <2>2. fewer = [less EXCEPT !.hash[root].views = @ - 1]
    OBVIOUS
  <2> HIDE DEF fewer
  <2>3. QED
    BY <2>1, <2>2 DEF UseOver
<1> HIDE DEF x
<1>4. MemOk(less)
  BY <1>2, CountedOk
<1>5. less.chunks = s.chunks
  BY <1>1 DEF States
<1> HIDE DEF less
<1>6. IsView(tensors, p) => MemOk(fewer) /\ root \in T /\ fewer.chunks = s.chunks
  <2> SUFFICES ASSUME IsView(tensors, p)
               PROVE  MemOk(fewer) /\ root \in T /\ fewer.chunks = s.chunks
    OBVIOUS
  <2>1. root \in T
    BY DEF TensorsOk, TensorOk, T, IsView
  <2>2. less.hash \in [T -> HashEntry] /\ less \in States
    BY <1>4 DEF MemOk, States
  <2>3. y \in HashEntry /\ y.addr = less.hash[root].addr /\ y.allocated = less.hash[root].allocated
    <3> DEFINE k == less.hash[root].views - 1
    <3>1. k \in Int /\ less.hash[root] \in HashEntry
      <4> HIDE DEF root
      <4>1. QED
        BY <2>1, <2>2, HashTyped
    <3> HIDE DEF k
    <3>2. QED
      BY <3>1 DEF HashEntry
  <2> HIDE DEF y, root
  <2>4. MemOk(fewer)
    BY <1>4, <2>1, <2>3, CountedOk
  <2>5. QED
    BY <1>5, <2>1, <2>2, <2>4 DEF States
<1> HIDE DEF fewer, root
<1>7. QED
  BY <1>3, <1>4, <1>5, <1>6, FreeIfUnusedRoomy

(* The uses by a node, one after the other.                                *)
UsesRun(g, s, ts) ==
    /\ g[0] = s /\ \A j \in 0..Len(ts) : MemOk(g[j])
    /\ \A j \in 1..Len(ts) : g[j] = UseOver(g[j - 1], ts[j])
    /\ UsesOver(s, ts) = g[Len(ts)]

LEMMA UsesOverRuns ==
    ASSUME TensorsOk(tensors), NEW s, MemOk(s), NEW ts, ts \in Seq(T)
    PROVE  \E g : UsesRun(g, s, ts)
<1> DEFINE n == Len(ts)
           V == {r \in States : MemOk(r)}
           step == [i \in 1..n |-> [r \in V |-> UseOver(r, ts[i])]]
           Is(f) == f = [i \in 0..n |-> IF i = 0 THEN s ELSE UseOver(f[i - 1], ts[i])]
<1>1. n \in Nat /\ \A i \in 1..n : ts[i] \in T
  BY ElementOfSeq
<1>2. s \in V
  BY DEF MemOk
<1>3. \A i \in 1..n, r \in V : UseOver(r, ts[i]) \in V
  <2> SUFFICES ASSUME NEW i \in 1..n, NEW r \in V PROVE UseOver(r, ts[i]) \in V
    OBVIOUS
  <2>1. MemOk(UseOver(r, ts[i]))
    BY <1>1, UseOverOk
  <2>2. QED
    BY <2>1 DEF MemOk
<1>4. \A r \in V : MemOk(r)
  OBVIOUS
<1> HIDE DEF V
<1>5. step \in [1..n -> [V -> V]]
  BY <1>3
<1>6. PICK f : Follows(f, n, V, s, step)
  <2> HIDE DEF step, n
  <2>1. QED
    BY <1>1, <1>2, <1>5, Recursion
<1>7. /\ f \in [0..n -> V] /\ f[0] = s
      /\ \A i \in 1..n : f[i] = UseOver(f[i - 1], ts[i])
  <2>1. f \in [0..n -> V] /\ f[0] = s /\ \A i \in 1..n : f[i] = step[i][f[i - 1]]
    BY <1>6 DEF Follows
  <2>2. ASSUME NEW i \in 1..n PROVE f[i] = UseOver(f[i - 1], ts[i])
    <3>1. i - 1 \in 0..n
      BY <1>1
    <3>2. f[i - 1] \in V /\ f[i] = step[i][f[i - 1]]
      BY <2>1, <3>1
    <3>3. QED
      BY <3>2
  <2>3. QED
    BY <2>1, <2>2
<1>8. Is(f)
  <2>1. \A i \in 0..n : f[i] = IF i = 0 THEN s ELSE UseOver(f[i - 1], ts[i])
    BY <1>1, <1>7
  <2> HIDE DEF n
  <2>2. QED
    BY <1>7, <2>1
<1>9. UsesOver(s, ts) = (CHOOSE g : Is(g))[n]
  BY DEF UsesOver
<1>10. PICK g : Is(g) /\ UsesOver(s, ts) = g[n]
  <2> HIDE DEF Is
  <2>1. QED
    BY <1>8, <1>9
<1>11. g[0] = s /\ \A i \in 1..n : g[i] = UseOver(g[i - 1], ts[i])
  BY <1>1, <1>10
<1> HIDE DEF Is
<1>12. \A i \in 0..n : MemOk(g[i])
  <2> DEFINE S == {i \in 0..n : MemOk(g[i])}
  <2>1. 0 \in S
    BY <1>1, <1>11
  <2>2. \A i \in 0..(n - 1) : i \in S => i + 1 \in S
    <3> SUFFICES ASSUME NEW i \in 0..(n - 1), i \in S PROVE i + 1 \in S
      OBVIOUS
    <3>1. i + 1 \in 1..n /\ i + 1 \in 0..n /\ (i + 1) - 1 = i
      BY <1>1
    <3>2. g[i + 1] = UseOver(g[i], ts[i + 1]) /\ MemOk(g[i])
      BY <1>11, <3>1
    <3>3. MemOk(UseOver(g[i], ts[i + 1]))
      BY <1>1, <3>1, <3>2, UseOverOk
    <3>4. QED
      BY <3>1, <3>2, <3>3
  <2> HIDE DEF S
  <2>3. \A i \in 0..n : i \in S
    BY <1>1, <2>1, <2>2, Induction
  <2>4. QED
    BY <2>3 DEF S
<1>13. QED
  BY <1>10, <1>11, <1>12 DEF UsesRun

LEMMA UsesOverRoomy ==
    ASSUME TensorsOk(tensors), NEW s, MemOk(s), NEW ts, ts \in Seq(T), NEW used,
           Roomy(s.chunks, used)
    PROVE  Roomy(UsesOver(s, ts).chunks, used)
<1> DEFINE n == Len(ts)
<1>1. n \in Nat /\ \A i \in 1..n : ts[i] \in T
  BY ElementOfSeq
<1>2. PICK g : UsesRun(g, s, ts)
  BY UsesOverRuns
<1>3. /\ g[0] = s /\ \A j \in 0..n : MemOk(g[j])
      /\ \A j \in 1..n : g[j] = UseOver(g[j - 1], ts[j])
      /\ UsesOver(s, ts) = g[n]
  BY <1>2 DEF UsesRun
<1> HIDE DEF n
<1> DEFINE S == {i \in 0..n : Roomy(g[i].chunks, used)}
<1>4. 0 \in S
  BY <1>1, <1>3
<1>5. \A i \in 0..(n - 1) : i \in S => i + 1 \in S
  <2> SUFFICES ASSUME NEW i \in 0..(n - 1), i \in S PROVE i + 1 \in S
    OBVIOUS
  <2>1. i + 1 \in 1..n /\ i + 1 \in 0..n /\ (i + 1) - 1 = i /\ i \in 0..n
    BY <1>1
  <2>2. g[i + 1] = UseOver(g[i], ts[i + 1]) /\ MemOk(g[i]) /\ Roomy(g[i].chunks, used)
    BY <1>3, <2>1
  <2>3. Roomy(UseOver(g[i], ts[i + 1]).chunks, used)
    BY <1>1, <2>1, <2>2, UseOverRoomy
  <2>4. QED
    BY <2>1, <2>2, <2>3
<1> HIDE DEF S
<1>6. \A i \in 0..n : i \in S
  BY <1>1, <1>4, <1>5, Induction
<1>7. n \in S
  BY <1>1, <1>6
<1>8. QED
  BY <1>3, <1>7 DEF S

(* Each tensor that gets memory takes no more than m bytes.                *)
Enough(m) ==
    /\ m \in Nat /\ \A size \in Sizes : Aligned(size) <= m
    /\ MaxTensors * m <= Endless

LEMMA AllocateNodeRoomy ==
    ASSUME TensorsOk(tensors), NEW s, MemOk(s), NEW t \in T, NEW m, Enough(m),
           NEW used \in Nat, used + m <= Endless, Roomy(s.chunks, used)
    PROVE  Roomy(AllocateNode(s, t).chunks, used + m)
<1>0. m \in Nat /\ Endless \in Nat /\ used + m \in Nat /\ used <= used + m
  BY TallocrAssumption DEF Enough
<1>1. /\ s \in States /\ s.hash \in [T -> HashEntry] /\ s.chunks \in Seq(Chunk)
      /\ s.hash[t].allocated \in BOOLEAN
  BY HashTyped DEF MemOk, States
<1>2. Roomy(s.chunks, used + m)
  BY <1>0, RoomLater
<1>3. CASE IsAllocated(s.hash, t) \/ IsView(tensors, t)
  BY <1>2, <1>3 DEF AllocateNode
<1>4. CASE ~(IsAllocated(s.hash, t) \/ IsView(tensors, t)) /\ Reusable(s, t) # {}
  <2> DEFINE p == FirstReusable(s, t)
             h == [s.hash EXCEPT ![t].allocated = TRUE, ![t].addr = s.hash[p].addr,
                                 ![p].allocated = FALSE]
  <2>1. AllocateNode(s, t) = [s EXCEPT !.hash = h]
    BY <1>4 DEF AllocateNode
  <2> HIDE DEF h
  <2>2. AllocateNode(s, t).chunks = s.chunks
    BY <1>1, <2>1 DEF States
  <2>3. QED
    BY <1>2, <2>2
<1>5. CASE ~(IsAllocated(s.hash, t) \/ IsView(tensors, t)) /\ Reusable(s, t) = {}
  <2> DEFINE a == Alloc(s.chunks, tensors[t].size)
             h == [s.hash EXCEPT ![t].allocated = TRUE, ![t].addr = a.addr]
             size == Aligned(tensors[t].size)
  <2>1. AllocateNode(s, t) = State(a.chunks, h)
    BY <1>5 DEF AllocateNode
  <2> HIDE DEF a, h
  <2>2. AllocateNode(s, t).chunks = a.chunks
    BY <2>1 DEF State
  <2>3. Owner(t)
    BY <1>5 DEF IsAllocated, IsView, Owner
  <2>4. tensors[t].size \in Sizes /\ size \in Nat /\ size > 0 /\ size <= m
    BY <2>3, RoomTyped DEF Room, Enough
  <2>5. \A c \in 1..Len(s.chunks) : Neat(s.chunks[c].free)
    BY DEF MemOk, Tiled
  <2> HIDE DEF size
  <2>6. used + size <= Endless /\ used + size \in Nat /\ used + size <= used + m
    BY <1>0, <2>4
  <2>7. Roomy(a.chunks, used + size)
    <3>1. size = Aligned(tensors[t].size)
      BY DEF size
    <3>2. QED
      BY <1>1, <2>4, <2>5, <2>6, <3>1, AllocRoomy DEF a
  <2>8. QED
    BY <1>0, <2>2, <2>6, <2>7, RoomLater
<1>6. QED
  BY <1>3, <1>4, <1>5

LEMMA Times ==
    ASSUME NEW m \in Nat, NEW k \in Nat, NEW n \in Nat, k <= n
    PROVE  k * m \in Nat /\ k * m <= n * m /\ (k + 1) * m = k * m + m
<1>1. n * m = k * m + (n - k) * m /\ (n - k) * m \in Nat /\ k * m \in Nat
  OBVIOUS
<1>2. (k + 1) * m = k * m + m
  OBVIOUS
<1>3. QED
  BY <1>1, <1>2

LEMMA AllocateAllRoomy ==
    ASSUME TensorsOk(tensors), NEW s, MemOk(s), NEW ts, ts \in Seq(T), NEW m, Enough(m),
           Len(ts) <= MaxTensors, Roomy(s.chunks, 0)
    PROVE  Roomy(AllocateAll(s, ts).chunks, Len(ts) * m)
<1> DEFINE n == Len(ts)
<1>1. /\ n \in Nat /\ \A i \in 1..n : ts[i] \in T
      /\ m \in Nat /\ MaxTensors \in Nat /\ Endless \in Nat /\ MaxTensors * m <= Endless
  BY ElementOfSeq, TallocrAssumption, GraphAssumption DEF Enough
<1>2. PICK g : AllocateRuns(g, s, ts)
  BY AllocateAllRuns
<1>3. /\ g[0] = s /\ \A j \in 0..n : MemOk(g[j])
      /\ \A j \in 1..n : g[j] = AllocateNode(g[j - 1], ts[j])
      /\ AllocateAll(s, ts) = g[n]
  BY <1>2 DEF AllocateRuns
<1>4. n <= MaxTensors
  OBVIOUS
<1> HIDE DEF n
<1> DEFINE S == {i \in 0..n : Roomy(g[i].chunks, i * m)}
<1>5. 0 \in S
  <2>1. 0 * m = 0
    BY <1>1
  <2>2. QED
    BY <1>1, <1>3, <2>1
<1>6. \A i \in 0..(n - 1) : i \in S => i + 1 \in S
  <2> SUFFICES ASSUME NEW i \in 0..(n - 1), i \in S PROVE i + 1 \in S
    OBVIOUS
  <2>1. i + 1 \in 1..n /\ i + 1 \in 0..n /\ (i + 1) - 1 = i /\ i \in Nat /\ i + 1 \in Nat
        /\ i + 1 <= MaxTensors /\ i \in 0..n /\ i <= MaxTensors
    BY <1>1, <1>4
  <2>2. g[i + 1] = AllocateNode(g[i], ts[i + 1]) /\ MemOk(g[i]) /\ Roomy(g[i].chunks, i * m)
    BY <1>3, <2>1
  <2>3. /\ i * m \in Nat /\ (i + 1) * m = i * m + m /\ (i + 1) * m \in Nat
        /\ (i + 1) * m <= MaxTensors * m
    BY <1>1, <2>1, Times
  <2>4. ts[i + 1] \in T
    BY <1>1, <2>1
  <2> DEFINE u == i * m
             w == (i + 1) * m
             z == MaxTensors * m
  <2>5. u \in Nat /\ w = u + m /\ w <= z /\ z <= Endless
    BY <1>1, <2>3
  <2> HIDE DEF u, w, z
  <2>6. u + m <= Endless
    <3>1. z \in Nat
      BY <1>1, Times DEF z
    <3>2. QED
      BY <1>1, <2>5, <3>1
  <2>7. Roomy(AllocateNode(g[i], ts[i + 1]).chunks, u + m)
    BY <2>2, <2>4, <2>5, <2>6, AllocateNodeRoomy DEF u
  <2>8. QED
    BY <2>1, <2>2, <2>5, <2>7 DEF w
<1> HIDE DEF S
<1>7. \A i \in 0..n : i \in S
  BY <1>1, <1>5, <1>6, Induction
<1>8. n \in S
  BY <1>1, <1>7
<1>9. QED
  BY <1>3, <1>8 DEF S, n

-----------------------------------------------------------------------------
(* The types, and the room that is left while a graph is planned: each     *)
(* leaf and each node so far took at most m bytes.                         *)
HashOk == \A t \in DOMAIN hash :
    hash[t] \in HashEntry /\ hash[t].children \in Nat /\ hash[t].views \in Nat

Spent(m) == (Len(graph.leafs) + next - 1) * m

TypeInv(m) ==
    /\ ExecInv /\ HashOk
    /\ phase \in Phases /\ Len(tensors) <= MaxTensors
    /\ next \in 0..(Len(graph.nodes) + 1)
    /\ Len(chunks) <= MaxChunks /\ Len(buffer) <= MaxChunks
    /\ ToPlan => Roomy(chunks, Spent(m))
    /\ phase \notin {"create", "plan"} => DOMAIN hash = T
    /\ \A t \in DOMAIN data : data[t] \in Address

(* There are as many leafs and nodes as tensors.                           *)
LEMMA ListsCounted ==
    ASSUME GraphIs
    PROVE  /\ Len(graph.leafs) \in Nat /\ Len(graph.nodes) \in Nat
           /\ Len(graph.leafs) + Len(graph.nodes) = Len(tensors)
<1>1. Len(graph.nodes) + Len(graph.leafs) = Len(tensors)
  BY ListedIsOrdered DEF GraphIs, Ordered, T
<1>2. Len(graph.leafs) \in Nat /\ Len(graph.nodes) \in Nat
  BY ListedSeqs DEF GraphIs
<1> DEFINE x == Len(graph.leafs)
           y == Len(graph.nodes)
<1>3. x \in Nat /\ y \in Nat
  BY <1>2
<1> HIDE DEF x, y
<1>4. x + y = y + x
  BY <1>3
<1>5. QED
  BY <1>1, <1>2, <1>4 DEF x, y

LEMMA NoChunksRoomy ==
    ASSUME NEW h
    PROVE  Roomy(State(NoChunks, h).chunks, 0)
<1>1. State(NoChunks, h).chunks = <<>> /\ Len(<<>>) = 0
  BY DEF State, NoChunks
<1>2. MaxChunks \in Nat \ {0}
  BY TallocrAssumption
<1>3. QED
  BY <1>1, <1>2 DEF Roomy

LEMMA LeafsRoomy ==
    ASSUME GraphIs, Len(tensors) <= MaxTensors, NEW m, Enough(m), NEW s,
           s = AllocateAll(State(NoChunks, [t \in T |-> Unplanned]), graph.leafs)
    PROVE  Roomy(s.chunks, Len(graph.leafs) * m)
<1>1. TensorsOk(tensors) /\ graph.leafs \in Seq(T)
  BY ListedSeqs DEF GraphIs
<1>2. MaxTensors \in Nat /\ Len(tensors) \in Nat /\ Len(graph.leafs) <= MaxTensors
  <2> DEFINE x == Len(graph.leafs)
             y == Len(graph.nodes)
             z == Len(tensors)
  <2>1. x \in Nat /\ y \in Nat /\ x + y = z /\ z <= MaxTensors /\ MaxTensors \in Nat
    BY ListsCounted, GraphAssumption
  <2> HIDE DEF x, y, z
  <2>2. x <= MaxTensors /\ z \in Nat
    BY <2>1
  <2>3. QED
    BY <2>1, <2>2 DEF x, z
<1>3. MemOk(State(NoChunks, [t \in T |-> Unplanned]))
  BY UnplannedOk
<1> DEFINE z == State(NoChunks, [t \in T |-> Unplanned])
<1>4. Roomy(z.chunks, 0) /\ MemOk(z) /\ s = AllocateAll(z, graph.leafs)
  BY <1>3, NoChunksRoomy
<1> HIDE DEF z
<1>5. QED
  BY <1>1, <1>2, <1>4, AllocateAllRoomy

LEMMA NodeRoomy ==
    ASSUME GraphIs, Len(tensors) <= MaxTensors, NEW m, Enough(m),
           NEW k \in 1..Len(graph.nodes), NEW s, MemOk(s), Live(s.hash, k, k, 0, {}),
           NEW x, x = graph.nodes[k], Roomy(s.chunks, (Len(graph.leafs) + k - 1) * m),
           NEW r, r = UsesOver(AllocateNode(AllocateAll(s, Src(x)), x), Src(x))
    PROVE  Roomy(r.chunks, (Len(graph.leafs) + k) * m)
<1> DEFINE l == Len(graph.leafs) + k - 1
           a == AllocateNode(s, x)
<1>1. /\ TensorsOk(tensors) /\ x \in T /\ Src(x) \in Seq(T)
  BY ListedSeqs DEF GraphIs
<1>2. /\ l \in Nat /\ l + 1 \in Nat /\ l + 1 <= MaxTensors /\ l <= MaxTensors
      /\ l + 1 = Len(graph.leafs) + k
      /\ m \in Nat /\ MaxTensors \in Nat /\ Endless \in Nat /\ MaxTensors * m <= Endless
  <2> DEFINE v == Len(graph.leafs)
             y == Len(graph.nodes)
             z == Len(tensors)
  <2>1. /\ v \in Nat /\ y \in Nat /\ v + y = z /\ z <= MaxTensors /\ MaxTensors \in Nat
        /\ k \in 1..y /\ l = v + k - 1
    BY ListsCounted, GraphAssumption
  <2> HIDE DEF v, y, z, l
  <2>2. l \in Nat /\ l + 1 \in Nat /\ l + 1 <= MaxTensors /\ l <= MaxTensors /\ l + 1 = v + k
    BY <2>1
  <2>3. m \in Nat /\ Endless \in Nat /\ MaxTensors * m <= Endless
    BY TallocrAssumption DEF Enough
  <2>4. QED
    BY <2>1, <2>2, <2>3 DEF v
<1> HIDE DEF l
<1>3. /\ l * m \in Nat /\ (l + 1) * m = l * m + m
      /\ (l + 1) * m <= MaxTensors * m /\ MaxTensors * m \in Nat /\ (l + 1) * m \in Nat
  BY <1>2, Times
<1>4. Roomy(s.chunks, l * m)
  BY DEF l
<1>5. l * m + m <= Endless
  <2> DEFINE u == l * m
             w == (l + 1) * m
             z == MaxTensors * m
  <2>1. w = u + m /\ w <= z /\ z <= Endless /\ w \in Nat /\ z \in Nat
    BY <1>2, <1>3
  <2> HIDE DEF u, w, z
  <2>2. u + m <= Endless
    BY <1>2, <2>1
  <2>3. QED
    BY <2>2 DEF u
<1>6. MemOk(a) /\ Roomy(a.chunks, l * m + m)
  BY <1>1, <1>3, <1>4, <1>5, AllocateNodeRoomy, AllocateNodeOk
<1>7. AllocateAll(s, Src(x)) = s
  BY ParentsHeld
<1>8. r = UsesOver(a, Src(x))
  BY <1>7
<1> HIDE DEF a
<1>9. Roomy(r.chunks, l * m + m)
  BY <1>1, <1>6, <1>8, UsesOverRoomy
<1>10. QED
  BY <1>2, <1>3, <1>9

LEMMA TypeInit ==
    ASSUME NEW m, Init
    PROVE  TypeInv(m)
<1>1. /\ phase = "create" /\ tensors = <<>> /\ graph = NoGraph /\ next = 1 /\ chunks = <<>>
      /\ hash = <<>> /\ buffer = <<>> /\ data = <<>>
  BY DEF Init, NoChunks
<1>2. DOMAIN <<>> = {} /\ Len(<<>>) = 0
  OBVIOUS
<1>3. next \in 0..(Len(graph.nodes) + 1)
  BY <1>1, <1>2 DEF NoGraph
<1>4. MaxTensors \in Nat /\ MaxChunks \in Nat
  BY GraphAssumption, TallocrAssumption
<1>5. ExecInv
  BY ExecInit
<1>6. QED
  BY <1>1, <1>2, <1>3, <1>4, <1>5 DEF TypeInv, HashOk, Phases, ToPlan

(* What all steps but those that plan leave alone. *)
SameAllocator ==
    /\ chunks' = chunks /\ hash' = hash /\ buffer' = buffer

LEMMA TypeNext ==
    ASSUME NEW m, Enough(m), TypeInv(m), [Next]_vars
    PROVE  TypeInv(m)'
<1>0. /\ ExecInv /\ ExecInv' /\ LifeInv /\ PlanInv /\ WellMade(tensors) /\ HashOk
      /\ Len(tensors) <= MaxTensors /\ next \in 0..(Len(graph.nodes) + 1)
      /\ Len(chunks) <= MaxChunks /\ Len(buffer) <= MaxChunks
      /\ \A t \in DOMAIN data : data[t] \in Address
  BY ExecNext DEF TypeInv, ExecInv, LifeInv
<1>1. /\ TensorsOk(tensors) /\ SizesOk(tensors)
      /\ T = 1..Len(tensors) /\ Len(tensors) \in Nat
      /\ tensors \in Seq(TensorRecord) /\ buffer \in Seq(Nat)
      /\ MaxTensors \in Nat /\ MaxChunks \in Nat
  <2>1. /\ TensorsOk(tensors) /\ SizesOk(tensors)
        /\ tensors \in Seq(TensorRecord) /\ buffer \in Seq(Nat)
    BY <1>0 DEF PlanInv, TensorsOk, ExecInv
  <2>2. T = 1..Len(tensors) /\ Len(tensors) \in Nat
    BY <2>1 DEF T
  <2>3. QED
    BY <2>1, <2>2, GraphAssumption, TallocrAssumption
<1>2. phase # "create" => GraphIs /\ Len(graph.nodes) \in Nat
  BY <1>0, LifeGraph, ListedSeqs DEF GraphIs
<1>3. ASSUME phase' = "create", Len(tensors') <= MaxTensors, graph' = graph, next' = next,
             SameAllocator, data' = data
      PROVE  TypeInv(m)'
  BY <1>0, <1>3 DEF TypeInv, HashOk, Phases, ToPlan, SameAllocator, HashEntry, Address
<1>4. ASSUME NEW r, NewTensor(r) PROVE TypeInv(m)'
  <2>1. /\ phase' = "create" /\ tensors' = Append(tensors, r) /\ graph' = graph /\ next' = next
        /\ SameAllocator /\ data' = data /\ Len(tensors) < MaxTensors
    BY <1>4 DEF NewTensor, galloc, placed, SameAllocator
  <2>2. Len(tensors') <= MaxTensors
    BY <1>1, <2>1
  <2>3. QED
    BY <1>3, <2>1, <2>2
<1>5. CASE NewLeaf \/ NewOp \/ NewView \/ NewStore
  BY <1>4, <1>5 DEF NewLeaf, NewOp, NewView, NewStore
<1>6. CASE SetOutput
  <2>1. PICK t \in T : /\ phase' = "create" /\ tensors' = [tensors EXCEPT ![t].output = TRUE]
                       /\ graph' = graph /\ next' = next /\ SameAllocator /\ data' = data
    BY <1>6 DEF SetOutput, galloc, placed, SameAllocator
  <2>2. Len(tensors') = Len(tensors)
    BY <1>1, <2>1, MarkedIs DEF Remade
  <2>3. QED
    BY <1>0, <1>3, <2>1, <2>2
<1>7. CASE BuildForward
  <2>1. /\ phase' = "plan" /\ next' = 0 /\ tensors' = tensors /\ SameAllocator /\ data' = data
    BY <1>7 DEF BuildForward, built, galloc, placed, SameAllocator
  <2>2. 0 \in 0..(Len(graph'.nodes) + 1)
    <3>1. graph'.nodes \in Seq(T')
      BY <1>0, <2>1 DEF ExecInv, LifeInv, PlanInv, Wellformed, NodesOk, T
    <3>2. Len(graph'.nodes) \in Nat
      BY <3>1
    <3>3. QED
      BY <3>2
  <2>3. QED
    BY <1>0, <2>1, <2>2 DEF TypeInv, HashOk, Phases, ToPlan, SameAllocator, HashEntry, Address
<1>8. CASE PlanLeafs
  <2> DEFINE s == AllocateAll(State(NoChunks, [t \in T |-> Unplanned]), graph.leafs)
  <2>1. /\ phase = "plan" /\ phase' = phase /\ tensors' = tensors /\ graph' = graph
        /\ chunks' = s.chunks /\ hash' = Counted(s.hash) /\ next' = 1
        /\ buffer' = buffer /\ data' = data
    BY <1>8 DEF PlanLeafs, built, placed, Counted
  <2>2. GraphIs
    BY <1>2, <2>1
  <2>3. MemOk(s) /\ Planned(Counted(s.hash), s.chunks, 1)
    BY <2>2, LeafsPlanned
  <2>4. Roomy(s.chunks, Len(graph.leafs) * m)
    BY <1>0, <2>2, LeafsRoomy
  <2> HIDE DEF s
  <2>5. Roomy(chunks', Spent(m)')
    <3>1. Len(graph.leafs) \in Nat
      BY <2>2, ListsCounted
    <3>2. Len(graph.leafs) + 1 - 1 = Len(graph.leafs)
      BY <3>1
    <3>3. QED
      BY <2>1, <2>4, <3>2 DEF Spent
  <2>6. HashOk'
    <3> DEFINE h == Counted(s.hash)
    <3>1. MemOk(State(s.chunks, h))
      BY <1>1, <2>2, <2>3, CountsOk, ListedSeqs DEF GraphIs
    <3>2. s.chunks \in Seq(Chunk) /\ s.hash \in [T -> HashEntry]
      BY <2>3 DEF MemOk, States
    <3> HIDE DEF h
    <3>3. State(s.chunks, h).hash = h
      BY DEF State
    <3>4. h \in [T -> HashEntry]
      BY <3>1, <3>3 DEF MemOk, States
    <3>5. \A t \in T : h[t].children \in Nat /\ h[t].views \in Nat
      BY <2>2, <2>3, CountsSay DEF Planned, CountsSayIt, h
    <3>6. hash' = h
      BY <2>1 DEF h
    <3>7. QED
      BY <3>4, <3>5, <3>6 DEF HashOk, HashEntry
  <2>7. Len(chunks') <= MaxChunks
    BY <2>5 DEF Roomy
  <2>8. 1 \in 0..(Len(graph.nodes) + 1)
    BY <1>2, <2>1
  <2>9. Roomy(chunks, Spent(m))' <=> Roomy(chunks', Spent(m)')
    BY DEF Roomy, Top, Available, In, End
  <2>10. QED
    BY <1>0, <2>1, <2>5, <2>6, <2>7, <2>8, <2>9 DEF TypeInv, Phases, Address
<1>9. CASE PlanNode
  <2> DEFINE x == Node
             s == State(chunks, hash)
             r == UsesOver(AllocateNode(AllocateAll(s, Src(x)), x), Src(x))
  <2>1. /\ phase = "plan" /\ phase' = phase /\ tensors' = tensors /\ graph' = graph
        /\ next \in 1..Len(graph.nodes) /\ chunks' = r.chunks /\ hash' = r.hash
        /\ next' = next + 1 /\ buffer' = buffer /\ data' = data
    BY <1>9 DEF PlanNode, built, placed
  <2>2. GraphIs /\ Len(graph.nodes) \in Nat /\ next > 0 /\ next \in Nat
    BY <1>2, <2>1
  <2>3. MemOk(s) /\ Planned(hash, chunks, next) /\ Roomy(chunks, Spent(m))
    BY <1>0, <2>1, <2>2 DEF PlanInv, LifeInv, ToPlan, TypeInv
  <2>4. s.hash = hash /\ s.chunks = chunks /\ x = graph.nodes[next]
    BY DEF State, Node
  <2>5. r = UsesOver(AllocateNode(AllocateAll(s, Src(x)), x), Src(x))
    OBVIOUS
  <2> HIDE DEF r, s, x
  <2>6. Planned(r.hash, r.chunks, next + 1) /\ Live(s.hash, next, next, 0, {})
    BY <1>0, <2>1, <2>2, <2>3, <2>4, <2>5, NodePlanned DEF Planned
  <2>7. MemOk(r)
    <3>1. x \in T /\ Src(x) \in Seq(T)
      BY <1>1, <2>1, <2>2, <2>4, ListedSeqs DEF GraphIs
    <3>2. QED
      BY <1>1, <2>3, <2>5, <3>1, AllocateAllOk, AllocateNodeOk, UsesOverOk
  <2>8. Roomy(r.chunks, (Len(graph.leafs) + next) * m)
    <3>1. Roomy(s.chunks, (Len(graph.leafs) + next - 1) * m)
      BY <2>3, <2>4 DEF Spent
    <3>2. QED
      BY <1>0, <2>1, <2>2, <2>3, <2>4, <2>5, <2>6, <3>1, NodeRoomy
  <2>9. Roomy(chunks', Spent(m)')
    <3>1. Len(graph.leafs) \in Nat
      BY <2>2, ListsCounted
    <3>2. Len(graph.leafs) + (next + 1) - 1 = Len(graph.leafs) + next
      BY <2>2, <3>1
    <3>3. QED
      BY <2>1, <2>8, <3>2 DEF Spent
  <2>10. HashOk'
    <3>1. r.hash \in [T -> HashEntry]
      BY <2>7 DEF MemOk, States
    <3>2. \A t \in T : r.hash[t].children \in Nat /\ r.hash[t].views \in Nat
      BY <2>2, <2>6, CountsSay DEF Planned, CountsSayIt
    <3>3. QED
      BY <2>1, <3>1, <3>2 DEF HashOk, HashEntry
  <2>11. Len(chunks') <= MaxChunks
    BY <2>9 DEF Roomy
  <2>12. next + 1 \in 0..(Len(graph.nodes) + 1)
    BY <2>1, <2>2
  <2>13. Roomy(chunks, Spent(m))' <=> Roomy(chunks', Spent(m)')
    BY DEF Roomy, Top, Available, In, End
  <2>14. QED
    BY <1>0, <2>1, <2>9, <2>10, <2>11, <2>12, <2>13 DEF TypeInv, Phases, Address
<1>10. CASE Reserve \/ ReserveAgain
  <2>1. /\ tensors' = tensors /\ graph' = graph /\ next' = next /\ data' = data
        /\ chunks' = chunks /\ hash' = hash
        /\ phase' \in {"measured", "reserved", "failed", "crashed"}
        /\ buffer' = ChunkSizes \/ buffer' = buffer \/ buffer' = <<>>
    BY <1>10, ReserveCases DEF Reserved, Refused
  <2>2. \/ ToPlan /\ next = Len(graph.nodes) + 1
        \/ phase = "failed"
    <3>1. Reserve => phase = "plan" /\ next = Len(graph.nodes) + 1
      BY DEF Reserve
    <3>2. QED
      BY <1>2, <1>10, <3>1, ReserveCases DEF ToPlan
  <2>3. chunks \in Seq(Chunk) /\ hash \in [T -> HashEntry]
    <3>1. MemOk(State(chunks, hash))
      BY <1>0, <2>2 DEF PlanInv, LifeInv, ToPlan, AllPlanned
    <3>2. State(chunks, hash).chunks = chunks /\ State(chunks, hash).hash = hash
      BY DEF State
    <3>3. QED
      BY <3>1, <3>2 DEF MemOk, States
  <2>4. Len(buffer') <= MaxChunks
    <3>1. ChunkSizes \in Seq(Nat) /\ Len(ChunkSizes) = Len(chunks)
      <4>1. \A c \in 1..Len(chunks) : chunks[c].max_size \in Nat
        BY <2>3, ChunkTyped
      <4>2. ChunkSizes = [c \in 1..Len(chunks) |-> chunks[c].max_size]
        BY <2>3 DEF ChunkSizes
      <4>3. QED
        BY <2>3, <4>1, <4>2
    <3>2. Len(<<>>) <= MaxChunks
      BY <1>1
    <3>3. QED
      BY <1>0, <2>1, <3>1, <3>2
  <2>5. DOMAIN hash' = T'
    BY <2>1, <2>3 DEF T
  <2>6. QED
    BY <1>0, <2>1, <2>4, <2>5 DEF TypeInv, HashOk, Phases, ToPlan, HashEntry, Address
<1>11. CASE Rebuild
  <2>1. PICK now \in [Sizes -> Sizes] :
            /\ tensors' = [t \in T |-> [tensors[t] EXCEPT !.size = IF @ > 0 THEN now[@] ELSE 0]]
            /\ phase = "measured" /\ phase' = "alloc" /\ graph' = graph /\ next' = next
            /\ SameAllocator /\ data' = [t \in T |-> Nowhere]
    BY <1>11 DEF Rebuild, galloc, SameAllocator
  <2>2. Len(tensors') = Len(tensors) /\ T' = T
    <3>1. Remade(tensors', tensors)
      BY <1>1, <2>1, RebuiltIs
    <3>2. tensors' \in Seq(TensorRecord) /\ Len(tensors') = Len(tensors)
      BY <3>1 DEF Remade
    <3>3. T' = 1..Len(tensors')
      BY <3>2 DEF T
    <3>4. QED
      BY <1>1, <3>2, <3>3
  <2>3. Nowhere \in Address
    BY <1>1 DEF Nowhere, Address
  <2>4. DOMAIN hash = T
    BY <2>1 DEF TypeInv
  <2>5. QED
    BY <1>0, <2>1, <2>2, <2>3, <2>4
    DEF TypeInv, HashOk, Phases, ToPlan, SameAllocator, HashEntry, Address
<1>12. CASE AllocGraph
  <2>1. /\ phase = "alloc" /\ tensors' = tensors /\ graph' = graph /\ SameAllocator
        /\ data' = data
        /\ \/ phase' = "plan" /\ next' = 0
           \/ phase' = "reserved" /\ next' = next
    BY <1>12 DEF AllocGraph, built, galloc, placed, SameAllocator
  <2>2. 0 \in 0..(Len(graph.nodes) + 1)
    BY <1>2, <2>1
  <2>3. DOMAIN hash = T /\ T' = T
    BY <2>1 DEF TypeInv, T
  <2>4. QED
    BY <1>0, <2>1, <2>2, <2>3
    DEF TypeInv, HashOk, Phases, ToPlan, SameAllocator, HashEntry, Address
<1>13. CASE SetInputs
  <2>1. /\ phase = "reserved" /\ phase' = "compute" /\ tensors' = tensors /\ graph' = graph
        /\ SameAllocator /\ next' = 1
    BY <1>13 DEF SetInputs, built, galloc, SameAllocator
  <2>2. DOMAIN hash = T /\ T' = T
    BY <2>1 DEF TypeInv, T
  <2>3. data' = Placement'
    BY <1>0, <2>1 DEF ExecInv
  <2>4. \A t \in DOMAIN data' : data'[t] \in Address
    <3>1. PICK room : PlanOk(room)
      BY <1>0, <2>1 DEF ExecInv
    <3>2. Placement' = Placement
      BY <1>2, <2>1, SameRest, <1>13 DEF SameAllocator, SetInputs, galloc
    <3>3. ASSUME NEW t \in T PROVE Placement[t] \in Address
      <4>1. CASE Owner(t)
        <5>1. hash[t].addr.chunk \in 1..Len(buffer) /\ hash[t].addr.offset \in Nat
          BY <3>1, <4>1 DEF PlanOk, Within
        <5>2. hash[t].addr \in [chunk : Nat, offset : Nat]
          BY <1>0, <2>2 DEF HashOk, HashEntry
        <5>3. hash[t].addr.chunk \in 0..MaxChunks
          BY <1>0, <1>1, <5>1
        <5>4. hash[t].addr \in Address
          BY <5>1, <5>2, <5>3 DEF Address
        <5>5. QED
          BY <4>1, <5>4 DEF Placement
      <4>2. CASE ~Owner(t)
        BY <1>1, <4>2 DEF Placement, Nowhere, Address
      <4>3. QED
        BY <4>1, <4>2
    <3>4. DOMAIN Placement = T
      BY DEF Placement
    <3>5. QED
      BY <2>3, <3>2, <3>3, <3>4
  <2>5. 1 \in 0..(Len(graph.nodes) + 1)
    BY <1>2, <2>1
  <2>6. QED
    BY <1>0, <2>1, <2>2, <2>4, <2>5
    DEF TypeInv, HashOk, Phases, ToPlan, SameAllocator, HashEntry, Address
<1>14. CASE Compute
  <2>1. /\ phase = "compute" /\ phase' \in {"compute", "done"} /\ tensors' = tensors
        /\ graph' = graph /\ SameAllocator /\ data' = data
        /\ next \in 1..Len(graph.nodes) /\ next' = next + 1
    BY <1>14 DEF Compute, built, galloc, SameAllocator
  <2>2. DOMAIN hash = T /\ T' = T
    BY <2>1 DEF TypeInv, T
  <2>3. next + 1 \in 0..(Len(graph.nodes) + 1)
    BY <1>2, <2>1
  <2>4. QED
    BY <1>0, <2>1, <2>2, <2>3
    DEF TypeInv, HashOk, Phases, ToPlan, SameAllocator, HashEntry, Address
<1>15. CASE UNCHANGED vars
  <2>1. /\ phase' = phase /\ tensors' = tensors /\ graph' = graph /\ next' = next
        /\ chunks' = chunks /\ hash' = hash /\ buffer' = buffer /\ data' = data
    BY <1>15 DEF vars
  <2>2. Roomy(chunks, Spent(m))' <=> Roomy(chunks, Spent(m))
    BY <2>1 DEF Roomy, Top, Available, In, End, Spent
  <2>3. T' = T
    BY <2>1 DEF T
  <2>4. QED
    BY <1>0, <2>1, <2>2, <2>3 DEF TypeInv, HashOk, Phases, ToPlan, HashEntry, Address
<1>16. QED
  BY <1>5, <1>6, <1>7, <1>8, <1>9, <1>10, <1>11, <1>12, <1>13, <1>14, <1>15 DEF Next

(* If all tensors fit into SIZE_MAX/2 bytes planning stays within the      *)
(* chunks there are, GGML_VBUFFER_MAX_CHUNKS, where ggml_dyn_tallocr_alloc *)
(* would give up: the chunk that is the last one is never too small.  The  *)
(* counters of the hash values stay numbers, and every tensor is put       *)
(* inside the buffer.                                                      *)
THEOREM ChunksSuffice ==
    ASSUME NEW m, Enough(m)
    PROVE  Spec => []TypeOK
<1>1. Init => TypeInv(m)
  BY TypeInit
<1>2. TypeInv(m) /\ [Next]_vars => TypeInv(m)'
  BY TypeNext
<1>3. TypeInv(m) => TypeOK
  <2> SUFFICES ASSUME TypeInv(m) PROVE TypeOK
    OBVIOUS
  <2>1. ExecInv /\ PlanInv /\ TensorsOk(tensors) /\ SizesOk(tensors) /\ buffer \in Seq(Nat)
    BY DEF TypeInv, ExecInv, LifeInv, PlanInv
  <2>2. \A t \in T : RootOf(tensors, t) \in T
    BY <2>1, RootIs DEF TensorsOk, T
  <2>3. ASSUME phase \in {"compute", "done"}, NEW t \in T, data[t] # Nowhere
        PROVE  Bytes(t, data[t]) \subseteq 0..(buffer[data[t].chunk] - 1)
    <3>1. GraphIs /\ data = Placement
      BY <2>1, <2>3, LifeGraph DEF ExecInv
    <3>2. PICK room : PlanOk(room) /\ Fits(room)
      BY <2>1, <2>3 DEF ExecInv
    <3>3. Owner(t) /\ data[t] = hash[t].addr
      BY <2>3, <3>1 DEF Placement
    <3>4. /\ room[t] \in Nat /\ Within(hash[t].addr, room[t])
          /\ tensors[t].size \in Nat /\ tensors[t].size <= room[t]
      BY <3>1, <3>2, <3>3, RoomIs DEF RoomOk
    <3>5. QED
      BY <2>1, <3>3, <3>4, BytesInside
  <2>4. QED
    BY <2>2, <2>3 DEF TypeOK, TypeInv, HashOk
<1>4. QED
  BY <1>1, <1>2, <1>3, PTL DEF Spec

=============================================================================
