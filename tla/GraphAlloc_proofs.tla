-------------------------- MODULE GraphAlloc_proofs --------------------------
(***************************************************************************)
(* What is proved of GraphAlloc, for every alignment, chunk size, number   *)
(* of tensors and set of sizes.                                            *)
(*                                                                         *)
(* The lemmas go from the inside out.  ggml_dyn_tallocr: what a free list  *)
(* makes available after bytes are taken from it (TakenIs) and given back  *)
(* (FreedIs); a chunk that its free blocks and its tenants tile stays so   *)
(* (TakeTiled, GiveTiled, SwapTiled); which block Alloc takes (AllocIs).   *)
(* ggml-alloc: each operation on a tallocr and its hash values preserves   *)
(* MemOk (AllocateNodeOk, UseOverOk, AllocateAllOk, UsesOverOk).           *)
(* ggml_build_forward_expand: its recursion is a function of functions,    *)
(* which exists by VisitsExist, and each visit lists a tensor after its    *)
(* sources (VisitsAll, GraphOfIs).  PlanInv is the inductive invariant     *)
(* that joins them.                                                        *)
(***************************************************************************)
EXTENDS GraphAlloc, FiniteSetTheorems, SequenceTheorems, WellFoundedInduction,
        NaturalsInduction, TLAPS

(* Numbers, and recursion over them. *)
LEMMA Smallest ==
    ASSUME NEW S, S \subseteq Nat, S # {}
    PROVE  \E x \in S : \A y \in S : x <= y
<1>1. PICK x \in S : \A y \in S : ~(<<y, x>> \in OpToRel(<, Nat))
  BY NatLessThanWellFounded, WFMin
<1>2. \A y \in S : ~(y < x)
  BY <1>1 DEF OpToRel
<1>3. QED
  BY <1>2

(* A set of numbers that has 0 and with each number the next has them all, *)
(* up to a bound.                                                          *)
LEMMA Induction ==
    ASSUME NEW n \in Nat, NEW S, 0 \in S,
           \A m \in 0..(n - 1) : m \in S => m + 1 \in S
    PROVE  \A m \in 0..n : m \in S
<1> SUFFICES ASSUME NEW z \in 0..n, z \notin S PROVE FALSE
  OBVIOUS
<1> DEFINE W == {m \in 0..n : m \notin S}
<1>1. W \subseteq Nat /\ W # {}
  OBVIOUS
<1>2. PICK x \in W : \A y \in W : x <= y
  BY <1>1, Smallest
<1>3. x \in 0..n /\ x \notin S /\ x # 0
  OBVIOUS
<1>4. x - 1 \in 0..(n - 1) /\ x - 1 \in 0..n /\ ~(x <= x - 1) /\ (x - 1) + 1 = x
  BY <1>3
<1>5. x - 1 \in S
  BY <1>2, <1>4
<1>6. QED
  BY <1>3, <1>4, <1>5

(* What a recursive function yields when each of its steps stays in V.     *)
Follows(f, n, V, a, step) ==
    f \in [0..n -> V] /\ f[0] = a /\ \A i \in 1..n : f[i] = step[i][f[i - 1]]

LEMMA Recursion ==
    ASSUME NEW n \in Nat, NEW V, NEW a \in V, NEW step \in [1..n -> [V -> V]]
    PROVE  \E f : Follows(f, n, V, a, step)
<1> DEFINE Is(f, m) == /\ f \in [0..m -> V] /\ f[0] = a
                       /\ \A i \in 1..m : f[i] = step[i][f[i - 1]]
           S == {m \in 0..n : \E f : Is(f, m)}
<1>1. 0 \in S
  <2> DEFINE h == [i \in 0..0 |-> a]
  <2>1. h \in [0..0 -> V] /\ h[0] = a
    OBVIOUS
  <2>2. \A i \in 1..0 : FALSE
    OBVIOUS
  <2>3. Is(h, 0)
    BY <2>1, <2>2
  <2> HIDE DEF h, Is
  <2>4. QED
    BY <2>3
<1>2. ASSUME NEW m \in 0..(n - 1), m \in S PROVE m + 1 \in S
  <2>1. PICK f : Is(f, m)
    BY <1>2
  <2>2. m \in 0..m /\ m + 1 \in 1..n /\ m + 1 \in 0..n
    OBVIOUS
  <2>3. f[m] \in V /\ step[m + 1] \in [V -> V]
    BY <2>1, <2>2
  <2>4. step[m + 1][f[m]] \in V
    BY <2>3
  <2> DEFINE g == [i \in 0..(m + 1) |-> IF i <= m THEN f[i] ELSE step[m + 1][f[m]]]
  <2>5. g \in [0..(m + 1) -> V]
    <3>1. \A i \in 0..(m + 1) : i <= m => i \in 0..m
      OBVIOUS
    <3>2. QED
      BY <2>1, <2>4, <3>1
  <2>6. g[0] = a
    BY <2>1
  <2>7. ASSUME NEW i \in 1..(m + 1) PROVE g[i] = step[i][g[i - 1]]
    <3>1. i - 1 \in 0..(m + 1) /\ i \in 0..(m + 1) /\ i - 1 <= m
      OBVIOUS
    <3>2. g[i - 1] = f[i - 1]
      BY <3>1
    <3>3. CASE i <= m
      <4>1. g[i] = f[i] /\ i \in 1..m
        BY <3>1, <3>3
      <4>2. QED
        BY <2>1, <3>2, <4>1
    <3>4. CASE i = m + 1
      <4>1. g[i] = step[m + 1][f[m]] /\ i - 1 = m
        BY <3>1, <3>4
      <4>2. QED
        BY <3>2, <3>4, <4>1
    <3>5. QED
      BY <3>3, <3>4
  <2>8. Is(g, m + 1)
    BY <2>5, <2>6, <2>7
  <2>9. QED
    BY <2>2, <2>8
<1>3. \A m \in 0..n : m \in S
  <2> HIDE DEF S
  <2>1. \A m \in 0..(n - 1) : m \in S => m + 1 \in S
    BY <1>2
  <2>2. QED
    BY <1>1, <2>1, Induction
<1>4. n \in S
  BY <1>3
<1>5. QED
  BY <1>4 DEF Follows

-----------------------------------------------------------------------------
(* The free blocks of a chunk. *)
FreeBlock == [offset : Nat, size : Nat]

LEMMA BlockIs ==
    ASSUME NEW x \in Nat, NEW y \in Nat
    PROVE  /\ Block(x, y) \in FreeBlock /\ Block(x, y).offset = x /\ Block(x, y).size = y
           /\ End(Block(x, y)) = x + y
BY DEF Block, FreeBlock, End

(* Sorted, none empty, no two that touch: Coalesced, for any two blocks.   *)
Neat(free) ==
    /\ free \in Seq(FreeBlock)
    /\ \A i \in 1..Len(free) : free[i].size > 0
    /\ \A i, k \in 1..Len(free) : i < k => End(free[i]) < free[k].offset

(* The bytes of a block, and of all blocks of a free list. *)
In(b, block) == block.offset <= b /\ b < End(block)

Available(free) == {b \in Nat : \E i \in 1..Len(free) : In(b, free[i])}

LEMMA FreeTyped ==
    ASSUME NEW free \in Seq(FreeBlock)
    PROVE  /\ Len(free) \in Nat /\ DOMAIN free = 1..Len(free)
           /\ \A i \in 1..Len(free) : /\ free[i] \in FreeBlock /\ free[i].offset \in Nat
                                       /\ free[i].size \in Nat
                                       /\ End(free[i]) = free[i].offset + free[i].size
                                       /\ End(free[i]) \in Nat
<1>1. Len(free) \in Nat /\ DOMAIN free = 1..Len(free)
  OBVIOUS
<1>2. \A i \in 1..Len(free) : free[i] \in FreeBlock
  BY ElementOfSeq
<1>3. QED
  BY <1>1, <1>2 DEF FreeBlock, End

Joined(r, a, c, S) ==
    /\ r \in Seq(S) /\ Len(r) = Len(a) + Len(c)
    /\ \A k \in 1..(Len(a) + Len(c)) : r[k] = IF k <= Len(a) THEN a[k] ELSE c[k - Len(a)]

LEMMA JoinedIs ==
    ASSUME NEW S, NEW a \in Seq(S), NEW c \in Seq(S)
    PROVE  Joined(a \o c, a, c, S)
BY ConcatProperties DEF Joined

Without(r, s, i, S) ==
    /\ r \in Seq(S) /\ Len(r) = Len(s) - 1
    /\ \A k \in 1..(Len(s) - 1) : r[k] = IF k < i THEN s[k] ELSE s[k + 1]

LEMMA RemoveAtIs ==
    ASSUME NEW S, NEW s \in Seq(S), NEW i \in 1..Len(s)
    PROVE  Without(RemoveAt(s, i), s, i, S)
<1> DEFINE r == RemoveAt(s, i)
           a == SubSeq(s, 1, i - 1)
           c == SubSeq(s, i + 1, Len(s))
<1>1. Len(s) \in Nat /\ r = a \o c
  BY DEF RemoveAt
<1>2. a \in Seq(S) /\ Len(a) = i - 1 /\ \A k \in 1..(i - 1) : a[k] = s[k]
  BY <1>1
<1>3. c \in Seq(S) /\ Len(c) = Len(s) - i /\ \A k \in 1..(Len(s) - i) : c[k] = s[i + k]
  BY <1>1
<1> HIDE DEF a, c, r
<1>4. /\ r \in Seq(S) /\ Len(r) = Len(a) + Len(c)
      /\ \A k \in 1..(Len(a) + Len(c)) : r[k] = IF k <= Len(a) THEN a[k] ELSE c[k - Len(a)]
  <2>1. Joined(r, a, c, S)
    BY <1>1, <1>2, <1>3, JoinedIs
  <2>2. QED
    BY <2>1 DEF Joined
<1>5. ASSUME NEW k \in 1..(Len(s) - 1) PROVE r[k] = IF k < i THEN s[k] ELSE s[k + 1]
  <2>1. CASE k < i
    <3>1. k \in 1..(i - 1) /\ k <= Len(a) /\ k \in 1..(Len(a) + Len(c))
      BY <1>1, <1>2, <1>3, <2>1
    <3>2. QED
      BY <1>2, <1>4, <2>1, <3>1
  <2>2. CASE ~(k < i)
    <3>1. /\ k - Len(a) \in 1..(Len(s) - i) /\ ~(k <= Len(a)) /\ k \in 1..(Len(a) + Len(c))
          /\ i + (k - Len(a)) = k + 1
      BY <1>1, <1>2, <1>3, <2>2
    <3>2. QED
      BY <1>3, <1>4, <2>2, <3>1
  <2>3. QED
    BY <2>1, <2>2
<1>6. QED
  BY <1>1, <1>2, <1>3, <1>4, <1>5 DEF Without, r

Inserted(r, s, i, e, S) ==
    /\ r \in Seq(S) /\ Len(r) = Len(s) + 1 /\ r[i] = e
    /\ \A k \in 1..(i - 1) : r[k] = s[k]
    /\ \A k \in i..Len(s) : r[k + 1] = s[k]

LEMMA InsertAtIs ==
    ASSUME NEW S, NEW s \in Seq(S), NEW i \in 1..(Len(s) + 1), NEW e \in S
    PROVE  Inserted(InsertAt(s, i, e), s, i, e, S)
<1> DEFINE r == InsertAt(s, i, e)
           a == SubSeq(s, 1, i - 1)
           c == SubSeq(s, i, Len(s))
           d == a \o <<e>>
<1>1. Len(s) \in Nat /\ r = d \o c
  BY DEF InsertAt
<1>2. a \in Seq(S) /\ Len(a) = i - 1 /\ \A k \in 1..(i - 1) : a[k] = s[k]
  BY <1>1
<1>3. c \in Seq(S) /\ Len(c) = Len(s) - i + 1 /\ \A k \in 1..(Len(s) - i + 1) : c[k] = s[i + k - 1]
  BY <1>1
<1>4. <<e>> \in Seq(S) /\ Len(<<e>>) = 1 /\ <<e>>[1] = e
  OBVIOUS
<1> HIDE DEF a, c, r
<1>5. /\ d \in Seq(S) /\ Len(d) = i /\ d[i] = e /\ \A k \in 1..(i - 1) : d[k] = a[k]
  <2> DEFINE o == <<e>>
  <2>1. o \in Seq(S) /\ Len(o) = 1 /\ o[1] = e
    BY <1>4
  <2>2. d = a \o o
    OBVIOUS
  <2> HIDE DEF o, d
  <2>3. /\ d \in Seq(S) /\ Len(d) = Len(a) + Len(o)
        /\ \A k \in 1..(Len(a) + Len(o)) : d[k] = IF k <= Len(a) THEN a[k] ELSE o[k - Len(a)]
    <3>1. Joined(d, a, o, S)
      BY <1>2, <2>1, <2>2, JoinedIs
    <3>2. QED
      BY <3>1 DEF Joined
  <2>4. Len(d) = i
    BY <1>2, <2>1, <2>3
  <2>5. i \in 1..(Len(a) + Len(o)) /\ ~(i <= Len(a)) /\ i - Len(a) = 1
    BY <1>2, <2>1
  <2>6. d[i] = e
    BY <2>1, <2>3, <2>5
  <2>7. \A k \in 1..(i - 1) : k \in 1..(Len(a) + Len(o)) /\ k <= Len(a)
    BY <1>2, <2>1
  <2>8. QED
    BY <2>3, <2>4, <2>6, <2>7
<1> HIDE DEF d
<1>6. /\ r \in Seq(S) /\ Len(r) = Len(d) + Len(c)
      /\ \A k \in 1..(Len(d) + Len(c)) : r[k] = IF k <= Len(d) THEN d[k] ELSE c[k - Len(d)]
  <2>1. Joined(r, d, c, S)
    BY <1>1, <1>3, <1>5, JoinedIs
  <2>2. QED
    BY <2>1 DEF Joined
<1>7. r[i] = e /\ \A k \in 1..(i - 1) : r[k] = s[k]
  <2>1. \A k \in 1..i : k \in 1..(Len(d) + Len(c)) /\ k <= Len(d)
    BY <1>1, <1>3, <1>5
  <2>2. \A k \in 1..i : r[k] = d[k]
    BY <1>6, <2>1
  <2>3. QED
    BY <1>2, <1>5, <2>2
<1>8. ASSUME NEW k \in i..Len(s) PROVE r[k + 1] = s[k]
  <2>1. /\ k + 1 \in 1..(Len(d) + Len(c)) /\ ~(k + 1 <= Len(d))
        /\ (k + 1) - Len(d) \in 1..(Len(s) - i + 1) /\ i + ((k + 1) - Len(d)) - 1 = k
    BY <1>1, <1>3, <1>5
  <2>2. QED
    BY <1>3, <1>6, <2>1
<1>9. QED
  <2>1. \A k \in 1..(i - 1) : r[k] = s[k]
    BY <1>7
  <2>2. \A k \in i..Len(s) : r[k + 1] = s[k]
    BY <1>8
  <2>3. Len(r) = Len(s) + 1
    BY <1>1, <1>3, <1>5, <1>6
  <2>4. Inserted(r, s, i, e, S)
    BY <1>6, <1>7, <2>1, <2>2, <2>3 DEF Inserted
  <2>5. QED
    BY <2>4 DEF r

(* One block less. *)
LEMMA WithoutNeat ==
    ASSUME NEW free, Neat(free), NEW i \in 1..Len(free), NEW r, Without(r, free, i, FreeBlock)
    PROVE  /\ Neat(r)
           /\ \A b \in Nat : b \in Available(r) <=> b \in Available(free) /\ ~In(b, free[i])
<1> DEFINE n == Len(free)
           from(k) == IF k < i THEN k ELSE k + 1
<1>1. /\ free \in Seq(FreeBlock) /\ n \in Nat /\ i \in 1..n
      /\ r \in Seq(FreeBlock) /\ Len(r) = n - 1
  BY DEF Neat, Without
<1>2. \A k \in 1..(n - 1) : from(k) \in 1..n /\ from(k) # i /\ r[k] = free[from(k)]
  BY <1>1 DEF Without
<1>3. \A j, k \in 1..(n - 1) : j < k => from(j) < from(k)
  BY <1>1
<1>4. \A k \in 1..n : k # i => \E j \in 1..(n - 1) : from(j) = k
  <2> SUFFICES ASSUME NEW k \in 1..n, k # i PROVE \E j \in 1..(n - 1) : from(j) = k
    OBVIOUS
  <2>1. CASE k < i
    <3>1. k \in 1..(n - 1)
      BY <1>1, <2>1
    <3>2. QED
      BY <2>1, <3>1
  <2>2. CASE k > i
    <3>1. k - 1 \in 1..(n - 1) /\ ~(k - 1 < i) /\ (k - 1) + 1 = k
      BY <1>1, <2>2
    <3>2. QED
      BY <3>1
  <2>3. QED
    BY <1>1, <2>1, <2>2
<1> HIDE DEF from
<1>5. Neat(r)
  <2>1. \A k \in 1..Len(r) : r[k].size > 0
    BY <1>1, <1>2 DEF Neat
  <2>2. \A j, k \in 1..Len(r) : j < k => End(r[j]) < r[k].offset
    BY <1>1, <1>2, <1>3 DEF Neat
  <2>3. QED
    BY <1>1, <2>1, <2>2 DEF Neat
<1>6. ASSUME NEW b \in Nat, NEW k \in 1..n, In(b, free[k]), In(b, free[i]) PROVE k = i
  <2>1. /\ k < i => End(free[k]) < free[i].offset
        /\ i < k => End(free[i]) < free[k].offset
    BY <1>1 DEF Neat
  <2>2. /\ free[k].offset \in Nat /\ free[i].offset \in Nat
        /\ End(free[k]) \in Nat /\ End(free[i]) \in Nat
    BY <1>1, FreeTyped
  <2>3. QED
    BY <1>1, <1>6, <2>1, <2>2 DEF In
<1>7. ASSUME NEW b \in Nat
      PROVE  b \in Available(r) <=> b \in Available(free) /\ ~In(b, free[i])
  <2>1. ASSUME b \in Available(r) PROVE b \in Available(free) /\ ~In(b, free[i])
    <3>1. PICK j \in 1..(n - 1) : In(b, r[j])
      BY <1>1, <2>1 DEF Available
    <3>2. from(j) \in 1..n /\ from(j) # i /\ In(b, free[from(j)])
      BY <1>2, <3>1
    <3>3. QED
      BY <1>6, <3>2 DEF Available
  <2>2. ASSUME b \in Available(free), ~In(b, free[i]) PROVE b \in Available(r)
    <3>1. PICK k \in 1..n : In(b, free[k])
      BY <2>2 DEF Available
    <3>2. k # i
      BY <2>2, <3>1
    <3>3. PICK j \in 1..(n - 1) : from(j) = k
      BY <1>4, <3>2
    <3>4. In(b, r[j])
      BY <1>2, <3>1, <3>3
    <3>5. QED
      BY <1>1, <3>4 DEF Available
  <2>3. QED
    BY <2>1, <2>2
<1>8. QED
  BY <1>5, <1>7

(* What is left when the first bytes of a block are taken.                 *)
TookFrom(r, free, i, size) ==
    /\ Neat(r)
    /\ \A b \in Nat : b \in Available(r) <=>
          b \in Available(free) /\ ~(free[i].offset <= b /\ b < free[i].offset + size)

LEMMA TakenIs ==
    ASSUME NEW free, Neat(free), NEW i \in 1..Len(free),
           NEW size \in Nat, size > 0, size <= free[i].size
    PROVE  TookFrom(Taken(free, i, size), free, i, size)
<1>1. free \in Seq(FreeBlock) /\ Len(free) \in Nat
  BY DEF Neat
<1>2. /\ free[i].offset \in Nat /\ free[i].size \in Nat
      /\ End(free[i]) = free[i].offset + free[i].size
  BY <1>1, FreeTyped
<1>3. CASE free[i].size = size
  <2> DEFINE r == RemoveAt(free, i)
  <2>1. r = Taken(free, i, size)
    BY <1>3 DEF Taken
  <2>2. Without(r, free, i, FreeBlock)
    BY <1>1, RemoveAtIs
  <2> HIDE DEF r
  <2>3. \A b \in Nat : In(b, free[i]) <=> free[i].offset <= b /\ b < free[i].offset + size
    BY <1>2, <1>3 DEF In
  <2>4. QED
    BY <2>1, <2>2, <2>3, WithoutNeat DEF TookFrom
<1>4. CASE size < free[i].size
  <2> DEFINE o == free[i].offset + size
             z == free[i].size - size
             r == [free EXCEPT ![i] = Block(o, z)]
  <2>1. r = Taken(free, i, size)
    BY <1>2, <1>4 DEF Taken
  <2>2. o \in Nat /\ z \in Nat /\ z > 0 /\ o + z = End(free[i])
    BY <1>2, <1>4
  <2>3. /\ Block(o, z) \in FreeBlock /\ Block(o, z).offset = o /\ Block(o, z).size = z
        /\ End(Block(o, z)) = End(free[i])
    <3> HIDE DEF o, z
    <3>1. QED
      BY <2>2, BlockIs
  <2>4. /\ r \in Seq(FreeBlock) /\ Len(r) = Len(free) /\ r[i] = Block(o, z)
        /\ \A k \in 1..Len(free) : k # i => r[k] = free[k]
    <3> HIDE DEF o, z
    <3>1. QED
      BY <1>1, <2>3
  <2> HIDE DEF r
  <2>5. /\ r[i].offset = o /\ r[i].size = z /\ End(r[i]) = End(free[i])
    BY <2>3, <2>4
  <2>6. \A k \in 1..Len(free) : End(r[k]) = End(free[k]) /\ r[k].size > 0
    BY <2>2, <2>4, <2>5 DEF Neat
  <2>7. Neat(r)
    <3>1. ASSUME NEW j \in 1..Len(r), NEW k \in 1..Len(r), j < k PROVE End(r[j]) < r[k].offset
      <4>1. End(r[j]) = End(free[j]) /\ End(free[j]) < free[k].offset /\ End(free[j]) \in Nat
        BY <1>1, <2>4, <2>6, <3>1, FreeTyped DEF Neat
      <4>2. CASE k = i
        BY <1>2, <2>5, <4>1, <4>2
      <4>3. CASE k # i
        BY <2>4, <4>1, <4>3
      <4>4. QED
        BY <4>2, <4>3
    <3>2. QED
      BY <2>4, <2>6, <3>1 DEF Neat
  <2>8. ASSUME NEW b \in Nat
        PROVE  b \in Available(r) <=>
                  b \in Available(free) /\ ~(free[i].offset <= b /\ b < free[i].offset + size)
    <3>1. \A k \in 1..Len(free) : k # i => (In(b, r[k]) <=> In(b, free[k]))
      BY <2>4
    <3>2. In(b, r[i]) <=> In(b, free[i]) /\ ~(b < free[i].offset + size)
      BY <1>2, <2>2, <2>5 DEF In
    <3>3. ASSUME NEW k \in 1..Len(free), k # i, In(b, free[k])
          PROVE  ~In(b, free[i])
      <4>1. /\ k < i => End(free[k]) < free[i].offset
            /\ i < k => End(free[i]) < free[k].offset
        BY <1>1 DEF Neat
      <4>2. /\ free[k].offset \in Nat /\ free[i].offset \in Nat
            /\ End(free[k]) \in Nat /\ End(free[i]) \in Nat
        BY <1>1, FreeTyped
      <4>3. QED
        BY <1>1, <3>3, <4>1, <4>2 DEF In
    <3>4. free[i].offset <= b /\ b < free[i].offset + size => In(b, free[i])
      BY <1>2, <1>4 DEF In
    <3>5. ASSUME b \in Available(r)
          PROVE  b \in Available(free) /\ ~(free[i].offset <= b /\ b < free[i].offset + size)
      <4>1. PICK k \in 1..Len(free) : In(b, r[k])
        BY <2>4, <3>5 DEF Available
      <4>2. CASE k = i
        BY <3>2, <4>1, <4>2 DEF Available
      <4>3. CASE k # i
        <5>1. In(b, free[k]) /\ ~In(b, free[i])
          BY <3>1, <3>3, <4>1, <4>3
        <5>2. QED
          BY <3>4, <5>1 DEF Available
      <4>4. QED
        BY <4>2, <4>3
    <3>6. ASSUME b \in Available(free), ~(free[i].offset <= b /\ b < free[i].offset + size)
          PROVE  b \in Available(r)
      <4>1. PICK k \in 1..Len(free) : In(b, free[k])
        BY <3>6 DEF Available
      <4>2. In(b, r[k])
        <5>1. CASE k = i
          <6>1. ~(b < free[i].offset + size)
            BY <3>6, <4>1, <5>1 DEF In
          <6>2. QED
            BY <3>2, <4>1, <5>1, <6>1
        <5>2. CASE k # i
          BY <3>1, <4>1, <5>2
        <5>3. QED
          BY <5>1, <5>2
      <4>3. QED
        BY <2>4, <4>2 DEF Available
    <3>7. QED
      BY <3>5, <3>6
  <2>9. QED
    BY <2>1, <2>7, <2>8 DEF TookFrom
<1>5. QED
  BY <1>2, <1>3, <1>4

(* What there is when memory is given back. *)
Returned(r, free, block) ==
    /\ Neat(r)
    /\ \A b \in Nat : b \in Available(r) <=> b \in Available(free) \/ In(b, block)

(* A block none of whose bytes is free. *)
Busy(free, block) == \A b \in Nat : In(b, block) => b \notin Available(free)

(* It lies before or behind every free block. *)
LEMMA Aside ==
    ASSUME NEW free, Neat(free), NEW block \in FreeBlock, block.size > 0, Busy(free, block),
           NEW k \in 1..Len(free)
    PROVE  /\ End(free[k]) <= block.offset \/ End(block) <= free[k].offset
           /\ free[k].offset < block.offset => End(free[k]) <= block.offset
           /\ block.offset <= free[k].offset => End(block) <= free[k].offset
           /\ block.offset \in Nat /\ block.size \in Nat /\ End(block) = block.offset + block.size
           /\ free[k].offset \in Nat /\ free[k].size \in Nat /\ free[k].size > 0
           /\ End(free[k]) = free[k].offset + free[k].size
<1>1. /\ free \in Seq(FreeBlock) /\ free[k].size > 0
  BY DEF Neat
<1>2. /\ free[k].offset \in Nat /\ free[k].size \in Nat
      /\ End(free[k]) = free[k].offset + free[k].size
  BY <1>1, FreeTyped
<1>3. block.offset \in Nat /\ block.size \in Nat /\ End(block) = block.offset + block.size
  BY DEF FreeBlock, End
<1>4. ASSUME NEW b \in Nat, In(b, block) PROVE ~In(b, free[k])
  BY <1>4 DEF Busy, Available
<1>5. End(free[k]) <= block.offset \/ End(block) <= free[k].offset
  <2>1. CASE free[k].offset <= block.offset
    <3>1. In(block.offset, block)
      BY <1>3 DEF In
    <3>2. ~In(block.offset, free[k])
      BY <1>3, <1>4, <3>1
    <3>3. QED
      BY <1>2, <1>3, <2>1, <3>2 DEF In
  <2>2. CASE block.offset < free[k].offset
    <3>1. In(free[k].offset, free[k])
      BY <1>1, <1>2 DEF In
    <3>2. ~In(free[k].offset, block)
      BY <1>2, <1>4, <3>1
    <3>3. QED
      BY <1>2, <1>3, <2>2, <3>2 DEF In
  <2>3. QED
    BY <1>2, <1>3, <2>1, <2>2
<1>6. QED
  BY <1>1, <1>2, <1>3, <1>5

(* Neat but for blocks i and i + 1, which may touch. *)
Loose(free, i) ==
    /\ free \in Seq(FreeBlock)
    /\ \A k \in 1..Len(free) : free[k].size > 0
    /\ \A j, k \in 1..Len(free) : j < k =>
          /\ End(free[j]) <= free[k].offset
          /\ ~(j = i /\ k = i + 1) => End(free[j]) < free[k].offset

SameBytes(r, free) == Neat(r) /\ Available(r) = Available(free)

LEMMA MergeNeat ==
    ASSUME NEW free, NEW i \in Nat, Loose(free, i)
    PROVE  SameBytes(MergeAt(free, i), free)
<1> DEFINE n == Len(free)
<1>1. free \in Seq(FreeBlock) /\ n \in Nat
  BY DEF Loose
<1>2. \A k \in 1..n : /\ free[k].offset \in Nat /\ free[k].size \in Nat /\ free[k].size > 0
                      /\ End(free[k]) = free[k].offset + free[k].size /\ End(free[k]) \in Nat
  BY <1>1, FreeTyped DEF Loose
<1>3. CASE ~(i >= 1 /\ i < n /\ End(free[i]) = free[i + 1].offset)
  <2>1. MergeAt(free, i) = free
    BY <1>3 DEF MergeAt
  <2>2. ASSUME NEW j \in 1..n, NEW k \in 1..n, j < k PROVE End(free[j]) < free[k].offset
    <3>1. CASE j = i /\ k = i + 1
      <4>1. End(free[j]) <= free[k].offset /\ End(free[j]) # free[k].offset
        BY <1>1, <1>3, <2>2, <3>1 DEF Loose
      <4>2. QED
        BY <1>2, <4>1
    <3>2. CASE ~(j = i /\ k = i + 1)
      BY <2>2, <3>2 DEF Loose
    <3>3. QED
      BY <3>1, <3>2
  <2>3. Neat(free)
    BY <1>1, <1>2, <2>2 DEF Neat
  <2>4. QED
    BY <2>1, <2>3 DEF SameBytes
<1>4. CASE i >= 1 /\ i < n /\ End(free[i]) = free[i + 1].offset
  <2> DEFINE z == free[i].size + free[i + 1].size
             f == [free EXCEPT ![i].size = free[i].size + free[i + 1].size]
             r == RemoveAt(f, i + 1)
             from(k) == IF k <= i THEN k ELSE k + 1
  <2>1. i \in 1..n /\ i + 1 \in 1..n
    BY <1>1, <1>4
  <2>2. MergeAt(free, i) = r
    BY <1>4 DEF MergeAt
  <2>3. z \in Nat /\ z > 0 /\ free[i].offset + z = End(free[i + 1])
    BY <1>2, <1>4, <2>1
  <2>4. /\ f \in Seq(FreeBlock) /\ Len(f) = n
        /\ f[i].offset = free[i].offset /\ f[i].size = z
        /\ \A k \in 1..n : k # i => f[k] = free[k]
    <3>1. f = [free EXCEPT ![i] = [@ EXCEPT !.size = z]]
      OBVIOUS
    <3> DEFINE e == [free[i] EXCEPT !.size = z]
    <3>2. free[i] \in FreeBlock
      BY <1>1, <2>1, ElementOfSeq
    <3> HIDE DEF z
    <3>3. e \in FreeBlock /\ e.offset = free[i].offset /\ e.size = z
      BY <2>3, <3>2 DEF FreeBlock
    <3>4. f = [free EXCEPT ![i] = e]
      BY <3>1
    <3> HIDE DEF e, f
    <3>5. QED
      BY <1>1, <2>1, <3>3, <3>4
  <2> HIDE DEF f, z
  <2>5. Without(r, f, i + 1, FreeBlock)
    BY <2>1, <2>4, RemoveAtIs
  <2> HIDE DEF r
  <2>6. /\ r \in Seq(FreeBlock) /\ Len(r) = n - 1
        /\ \A k \in 1..(n - 1) : r[k] = IF k < i + 1 THEN f[k] ELSE f[k + 1]
    BY <2>4, <2>5 DEF Without
  <2>7. End(f[i]) = End(free[i + 1])
    BY <2>3, <2>4 DEF End
  <2>8. ASSUME NEW k \in 1..(n - 1)
        PROVE  /\ from(k) \in 1..n /\ from(k) # i + 1 /\ r[k] = f[from(k)]
               /\ r[k].offset = free[from(k)].offset /\ r[k].size > 0
               /\ End(r[k]) = IF k = i THEN End(free[i + 1]) ELSE End(free[from(k)])
    <3>1. from(k) \in 1..n /\ from(k) # i + 1 /\ (from(k) = i <=> k = i)
      BY <1>1, <2>1
    <3>2. r[k] = f[from(k)]
      BY <1>1, <2>1, <2>6
    <3> HIDE DEF from
    <3>3. CASE k = i
      BY <2>3, <2>4, <2>7, <3>1, <3>2, <3>3
    <3>4. CASE k # i
      <4>1. r[k] = free[from(k)]
        BY <2>4, <3>1, <3>2, <3>4
      <4>2. QED
        BY <1>2, <3>1, <3>2, <3>4, <4>1
    <3>5. QED
      BY <3>3, <3>4
  <2>9. Neat(r)
    <3>1. ASSUME NEW j \in 1..(n - 1), NEW k \in 1..(n - 1), j < k PROVE End(r[j]) < r[k].offset
      <4>1. from(j) < from(k) /\ (j = i => i + 1 < from(k)) /\ ~(from(j) = i /\ from(k) = i + 1)
        BY <1>1, <2>1, <3>1
      <4>2. from(j) \in 1..n /\ from(k) \in 1..n /\ r[k].offset = free[from(k)].offset
        BY <2>8
      <4>3. End(r[j]) = IF j = i THEN End(free[i + 1]) ELSE End(free[from(j)])
        BY <2>8
      <4> HIDE DEF from
      <4>4. CASE j = i
        <5>1. End(free[i + 1]) < free[from(k)].offset
          BY <2>1, <4>1, <4>2, <4>4 DEF Loose
        <5>2. QED
          BY <4>2, <4>3, <4>4, <5>1
      <4>5. CASE j # i
        <5>1. End(free[from(j)]) < free[from(k)].offset
          BY <4>1, <4>2 DEF Loose
        <5>2. QED
          BY <4>2, <4>3, <4>5, <5>1
      <4>6. QED
        BY <4>4, <4>5
    <3>2. \A k \in 1..(n - 1) : r[k].size > 0
      BY <2>8
    <3>3. QED
      BY <2>6, <3>1, <3>2 DEF Neat
  <2>10. ASSUME NEW b \in Nat PROVE b \in Available(r) <=> b \in Available(free)
    <3>1. ASSUME b \in Available(r) PROVE b \in Available(free)
      <4>1. PICK k \in 1..(n - 1) : In(b, r[k])
        BY <2>6, <3>1 DEF Available
      <4>2. from(k) \in 1..n
        BY <2>8
      <4>3. CASE k = i
        <5>1. free[i].offset <= b /\ b < End(free[i + 1])
          BY <2>1, <2>8, <4>1, <4>3 DEF In
        <5>2. In(b, free[i]) \/ In(b, free[i + 1])
          BY <1>2, <1>4, <2>1, <5>1 DEF In
        <5>3. QED
          BY <2>1, <5>2 DEF Available
      <4>4. CASE k # i
        <5>1. In(b, free[from(k)])
          BY <2>8, <4>1, <4>4 DEF In
        <5>2. QED
          BY <4>2, <5>1 DEF Available
      <4>5. QED
        BY <4>3, <4>4
    <3>2. ASSUME b \in Available(free) PROVE b \in Available(r)
      <4>1. PICK k \in 1..n : In(b, free[k])
        BY <3>2 DEF Available
      <4>2. CASE k < i
        <5>1. k \in 1..(n - 1) /\ from(k) = k
          BY <1>1, <2>1, <4>2
        <5>2. In(b, r[k])
          BY <2>8, <4>1, <4>2, <5>1 DEF In
        <5>3. QED
          BY <2>6, <5>1, <5>2 DEF Available
      <4>3. CASE k = i \/ k = i + 1
        <5>1. i \in 1..(n - 1) /\ from(i) = i
          BY <1>1, <2>1
        <5>2. r[i].offset = free[i].offset /\ End(r[i]) = End(free[i + 1])
          BY <2>8, <5>1
        <5>3. /\ free[i].offset <= free[k].offset /\ End(free[k]) <= End(free[i + 1])
              /\ free[i].offset \in Nat /\ free[k].offset \in Nat
              /\ End(free[k]) \in Nat /\ End(free[i + 1]) \in Nat
          <6>1. CASE k = i
            BY <1>2, <1>4, <2>1, <6>1
          <6>2. CASE k = i + 1
            BY <1>2, <1>4, <2>1, <6>2
          <6>3. QED
            BY <4>3, <6>1, <6>2
        <5>4. In(b, r[i])
          BY <4>1, <5>2, <5>3 DEF In
        <5>5. QED
          BY <2>6, <5>1, <5>4 DEF Available
      <4>4. CASE k > i + 1
        <5>1. k - 1 \in 1..(n - 1) /\ from(k - 1) = k /\ k - 1 # i
          BY <1>1, <2>1, <4>4
        <5>2. In(b, r[k - 1])
          BY <2>8, <4>1, <5>1 DEF In
        <5>3. QED
          BY <2>6, <5>1, <5>2 DEF Available
      <4>5. QED
        BY <2>1, <4>2, <4>3, <4>4
    <3>3. QED
      BY <3>1, <3>2
  <2>11. Available(r) = Available(free)
    BY <2>10 DEF Available
  <2>12. QED
    BY <2>2, <2>9, <2>11 DEF SameBytes
<1>5. QED
  BY <1>3, <1>4

(* A block that is replaced by a larger one next to nothing but, perhaps,  *)
(* its neighbour on one side: block m or block m + 1.                      *)
Grows(free, i, block, e, m) ==
    \/ /\ m = i /\ End(free[i]) = block.offset
       /\ e.offset = free[i].offset /\ End(e) = End(block)
    \/ /\ m = i - 1 /\ End(block) = free[i].offset
       /\ e.offset = block.offset /\ End(e) = End(free[i])

LEMMA Extended ==
    ASSUME NEW free, Neat(free), NEW i \in 1..Len(free), NEW block \in FreeBlock,
           block.size > 0, Busy(free, block), NEW e \in FreeBlock,
           NEW m \in Nat, Grows(free, i, block, e, m)
    PROVE  Returned(MergeAt([free EXCEPT ![i] = e], m), free, block)
<1> DEFINE n == Len(free)
           f == [free EXCEPT ![i] = e]
           Start(k) == free[k].offset
           Stop(k) == End(free[k])
           bs == block.offset
           be == End(block)
           es == e.offset
           ee == End(e)
<1>1. free \in Seq(FreeBlock) /\ n \in Nat /\ i \in 1..n
  BY DEF Neat
<1>2. /\ f \in Seq(FreeBlock) /\ Len(f) = n /\ f[i] = e
      /\ \A k \in 1..n : k # i => f[k] = free[k]
  BY <1>1
<1> HIDE DEF f
<1>3. es \in Nat /\ ee \in Nat /\ ee = es + e.size /\ e.size \in Nat
  BY DEF FreeBlock, End
<1>4. \A k \in 1..n :
           /\ Stop(k) <= bs \/ be <= Start(k)
           /\ Start(k) \in Nat /\ Stop(k) \in Nat /\ Start(k) < Stop(k)
           /\ free[k].size > 0
  BY Aside
<1>5. \A j, k \in 1..n : j < k => Stop(j) < Start(k)
  BY DEF Neat
<1>6. bs \in Nat /\ be \in Nat /\ bs < be
  BY DEF FreeBlock, End
<1>7. \/ m = i /\ Stop(i) = bs /\ es = Start(i) /\ ee = be
      \/ m = i - 1 /\ be = Start(i) /\ es = bs /\ ee = Stop(i)
  BY DEF Grows
<1>8. \A b \in Nat : /\ In(b, e) <=> es <= b /\ b < ee
                     /\ In(b, block) <=> bs <= b /\ b < be
                     /\ \A k \in 1..n : In(b, free[k]) <=> Start(k) <= b /\ b < Stop(k)
  BY DEF In
<1>9. \A k \in 1..n : /\ k # i => f[k].offset = Start(k) /\ End(f[k]) = Stop(k)
                      /\ k = i => f[k].offset = es /\ End(f[k]) = ee
  BY <1>2
<1> HIDE DEF Start, Stop, bs, be, es, ee
<1>10. es < ee
  BY <1>1, <1>4, <1>6, <1>7
<1>11. e.size > 0
  BY <1>3, <1>10
<1>12. \A b \in Nat : In(b, e) <=> In(b, free[i]) \/ In(b, block)
  <2>1. \A b \in Nat : es <= b /\ b < ee <=> (Start(i) <= b /\ b < Stop(i)) \/ (bs <= b /\ b < be)
    BY <1>1, <1>3, <1>4, <1>6, <1>7
  <2>2. QED
    BY <1>1, <1>8, <2>1
<1>13. Loose(f, m)
  <2>1. \A k \in 1..n : f[k].size > 0
    BY <1>2, <1>4, <1>11
  <2>2. ASSUME NEW j \in 1..n, NEW k \in 1..n, j < k
        PROVE  /\ End(f[j]) <= f[k].offset
               /\ ~(j = m /\ k = m + 1) => End(f[j]) < f[k].offset
    <3>1. CASE j # i /\ k # i
      <4>1. End(f[j]) = Stop(j) /\ f[k].offset = Start(k) /\ Stop(j) < Start(k)
        BY <1>5, <1>9, <2>2, <3>1
      <4>2. QED
        BY <1>4, <4>1
    <3>2. CASE j = i
      <4>1. k # i /\ f[k].offset = Start(k) /\ End(f[j]) = ee /\ i + 1 <= k /\ Stop(i) < Start(k)
        BY <1>1, <1>5, <1>9, <2>2, <3>2
      <4>2. be <= Start(k) \/ Stop(k) <= bs
        BY <1>4
      <4>3. ee <= Start(k)
        BY <1>1, <1>4, <1>6, <1>7, <4>1, <4>2
      <4>4. ASSUME m = i, k # i + 1 PROVE ee < Start(k)
        <5>1. i + 1 \in 1..n /\ i + 1 < k /\ i < i + 1
          BY <1>1, <4>1, <4>4
        <5>2. Stop(i + 1) < Start(k) /\ Stop(i) < Start(i + 1)
          BY <1>1, <1>5, <5>1
        <5>3. be <= Start(i + 1) \/ Stop(i + 1) <= bs
          BY <1>4, <5>1
        <5>4. ee = be /\ bs = Stop(i)
          BY <1>1, <1>7, <4>4
        <5>5. Start(i + 1) \in Nat /\ Stop(i + 1) \in Nat /\ Start(i + 1) < Stop(i + 1)
          BY <1>4, <5>1
        <5>6. QED
          BY <1>1, <1>4, <1>6, <5>2, <5>3, <5>4, <5>5
      <4>5. ASSUME m = i - 1 PROVE ee < Start(k)
        BY <1>1, <1>7, <4>1, <4>5
      <4>6. m = i \/ m = i - 1
        BY <1>7
      <4>7. QED
        BY <1>1, <3>2, <4>1, <4>3, <4>4, <4>5, <4>6
    <3>3. CASE k = i
      <4>1. j # i /\ End(f[j]) = Stop(j) /\ f[k].offset = es /\ j <= i - 1 /\ Stop(j) < Start(i)
        BY <1>1, <1>5, <1>9, <2>2, <3>3
      <4>2. be <= Start(j) \/ Stop(j) <= bs
        BY <1>4
      <4>3. Stop(j) <= es
        BY <1>1, <1>4, <1>6, <1>7, <4>1, <4>2
      <4>4. ASSUME m = i - 1, j # i - 1 PROVE Stop(j) < es
        <5>1. i - 1 \in 1..n /\ j < i - 1 /\ i - 1 < i
          BY <1>1, <4>1, <4>4
        <5>2. Stop(j) < Start(i - 1) /\ Stop(i - 1) < Start(i)
          BY <1>1, <1>5, <5>1
        <5>3. be <= Start(i - 1) \/ Stop(i - 1) <= bs
          BY <1>4, <5>1
        <5>4. es = bs /\ be = Start(i)
          BY <1>1, <1>7, <4>4
        <5>5. Start(i - 1) \in Nat /\ Stop(i - 1) \in Nat /\ Start(i - 1) < Stop(i - 1)
          BY <1>4, <5>1
        <5>6. QED
          BY <1>1, <1>4, <1>6, <5>2, <5>3, <5>4, <5>5
      <4>5. ASSUME m = i PROVE Stop(j) < es
        BY <1>1, <1>7, <4>1, <4>5
      <4>6. m = i \/ m = i - 1
        BY <1>7
      <4>7. QED
        BY <1>1, <3>3, <4>1, <4>3, <4>4, <4>5, <4>6
    <3>4. QED
      BY <3>1, <3>2, <3>3
  <2>3. QED
    BY <1>2, <2>1, <2>2 DEF Loose
<1>14. SameBytes(MergeAt(f, m), f)
  BY <1>13, MergeNeat
<1>15. ASSUME NEW b \in Nat
       PROVE  b \in Available(f) <=> b \in Available(free) \/ In(b, block)
  <2>1. ASSUME b \in Available(f) PROVE b \in Available(free) \/ In(b, block)
    <3>1. PICK k \in 1..n : In(b, f[k])
      BY <1>2, <2>1 DEF Available
    <3>2. CASE k = i
      BY <1>2, <1>12, <3>1, <3>2 DEF Available
    <3>3. CASE k # i
      BY <1>2, <3>1, <3>3 DEF Available
    <3>4. QED
      BY <3>2, <3>3
  <2>2. ASSUME b \in Available(free) PROVE b \in Available(f)
    <3>1. PICK k \in 1..n : In(b, free[k])
      BY <2>2 DEF Available
    <3>2. In(b, f[k])
      BY <1>2, <1>12, <3>1
    <3>3. QED
      BY <1>2, <3>2 DEF Available
  <2>3. ASSUME In(b, block) PROVE b \in Available(f)
    <3>1. In(b, f[i])
      BY <1>2, <1>12, <2>3
    <3>2. QED
      BY <1>1, <1>2, <3>1 DEF Available
  <2>4. QED
    BY <2>1, <2>2, <2>3
<1>16. QED
  BY <1>14, <1>15 DEF SameBytes, Returned, f

(* A block that touches no other is put between those below and above it.  *)
Between(free, i, block) ==
    /\ i \in 1..(Len(free) + 1)
    /\ \A k \in 1..(i - 1) : free[k].offset < block.offset
    /\ i <= Len(free) => free[i].offset >= block.offset

LEMMA InsertPosIs ==
    ASSUME NEW free, Neat(free), NEW block \in FreeBlock
    PROVE  Between(free, InsertPos(free, block), block)
<1> DEFINE n == Len(free)
           S == {i \in 1..(n + 1) : i = n + 1 \/ free[i].offset >= block.offset}
<1>1. n \in Nat /\ free \in Seq(FreeBlock) /\ block.offset \in Nat
  BY DEF Neat, FreeBlock
<1>2. S \subseteq Nat /\ n + 1 \in S
  BY <1>1
<1>3. PICK x \in S : \A y \in S : x <= y
  BY <1>2, Smallest
<1>4. ASSUME NEW k \in 1..(x - 1) PROVE free[k].offset < block.offset
  <2>1. k \in 1..n /\ k # n + 1 /\ ~(x <= k)
    BY <1>1, <1>3
  <2>2. ~(free[k].offset >= block.offset)
    BY <1>3, <2>1
  <2>3. free[k].offset \in Nat
    BY <1>1, <2>1, FreeTyped
  <2>4. QED
    BY <1>1, <2>2, <2>3
<1>5. x \in 1..(n + 1) /\ (x <= n => free[x].offset >= block.offset)
  BY <1>1, <1>3
<1>6. \E i \in 1..(Len(free) + 1) :
        /\ \A k \in 1..(i - 1) : free[k].offset < block.offset
        /\ i <= Len(free) => free[i].offset >= block.offset
  BY <1>4, <1>5
<1>7. QED
  BY <1>6 DEF InsertPos, Between

LEMMA InsertNeat ==
    ASSUME NEW free, Neat(free), NEW block \in FreeBlock, block.size > 0, Busy(free, block),
           Touching(free, block) = {}
    PROVE  Returned(InsertBlock(free, block), free, block)
<1> DEFINE n == Len(free)
           i == InsertPos(free, block)
           r == InsertBlock(free, block)
<1>1. free \in Seq(FreeBlock) /\ n \in Nat /\ DOMAIN free = 1..n
  BY DEF Neat
<1>2. Between(free, i, block)
  BY InsertPosIs
<1>3. i \in 1..(n + 1) /\ \A k \in 1..(i - 1) : free[k].offset < block.offset
  BY <1>2 DEF Between
<1>4. i <= n => block.offset <= free[i].offset
  BY <1>2 DEF Between
<1>5. Inserted(r, free, i, block, FreeBlock)
  BY <1>1, <1>3, InsertAtIs DEF InsertBlock
<1> HIDE DEF i, r
<1>6. /\ r \in Seq(FreeBlock) /\ Len(r) = n + 1 /\ r[i] = block
      /\ \A k \in 1..(i - 1) : r[k] = free[k]
      /\ \A k \in i..n : r[k + 1] = free[k]
  BY <1>5 DEF Inserted
<1>7. \A k \in 1..n :
           /\ free[k].offset < block.offset => End(free[k]) <= block.offset
           /\ block.offset <= free[k].offset => End(block) <= free[k].offset
           /\ block.offset \in Nat /\ End(block) \in Nat
           /\ free[k].offset \in Nat /\ free[k].size > 0 /\ free[k].size \in Nat
           /\ End(free[k]) = free[k].offset + free[k].size
  BY Aside DEF End
<1>8. \A k \in 1..n : End(free[k]) # block.offset /\ End(block) # free[k].offset
  BY <1>1 DEF Touching
<1>9. \A j, k \in 1..n : j < k => End(free[j]) < free[k].offset
  BY DEF Neat
<1>10. ASSUME NEW k \in 1..(i - 1) PROVE k \in 1..n /\ r[k] = free[k] /\ End(r[k]) < block.offset
  <2>1. k \in 1..n
    BY <1>1, <1>3
  <2>2. r[k] = free[k] /\ free[k].offset < block.offset
    BY <1>3, <1>6
  <2>3. End(free[k]) <= block.offset /\ End(free[k]) # block.offset
    BY <1>7, <1>8, <2>1, <2>2
  <2>4. End(free[k]) \in Nat /\ block.offset \in Nat
    BY <1>7, <2>1
  <2> HIDE DEF End
  <2>5. QED
    BY <2>1, <2>2, <2>3, <2>4
<1>11. ASSUME NEW k \in (i + 1)..(n + 1)
       PROVE  k - 1 \in 1..n /\ r[k] = free[k - 1] /\ End(block) < r[k].offset
  <2>1. k - 1 \in i..n /\ k - 1 \in 1..n /\ (k - 1) + 1 = k /\ i <= n /\ i \in 1..n
    BY <1>1, <1>3
  <2>2. r[k] = free[k - 1]
    BY <1>6, <2>1
  <2>3. block.offset <= free[k - 1].offset
    <3>1. CASE k - 1 = i
      BY <1>4, <2>1, <3>1
    <3>2. CASE i < k - 1
      <4>1. End(free[i]) < free[k - 1].offset
        BY <1>9, <2>1, <3>2
      <4>2. QED
        BY <1>4, <1>7, <2>1, <4>1
    <3>3. QED
      BY <1>3, <2>1, <3>1, <3>2
  <2>4. QED
    BY <1>7, <1>8, <2>1, <2>2, <2>3
<1>12. Neat(r)
  <2>1. ASSUME NEW k \in 1..(n + 1) PROVE k \in 1..(i - 1) \/ k = i \/ k \in (i + 1)..(n + 1)
    BY <1>1, <1>3
  <2>2. \A k \in 1..(n + 1) : r[k].size > 0
    BY <1>6, <1>7, <1>10, <1>11, <2>1
  <2>3. ASSUME NEW j \in 1..(n + 1), NEW k \in 1..(n + 1), j < k
        PROVE  End(r[j]) < r[k].offset
    <3>1. CASE k = i
      <4>1. j \in 1..(i - 1)
        BY <1>1, <1>3, <2>3, <3>1
      <4>2. QED
        BY <1>6, <1>10, <3>1, <4>1
    <3>2. CASE j = i
      <4>1. k \in (i + 1)..(n + 1)
        BY <1>1, <1>3, <2>3, <3>2
      <4>2. QED
        BY <1>6, <1>11, <3>2, <4>1
    <3>3. CASE j < i /\ i < k
      <4>1. j \in 1..(i - 1) /\ k \in (i + 1)..(n + 1) /\ j \in 1..n /\ k - 1 \in 1..n /\ j < k - 1
        BY <1>1, <1>3, <3>3
      <4>2. QED
        BY <1>9, <1>10, <1>11, <4>1
    <3>4. CASE k < i
      <4>1. j \in 1..(i - 1) /\ k \in 1..(i - 1) /\ j \in 1..n /\ k \in 1..n
        BY <1>1, <1>3, <2>3, <3>4
      <4>2. QED
        BY <1>9, <1>10, <2>3, <4>1
    <3>5. CASE i < j
      <4>1. /\ j \in (i + 1)..(n + 1) /\ k \in (i + 1)..(n + 1)
            /\ j - 1 \in 1..n /\ k - 1 \in 1..n /\ j - 1 < k - 1
        BY <1>1, <1>3, <2>3, <3>5
      <4>2. QED
        BY <1>9, <1>11, <4>1
    <3>6. QED
      BY <1>1, <1>3, <2>3, <3>1, <3>2, <3>3, <3>4, <3>5
  <2>4. QED
    BY <1>6, <2>2, <2>3 DEF Neat
<1>13. ASSUME NEW b \in Nat
       PROVE  b \in Available(r) <=> b \in Available(free) \/ In(b, block)
  <2>1. ASSUME b \in Available(r) PROVE b \in Available(free) \/ In(b, block)
    <3>1. PICK k \in 1..(n + 1) : In(b, r[k])
      BY <1>6, <2>1 DEF Available
    <3>2. CASE k = i
      BY <1>6, <3>1, <3>2
    <3>3. CASE k # i
      <4>1. k \in 1..(i - 1) \/ k \in (i + 1)..(n + 1)
        BY <1>1, <1>3, <3>3
      <4>2. CASE k \in 1..(i - 1)
        BY <1>10, <3>1, <4>2 DEF Available
      <4>3. CASE k \in (i + 1)..(n + 1)
        BY <1>11, <3>1, <4>3 DEF Available
      <4>4. QED
        BY <4>1, <4>2, <4>3
    <3>4. QED
      BY <3>2, <3>3
  <2>2. ASSUME b \in Available(free) PROVE b \in Available(r)
    <3>1. PICK k \in 1..n : In(b, free[k])
      BY <2>2 DEF Available
    <3>2. CASE k < i
      <4>1. k \in 1..(i - 1) /\ k \in 1..(n + 1)
        BY <1>1, <1>3, <3>2
      <4>2. QED
        BY <1>6, <3>1, <4>1 DEF Available
    <3>3. CASE i <= k
      <4>1. k \in i..n /\ k + 1 \in 1..(n + 1)
        BY <1>1, <1>3, <3>3
      <4>2. QED
        BY <1>6, <3>1, <4>1 DEF Available
    <3>4. QED
      BY <1>1, <1>3, <3>2, <3>3
  <2>3. ASSUME In(b, block) PROVE b \in Available(r)
    BY <1>1, <1>3, <1>6, <2>3 DEF Available
  <2>4. QED
    BY <2>1, <2>2, <2>3
<1>14. QED
  BY <1>12, <1>13 DEF Returned, r

(* Memory that is given back joins what is free, whatever it touches.      *)
LEMMA FreedIs ==
    ASSUME NEW free, Neat(free), NEW block \in FreeBlock, block.size > 0, Busy(free, block)
    PROVE  Returned(Freed(free, block), free, block)
<1> DEFINE n == Len(free)
           i == FirstTouching(free, block)
<1>1. free \in Seq(FreeBlock) /\ n \in Nat /\ DOMAIN free = 1..n
  BY DEF Neat
<1>2. block.offset \in Nat /\ block.size \in Nat /\ End(block) = block.offset + block.size
  BY DEF FreeBlock, End
<1>3. CASE Touching(free, block) = {}
  BY <1>3, InsertNeat DEF Freed
<1>4. CASE Touching(free, block) # {}
  <2>1. i \in Touching(free, block)
    <3>1. Touching(free, block) \subseteq Nat
      BY <1>1 DEF Touching
    <3>2. \E x \in Touching(free, block) : \A k \in Touching(free, block) : x <= k
      BY <1>4, <3>1, Smallest
    <3>3. QED
      BY <3>2 DEF FirstTouching
  <2>2. i \in 1..n /\ (End(free[i]) = block.offset \/ End(block) = free[i].offset)
    BY <1>1, <2>1 DEF Touching
  <2> HIDE DEF i
  <2>3. /\ free[i].offset \in Nat /\ free[i].size \in Nat
        /\ End(free[i]) = free[i].offset + free[i].size /\ free[i] \in FreeBlock
    BY <1>1, <2>2, FreeTyped
  <2>4. CASE End(free[i]) = block.offset
    <3> DEFINE z == free[i].size + block.size
               e == [free[i] EXCEPT !.size = z]
               f == [free EXCEPT ![i].size = free[i].size + block.size]
    <3>1. f = [free EXCEPT ![i] = [@ EXCEPT !.size = z]]
      OBVIOUS
    <3>2. f = [free EXCEPT ![i] = e]
      BY <3>1
    <3>3. Freed(free, block) = MergeAt(f, i)
      BY <1>4, <2>4 DEF Freed, i
    <3>4. z \in Nat /\ free[i].offset + z = End(block)
      BY <1>2, <2>3, <2>4
    <3> HIDE DEF z
    <3>5. e \in FreeBlock /\ e.offset = free[i].offset /\ e.size = z
      BY <2>3, <3>4 DEF FreeBlock
    <3> HIDE DEF e, f
    <3>6. End(e) = End(block)
      BY <3>4, <3>5 DEF End
    <3>7. Grows(free, i, block, e, i) /\ i \in Nat
      BY <2>2, <2>4, <3>5, <3>6 DEF Grows
    <3>8. Returned(MergeAt([free EXCEPT ![i] = e], i), free, block)
      BY <2>2, <3>5, <3>7, Extended
    <3>9. QED
      BY <3>2, <3>3, <3>8
  <2>5. CASE End(free[i]) # block.offset
    <3> DEFINE z == free[i].size + block.size
               e == Block(block.offset, z)
               f == [free EXCEPT ![i] = Block(block.offset, free[i].size + block.size)]
    <3>1. End(block) = free[i].offset
      BY <2>2, <2>5
    <3>2. Freed(free, block) = MergeAt(f, i - 1)
      BY <1>4, <2>5 DEF Freed, i
    <3>3. f = [free EXCEPT ![i] = e]
      OBVIOUS
    <3>4. z \in Nat /\ block.offset + z = End(free[i])
      BY <1>2, <2>3, <3>1
    <3> HIDE DEF z
    <3>5. e \in FreeBlock /\ e.offset = block.offset /\ End(e) = End(free[i])
      BY <1>2, <3>4, BlockIs
    <3> HIDE DEF e, f
    <3>6. Grows(free, i, block, e, i - 1) /\ i - 1 \in Nat
      BY <2>2, <3>1, <3>5 DEF Grows
    <3>7. Returned(MergeAt([free EXCEPT ![i] = e], i - 1), free, block)
      BY <2>2, <3>5, <3>6, Extended
    <3>8. QED
      BY <3>2, <3>3, <3>7
  <2>6. QED
    BY <2>4, <2>5
<1>5. QED
  BY <1>3, <1>4

-----------------------------------------------------------------------------
(* The memory of a chunk, held by H at the blocks "at", and the free rest. *)
Covered(chunk, H, at, b) == b \in Available(chunk.free) \/ \E t \in H : In(b, at[t])

Tiled(chunk, H, at) ==
    /\ Neat(chunk.free) /\ chunk.max_size \in Nat
    /\ \A t \in H : /\ at[t] \in FreeBlock /\ at[t].size > 0
                    /\ End(at[t]) <= chunk.max_size /\ Busy(chunk.free, at[t])
    /\ \A t, u \in H, b \in Nat : t # u /\ In(b, at[t]) => ~In(b, at[u])
    /\ \A b \in 0..(chunk.max_size - 1) : Covered(chunk, H, at, b)
    /\ \A b, d \in Nat : d < b /\ Covered(chunk, H, at, b) => Covered(chunk, H, at, d)

(* A tensor is given the first bytes of a free block, *)
LEMMA TakeTiled ==
    ASSUME NEW chunk, NEW H, NEW at, Tiled(chunk, H, at),
           NEW i \in 1..Len(chunk.free), NEW size \in Nat, size > 0, size <= chunk.free[i].size,
           NEW t, t \notin H, NEW new, \A u \in H : new[u] = at[u],
           new[t] = Block(chunk.free[i].offset, size), NEW after,
           after.free = Taken(chunk.free, i, size),
           after.max_size = IF chunk.free[i].offset + size > chunk.max_size
                            THEN chunk.free[i].offset + size ELSE chunk.max_size
    PROVE  Tiled(after, H \cup {t}, new)
<1> DEFINE free == chunk.free
           lo == free[i].offset
           hi == lo + size
           G == H \cup {t}
           rest == after.free
<1>1. Neat(free) /\ free \in Seq(FreeBlock) /\ chunk.max_size \in Nat
  BY DEF Tiled, Neat
<1>2. lo \in Nat /\ free[i].size \in Nat /\ End(free[i]) = lo + free[i].size
  BY <1>1, FreeTyped
<1>3. /\ new[t] \in FreeBlock /\ new[t].offset = lo /\ new[t].size = size /\ End(new[t]) = hi
  <2>1. new[t] = Block(lo, size)
    OBVIOUS
  <2> HIDE DEF lo
  <2>2. /\ Block(lo, size) \in FreeBlock /\ Block(lo, size).offset = lo
        /\ Block(lo, size).size = size /\ End(Block(lo, size)) = lo + size
    BY <1>2, BlockIs
  <2>3. QED
    BY <2>1, <2>2
<1>4. TookFrom(rest, free, i, size)
  BY <1>1, TakenIs
<1> HIDE DEF rest
<1>5. /\ Neat(rest)
      /\ \A b \in Nat : b \in Available(rest) <=> b \in Available(free) /\ ~(lo <= b /\ b < hi)
  BY <1>4 DEF TookFrom
<1>6. \A b \in Nat : In(b, new[t]) <=> lo <= b /\ b < hi
  BY <1>3 DEF In
<1>7. \A b \in Nat : lo <= b /\ b < hi => b \in Available(free)
  BY <1>2 DEF Available, In
<1>8. hi \in Nat /\ after.max_size \in Nat /\ hi <= after.max_size /\ chunk.max_size <= after.max_size
      /\ (after.max_size = hi \/ after.max_size = chunk.max_size)
  BY <1>1, <1>2
<1> HIDE DEF lo, hi, free
<1>9. \A b \in Nat : Covered(chunk, H, at, b) <=> Covered(after, G, new, b)
  <2> SUFFICES ASSUME NEW b \in Nat
               PROVE  Covered(chunk, H, at, b) <=> Covered(after, G, new, b)
    OBVIOUS
  <2>1. b \in Available(rest) \/ In(b, new[t]) <=> b \in Available(free)
    BY <1>5, <1>6, <1>7
  <2>2. (\E u \in G : In(b, new[u])) <=> In(b, new[t]) \/ \E u \in H : In(b, at[u])
    OBVIOUS
  <2>3. QED
    BY <2>1, <2>2 DEF Covered, rest, free
<1>10. ASSUME NEW u \in G
       PROVE  /\ new[u] \in FreeBlock /\ new[u].size > 0
              /\ End(new[u]) <= after.max_size /\ Busy(rest, new[u])
  <2>1. CASE u = t
    <3>1. Busy(rest, new[t])
      BY <1>5, <1>6 DEF Busy
    <3>2. QED
      BY <1>3, <1>8, <2>1, <3>1
  <2>2. CASE u \in H
    <3>1. new[u] \in FreeBlock /\ new[u].size > 0 /\ End(new[u]) <= chunk.max_size /\ Busy(free, new[u])
      BY <2>2 DEF Tiled, free
    <3>2. End(new[u]) \in Nat
      BY <3>1 DEF FreeBlock, End
    <3>3. Busy(rest, new[u])
      BY <1>5, <3>1 DEF Busy
    <3>4. QED
      BY <1>1, <1>8, <3>1, <3>2, <3>3
  <2>3. QED
    BY <2>1, <2>2
<1>11. ASSUME NEW u \in G, NEW v \in G, NEW b \in Nat, u # v, In(b, new[u]) PROVE ~In(b, new[v])
  <2>1. \A w \in H : In(b, new[w]) => b \notin Available(free)
    BY DEF Tiled, Busy, free
  <2>2. In(b, new[t]) => b \in Available(free)
    BY <1>6, <1>7
  <2>3. CASE u \in H /\ v \in H
    <3>1. In(b, at[u]) => ~In(b, at[v])
      BY <1>11, <2>3 DEF Tiled
    <3>2. QED
      BY <1>11, <2>3, <3>1
  <2>4. QED
    BY <1>11, <2>1, <2>2, <2>3
<1>12. ASSUME NEW b \in 0..(after.max_size - 1) PROVE Covered(after, G, new, b)
  <2>1. b \in Nat
    BY <1>8
  <2>2. CASE b < chunk.max_size
    <3>1. b \in 0..(chunk.max_size - 1)
      BY <1>1, <2>1, <2>2
    <3>2. QED
      BY <1>9, <2>1, <3>1 DEF Tiled
  <2>3. CASE ~(b < chunk.max_size)
    <3>1. b < hi
      BY <1>1, <1>8, <2>1, <2>3
    <3>2. Covered(chunk, H, at, hi - 1) /\ hi - 1 \in Nat
      <4>1. hi - 1 \in Nat /\ lo <= hi - 1 /\ hi - 1 < hi
        BY <1>2, <1>8, <3>1, <2>1 DEF hi
      <4>2. QED
        BY <1>7, <4>1 DEF Covered, free
    <3>3. b < hi - 1 \/ b = hi - 1
      BY <1>8, <2>1, <3>1
    <3>4. Covered(chunk, H, at, b)
      BY <2>1, <3>2, <3>3 DEF Tiled
    <3>5. QED
      BY <1>9, <2>1, <3>4
  <2>4. QED
    BY <2>2, <2>3
<1>13. \A b, d \in Nat : d < b /\ Covered(after, G, new, b) => Covered(after, G, new, d)
  BY <1>9 DEF Tiled
<1>14. QED
  BY <1>5, <1>8, <1>10, <1>11, <1>12, <1>13 DEF Tiled, rest

(* it gives back the block it holds, *)
LEMMA GiveTiled ==
    ASSUME NEW chunk, NEW H, NEW at, Tiled(chunk, H, at), NEW t \in H, NEW after,
           after.free = Freed(chunk.free, at[t]), after.max_size = chunk.max_size
    PROVE  Tiled(after, H \ {t}, at)
<1> DEFINE free == chunk.free
           rest == after.free
           G == H \ {t}
<1>1. Neat(free) /\ at[t] \in FreeBlock /\ at[t].size > 0 /\ Busy(free, at[t])
  BY DEF Tiled
<1>2. Returned(rest, free, at[t])
  BY <1>1, FreedIs
<1> HIDE DEF rest
<1>3. /\ Neat(rest)
      /\ \A b \in Nat : b \in Available(rest) <=> b \in Available(free) \/ In(b, at[t])
  BY <1>2 DEF Returned
<1> HIDE DEF free
<1>4. \A b \in Nat : Covered(chunk, H, at, b) <=> Covered(after, G, at, b)
  <2> SUFFICES ASSUME NEW b \in Nat
               PROVE  Covered(chunk, H, at, b) <=> Covered(after, G, at, b)
    OBVIOUS
  <2>1. b \in Available(rest) <=> b \in Available(free) \/ In(b, at[t])
    BY <1>3
  <2>2. (\E u \in H : In(b, at[u])) <=> In(b, at[t]) \/ \E u \in G : In(b, at[u])
    OBVIOUS
  <2>3. QED
    BY <2>1, <2>2 DEF Covered, rest, free
<1>5. ASSUME NEW u \in G
      PROVE  /\ at[u] \in FreeBlock /\ at[u].size > 0
             /\ End(at[u]) <= after.max_size /\ Busy(rest, at[u])
  <2>1. at[u] \in FreeBlock /\ at[u].size > 0 /\ End(at[u]) <= chunk.max_size /\ Busy(free, at[u])
    BY DEF Tiled, free
  <2>2. \A b \in Nat : In(b, at[u]) => ~In(b, at[t])
    BY DEF Tiled
  <2>3. Busy(rest, at[u])
    BY <1>3, <2>1, <2>2 DEF Busy
  <2>4. QED
    BY <2>1, <2>3
<1>6. \A u, v \in G, b \in Nat : u # v /\ In(b, at[u]) => ~In(b, at[v])
  BY DEF Tiled
<1>7. \A b \in 0..(after.max_size - 1) : Covered(after, G, at, b)
  <2>1. \A b \in 0..(after.max_size - 1) : b \in Nat /\ Covered(chunk, H, at, b)
    BY DEF Tiled
  <2>2. QED
    BY <1>4, <2>1
<1>8. \A b, d \in Nat : d < b /\ Covered(after, G, at, b) => Covered(after, G, at, d)
  BY <1>4 DEF Tiled
<1>9. QED
  BY <1>3, <1>5, <1>6, <1>7, <1>8 DEF Tiled, rest

(* or it takes over the block of another, in place.                        *)
LEMMA SwapTiled ==
    ASSUME NEW chunk, NEW H, NEW at, Tiled(chunk, H, at), NEW p \in H, NEW t, t \notin H,
           NEW new, \A u \in H : u # p => new[u] = at[u], new[t] = at[p]
    PROVE  Tiled(chunk, (H \ {p}) \cup {t}, new)
<1> DEFINE G == (H \ {p}) \cup {t}
           from(u) == IF u = t THEN p ELSE u
<1>1. \A u \in G : from(u) \in H /\ new[u] = at[from(u)]
  OBVIOUS
<1>2. \A u, v \in G : u # v => from(u) # from(v)
  OBVIOUS
<1>3. \A u \in H : \E v \in G : from(v) = u
  OBVIOUS
<1> HIDE DEF from, G
<1>4. \A b \in Nat : Covered(chunk, H, at, b) <=> Covered(chunk, G, new, b)
  BY <1>1, <1>3 DEF Covered
<1>5. \A u \in G : /\ new[u] \in FreeBlock /\ new[u].size > 0
                   /\ End(new[u]) <= chunk.max_size /\ Busy(chunk.free, new[u])
  BY <1>1 DEF Tiled
<1>6. \A u, v \in G, b \in Nat : u # v /\ In(b, new[u]) => ~In(b, new[v])
  BY <1>1, <1>2 DEF Tiled
<1>7. \A b \in 0..(chunk.max_size - 1) : Covered(chunk, G, new, b)
  BY <1>4 DEF Tiled
<1>8. \A b, d \in Nat : d < b /\ Covered(chunk, G, new, b) => Covered(chunk, G, new, d)
  BY <1>4 DEF Tiled
<1>9. Neat(chunk.free) /\ chunk.max_size \in Nat
  BY DEF Tiled
<1>10. Tiled(chunk, G, new)
  BY <1>5, <1>6, <1>7, <1>8, <1>9 DEF Tiled
<1>11. QED
  BY <1>10 DEF G

(* Nothing else matters but where the tensors that hold memory lie.        *)
LEMMA SameTiled ==
    ASSUME NEW chunk, NEW H, NEW at, Tiled(chunk, H, at), NEW new, \A u \in H : new[u] = at[u]
    PROVE  Tiled(chunk, H, new)
<1>1. \A b : Covered(chunk, H, at, b) <=> Covered(chunk, H, new, b)
  BY DEF Covered
<1>2. QED
  BY <1>1 DEF Tiled

-----------------------------------------------------------------------------
(* Where ggml_dyn_tallocr_alloc finds room. *)
Chunk == [free : Seq(FreeBlock), max_size : Nat]

LEMMA ChunkTyped ==
    ASSUME NEW cs \in Seq(Chunk)
    PROVE  /\ Len(cs) \in Nat /\ DOMAIN cs = 1..Len(cs)
           /\ \A c \in 1..Len(cs) :
                 /\ cs[c] \in Chunk /\ cs[c].free \in Seq(FreeBlock) /\ cs[c].max_size \in Nat
                 /\ Len(cs[c].free) \in Nat
                 /\ \A i \in 1..Len(cs[c].free) : /\ cs[c].free[i].offset \in Nat
                                                  /\ cs[c].free[i].size \in Nat
<1>1. Len(cs) \in Nat /\ DOMAIN cs = 1..Len(cs)
  OBVIOUS
<1>2. \A c \in 1..Len(cs) : cs[c] \in Chunk
  BY ElementOfSeq
<1>3. \A c \in 1..Len(cs) : cs[c].free \in Seq(FreeBlock) /\ cs[c].max_size \in Nat
  BY <1>2 DEF Chunk
<1>4. QED
  BY <1>1, <1>2, <1>3, FreeTyped

(* The block found among those that are large enough, *)
LEMMA BestFitIs ==
    ASSUME NEW cs \in Seq(Chunk), NEW size \in Nat, Fitting(cs, size) # {}
    PROVE  /\ BestFit(cs, size)[1] \in 1..Len(cs)
           /\ BestFit(cs, size)[2] \in 1..Len(cs[BestFit(cs, size)[1]].free)
           /\ size <= cs[BestFit(cs, size)[1]].free[BestFit(cs, size)[2]].size
<1> DEFINE F == Fitting(cs, size)
           Size(p) == cs[p[1]].free[p[2]].size
<1>1. Len(cs) \in Nat /\ DOMAIN cs = 1..Len(cs)
  BY ChunkTyped
<1>2. ASSUME NEW p \in F
      PROVE  /\ p[1] \in 1..Len(cs) /\ p[2] \in 1..Len(cs[p[1]].free)
             /\ Len(cs[p[1]].free) \in Nat /\ Size(p) \in Nat /\ size <= Size(p)
  <2>1. \E c \in DOMAIN cs : p \in {c} \X (1..(Len(cs[c].free) - 1)) /\ Size(p) >= size
    BY DEF Fitting
  <2>2. p[1] \in 1..Len(cs) /\ p[2] \in 1..(Len(cs[p[1]].free) - 1) /\ Size(p) >= size
    BY <1>1, <2>1
  <2>3. Len(cs[p[1]].free) \in Nat
    BY <2>2, ChunkTyped
  <2>4. p[2] \in 1..Len(cs[p[1]].free)
    BY <2>2, <2>3
  <2>5. Size(p) \in Nat
    BY <2>2, <2>4, ChunkTyped
  <2>6. QED
    BY <2>2, <2>3, <2>4, <2>5
<1> HIDE DEF F, Size
<1>3. PICK p1 \in F : \A q \in F : q[1] <= p1[1]
  <2> DEFINE X == {Len(cs) - p[1] : p \in F}
  <2>1. X \subseteq Nat /\ X # {}
    BY <1>1, <1>2 DEF F
  <2>2. PICK x \in X : \A y \in X : x <= y
    <3> HIDE DEF X
    <3>1. QED
      BY <2>1, Smallest
  <2>3. PICK p \in F : x = Len(cs) - p[1]
    BY <2>2
  <2>4. ASSUME NEW q \in F PROVE q[1] <= p[1]
    <3>1. Len(cs) - q[1] \in X
      OBVIOUS
    <3>2. x <= Len(cs) - q[1]
      BY <2>2, <3>1
    <3>3. QED
      BY <1>1, <1>2, <2>3, <3>2
  <2>5. QED
    BY <2>4
<1>4. PICK p2 \in F : p2[1] = p1[1] /\ \A q \in F : q[1] = p1[1] => Size(p2) <= Size(q)
  <2> DEFINE L == {p \in F : p[1] = p1[1]}
             X == {Size(p) : p \in L}
  <2>1. X \subseteq Nat /\ X # {}
    BY <1>2, <1>3
  <2>2. PICK x \in X : \A y \in X : x <= y
    <3> HIDE DEF X
    <3>1. QED
      BY <2>1, Smallest
  <2>3. PICK p \in L : x = Size(p)
    BY <2>2
  <2>4. ASSUME NEW q \in F, q[1] = p1[1] PROVE Size(p) <= Size(q)
    <3>1. q \in L
      BY <2>4
    <3>2. QED
      BY <2>2, <2>3, <3>1
  <2>5. QED
    BY <2>3, <2>4
<1>5. PICK p3 \in F : /\ p3[1] = p1[1] /\ Size(p3) = Size(p2)
                      /\ \A q \in F : q[1] = p1[1] /\ Size(q) = Size(p2) => q[2] <= p3[2]
  <2> DEFINE n == Len(cs[p1[1]].free)
             L == {p \in F : p[1] = p1[1] /\ Size(p) = Size(p2)}
             X == {n - p[2] : p \in L}
  <2>1. \A p \in L : n \in Nat /\ p[2] \in 1..n
    BY <1>2
  <2> HIDE DEF n
  <2>2. p2 \in L
    BY <1>4
  <2>3. X \subseteq Nat /\ X # {}
    BY <2>1, <2>2
  <2>4. PICK x \in X : \A y \in X : x <= y
    <3> HIDE DEF X
    <3>1. QED
      BY <2>3, Smallest
  <2>5. PICK p \in L : x = n - p[2]
    BY <2>4
  <2>6. ASSUME NEW q \in F, q[1] = p1[1], Size(q) = Size(p2) PROVE q[2] <= p[2]
    <3>1. q \in L
      BY <2>6
    <3>2. n - q[2] \in X
      BY <3>1
    <3>3. x <= n - q[2]
      BY <2>4, <3>2
    <3>4. QED
      BY <2>1, <2>5, <3>1, <3>3
  <2>7. QED
    BY <2>5, <2>6
<1>6. \A q \in F : \/ q[1] < p3[1]
                   \/ q[1] = p3[1] /\ Size(p3) < Size(q)
                   \/ q[1] = p3[1] /\ Size(p3) = Size(q) /\ q[2] <= p3[2]
  <2> SUFFICES ASSUME NEW q \in F, ~(q[1] < p3[1])
               PROVE  \/ q[1] = p3[1] /\ Size(p3) < Size(q)
                      \/ q[1] = p3[1] /\ Size(p3) = Size(q) /\ q[2] <= p3[2]
    OBVIOUS
  <2>1. q[1] = p3[1]
    BY <1>1, <1>2, <1>3, <1>5
  <2>2. Size(p3) <= Size(q) /\ Size(p3) \in Nat /\ Size(q) \in Nat
    BY <1>2, <1>4, <1>5, <2>1
  <2>3. QED
    BY <1>5, <2>1, <2>2
<1>7. \E p \in F : \A q \in F :
        LET sp == Size(p)
            sq == Size(q)
        IN  \/ q[1] < p[1]
            \/ q[1] = p[1] /\ sp < sq
            \/ q[1] = p[1] /\ sp = sq /\ q[2] <= p[2]
  BY <1>6
<1>8. BestFit(cs, size) \in F
  <2>1. BestFit(cs, size) = CHOOSE p \in F : \A q \in F :
          LET sp == Size(p)
              sq == Size(q)
          IN  \/ q[1] < p[1]
              \/ q[1] = p[1] /\ sp < sq
              \/ q[1] = p[1] /\ sp = sq /\ q[2] <= p[2]
    BY DEF BestFit, F, Size
  <2>2. QED
    BY <1>7, <2>1
<1>9. QED
  BY <1>2, <1>8 DEF Size

(* or the last block of the chunk that has to grow least.                  *)
Better(rc, rd) ==
    \/ rd < 0 /\ rc > rd
    \/ rc >= 0 /\ rc < rd

Wanted(rc, rd, c, d) ==
    \/ Better(rc, rd)
    \/ ~Better(rd, rc) /\ c <= d

LEMMA BestGrowthIs ==
    ASSUME NEW cs \in Seq(Chunk), NEW size \in Nat, Growing(cs, size) # {}
    PROVE  BestGrowth(cs, size) \in Growing(cs, size)
<1> DEFINE G == Growing(cs, size)
           R(c) == ReuseFactor(cs, c, size)
<1>1. Len(cs) \in Nat /\ DOMAIN cs = 1..Len(cs)
  BY ChunkTyped
<1>2. ASSUME NEW c \in G PROVE c \in 1..Len(cs) /\ R(c) \in Int
  <2>1. c \in 1..Len(cs) /\ Len(cs[c].free) > 0
    BY <1>1 DEF Growing
  <2>2. Len(cs[c].free) \in 1..Len(cs[c].free) /\ cs[c].max_size \in Nat
    BY <2>1, ChunkTyped
  <2>3. Last(cs[c].free) = cs[c].free[Len(cs[c].free)]
    BY DEF Last
  <2>4. Last(cs[c].free).offset \in Nat
    BY <2>1, <2>2, <2>3, ChunkTyped
  <2>5. QED
    BY <2>1, <2>2, <2>4 DEF ReuseFactor
<1> HIDE DEF G, R
<1>3. \E c \in G : \A d \in G : Wanted(R(c), R(d), c, d)
  <2> DEFINE Roomy == {c \in G : R(c) >= 0}
  <2>1. CASE Roomy # {}
    <3> DEFINE X == {R(c) : c \in Roomy}
    <3>1. X \subseteq Nat /\ X # {}
      BY <1>2, <2>1
    <3>2. PICK x \in X : \A y \in X : x <= y
      <4> HIDE DEF X
      <4>1. QED
        BY <3>1, Smallest
    <3> DEFINE E == {c \in Roomy : R(c) = x}
    <3>3. E \subseteq Nat /\ E # {}
      BY <1>1, <1>2, <3>2
    <3>4. PICK c \in E : \A d \in E : c <= d
      <4> HIDE DEF E
      <4>1. QED
        BY <3>3, Smallest
    <3>5. c \in G /\ R(c) = x /\ x \in Nat
      BY <3>1, <3>2, <3>4
    <3>6. ASSUME NEW d \in G PROVE Wanted(R(c), R(d), c, d)
      <4>1. R(d) \in Int
        BY <1>2
      <4>2. CASE R(d) < 0
        <5>1. Better(x, R(d))
          BY <3>5, <4>1, <4>2 DEF Better
        <5>2. QED
          BY <3>5, <5>1 DEF Wanted
      <4>3. CASE R(d) >= 0
        <5>1. x <= R(d)
          BY <3>2, <4>3
        <5>2. CASE x < R(d)
          <6>1. Better(x, R(d))
            BY <3>5, <4>1, <5>2 DEF Better
          <6>2. QED
            BY <3>5, <6>1 DEF Wanted
        <5>3. CASE x = R(d)
          <6>1. c <= d
            BY <3>4, <4>3, <5>3
          <6>2. ~Better(R(d), x)
            BY <3>5, <5>3 DEF Better
          <6>3. QED
            BY <3>5, <6>1, <6>2 DEF Wanted
        <5>4. QED
          BY <3>5, <4>1, <5>1, <5>2, <5>3
      <4>4. QED
        BY <4>1, <4>2, <4>3
    <3>7. QED
      BY <3>5, <3>6
  <2>2. CASE Roomy = {}
    <3>1. \A c \in G : R(c) \in Int /\ R(c) < 0
      BY <1>2, <2>2
    <3> DEFINE X == {-R(c) : c \in G}
    <3>2. X \subseteq Nat /\ X # {}
      BY <3>1 DEF G
    <3>3. PICK x \in X : \A y \in X : x <= y
      <4> HIDE DEF X
      <4>1. QED
        BY <3>2, Smallest
    <3> DEFINE E == {c \in G : -R(c) = x}
    <3>4. E \subseteq Nat /\ E # {}
      BY <1>1, <1>2, <3>3
    <3>5. PICK c \in E : \A d \in E : c <= d
      <4> HIDE DEF E
      <4>1. QED
        BY <3>4, Smallest
    <3>6. c \in G /\ -R(c) = x /\ R(c) < 0 /\ R(c) \in Int
      BY <3>1, <3>5
    <3>7. ASSUME NEW d \in G PROVE Wanted(R(c), R(d), c, d)
      <4>1. R(d) \in Int /\ R(d) < 0 /\ -R(c) <= -R(d)
        BY <3>1, <3>3, <3>6
      <4>2. CASE R(c) = R(d)
        <5>1. c <= d
          BY <3>5, <3>6, <4>2
        <5>2. ~Better(R(d), R(c))
          BY <3>6, <4>2 DEF Better
        <5>3. QED
          BY <5>1, <5>2 DEF Wanted
      <4>3. CASE R(c) # R(d)
        <5>1. Better(R(c), R(d))
          BY <3>6, <4>1, <4>3 DEF Better
        <5>2. QED
          BY <5>1 DEF Wanted
      <4>4. QED
        BY <4>2, <4>3
    <3>8. QED
      BY <3>6, <3>7
  <2>3. QED
    BY <2>1, <2>2
<1>4. BestGrowth(cs, size) = CHOOSE c \in G : \A d \in G : Wanted(R(c), R(d), c, d)
  BY DEF BestGrowth, G, R, Wanted, Better
<1>5. QED
  BY <1>3, <1>4 DEF G

(* An aligned size is not 0, unless the size is. *)
LEMMA AlignedIs ==
    ASSUME NEW size \in Sizes
    PROVE  Aligned(size) \in Nat /\ Aligned(size) > 0 /\ Aligned(size) <= Endless
<1> DEFINE q == (size + alignment - 1) \div alignment
<1>1. size \in Nat /\ size >= 1 /\ alignment \in Nat /\ alignment >= 1
  BY GraphAssumption, TallocrAssumption
<1>2. q \in Int /\ q >= 1
  BY <1>1
<1> HIDE DEF q
<1>3. q * alignment \in Nat /\ q * alignment > 0
  BY <1>1, <1>2
<1>4. Aligned(size) = q * alignment
  BY DEF Aligned, q
<1>5. QED
  BY <1>3, <1>4, GraphAssumption

(* What ggml_dyn_tallocr_alloc does: it takes the first bytes of block i   *)
(* of chunk c, which may be the one block of a new chunk.                  *)
TakenAt(from, c, i, size) ==
    [free |-> Taken(from[c].free, i, size),
     max_size |-> IF from[c].free[i].offset + size > from[c].max_size
                  THEN from[c].free[i].offset + size ELSE from[c].max_size]

Grown(from, cs, size) ==
    /\ from \in Seq(Chunk) /\ Len(from) = Len(cs) + 1
    /\ \A c \in 1..Len(cs) : from[c] = cs[c]
    /\ \E z \in Nat : size <= z /\ from[Len(cs) + 1] = [free |-> <<Block(0, z)>>, max_size |-> 0]

AllocatedAt(a, from, c, i, size) ==
    /\ c \in 1..Len(from) /\ i \in 1..Len(from[c].free)
    /\ size <= from[c].free[i].size
    /\ a.addr = [chunk |-> c, offset |-> from[c].free[i].offset]
    /\ a.chunks = [from EXCEPT ![c] = TakenAt(from, c, i, size)]

Allocated(a, cs, size) ==
    \E from, c, i : (from = cs \/ Grown(from, cs, size)) /\ AllocatedAt(a, from, c, i, size)

LEMMA NewChunkIs ==
    ASSUME NEW cs \in Seq(Chunk), NEW size \in Nat, size <= Endless
    PROVE  Grown(NewChunk(cs, size), cs, size)
<1> DEFINE limit == IF size > max_chunk_size THEN size ELSE max_chunk_size
           z == IF Len(cs) = MaxChunks - 1 THEN Endless ELSE limit
           e == [free |-> <<Block(0, z)>>, max_size |-> 0]
<1>1. z \in Nat /\ size <= z
  BY TallocrAssumption
<1>2. NewChunk(cs, size) = Append(cs, e)
  BY DEF NewChunk
<1> HIDE DEF z
<1>3. e \in Chunk
  <2>1. Block(0, z) \in FreeBlock
    BY <1>1, BlockIs
  <2>2. <<Block(0, z)>> \in Seq(FreeBlock)
    BY <2>1
  <2>3. QED
    BY <2>2 DEF Chunk
<1>4. e = [free |-> <<Block(0, z)>>, max_size |-> 0]
  OBVIOUS
<1> HIDE DEF e
<1>5. /\ Append(cs, e) \in Seq(Chunk) /\ Len(Append(cs, e)) = Len(cs) + 1
      /\ \A c \in 1..Len(cs) : Append(cs, e)[c] = cs[c]
      /\ Append(cs, e)[Len(cs) + 1] = e
  BY <1>3
<1>6. QED
  BY <1>1, <1>2, <1>4, <1>5 DEF Grown

(* A new chunk is made only if no last block is large enough.              *)
LEMMA AllocFrom ==
    ASSUME NEW cs \in Seq(Chunk), NEW bytes, NEW size \in Nat, size = Aligned(bytes),
           size <= Endless
    PROVE  \E from, c, i : /\ \/ from = cs
                              \/ Growing(cs, size) = {} /\ from = NewChunk(cs, size)
                           /\ AllocatedAt(Alloc(cs, bytes), from, c, i, size)
<1> DEFINE place == Place(cs, size)
           from == place.chunks
           c == place.chunk
           i == place.block
<1>1. /\ from = cs \/ (Growing(cs, size) = {} /\ from = NewChunk(cs, size))
      /\ c \in 1..Len(from) /\ i \in 1..Len(from[c].free)
      /\ size <= from[c].free[i].size
  <2>1. CASE Fitting(cs, size) # {}
    <3>1. from = cs /\ c = BestFit(cs, size)[1] /\ i = BestFit(cs, size)[2]
      BY <2>1 DEF Place
    <3> HIDE DEF place
    <3>2. QED
      BY <2>1, <3>1, BestFitIs
  <2>2. CASE Fitting(cs, size) = {} /\ Growing(cs, size) # {}
    <3> DEFINE g == BestGrowth(cs, size)
    <3>1. from = cs /\ c = g /\ i = Len(cs[g].free)
      BY <2>2 DEF Place
    <3>2. g \in Growing(cs, size)
      BY <2>2, BestGrowthIs
    <3> HIDE DEF place, g
    <3>3. /\ g \in 1..Len(cs) /\ Len(cs[g].free) > 0
          /\ cs[g].free[Len(cs[g].free)].size >= size
      BY <3>2, ChunkTyped DEF Growing, Last
    <3>4. Len(cs[g].free) \in 1..Len(cs[g].free) /\ cs[g].free[Len(cs[g].free)].size \in Nat
      BY <3>3, ChunkTyped
    <3>5. QED
      BY <3>1, <3>3, <3>4
  <2>3. CASE Fitting(cs, size) = {} /\ Growing(cs, size) = {}
    <3>1. from = NewChunk(cs, size) /\ c = Len(cs) + 1 /\ i = 1
      BY <2>3 DEF Place
    <3>2. Grown(NewChunk(cs, size), cs, size) /\ Len(cs) \in Nat
      BY NewChunkIs, ChunkTyped
    <3> HIDE DEF place
    <3>3. PICK z \in Nat : /\ size <= z
                           /\ from[Len(cs) + 1] = [free |-> <<Block(0, z)>>, max_size |-> 0]
      BY <3>1, <3>2 DEF Grown
    <3>4. from[c].free = <<Block(0, z)>> /\ Len(from) = Len(cs) + 1
      BY <3>1, <3>2, <3>3 DEF Grown
    <3>5. Len(from[c].free) = 1 /\ from[c].free[1] = Block(0, z)
      BY <3>4
    <3>6. 0 \in Nat
      OBVIOUS
    <3>7. from[c].free[1].size = z
      BY <3>5, <3>6, BlockIs
    <3>8. QED
      BY <2>3, <3>1, <3>2, <3>3, <3>4, <3>5, <3>7
  <2>4. QED
    BY <2>1, <2>2, <2>3
<1>2. /\ Alloc(cs, bytes).addr = [chunk |-> c, offset |-> from[c].free[i].offset]
      /\ Alloc(cs, bytes).chunks = [from EXCEPT ![c] = TakenAt(from, c, i, size)]
  <2>1. place = Place(cs, Aligned(bytes))
    OBVIOUS
  <2> HIDE DEF place
  <2>2. QED
    BY <2>1 DEF Alloc, TakenAt
<1> HIDE DEF from, c, i
<1>3. AllocatedAt(Alloc(cs, bytes), from, c, i, size)
  BY <1>1, <1>2 DEF AllocatedAt
<1>4. QED
  BY <1>1, <1>3

LEMMA AllocIs ==
    ASSUME NEW cs \in Seq(Chunk), NEW bytes, NEW size \in Nat, size = Aligned(bytes),
           size <= Endless
    PROVE  Allocated(Alloc(cs, bytes), cs, size)
BY AllocFrom, NewChunkIs DEF Allocated

-----------------------------------------------------------------------------
(* The tensors, as the application made them. *)
Kinds == {"weight", "leaf", "op", "inplace", "view", "store"}
Sharers == {"view", "store"}

TensorRecord ==
    [kind : Kinds, src : Seq(Nat), root : Nat, size : Nat, output : BOOLEAN]

TensorOk(ts, t) ==
    /\ ts[t].src \in Seq(1..(t - 1)) /\ Len(ts[t].src) <= 2
    /\ ts[t].root # 0 =>
          /\ ts[t].root \in 1..(t - 1) /\ ts[ts[t].root].root = 0
          /\ ts[t].kind \in Sharers
    /\ ts[t].kind \notin Sharers \cup {"weight"} => ts[t].size \in Sizes /\ ts[t].root = 0
    /\ ts[t].kind \in Sharers => ts[t].root # 0

TensorsOk(ts) == ts \in Seq(TensorRecord) /\ \A t \in 1..Len(ts) : TensorOk(ts, t)

(* The allocator in the middle of planning. *)
HashEntry ==
    [children : Int, views : Int, addr : [chunk : Nat, offset : Nat], allocated : BOOLEAN]

States == [chunks : Seq(Chunk), hash : [T -> HashEntry]]

HeldIn(h, c) == {t \in T : h[t].allocated = TRUE /\ h[t].addr.chunk = c}

At(h) == [t \in T |-> Block(h[t].addr.offset, Aligned(tensors[t].size))]

(* Every chunk is tiled by its free blocks and by the tensors that hold    *)
(* memory in it.                                                           *)
MemOk(s) ==
    /\ s \in States
    /\ \A t \in T : s.hash[t].allocated = TRUE =>
          s.hash[t].addr.chunk \in 1..Len(s.chunks) /\ tensors[t].size \in Sizes
    /\ \A c \in 1..Len(s.chunks) : Tiled(s.chunks[c], HeldIn(s.hash, c), At(s.hash))

LEMMA StateIs ==
    ASSUME NEW cs, NEW h, cs \in Seq(Chunk), h \in [T -> HashEntry]
    PROVE  /\ State(cs, h) \in States
           /\ State(cs, h).chunks = cs /\ State(cs, h).hash = h
BY DEF State, States

LEMMA HashTyped ==
    ASSUME NEW h, h \in [T -> HashEntry], NEW t \in T
    PROVE  /\ h[t] \in HashEntry /\ h[t].children \in Int /\ h[t].views \in Int
           /\ h[t].addr \in [chunk : Nat, offset : Nat]
           /\ h[t].addr.chunk \in Nat /\ h[t].addr.offset \in Nat
           /\ h[t].allocated \in BOOLEAN
           /\ At(h)[t] = Block(h[t].addr.offset, Aligned(tensors[t].size))
BY DEF HashEntry, At

(* What the counters are does not matter for it. *)
LEMMA SameHolders ==
    ASSUME NEW s, MemOk(s), NEW h, h \in [T -> HashEntry],
           \A t \in T : h[t].addr = s.hash[t].addr /\ h[t].allocated = s.hash[t].allocated
    PROVE  MemOk(State(s.chunks, h))
<1>1. s.chunks \in Seq(Chunk) /\ s.hash \in [T -> HashEntry]
  BY DEF MemOk, States
<1>2. /\ State(s.chunks, h) \in States
      /\ State(s.chunks, h).chunks = s.chunks /\ State(s.chunks, h).hash = h
  BY <1>1, StateIs
<1>3. \A c : HeldIn(h, c) = HeldIn(s.hash, c)
  BY DEF HeldIn
<1>4. At(h) = At(s.hash)
  BY DEF At
<1>5. QED
  BY <1>2, <1>3, <1>4 DEF MemOk

(* A new chunk is free. *)
LEMMA GrownOk ==
    ASSUME NEW s, MemOk(s), NEW size \in Nat, size > 0, NEW from, Grown(from, s.chunks, size)
    PROVE  MemOk(State(from, s.hash))
<1> DEFINE n == Len(s.chunks)
           r == State(from, s.hash)
<1>1. s.chunks \in Seq(Chunk) /\ s.hash \in [T -> HashEntry] /\ n \in Nat
  BY DEF MemOk, States
<1>2. /\ from \in Seq(Chunk) /\ Len(from) = n + 1
      /\ \A c \in 1..n : from[c] = s.chunks[c]
  BY DEF Grown
<1>3. r \in States /\ r.chunks = from /\ r.hash = s.hash
  BY <1>1, <1>2, StateIs
<1> HIDE DEF r
<1>4. \A t \in T : r.hash[t].allocated = TRUE =>
          r.hash[t].addr.chunk \in 1..Len(r.chunks) /\ tensors[t].size \in Sizes
  <2>1. \A k \in 1..n : k \in 1..(n + 1)
    BY <1>1
  <2>2. QED
    BY <1>2, <1>3, <2>1 DEF MemOk
<1>5. Tiled(from[n + 1], HeldIn(s.hash, n + 1), At(s.hash))
  <2> DEFINE at == At(s.hash)
             e == from[n + 1]
  <2>1. PICK z \in Nat : size <= z /\ e = [free |-> <<Block(0, z)>>, max_size |-> 0]
    BY DEF Grown
  <2>2. HeldIn(s.hash, n + 1) = {}
    <3>1. \A t \in T : s.hash[t].allocated = TRUE => s.hash[t].addr.chunk \in 1..n
      BY DEF MemOk
    <3>2. n + 1 \notin 1..n
      BY <1>1
    <3>3. QED
      BY <3>1, <3>2 DEF HeldIn
  <2>3. /\ Block(0, z) \in FreeBlock /\ Block(0, z).offset = 0 /\ Block(0, z).size = z
        /\ End(Block(0, z)) = z
    <3> DEFINE o == 0
    <3>1. o \in Nat /\ o + z = z
      OBVIOUS
    <3> HIDE DEF o
    <3>2. /\ Block(o, z) \in FreeBlock /\ Block(o, z).offset = o /\ Block(o, z).size = z
          /\ End(Block(o, z)) = z
      BY <3>1, BlockIs
    <3>3. QED
      BY <3>2 DEF o
  <2>4. /\ e.free \in Seq(FreeBlock) /\ Len(e.free) = 1 /\ e.free[1] = Block(0, z)
        /\ e.max_size = 0
    BY <2>1, <2>3
  <2> HIDE DEF e, at
  <2>5. Neat(e.free)
    BY <2>1, <2>3, <2>4 DEF Neat
  <2>6. \A b \in Nat : b \in Available(e.free) <=> b < z
    BY <2>3, <2>4 DEF Available, In
  <2>7. \A b, d \in Nat : d < b /\ Covered(e, {}, at, b) => Covered(e, {}, at, d)
    BY <2>1, <2>6 DEF Covered
  <2>8. 0..(e.max_size - 1) = {}
    BY <2>4
  <2>9. Tiled(e, {}, at)
    BY <2>4, <2>5, <2>7, <2>8 DEF Tiled
  <2>10. QED
    BY <2>2, <2>9 DEF e, at
<1>6. ASSUME NEW c \in 1..(n + 1) PROVE Tiled(from[c], HeldIn(s.hash, c), At(s.hash))
  <2>1. CASE c = n + 1
    BY <1>5, <2>1
  <2>2. CASE c # n + 1
    <3>1. c \in 1..n
      BY <1>1, <2>2
    <3>2. QED
      BY <1>2, <3>1 DEF MemOk
  <2>3. QED
    BY <2>1, <2>2
<1>7. MemOk(r)
  BY <1>2, <1>3, <1>4, <1>6 DEF MemOk
<1>8. QED
  BY <1>7 DEF r

(* Memory is allocated for a tensor that had none, *)
LEMMA FreshOk ==
    ASSUME NEW s, MemOk(s), NEW t \in T, tensors[t].size \in Sizes,
           s.hash[t].allocated = FALSE, NEW h,
           h = [s.hash EXCEPT ![t].allocated = TRUE,
                              ![t].addr = Alloc(s.chunks, tensors[t].size).addr]
    PROVE  MemOk(State(Alloc(s.chunks, tensors[t].size).chunks, h))
<1> DEFINE size == Aligned(tensors[t].size)
           a == Alloc(s.chunks, tensors[t].size)
<1>1. size \in Nat /\ size > 0 /\ size <= Endless
  BY AlignedIs
<1>2. s.chunks \in Seq(Chunk) /\ s.hash \in [T -> HashEntry]
  BY DEF MemOk, States
<1>3. Allocated(a, s.chunks, size)
  <2> HIDE DEF size, a
  <2>1. QED
    BY <1>1, <1>2, AllocIs DEF size, a
<1> HIDE DEF a
<1>4. PICK from, c, i : /\ from = s.chunks \/ Grown(from, s.chunks, size)
                        /\ AllocatedAt(a, from, c, i, size)
  <2> HIDE DEF size
  <2>1. QED
    BY <1>3 DEF Allocated
<1> DEFINE r == State(from, s.hash)
           at == At(s.hash)
           next_at == At(h)
           o == from[c].free[i].offset
           cs == [from EXCEPT ![c] = TakenAt(from, c, i, size)]
           H(d) == HeldIn(s.hash, d)
<1>5. MemOk(r) /\ r.chunks = from /\ r.hash = s.hash /\ from \in Seq(Chunk)
  <2>1. CASE from = s.chunks
    <3>1. r \in States /\ r.chunks = s.chunks /\ r.hash = s.hash
      BY <1>2, <2>1, StateIs
    <3> HIDE DEF r
    <3>2. QED
      BY <1>2, <2>1, <3>1 DEF MemOk
  <2>2. CASE Grown(from, s.chunks, size)
    <3>1. MemOk(r)
      <4> HIDE DEF size
      <4>1. QED
        BY <1>1, <2>2, GrownOk
    <3>2. from \in Seq(Chunk)
      BY <2>2 DEF Grown
    <3>3. QED
      BY <1>2, <3>1, <3>2, StateIs
  <2>3. QED
    BY <1>4, <2>1, <2>2
<1> HIDE DEF r
<1>6. /\ c \in 1..Len(from) /\ i \in 1..Len(from[c].free) /\ size <= from[c].free[i].size
      /\ a.addr = [chunk |-> c, offset |-> o] /\ a.chunks = cs
  BY <1>4 DEF AllocatedAt
<1>7. Len(from) \in Nat /\ o \in Nat /\ c \in Nat
  BY <1>5, <1>6, ChunkTyped
<1>8. /\ h \in [T -> HashEntry] /\ h[t].allocated = TRUE
      /\ h[t].addr.chunk = c /\ h[t].addr.offset = o
      /\ \A u \in T : u # t => h[u] = s.hash[u]
  <2> DEFINE x == [chunk |-> c, offset |-> o]
             e == [s.hash[t] EXCEPT !.allocated = TRUE, !.addr = x]
  <2>1. x \in [chunk : Nat, offset : Nat] /\ x.chunk = c /\ x.offset = o
    BY <1>7
  <2>2. h = [s.hash EXCEPT ![t] = e]
    BY <1>2, <1>6 DEF a
  <2> HIDE DEF x
  <2>3. e \in HashEntry /\ e.allocated = TRUE /\ e.addr = x
    BY <1>2, <2>1 DEF HashEntry
  <2> HIDE DEF e
  <2>4. QED
    BY <1>2, <2>1, <2>2, <2>3
<1>9. \A u \in T : s.hash[u].allocated = TRUE =>
          u # t /\ s.hash[u].addr.chunk \in 1..Len(from) /\ tensors[u].size \in Sizes
  BY <1>5 DEF MemOk
<1>10. \A d \in 1..Len(from) : Tiled(from[d], H(d), at)
  BY <1>5 DEF MemOk
<1>11. HeldIn(h, c) = H(c) \cup {t} /\ t \notin H(c)
  BY <1>8, <1>9 DEF HeldIn
<1>12. \A d : d # c => HeldIn(h, d) = H(d)
  BY <1>8, <1>9 DEF HeldIn
<1>13. /\ next_at[t] = Block(o, size)
       /\ \A u \in T : u # t => next_at[u] = at[u]
  BY <1>8 DEF At
<1>14. \A d : H(d) \subseteq T /\ t \notin H(d)
  BY <1>9 DEF HeldIn
<1>15. /\ TakenAt(from, c, i, size) \in Chunk
       /\ Tiled(TakenAt(from, c, i, size), H(c) \cup {t}, next_at)
  <2> DEFINE after == TakenAt(from, c, i, size)
             old == from[c]
  <2>1. /\ after.free = Taken(old.free, i, size)
        /\ after.max_size = IF old.free[i].offset + size > old.max_size
                            THEN old.free[i].offset + size ELSE old.max_size
        /\ after = [free |-> after.free, max_size |-> after.max_size]
    BY DEF TakenAt
  <2>2. Tiled(old, H(c), at) /\ size <= old.free[i].size /\ i \in 1..Len(old.free)
    BY <1>6, <1>10
  <2>3. next_at[t] = Block(old.free[i].offset, size) /\ \A u \in H(c) : next_at[u] = at[u]
    BY <1>13, <1>14
  <2> HIDE DEF after, old, next_at, at, size
  <2>4. Tiled(after, H(c) \cup {t}, next_at)
    BY <1>1, <1>14, <2>1, <2>2, <2>3, TakeTiled
  <2>5. after \in Chunk
    BY <2>1, <2>4 DEF Tiled, Neat, Chunk
  <2>6. QED
    BY <2>4, <2>5 DEF after
<1>16. /\ cs \in Seq(Chunk) /\ Len(cs) = Len(from) /\ cs[c] = TakenAt(from, c, i, size)
       /\ \A d \in 1..Len(from) : d # c => cs[d] = from[d]
  BY <1>5, <1>6, <1>15
<1> HIDE DEF cs
<1>17. ASSUME NEW d \in 1..Len(from) PROVE Tiled(cs[d], HeldIn(h, d), next_at)
  <2>1. CASE d = c
    BY <1>11, <1>15, <1>16, <2>1
  <2>2. CASE d # c
    <3>1. \A u \in H(d) : next_at[u] = at[u]
      BY <1>13, <1>14
    <3>2. Tiled(from[d], H(d), next_at)
      <4> HIDE DEF next_at, at
      <4>1. QED
        BY <1>10, <3>1, SameTiled
    <3>3. QED
      BY <1>12, <1>16, <2>2, <3>2
  <2>3. QED
    BY <2>1, <2>2
<1>18. /\ State(cs, h) \in States /\ State(cs, h).chunks = cs /\ State(cs, h).hash = h
  BY <1>8, <1>16 DEF State, States
<1>19. \A u \in T : h[u].allocated = TRUE =>
          h[u].addr.chunk \in 1..Len(cs) /\ tensors[u].size \in Sizes
  BY <1>6, <1>8, <1>9, <1>16
<1>20. MemOk(State(cs, h))
  BY <1>16, <1>17, <1>18, <1>19 DEF MemOk
<1>21. QED
  BY <1>6, <1>20 DEF a

(* taken over from another, *)
LEMMA ReuseOk ==
    ASSUME NEW s, MemOk(s), NEW t \in T, NEW p \in T, s.hash[t].allocated = FALSE,
           s.hash[p].allocated = TRUE, tensors[p].size = tensors[t].size, NEW h,
           h = [s.hash EXCEPT ![t].allocated = TRUE, ![t].addr = s.hash[p].addr,
                              ![p].allocated = FALSE]
    PROVE  MemOk(State(s.chunks, h))
<1> DEFINE c == s.hash[p].addr.chunk
           at == At(s.hash)
           new == At(h)
           H(d) == HeldIn(s.hash, d)
<1>1. s.chunks \in Seq(Chunk) /\ s.hash \in [T -> HashEntry] /\ p # t
  BY DEF MemOk, States
<1>2. /\ h \in [T -> HashEntry] /\ h[t].allocated = TRUE /\ h[t].addr = s.hash[p].addr
      /\ h[p].allocated = FALSE
      /\ \A u \in T : u # t /\ u # p => h[u] = s.hash[u]
  <2> DEFINE e == [s.hash[t] EXCEPT !.allocated = TRUE, !.addr = s.hash[p].addr]
             f == [s.hash[p] EXCEPT !.allocated = FALSE]
  <2>1. h = [s.hash EXCEPT ![t] = e, ![p] = f]
    BY <1>1
  <2>2. e \in HashEntry /\ e.allocated = TRUE /\ e.addr = s.hash[p].addr
    BY <1>1 DEF HashEntry
  <2>3. f \in HashEntry /\ f.allocated = FALSE
    BY <1>1 DEF HashEntry
  <2> HIDE DEF e, f
  <2>4. QED
    BY <1>1, <2>1, <2>2, <2>3
<1>3. \A u \in T : s.hash[u].allocated = TRUE =>
          u # t /\ s.hash[u].addr.chunk \in 1..Len(s.chunks) /\ tensors[u].size \in Sizes
  BY DEF MemOk
<1>4. HeldIn(h, c) = (H(c) \ {p}) \cup {t} /\ p \in H(c) /\ \A d : t \notin H(d)
  BY <1>2, <1>3 DEF HeldIn
<1>5. \A d : d # c => HeldIn(h, d) = H(d)
  BY <1>2, <1>3 DEF HeldIn
<1>6. /\ new[t] = at[p]
      /\ \A u \in T : u # t /\ u # p => new[u] = at[u]
      /\ \A d : H(d) \subseteq T /\ (d # c => p \notin H(d))
  <2>1. new[t] = at[p]
    <3>1. new[t] = Block(h[t].addr.offset, Aligned(tensors[t].size))
      BY DEF At
    <3>2. at[p] = Block(s.hash[p].addr.offset, Aligned(tensors[p].size))
      BY DEF At
    <3>3. QED
      BY <1>2, <3>1, <3>2
  <2>2. \A u \in T : u # t /\ u # p => new[u] = at[u]
    BY <1>2 DEF At
  <2>3. \A d : H(d) \subseteq T /\ (d # c => p \notin H(d))
    BY DEF HeldIn
  <2>4. QED
    BY <2>1, <2>2, <2>3
<1> HIDE DEF new, at, c
<1>7. ASSUME NEW d \in 1..Len(s.chunks) PROVE Tiled(s.chunks[d], HeldIn(h, d), new)
  <2>1. Tiled(s.chunks[d], H(d), at)
    BY DEF MemOk, at
  <2> HIDE DEF H
  <2>2. CASE d = c
    <3>1. p \in H(d) /\ t \notin H(d) /\ HeldIn(h, d) = (H(d) \ {p}) \cup {t}
      BY <1>4, <2>2
    <3>2. \A u \in H(d) : u # p => new[u] = at[u]
      BY <1>6, <3>1
    <3> DEFINE G == H(d)
               x == s.chunks[d]
    <3>3. /\ Tiled(x, G, at) /\ p \in G /\ t \notin G /\ new[t] = at[p]
          /\ \A u \in G : u # p => new[u] = at[u]
      BY <1>6, <2>1, <3>1, <3>2
    <3> HIDE DEF G, x
    <3>4. Tiled(x, (G \ {p}) \cup {t}, new)
      BY <3>3, SwapTiled
    <3>5. QED
      BY <3>1, <3>4 DEF G, x
  <2>3. CASE d # c
    <3>1. \A u \in H(d) : new[u] = at[u]
      BY <1>4, <1>6, <2>3
    <3>2. QED
      BY <1>5, <2>1, <2>3, <3>1, SameTiled
  <2>4. QED
    BY <2>2, <2>3
<1>8. /\ State(s.chunks, h) \in States
      /\ State(s.chunks, h).chunks = s.chunks /\ State(s.chunks, h).hash = h
  BY <1>1, <1>2 DEF State, States
<1>9. \A u \in T : h[u].allocated = TRUE =>
          h[u].addr.chunk \in 1..Len(s.chunks) /\ tensors[u].size \in Sizes
  BY <1>2, <1>3
<1>10. QED
  BY <1>7, <1>8, <1>9 DEF MemOk, new

(* or given back. *)
LEMMA GivenBackOk ==
    ASSUME NEW s, MemOk(s), NEW t \in T, s.hash[t].allocated = TRUE, NEW h,
           h = [s.hash EXCEPT ![t].allocated = FALSE]
    PROVE  MemOk(State(FreeBytes(s.chunks, s.hash[t].addr, tensors[t].size), h))
<1> DEFINE c == s.hash[t].addr.chunk
           at == At(s.hash)
           H(d) == HeldIn(s.hash, d)
           freed == Freed(s.chunks[c].free, at[t])
           after == [s.chunks[c] EXCEPT !.free = freed]
           cs == [s.chunks EXCEPT ![c] = after]
<1>1. s.chunks \in Seq(Chunk) /\ s.hash \in [T -> HashEntry] /\ c \in 1..Len(s.chunks)
  BY DEF MemOk, States
<1>2. /\ h \in [T -> HashEntry] /\ h[t].allocated = FALSE
      /\ \A u \in T : h[u].addr = s.hash[u].addr
      /\ \A u \in T : u # t => h[u] = s.hash[u]
  <2> DEFINE f == [s.hash[t] EXCEPT !.allocated = FALSE]
  <2>1. h = [s.hash EXCEPT ![t] = f]
    BY <1>1
  <2>2. f \in HashEntry /\ f.allocated = FALSE /\ f.addr = s.hash[t].addr
    BY <1>1 DEF HashEntry
  <2> HIDE DEF f
  <2>3. QED
    BY <1>1, <2>1, <2>2
<1>3. FreeBytes(s.chunks, s.hash[t].addr, tensors[t].size) = cs
  <2>1. at[t] = Block(s.hash[t].addr.offset, Aligned(tensors[t].size))
    BY DEF At
  <2>2. QED
    BY <1>1, <2>1 DEF FreeBytes
<1>4. At(h) = at
  BY <1>2 DEF At
<1>5. HeldIn(h, c) = H(c) \ {t} /\ t \in H(c) /\ \A d : d # c => HeldIn(h, d) = H(d)
  BY <1>2 DEF HeldIn
<1>6. Tiled(after, H(c) \ {t}, at) /\ after \in Chunk
  <2>1. Tiled(s.chunks[c], H(c), at)
    BY <1>1 DEF MemOk
  <2>2. s.chunks[c] \in Chunk
    BY <1>1, ChunkTyped
  <2> HIDE DEF freed
  <2>3. after.free = freed /\ after.max_size = s.chunks[c].max_size
        /\ after = [free |-> after.free, max_size |-> after.max_size]
    <3> DEFINE r == s.chunks[c]
    <3>1. r \in Chunk /\ after = [r EXCEPT !.free = freed]
      BY <2>2
    <3> HIDE DEF r, after
    <3>2. r = [free |-> r.free, max_size |-> r.max_size]
      BY <3>1 DEF Chunk
    <3>3. after = [free |-> freed, max_size |-> r.max_size]
      BY <3>1, <3>2
    <3>4. QED
      BY <3>3 DEF r
  <2> HIDE DEF after, at, H
  <2>4. Tiled(after, H(c) \ {t}, at)
    BY <1>5, <2>1, <2>3, GiveTiled DEF freed
  <2>5. QED
    BY <2>3, <2>4 DEF Tiled, Neat, Chunk
<1> HIDE DEF after, at
<1>7. /\ cs \in Seq(Chunk) /\ Len(cs) = Len(s.chunks) /\ cs[c] = after
      /\ \A d \in 1..Len(s.chunks) : d # c => cs[d] = s.chunks[d]
  BY <1>1, <1>6
<1> HIDE DEF cs, c
<1>8. ASSUME NEW d \in 1..Len(cs) PROVE Tiled(cs[d], HeldIn(h, d), at)
  <2>1. Tiled(s.chunks[d], H(d), at) /\ d \in 1..Len(s.chunks)
    BY <1>7 DEF MemOk, at
  <2>2. CASE d = c
    BY <1>5, <1>6, <1>7, <2>2
  <2>3. CASE d # c
    BY <1>5, <1>7, <2>1, <2>3
  <2>4. QED
    BY <2>2, <2>3
<1>9. /\ State(cs, h) \in States /\ State(cs, h).chunks = cs /\ State(cs, h).hash = h
  BY <1>2, <1>7 DEF State, States
<1>10. \A u \in T : h[u].allocated = TRUE =>
          h[u].addr.chunk \in 1..Len(cs) /\ tensors[u].size \in Sizes
  BY <1>2, <1>7 DEF MemOk
<1>11. MemOk(State(cs, h))
  BY <1>4, <1>8, <1>9, <1>10 DEF MemOk
<1>12. QED
  BY <1>3, <1>11

-----------------------------------------------------------------------------
(* The steps of ggml_gallocr_alloc_graph_impl. *)
LEMMA AllocateNodeOk ==
    ASSUME TensorsOk(tensors), NEW s, MemOk(s), NEW t \in T
    PROVE  MemOk(AllocateNode(s, t))
<1>1. s \in States /\ s.hash \in [T -> HashEntry] /\ s.hash[t].allocated \in BOOLEAN
  BY HashTyped DEF MemOk, States
<1>2. CASE IsAllocated(s.hash, t) \/ IsView(tensors, t)
  BY <1>2 DEF AllocateNode
<1>3. CASE ~(IsAllocated(s.hash, t) \/ IsView(tensors, t))
  <2>1. s.hash[t].allocated = FALSE /\ tensors[t].kind # "weight" /\ tensors[t].root = 0
    BY <1>1, <1>3 DEF IsAllocated, IsView
  <2>2. TensorOk(tensors, t) /\ tensors[t].src \in Seq(1..(t - 1)) /\ t \in 1..Len(tensors)
    BY DEF TensorsOk, TensorOk, T
  <2>3. tensors[t].size \in Sizes
    BY <2>1, <2>2 DEF TensorOk
  <2>4. CASE Reusable(s, t) # {}
    <3> DEFINE p == FirstReusable(s, t)
               h == [s.hash EXCEPT ![t].allocated = TRUE, ![t].addr = s.hash[p].addr,
                                   ![p].allocated = FALSE]
    <3>1. AllocateNode(s, t) = State(s.chunks, h)
      <4>1. AllocateNode(s, t) = [s EXCEPT !.hash = h]
        BY <1>3, <2>4 DEF AllocateNode
      <4> HIDE DEF h
      <4>2. QED
        BY <1>1, <4>1 DEF States, State
    <3>2. p \in T /\ MayReuse(s, t, p)
      <4> DEFINE R == Reusable(s, t)
                 j == CHOOSE j \in R : \A k \in R : j <= k
      <4>1. \A k \in R : k \in Nat /\ Src(t)[k] \in T /\ MayReuse(s, t, Src(t)[k])
        <5>1. DOMAIN Src(t) = 1..Len(tensors[t].src) /\ Len(tensors[t].src) \in Nat
          BY <2>2 DEF Src
        <5>2. \A k \in 1..Len(tensors[t].src) : tensors[t].src[k] \in 1..(t - 1)
          BY <2>2, ElementOfSeq
        <5>3. 1..(t - 1) \subseteq T
          BY <2>2 DEF TensorsOk, T
        <5>4. QED
          BY <5>1, <5>2, <5>3 DEF Reusable, Src
      <4>2. \E x \in R : \A k \in R : x <= k
        <5>1. R \subseteq Nat /\ R # {}
          BY <2>4, <4>1
        <5> HIDE DEF R
        <5>2. QED
          BY <5>1, Smallest
      <4>3. j \in R
        BY <4>2
      <4>4. p = Src(t)[j]
        BY DEF FirstReusable
      <4> HIDE DEF R, j, p
      <4>5. QED
        BY <4>1, <4>3, <4>4
    <3>3. s.hash[p].allocated = TRUE /\ tensors[p].size = tensors[t].size
      <4>1. s.hash[p].allocated \in BOOLEAN
        <5> HIDE DEF p
        <5>1. QED
          BY <1>1, <3>2, HashTyped
      <4>2. QED
        BY <3>2, <4>1 DEF MayReuse
    <3>4. h = [s.hash EXCEPT ![t].allocated = TRUE, ![t].addr = s.hash[p].addr,
                             ![p].allocated = FALSE]
      OBVIOUS
    <3> HIDE DEF p, h
    <3>5. MemOk(State(s.chunks, h))
      BY <2>1, <3>2, <3>3, <3>4, ReuseOk
    <3>6. QED
      BY <3>1, <3>5
  <2>5. CASE Reusable(s, t) = {}
    <3> DEFINE a == Alloc(s.chunks, tensors[t].size)
               h == [s.hash EXCEPT ![t].allocated = TRUE, ![t].addr = a.addr]
    <3>1. AllocateNode(s, t) = State(a.chunks, h)
      BY <1>3, <2>5 DEF AllocateNode
    <3>2. h = [s.hash EXCEPT ![t].allocated = TRUE,
                             ![t].addr = Alloc(s.chunks, tensors[t].size).addr]
      OBVIOUS
    <3> HIDE DEF h
    <3>3. MemOk(State(Alloc(s.chunks, tensors[t].size).chunks, h))
      BY <2>1, <2>3, <3>2, FreshOk
    <3>4. QED
      BY <3>1, <3>3
  <2>6. QED
    BY <2>4, <2>5
<1>4. QED
  BY <1>2, <1>3

LEMMA FreeIfUnusedOk ==
    ASSUME NEW s, MemOk(s), NEW t \in T
    PROVE  MemOk(FreeIfUnused(s, t))
<1>1. s \in States /\ s.hash \in [T -> HashEntry] /\ s.hash[t].allocated \in BOOLEAN
  BY HashTyped DEF MemOk, States
<1>2. CASE Unused(s, t) /\ s.hash[t].allocated /\ ~tensors[t].output
  <2> DEFINE h == [s.hash EXCEPT ![t].allocated = FALSE]
  <2>1. FreeIfUnused(s, t) = State(FreeBytes(s.chunks, s.hash[t].addr, tensors[t].size), h)
    BY <1>2 DEF FreeIfUnused, FreeNode
  <2>2. s.hash[t].allocated = TRUE
    BY <1>1, <1>2
  <2>3. h = [s.hash EXCEPT ![t].allocated = FALSE]
    OBVIOUS
  <2> HIDE DEF h
  <2>4. MemOk(State(FreeBytes(s.chunks, s.hash[t].addr, tensors[t].size), h))
    BY <2>2, <2>3, GivenBackOk
  <2>5. QED
    BY <2>1, <2>4
<1>3. CASE ~(Unused(s, t) /\ s.hash[t].allocated /\ ~tensors[t].output)
  BY <1>3 DEF FreeIfUnused, FreeNode
<1>4. QED
  BY <1>2, <1>3

(* The number of children, or of views, of a tensor goes down. *)
LEMMA CountedOk ==
    ASSUME NEW s, MemOk(s), NEW t \in T, NEW x \in HashEntry,
           x.addr = s.hash[t].addr, x.allocated = s.hash[t].allocated
    PROVE  MemOk([s EXCEPT !.hash = [@ EXCEPT ![t] = x]])
<1> DEFINE h == [s.hash EXCEPT ![t] = x]
<1>1. s \in States /\ s.hash \in [T -> HashEntry]
  BY DEF MemOk, States
<1>2. h \in [T -> HashEntry] /\ h[t] = x /\ \A u \in T : u # t => h[u] = s.hash[u]
  BY <1>1
<1>3. [s EXCEPT !.hash = [@ EXCEPT ![t] = x]] = State(s.chunks, h)
  BY <1>1 DEF States, State
<1> HIDE DEF h
<1>4. \A u \in T : h[u].addr = s.hash[u].addr /\ h[u].allocated = s.hash[u].allocated
  BY <1>2
<1>5. MemOk(State(s.chunks, h))
  BY <1>2, <1>4, SameHolders
<1>6. QED
  BY <1>3, <1>5

LEMMA UseOverOk ==
    ASSUME TensorsOk(tensors), NEW s, MemOk(s), NEW p \in T
    PROVE  MemOk(UseOver(s, p))
<1> DEFINE x == [s.hash[p] EXCEPT !.children = s.hash[p].children - 1]
           less == [s EXCEPT !.hash = [@ EXCEPT ![p] = x]]
           root == tensors[p].root
           y == [less.hash[root] EXCEPT !.views = less.hash[root].views - 1]
           fewer == [less EXCEPT !.hash = [@ EXCEPT ![root] = y]]
<1>1. s.hash \in [T -> HashEntry]
  BY DEF MemOk, States
<1>2. x \in HashEntry /\ x.addr = s.hash[p].addr /\ x.allocated = s.hash[p].allocated
  <2> DEFINE k == s.hash[p].children - 1
  <2>1. k \in Int /\ s.hash[p] \in HashEntry
    BY <1>1, HashTyped
  <2> HIDE DEF k
  <2>2. QED
    BY <2>1 DEF HashEntry
<1>3. UseOver(s, p) = IF ~Unused(less, p) THEN less
                      ELSE IF IsView(tensors, p) THEN FreeIfUnused(fewer, root)
                      ELSE FreeIfUnused(less, p)
  <2>1. less = [s EXCEPT !.hash[p].children = @ - 1]
    OBVIOUS
  <2> HIDE DEF less
  <2>2. fewer = [less EXCEPT !.hash[root].views = @ - 1]
    OBVIOUS
  <2> HIDE DEF fewer
  <2>3. QED
    BY <2>1, <2>2 DEF UseOver
<1> HIDE DEF x
<1>4. MemOk(less)
  BY <1>2, CountedOk
<1> HIDE DEF less
<1>5. IsView(tensors, p) => MemOk(fewer) /\ root \in T
  <2> SUFFICES ASSUME IsView(tensors, p) PROVE MemOk(fewer) /\ root \in T
    OBVIOUS
  <2>1. root \in T
    BY DEF TensorsOk, TensorOk, T, IsView
  <2>2. less.hash \in [T -> HashEntry]
    BY <1>4 DEF MemOk, States
  <2>3. y \in HashEntry /\ y.addr = less.hash[root].addr /\ y.allocated = less.hash[root].allocated
    <3> DEFINE k == less.hash[root].views - 1
    <3>1. k \in Int /\ less.hash[root] \in HashEntry
      <4> HIDE DEF root
      <4>1. QED
        BY <2>1, <2>2, HashTyped
    <3> HIDE DEF k
    <3>2. QED
      BY <3>1 DEF HashEntry
  <2> HIDE DEF y, root
  <2>4. QED
    BY <1>4, <2>1, <2>3, CountedOk
<1> HIDE DEF fewer, root
<1>6. QED
  BY <1>3, <1>4, <1>5, FreeIfUnusedOk

LEMMA AllocateAllOk ==
    ASSUME TensorsOk(tensors), NEW s, MemOk(s), NEW ts, ts \in Seq(T)
    PROVE  MemOk(AllocateAll(s, ts))
<1> DEFINE V == {r \in States : MemOk(r)}
           n == Len(ts)
           step == [i \in 1..n |-> [r \in V |-> AllocateNode(r, ts[i])]]
           Is(f) == f = [i \in 0..n |-> IF i = 0 THEN s ELSE AllocateNode(f[i - 1], ts[i])]
<1>1. n \in Nat /\ \A i \in 1..n : ts[i] \in T
  BY ElementOfSeq
<1>2. s \in V
  BY DEF MemOk
<1>3. \A i \in 1..n, r \in V : AllocateNode(r, ts[i]) \in V
  <2> SUFFICES ASSUME NEW i \in 1..n, NEW r \in V PROVE AllocateNode(r, ts[i]) \in V
    OBVIOUS
  <2>1. MemOk(AllocateNode(r, ts[i]))
    BY <1>1, AllocateNodeOk
  <2>2. QED
    BY <2>1 DEF MemOk
<1> HIDE DEF V
<1>4. step \in [1..n -> [V -> V]]
  BY <1>3
<1>5. PICK f : Follows(f, n, V, s, step)
  <2> HIDE DEF step, n
  <2>1. QED
    BY <1>1, <1>2, <1>4, Recursion
<1>6. Is(f)
  <2>1. f \in [0..n -> V] /\ f[0] = s /\ \A i \in 1..n : f[i] = step[i][f[i - 1]]
    BY <1>5 DEF Follows
  <2>2. ASSUME NEW i \in 0..n
        PROVE  f[i] = IF i = 0 THEN s ELSE AllocateNode(f[i - 1], ts[i])
    <3>1. CASE i = 0
      BY <2>1, <3>1
    <3>2. CASE i # 0
      <4>1. i \in 1..n /\ i - 1 \in 0..n
        BY <1>1, <3>2
      <4>2. f[i - 1] \in V /\ f[i] = step[i][f[i - 1]]
        BY <2>1, <4>1
      <4>3. QED
        BY <3>2, <4>1, <4>2
    <3>3. QED
      BY <3>1, <3>2
  <2> HIDE DEF n
  <2>3. QED
    BY <2>1, <2>2
<1>7. AllocateAll(s, ts) = (CHOOSE g : Is(g))[n]
  BY DEF AllocateAll
<1>8. PICK g : Is(g) /\ AllocateAll(s, ts) = g[n]
  <2> HIDE DEF Is
  <2>1. QED
    BY <1>6, <1>7
<1>9. \A m \in 0..n : g[m] \in V
  <2> DEFINE S == {m \in 0..n : g[m] \in V}
  <2>1. 0 \in S
    BY <1>1, <1>2, <1>8
  <2>2. \A m \in 0..(n - 1) : m \in S => m + 1 \in S
    <3> SUFFICES ASSUME NEW m \in 0..(n - 1), m \in S PROVE m + 1 \in S
      OBVIOUS
    <3>1. m + 1 \in 1..n /\ m + 1 \in 0..n /\ m + 1 # 0 /\ (m + 1) - 1 = m
      BY <1>1
    <3>2. g[m + 1] = AllocateNode(g[m], ts[m + 1]) /\ g[m] \in V
      BY <1>8, <3>1
    <3>3. QED
      BY <1>3, <3>1, <3>2
  <2>3. \A m \in 0..n : m \in S
    <3> HIDE DEF S, Is, n
    <3>1. QED
      BY <1>1, <2>1, <2>2, Induction
  <2>4. QED
    BY <2>3
<1>10. g[n] \in V
  BY <1>1, <1>9
<1>11. QED
  BY <1>8, <1>10 DEF V

LEMMA UsesOverOk ==
    ASSUME TensorsOk(tensors), NEW s, MemOk(s), NEW ts, ts \in Seq(T)
    PROVE  MemOk(UsesOver(s, ts))
<1> DEFINE V == {r \in States : MemOk(r)}
           n == Len(ts)
           step == [i \in 1..n |-> [r \in V |-> UseOver(r, ts[i])]]
           Is(f) == f = [i \in 0..n |-> IF i = 0 THEN s ELSE UseOver(f[i - 1], ts[i])]
<1>1. n \in Nat /\ \A i \in 1..n : ts[i] \in T
  BY ElementOfSeq
<1>2. s \in V
  BY DEF MemOk
<1>3. \A i \in 1..n, r \in V : UseOver(r, ts[i]) \in V
  <2> SUFFICES ASSUME NEW i \in 1..n, NEW r \in V PROVE UseOver(r, ts[i]) \in V
    OBVIOUS
  <2>1. MemOk(UseOver(r, ts[i]))
    BY <1>1, UseOverOk
  <2>2. QED
    BY <2>1 DEF MemOk
<1> HIDE DEF V
<1>4. step \in [1..n -> [V -> V]]
  BY <1>3
<1>5. PICK f : Follows(f, n, V, s, step)
  <2> HIDE DEF step, n
  <2>1. QED
    BY <1>1, <1>2, <1>4, Recursion
<1>6. Is(f)
  <2>1. f \in [0..n -> V] /\ f[0] = s /\ \A i \in 1..n : f[i] = step[i][f[i - 1]]
    BY <1>5 DEF Follows
  <2>2. ASSUME NEW i \in 0..n
        PROVE  f[i] = IF i = 0 THEN s ELSE UseOver(f[i - 1], ts[i])
    <3>1. CASE i = 0
      BY <2>1, <3>1
    <3>2. CASE i # 0
      <4>1. i \in 1..n /\ i - 1 \in 0..n
        BY <1>1, <3>2
      <4>2. f[i - 1] \in V /\ f[i] = step[i][f[i - 1]]
        BY <2>1, <4>1
      <4>3. QED
        BY <3>2, <4>1, <4>2
    <3>3. QED
      BY <3>1, <3>2
  <2> HIDE DEF n
  <2>3. QED
    BY <2>1, <2>2
<1>7. UsesOver(s, ts) = (CHOOSE g : Is(g))[n]
  BY DEF UsesOver
<1>8. PICK g : Is(g) /\ UsesOver(s, ts) = g[n]
  <2> HIDE DEF Is
  <2>1. QED
    BY <1>6, <1>7
<1>9. \A m \in 0..n : g[m] \in V
  <2> DEFINE S == {m \in 0..n : g[m] \in V}
  <2>1. 0 \in S
    BY <1>1, <1>2, <1>8
  <2>2. \A m \in 0..(n - 1) : m \in S => m + 1 \in S
    <3> SUFFICES ASSUME NEW m \in 0..(n - 1), m \in S PROVE m + 1 \in S
      OBVIOUS
    <3>1. m + 1 \in 1..n /\ m + 1 \in 0..n /\ m + 1 # 0 /\ (m + 1) - 1 = m
      BY <1>1
    <3>2. g[m + 1] = UseOver(g[m], ts[m + 1]) /\ g[m] \in V
      BY <1>8, <3>1
    <3>3. QED
      BY <1>3, <3>1, <3>2
  <2>3. \A m \in 0..n : m \in S
    <3> HIDE DEF S, Is, n
    <3>1. QED
      BY <1>1, <2>1, <2>2, Induction
  <2>4. QED
    BY <2>3
<1>10. g[n] \in V
  BY <1>1, <1>9
<1>11. QED
  BY <1>8, <1>10 DEF V

-----------------------------------------------------------------------------
(* Planning begins without chunks, nothing allocated, *)
LEMMA UnplannedOk == MemOk(State(NoChunks, [t \in T |-> Unplanned]))
<1> DEFINE h == [t \in T |-> Unplanned]
           s == State(NoChunks, h)
<1>1. Unplanned \in HashEntry /\ Unplanned.allocated = FALSE
  BY DEF Unplanned, HashEntry, Nowhere
<1>2. h \in [T -> HashEntry] /\ \A t \in T : h[t].allocated = FALSE
  BY <1>1
<1> HIDE DEF h
<1>3. NoChunks \in Seq(Chunk) /\ Len(NoChunks) = 0
  BY DEF NoChunks
<1>4. s \in States /\ s.chunks = NoChunks /\ s.hash = h
  BY <1>2, <1>3 DEF State, States
<1> HIDE DEF s
<1>5. \A c \in 1..Len(s.chunks) : FALSE
  BY <1>3, <1>4
<1>6. MemOk(s)
  BY <1>2, <1>4, <1>5 DEF MemOk
<1>7. QED
  BY <1>6 DEF s, h

(* and each tensor has so many uses and views.                             *)
LEMMA UsesFinite ==
    ASSUME graph.nodes \in Seq(T), TensorsOk(tensors), NEW t \in T
    PROVE  IsFiniteSet(Uses(t)) /\ IsFiniteSet(Views(t))
<1> DEFINE n == Len(graph.nodes)
           I == 1..n
           J == 1..2
<1>1. n \in Nat /\ DOMAIN graph.nodes = I /\ \A i \in I : graph.nodes[i] \in T
  BY ElementOfSeq
<1>2. IsFiniteSet(I) /\ IsFiniteSet(J)
  <2>1. \A a, b \in Int : IsFiniteSet(a..b)
    BY FS_Interval
  <2>2. 1 \in Int /\ 2 \in Int /\ n \in Int
    BY <1>1
  <2> HIDE DEF n
  <2>3. IsFiniteSet(1..n) /\ IsFiniteSet(1..2)
    BY <2>1, <2>2, Zenon
  <2>4. QED
    BY <2>3
<1>3. IsFiniteSet(Views(t))
  <2>1. Views(t) \subseteq I
    BY <1>1 DEF Views
  <2>2. QED
    BY <1>2, <2>1, FS_Subset
<1>4. \A i \in I : DOMAIN Src(graph.nodes[i]) \subseteq J
  <2> SUFFICES ASSUME NEW i \in I PROVE DOMAIN Src(graph.nodes[i]) \subseteq J
    OBVIOUS
  <2>1. graph.nodes[i] \in 1..Len(tensors)
    BY <1>1 DEF T, TensorsOk
  <2>2. /\ Src(graph.nodes[i]) \in Seq(1..(graph.nodes[i] - 1))
        /\ Len(Src(graph.nodes[i])) <= 2
    BY <2>1 DEF TensorsOk, TensorOk, Src
  <2>3. /\ DOMAIN Src(graph.nodes[i]) = 1..Len(Src(graph.nodes[i]))
        /\ Len(Src(graph.nodes[i])) \in Nat
    BY <2>2
  <2>4. QED
    BY <2>2, <2>3
<1>5. Uses(t) \subseteq I \X J
  <2> DEFINE At_(i) == {k \in DOMAIN Src(graph.nodes[i]) : Src(graph.nodes[i])[k] = t}
  <2>1. Uses(t) = UNION {{<<i, j>> : j \in At_(i)} : i \in I}
    BY <1>1 DEF Uses
  <2>2. \A i \in I : At_(i) \subseteq J
    BY <1>4
  <2> HIDE DEF At_, I, J
  <2>3. QED
    BY <2>1, <2>2
<1>6. IsFiniteSet(Uses(t))
  <2> HIDE DEF I, J
  <2>1. IsFiniteSet(I \X J)
    BY <1>2, FS_Product
  <2>2. QED
    BY <1>5, <2>1, FS_Subset
<1>7. QED
  BY <1>3, <1>6

LEMMA CountsTyped ==
    ASSUME graph.nodes \in Seq(T), TensorsOk(tensors), NEW t \in T
    PROVE  Cardinality(Uses(t)) \in Nat /\ Cardinality(Views(t)) \in Nat
BY UsesFinite, FS_CardinalityType

Counted(h) ==
    [t \in T |-> [h[t] EXCEPT !.children = Cardinality(Uses(t)),
                              !.views = Cardinality(Views(t))]]

LEMMA CountsOk ==
    ASSUME graph.nodes \in Seq(T), TensorsOk(tensors), NEW s, MemOk(s)
    PROVE  MemOk(State(s.chunks, Counted(s.hash)))
<1> DEFINE h == Counted(s.hash)
<1>1. s.hash \in [T -> HashEntry]
  BY DEF MemOk, States
<1>2. ASSUME NEW t \in T
      PROVE  h[t] \in HashEntry /\ h[t].addr = s.hash[t].addr
             /\ h[t].allocated = s.hash[t].allocated
  <2> DEFINE x == Cardinality(Uses(t))
             y == Cardinality(Views(t))
  <2>1. x \in Nat /\ y \in Nat
    BY CountsTyped
  <2>2. h[t] = [s.hash[t] EXCEPT !.children = x, !.views = y]
    BY DEF Counted
  <2> HIDE DEF x, y, h
  <2>3. s.hash[t] \in HashEntry /\ x \in Int /\ y \in Int
    BY <1>1, <2>1
  <2>4. QED
    BY <2>2, <2>3 DEF HashEntry
<1>3. h \in [T -> HashEntry]
  <2>1. h = [t \in T |-> h[t]]
    BY DEF Counted
  <2> HIDE DEF h
  <2>2. QED
    BY <1>2, <2>1
<1> HIDE DEF h
<1>4. MemOk(State(s.chunks, h))
  BY <1>2, <1>3, SameHolders
<1>5. QED
  BY <1>4 DEF h

-----------------------------------------------------------------------------
(* ggml_build_forward_expand.  What a graph lists, and what was visited    *)
(* and still waits for the tensors it is computed from.                    *)
Lists(ts, g) ==
    {t \in DOMAIN ts : \/ \E i \in 1..Len(g.nodes) : g.nodes[i] = t
                       \/ \E i \in 1..Len(g.leafs) : g.leafs[i] = t}

Pending(ts, g) == g.visited \ Lists(ts, g)

(* Every tensor once, every node behind its sources. *)
NodesOk(ts, nodes) ==
    /\ nodes \in Seq(DOMAIN ts)
    /\ \A i \in 1..Len(nodes) : ~IsLeaf(ts, nodes[i])
    /\ \A i, k \in 1..Len(nodes) : i # k => nodes[i] # nodes[k]
    /\ \A i \in 1..Len(nodes) : \A j \in 1..Len(ts[nodes[i]].src) :
          \/ IsLeaf(ts, ts[nodes[i]].src[j])
          \/ \E k \in 1..(i - 1) : nodes[k] = ts[nodes[i]].src[j]

LeafsOk(ts, leafs) ==
    /\ leafs \in Seq(DOMAIN ts)
    /\ \A i \in 1..Len(leafs) : IsLeaf(ts, leafs[i])
    /\ \A i, k \in 1..Len(leafs) : i # k => leafs[i] # leafs[k]

Wellformed(ts, g) ==
    /\ g \in Graphs(ts) /\ NodesOk(ts, g.nodes) /\ LeafsOk(ts, g.leafs)
    /\ Lists(ts, g) \subseteq g.visited
    /\ \A t \in Lists(ts, g) : \A j \in 1..Len(ts[t].src) : ts[t].src[j] \in Lists(ts, g)

Appends(r, s, x, S) ==
    /\ r \in Seq(S) /\ Len(r) = Len(s) + 1 /\ r[Len(s) + 1] = x
    /\ \A i \in 1..Len(s) : r[i] = s[i]

LEMMA AppendIs ==
    ASSUME NEW S, NEW s \in Seq(S), NEW x \in S
    PROVE  Appends(Append(s, x), s, x, S)
BY DEF Appends

LEMMA SrcTyped ==
    ASSUME NEW ts, TensorsOk(ts), NEW t \in DOMAIN ts
    PROVE  /\ DOMAIN ts = 1..Len(ts) /\ Len(ts) \in Nat /\ t \in Nat
           /\ ts[t].src \in Seq(1..(t - 1)) /\ Len(ts[t].src) \in Nat
           /\ DOMAIN ts[t].src = 1..Len(ts[t].src)
           /\ \A j \in 1..Len(ts[t].src) :
                 ts[t].src[j] \in DOMAIN ts /\ ts[t].src[j] < t
<1>1. DOMAIN ts = 1..Len(ts) /\ Len(ts) \in Nat /\ TensorOk(ts, t)
  BY DEF TensorsOk
<1>2. ts[t].src \in Seq(1..(t - 1))
  BY <1>1 DEF TensorOk
<1>3. \A j \in 1..Len(ts[t].src) : ts[t].src[j] \in 1..(t - 1)
  BY <1>2, ElementOfSeq
<1>4. 1..(t - 1) \subseteq DOMAIN ts /\ t \in Nat
  BY <1>1
<1>5. QED
  BY <1>1, <1>2, <1>3, <1>4

(* A tensor is listed, when its sources are. *)
LEMMA ListedIs ==
    ASSUME NEW ts, TensorsOk(ts), NEW g, Wellformed(ts, g), NEW t \in Pending(ts, g),
           \A j \in 1..Len(ts[t].src) : ts[t].src[j] \in Lists(ts, g)
    PROVE  /\ Wellformed(ts, Listed(ts, g, t))
           /\ Lists(ts, Listed(ts, g, t)) = Lists(ts, g) \cup {t}
           /\ Listed(ts, g, t).visited = g.visited
<1> DEFINE D == DOMAIN ts
           h == Listed(ts, g, t)
           L == Lists(ts, g)
<1>1. /\ g \in Graphs(ts) /\ g.visited \subseteq D /\ g.nodes \in Seq(D) /\ g.leafs \in Seq(D)
      /\ Len(g.nodes) \in Nat /\ Len(g.leafs) \in Nat
  BY DEF Wellformed, Graphs
<1>2. t \in D /\ t \notin L /\ t \in g.visited
  BY <1>1 DEF Pending
<1>3. /\ \A i \in 1..Len(g.nodes) : g.nodes[i] \in D /\ g.nodes[i] \in L /\ g.nodes[i] # t
      /\ \A i \in 1..Len(g.leafs) : g.leafs[i] \in D /\ g.leafs[i] \in L /\ g.leafs[i] # t
  <2>1. /\ \A i \in 1..Len(g.nodes) : g.nodes[i] \in D
        /\ \A i \in 1..Len(g.leafs) : g.leafs[i] \in D
    BY <1>1, ElementOfSeq
  <2>2. QED
    BY <1>2, <2>1 DEF Lists
<1>4. CASE IsLeaf(ts, t)
  <2> DEFINE r == Append(g.leafs, t)
  <2>1. h \in Graphs(ts) /\ h.visited = g.visited /\ h.nodes = g.nodes /\ h.leafs = r
    <3>1. Appends(r, g.leafs, t, D)
      BY <1>1, <1>2, AppendIs
    <3>2. r \in Seq(D)
      BY <3>1 DEF Appends
    <3>3. h = [g EXCEPT !.leafs = r]
      BY <1>4 DEF Listed
    <3> HIDE DEF r, h
    <3>4. QED
      BY <1>1, <3>2, <3>3 DEF Graphs
  <2>2. /\ r \in Seq(D) /\ Len(r) = Len(g.leafs) + 1 /\ r[Len(g.leafs) + 1] = t
        /\ \A i \in 1..Len(g.leafs) : r[i] = g.leafs[i]
    <3>1. Appends(r, g.leafs, t, D)
      BY <1>1, <1>2, AppendIs
    <3> HIDE DEF r
    <3>2. QED
      BY <3>1 DEF Appends
  <2> HIDE DEF r, h
  <2>3. \A i \in 1..Len(r) : i \in 1..Len(g.leafs) \/ i = Len(g.leafs) + 1
    BY <1>1, <2>2
  <2>4. 1..Len(g.leafs) \subseteq 1..Len(r) /\ Len(g.leafs) + 1 \in 1..Len(r)
    BY <1>1, <2>2
  <2>5. Lists(ts, h) = L \cup {t}
    <3>1. \A u : (\E i \in 1..Len(r) : r[i] = u)
                    <=> u = t \/ \E i \in 1..Len(g.leafs) : g.leafs[i] = u
      BY <2>2, <2>3, <2>4
    <3>2. \A u : u \in Lists(ts, h) <=> /\ u \in DOMAIN ts
                                       /\ \/ \E i \in 1..Len(g.nodes) : g.nodes[i] = u
                                          \/ \E i \in 1..Len(r) : r[i] = u
      BY <2>1 DEF Lists
    <3>3. \A u : u \in L <=> /\ u \in DOMAIN ts
                            /\ \/ \E i \in 1..Len(g.nodes) : g.nodes[i] = u
                               \/ \E i \in 1..Len(g.leafs) : g.leafs[i] = u
      BY DEF Lists
    <3> HIDE DEF L
    <3>4. QED
      BY <1>2, <3>1, <3>2, <3>3
  <2>6. LeafsOk(ts, r)
    <3>1. \A i \in 1..Len(g.leafs) : IsLeaf(ts, g.leafs[i])
      BY DEF Wellformed, LeafsOk
    <3>2. \A i, k \in 1..Len(g.leafs) : i # k => g.leafs[i] # g.leafs[k]
      BY DEF Wellformed, LeafsOk
    <3>3. \A i \in 1..Len(r) : IsLeaf(ts, r[i])
      BY <1>4, <2>2, <2>3, <3>1
    <3>4. \A i, k \in 1..Len(r) : i # k => r[i] # r[k]
      BY <1>3, <2>2, <2>3, <3>2
    <3>5. QED
      BY <2>2, <3>3, <3>4 DEF LeafsOk
  <2>7. \A u \in Lists(ts, h) : \A j \in 1..Len(ts[u].src) : ts[u].src[j] \in Lists(ts, h)
    BY <2>5 DEF Wellformed
  <2>8. Lists(ts, h) \subseteq h.visited
    BY <1>2, <2>1, <2>5 DEF Wellformed
  <2>9. Wellformed(ts, h)
    BY <2>1, <2>6, <2>7, <2>8 DEF Wellformed
  <2>10. QED
    BY <2>1, <2>5, <2>9 DEF h
<1>5. CASE ~IsLeaf(ts, t)
  <2> DEFINE r == Append(g.nodes, t)
             n == Len(g.nodes)
  <2>1. h \in Graphs(ts) /\ h.visited = g.visited /\ h.nodes = r /\ h.leafs = g.leafs
    <3>1. Appends(r, g.nodes, t, D)
      BY <1>1, <1>2, AppendIs
    <3>2. r \in Seq(D)
      BY <3>1 DEF Appends
    <3>3. h = [g EXCEPT !.nodes = r]
      BY <1>5 DEF Listed
    <3> HIDE DEF r, h
    <3>4. QED
      BY <1>1, <3>2, <3>3 DEF Graphs
  <2>2. /\ r \in Seq(D) /\ Len(r) = n + 1 /\ r[n + 1] = t
        /\ \A i \in 1..n : r[i] = g.nodes[i]
    <3>1. Appends(r, g.nodes, t, D)
      BY <1>1, <1>2, AppendIs
    <3> HIDE DEF r
    <3>2. QED
      BY <3>1 DEF Appends
  <2> HIDE DEF r, h
  <2>3. \A i \in 1..Len(r) : i \in 1..n \/ i = n + 1
    BY <1>1, <2>2
  <2>4. 1..n \subseteq 1..Len(r) /\ n + 1 \in 1..Len(r)
    BY <1>1, <2>2
  <2>5. Lists(ts, h) = L \cup {t}
    <3>1. \A u : (\E i \in 1..Len(r) : r[i] = u) <=> u = t \/ \E i \in 1..n : g.nodes[i] = u
      BY <2>2, <2>3, <2>4
    <3>2. \A u : u \in Lists(ts, h) <=> /\ u \in DOMAIN ts
                                       /\ \/ \E i \in 1..Len(r) : r[i] = u
                                          \/ \E i \in 1..Len(g.leafs) : g.leafs[i] = u
      BY <2>1 DEF Lists
    <3>3. \A u : u \in L <=> /\ u \in DOMAIN ts
                            /\ \/ \E i \in 1..n : g.nodes[i] = u
                               \/ \E i \in 1..Len(g.leafs) : g.leafs[i] = u
      BY DEF Lists
    <3> HIDE DEF L
    <3>4. QED
      BY <1>2, <3>1, <3>2, <3>3
  <2>6. NodesOk(ts, r)
    <3>1. \A i \in 1..n : ~IsLeaf(ts, g.nodes[i])
      BY DEF Wellformed, NodesOk
    <3>2. \A i, k \in 1..n : i # k => g.nodes[i] # g.nodes[k]
      BY DEF Wellformed, NodesOk
    <3>3. \A i \in 1..n : \A j \in 1..Len(ts[g.nodes[i]].src) :
              \/ IsLeaf(ts, ts[g.nodes[i]].src[j])
              \/ \E k \in 1..(i - 1) : g.nodes[k] = ts[g.nodes[i]].src[j]
      BY DEF Wellformed, NodesOk
    <3>4. \A i \in 1..Len(r) : ~IsLeaf(ts, r[i])
      BY <1>5, <2>2, <2>3, <3>1
    <3>5. \A i, k \in 1..Len(r) : i # k => r[i] # r[k]
      BY <1>3, <2>2, <2>3, <3>2
    <3>6. ASSUME NEW i \in 1..Len(r), NEW j \in 1..Len(ts[r[i]].src)
          PROVE  \/ IsLeaf(ts, ts[r[i]].src[j])
                 \/ \E k \in 1..(i - 1) : r[k] = ts[r[i]].src[j]
      <4>1. CASE i \in 1..n
        <5>1. r[i] = g.nodes[i] /\ \A k \in 1..(i - 1) : r[k] = g.nodes[k]
          BY <1>1, <2>2, <4>1
        <5>2. QED
          BY <3>3, <4>1, <5>1
      <4>2. CASE i = n + 1
        <5>1. r[i] = t /\ ts[t].src[j] \in L
          BY <2>2, <4>2
        <5>2. CASE \E k \in 1..n : g.nodes[k] = ts[t].src[j]
          <6>1. 1..n = 1..(i - 1)
            BY <1>1, <4>2
          <6>2. QED
            BY <2>2, <5>1, <5>2, <6>1
        <5>3. CASE \E k \in 1..Len(g.leafs) : g.leafs[k] = ts[t].src[j]
          BY <5>1, <5>3 DEF Wellformed, LeafsOk
        <5>4. QED
          BY <5>1, <5>2, <5>3 DEF Lists
      <4>3. QED
        BY <2>3, <4>1, <4>2
    <3>7. QED
      BY <2>2, <3>4, <3>5, <3>6 DEF NodesOk
  <2>7. \A u \in Lists(ts, h) : \A j \in 1..Len(ts[u].src) : ts[u].src[j] \in Lists(ts, h)
    BY <2>5 DEF Wellformed
  <2>8. Lists(ts, h) \subseteq h.visited
    BY <1>2, <2>1, <2>5 DEF Wellformed
  <2>9. Wellformed(ts, h)
    BY <2>1, <2>6, <2>7, <2>8 DEF Wellformed
  <2>10. QED
    BY <2>1, <2>5, <2>9 DEF h
<1>6. QED
  BY <1>4, <1>5

(* Steps one after the other. *)
Turned(r, steps, g, G) == \E f \in [0..Len(steps) -> G] :
    f[0] = g /\ (\A i \in 1..Len(steps) : f[i] = steps[i][f[i - 1]]) /\ r = f[Len(steps)]

LEMMA InTurnIs ==
    ASSUME NEW G, NEW steps \in Seq([G -> G]), NEW g \in G
    PROVE  Turned(InTurn(steps, g), steps, g, G)
<1> DEFINE n == Len(steps)
           step == [i \in 1..n |-> steps[i]]
           Is(f) == f = [j \in 0..n |-> IF j = 0 THEN g ELSE steps[j][f[j - 1]]]
<1>1. n \in Nat /\ \A i \in 1..n : steps[i] \in [G -> G]
  BY ElementOfSeq
<1>2. step \in [1..n -> [G -> G]]
  BY <1>1
<1>3. PICK f : Follows(f, n, G, g, step)
  <2> HIDE DEF step, n
  <2>1. QED
    BY <1>1, <1>2, Recursion
<1>4. Is(f)
  <2>1. f \in [0..n -> G] /\ f[0] = g /\ \A i \in 1..n : f[i] = steps[i][f[i - 1]]
    BY <1>3 DEF Follows
  <2>2. \A i \in 0..n : i = 0 \/ (i \in 1..n /\ i # 0)
    BY <1>1
  <2>3. \A i \in 0..n : f[i] = IF i = 0 THEN g ELSE steps[i][f[i - 1]]
    BY <2>1, <2>2
  <2> HIDE DEF n
  <2>4. QED
    BY <2>1, <2>3
<1>5. InTurn(steps, g) = (CHOOSE e : Is(e))[n]
  BY DEF InTurn
<1>6. PICK e : Is(e) /\ InTurn(steps, g) = e[n]
  <2> HIDE DEF Is
  <2>1. QED
    BY <1>4, <1>5
<1>7. e[0] = g /\ \A i \in 1..n : e[i] = steps[i][e[i - 1]]
  <2>1. 0 \in 0..n /\ \A i \in 1..n : i \in 0..n /\ i # 0
    BY <1>1
  <2>2. QED
    BY <1>6, <2>1
<1>8. \A m \in 0..n : e[m] \in G
  <2> DEFINE S == {m \in 0..n : e[m] \in G}
  <2>1. 0 \in S
    BY <1>1, <1>7
  <2>2. \A m \in 0..(n - 1) : m \in S => m + 1 \in S
    <3> SUFFICES ASSUME NEW m \in 0..(n - 1), m \in S PROVE m + 1 \in S
      OBVIOUS
    <3>1. m + 1 \in 1..n /\ m + 1 \in 0..n /\ (m + 1) - 1 = m
      BY <1>1
    <3>2. e[m + 1] = steps[m + 1][e[m]] /\ e[m] \in G /\ steps[m + 1] \in [G -> G]
      BY <1>1, <1>7, <3>1
    <3>3. QED
      BY <3>1, <3>2
  <2>3. \A m \in 0..n : m \in S
    <3> HIDE DEF S, n
    <3>1. QED
      BY <1>1, <2>1, <2>2, Induction
  <2>4. QED
    BY <2>3
<1>9. e \in [0..n -> G]
  <2>1. e = [j \in 0..n |-> e[j]]
    BY <1>6
  <2> HIDE DEF n
  <2>2. QED
    BY <1>8, <2>1
<1>10. QED
  BY <1>6, <1>7, <1>9 DEF Turned

(* What visiting tensor t does, if f visits those it is computed from.     *)
VisitSrc(ts, f, t) == [j \in DOMAIN ts[t].src |-> f[ts[t].src[j]]]

Body(ts, f, t) ==
    [g \in Graphs(ts) |->
        IF t \in g.visited THEN g
        ELSE Listed(ts, InTurn(VisitSrc(ts, f, t), Visited(g, t)), t)]

Visits(ts, f) == f = [t \in DOMAIN ts |-> Body(ts, f, t)]

SrcVisited(v, ts, f, t) ==
    /\ v \in Seq([Graphs(ts) -> Graphs(ts)]) /\ Len(v) = Len(ts[t].src)
    /\ \A j \in 1..Len(ts[t].src) : v[j] = f[ts[t].src[j]]

LEMMA BodyTyped ==
    ASSUME NEW ts, TensorsOk(ts), NEW t \in DOMAIN ts, NEW f,
           \A j \in 1..Len(ts[t].src) : f[ts[t].src[j]] \in [Graphs(ts) -> Graphs(ts)]
    PROVE  /\ Body(ts, f, t) \in [Graphs(ts) -> Graphs(ts)]
           /\ SrcVisited(VisitSrc(ts, f, t), ts, f, t)
<1> DEFINE G == Graphs(ts)
           v == VisitSrc(ts, f, t)
<1>1. DOMAIN ts[t].src = 1..Len(ts[t].src) /\ Len(ts[t].src) \in Nat
  BY SrcTyped
<1>2. /\ v \in Seq([G -> G]) /\ Len(v) = Len(ts[t].src)
      /\ \A j \in 1..Len(ts[t].src) : v[j] = f[ts[t].src[j]]
  <2> DEFINE n == Len(ts[t].src)
             F == [G -> G]
  <2>1. v = [j \in 1..n |-> f[ts[t].src[j]]]
    BY <1>1 DEF VisitSrc
  <2>2. \A j \in 1..n : f[ts[t].src[j]] \in F
    OBVIOUS
  <2> HIDE DEF n, F, v
  <2>3. v \in [1..n -> F]
    BY <2>1, <2>2
  <2>4. v \in Seq(F) /\ Len(v) = n
    BY <1>1, <2>3 DEF n
  <2>5. QED
    BY <2>1, <2>4 DEF n, F
<1> HIDE DEF v
<1>3. ASSUME NEW g \in G
      PROVE  (IF t \in g.visited THEN g ELSE Listed(ts, InTurn(v, Visited(g, t)), t)) \in G
  <2>1. Visited(g, t) \in G
    BY DEF Graphs, Visited
  <2>2. InTurn(v, Visited(g, t)) \in G
    <3>1. Turned(InTurn(v, Visited(g, t)), v, Visited(g, t), G)
      <4> HIDE DEF G
      <4>1. QED
        BY <1>2, <2>1, InTurnIs
    <3>2. Len(v) \in 0..Len(v)
      BY <1>1, <1>2
    <3> HIDE DEF G
    <3>3. QED
      BY <3>1, <3>2 DEF Turned
  <2> DEFINE h == InTurn(v, Visited(g, t))
  <2> HIDE DEF h
  <2>3. Listed(ts, h, t) \in G
    <3>1. /\ h \in G /\ h.nodes \in Seq(DOMAIN ts) /\ h.leafs \in Seq(DOMAIN ts)
          /\ h.visited \subseteq DOMAIN ts
      BY <2>2 DEF Graphs, h
    <3>2. Append(h.nodes, t) \in Seq(DOMAIN ts) /\ Append(h.leafs, t) \in Seq(DOMAIN ts)
      BY <3>1
    <3>3. [h EXCEPT !.leafs = Append(h.leafs, t)] \in G
      BY <3>1, <3>2 DEF Graphs
    <3>4. [h EXCEPT !.nodes = Append(h.nodes, t)] \in G
      BY <3>1, <3>2 DEF Graphs
    <3> HIDE DEF G
    <3>5. QED
      BY <3>3, <3>4 DEF Listed
  <2>4. QED
    BY <2>3 DEF h
<1>4. Body(ts, f, t) = [g \in G |-> IF t \in g.visited THEN g
                                    ELSE Listed(ts, InTurn(v, Visited(g, t)), t)]
  BY DEF Body, v
<1> HIDE DEF G
<1>5. Body(ts, f, t) \in [G -> G]
  BY <1>3, <1>4
<1>6. SrcVisited(v, ts, f, t)
  BY <1>2 DEF SrcVisited, G
<1>7. QED
  BY <1>5, <1>6 DEF G, v

LEMMA VisitsExist ==
    ASSUME NEW ts, TensorsOk(ts)
    PROVE  \E f : Visits(ts, f)
<1> DEFINE N == Len(ts)
           F == [Graphs(ts) -> Graphs(ts)]
           Upto(f, m) == f \in [1..m -> F] /\ \A t \in 1..m : f[t] = Body(ts, f, t)
           S == {m \in 0..N : \E f : Upto(f, m)}
<1>1. N \in Nat /\ DOMAIN ts = 1..N
  BY DEF TensorsOk
<1>2. 0 \in S
  <2> DEFINE f == [t \in 1..0 |-> 0]
  <2>1. \A t \in 1..0 : FALSE
    OBVIOUS
  <2>2. f \in [1..0 -> F]
    BY <2>1
  <2>3. Upto(f, 0)
    BY <2>1, <2>2
  <2> HIDE DEF f, Upto
  <2>4. QED
    BY <1>1, <2>3
<1>3. \A m \in 0..(N - 1) : m \in S => m + 1 \in S
  <2> SUFFICES ASSUME NEW m \in 0..(N - 1), m \in S PROVE m + 1 \in S
    OBVIOUS
  <2>1. PICK f : Upto(f, m)
    OBVIOUS
  <2> DEFINE t == m + 1
             b == Body(ts, f, t)
             h == [u \in 1..t |-> IF u <= m THEN f[u] ELSE b]
  <2>2. t \in DOMAIN ts /\ t \in 0..N
    BY <1>1
  <2>3. \A u \in 1..t : u \in DOMAIN ts /\ (u \in 1..m \/ u = t)
    BY <1>1
  <2>4. ASSUME NEW u \in 1..t, NEW j \in 1..Len(ts[u].src)
        PROVE  ts[u].src[j] \in 1..m /\ ts[u].src[j] \in 1..t /\ ts[u].src[j] <= m
    <3>1. ts[u].src[j] \in DOMAIN ts /\ ts[u].src[j] < u
      BY <2>3, SrcTyped
    <3>2. QED
      BY <1>1, <3>1
  <2>5. b \in F
    <3>1. \A j \in 1..Len(ts[t].src) : f[ts[t].src[j]] \in F
      BY <2>1, <2>4
    <3> HIDE DEF t
    <3>2. QED
      BY <2>2, <3>1, BodyTyped
  <2>6. h \in [1..t -> F]
    <3> HIDE DEF b, t, F
    <3>1. QED
      BY <2>1, <2>3, <2>5
  <2>7. \A u \in 1..t : h[u] = Body(ts, f, u)
    <3>1. \A u \in 1..m : u \in 1..t /\ u <= m
      OBVIOUS
    <3>2. t \in 1..t /\ ~(t <= m)
      OBVIOUS
    <3> HIDE DEF b, t
    <3>3. \A u \in 1..m : h[u] = f[u]
      BY <3>1
    <3>4. h[t] = b
      BY <3>2
    <3> HIDE DEF h
    <3>5. QED
      BY <2>1, <2>3, <3>3, <3>4 DEF b
  <2>8. ASSUME NEW u \in 1..t PROVE Body(ts, f, u) = Body(ts, h, u)
    <3>1. \A j \in 1..Len(ts[u].src) : h[ts[u].src[j]] = f[ts[u].src[j]]
      <4> HIDE DEF b, t
      <4>1. QED
        BY <2>4
    <3>2. DOMAIN ts[u].src = 1..Len(ts[u].src)
      BY <2>3, SrcTyped
    <3> HIDE DEF h, t
    <3>3. VisitSrc(ts, f, u) = VisitSrc(ts, h, u)
      BY <3>1, <3>2 DEF VisitSrc
    <3>4. QED
      BY <3>3 DEF Body
  <2>9. Upto(h, t)
    <3> HIDE DEF h, F, t
    <3>1. QED
      BY <2>6, <2>7, <2>8
  <2> HIDE DEF h, Upto
  <2>10. QED
    BY <2>2, <2>9
<1>4. \A m \in 0..N : m \in S
  <2> HIDE DEF S, N
  <2>1. QED
    BY <1>1, <1>2, <1>3, Induction
<1>5. PICK f : Upto(f, N)
  <2>1. N \in S
    BY <1>1, <1>4
  <2>2. QED
    BY <2>1
<1>6. f = [t \in DOMAIN ts |-> Body(ts, f, t)]
  <2> HIDE DEF N, F
  <2>1. QED
    BY <1>1, <1>5
<1>7. QED
  BY <1>6 DEF Visits

LEMMA VisitsTyped ==
    ASSUME NEW ts, TensorsOk(ts), NEW f, Visits(ts, f), NEW t \in DOMAIN ts
    PROVE  f[t] \in [Graphs(ts) -> Graphs(ts)]
<1> DEFINE F == [Graphs(ts) -> Graphs(ts)]
           W == {u \in DOMAIN ts : f[u] \notin F}
<1> SUFFICES ASSUME t \in W PROVE FALSE
  OBVIOUS
<1>1. DOMAIN ts = 1..Len(ts) /\ Len(ts) \in Nat
  BY DEF TensorsOk
<1>2. W \subseteq Nat /\ W # {}
  BY <1>1
<1>3. PICK x \in W : \A y \in W : x <= y
  <2> HIDE DEF W
  <2>1. QED
    BY <1>2, Smallest
<1>4. \A j \in 1..Len(ts[x].src) : f[ts[x].src[j]] \in F
  <2> SUFFICES ASSUME NEW j \in 1..Len(ts[x].src), f[ts[x].src[j]] \notin F PROVE FALSE
    OBVIOUS
  <2>1. ts[x].src[j] \in DOMAIN ts /\ ts[x].src[j] < x
    BY SrcTyped
  <2>2. ts[x].src[j] \in W
    BY <2>1
  <2>3. x <= ts[x].src[j]
    BY <1>3, <2>2
  <2>4. QED
    BY <1>1, <2>1, <2>3
<1>5. f[x] = Body(ts, f, x)
  BY DEF Visits
<1>6. f[x] \in F
  <2>1. x \in DOMAIN ts
    OBVIOUS
  <2> HIDE DEF W
  <2>2. Body(ts, f, x) \in [Graphs(ts) -> Graphs(ts)]
    BY <1>4, <2>1, BodyTyped
  <2>3. QED
    BY <1>5, <2>2
<1>7. QED
  BY <1>6

LEMMA SrcVisits ==
    ASSUME NEW ts, TensorsOk(ts), NEW f, Visits(ts, f), NEW t \in DOMAIN ts
    PROVE  SrcVisited(VisitSrc(ts, f, t), ts, f, t)
<1>1. \A j \in 1..Len(ts[t].src) : ts[t].src[j] \in DOMAIN ts
  BY SrcTyped
<1>2. \A j \in 1..Len(ts[t].src) : f[ts[t].src[j]] \in [Graphs(ts) -> Graphs(ts)]
  BY <1>1, VisitsTyped
<1>3. QED
  BY <1>2, BodyTyped

(* What a step may do to a graph, with nothing pending below t. *)
Above(ts, g, t) == Wellformed(ts, g) /\ \A p \in Pending(ts, g) : p > t

Extends(ts, g, h) ==
    /\ Wellformed(ts, h) /\ Lists(ts, g) \subseteq Lists(ts, h)
    /\ Pending(ts, h) = Pending(ts, g)

(* A visit lists the tensor, and whatever it is computed from before it.   *)
LEMMA VisitIs ==
    ASSUME NEW ts, TensorsOk(ts), NEW f, Visits(ts, f), NEW t \in DOMAIN ts,
           \A u \in 1..(t - 1) : \A g \in Graphs(ts) : Above(ts, g, u) =>
              Extends(ts, g, f[u][g]) /\ u \in Lists(ts, f[u][g]),
           NEW g \in Graphs(ts), Above(ts, g, t)
    PROVE  Extends(ts, g, f[t][g]) /\ t \in Lists(ts, f[t][g])
<1> DEFINE G == Graphs(ts)
           n == Len(ts[t].src)
           v == VisitSrc(ts, f, t)
           a == Visited(g, t)
<1>1. /\ DOMAIN ts = 1..Len(ts) /\ t \in Nat /\ n \in Nat
      /\ \A j \in 1..n : /\ ts[t].src[j] \in DOMAIN ts /\ ts[t].src[j] < t
                         /\ ts[t].src[j] \in 1..(t - 1)
  <2>1. \A j \in 1..n : ts[t].src[j] \in DOMAIN ts /\ ts[t].src[j] < t
    BY SrcTyped
  <2>2. DOMAIN ts = 1..Len(ts) /\ t \in Nat /\ n \in Nat
    BY SrcTyped
  <2>3. QED
    BY <2>1, <2>2
<1>2. /\ v \in Seq([G -> G]) /\ Len(v) = n
      /\ \A j \in 1..n : v[j] = f[ts[t].src[j]]
  <2>1. SrcVisited(VisitSrc(ts, f, t), ts, f, t)
    BY SrcVisits
  <2>2. QED
    BY <2>1 DEF SrcVisited
<1>3. f[t][g] = IF t \in g.visited THEN g ELSE Listed(ts, InTurn(v, a), t)
  BY DEF Visits, Body
<1> HIDE DEF v
<1>4. CASE t \in g.visited
  <2>1. t \in Lists(ts, g)
    <3>1. t \notin Pending(ts, g)
      BY <1>1 DEF Above
    <3>2. QED
      BY <1>4, <3>1 DEF Pending
  <2>2. QED
    BY <1>3, <1>4, <2>1 DEF Extends, Above
<1>5. CASE t \notin g.visited
  <2>1. /\ a \in G /\ a.visited = g.visited \cup {t} /\ a.nodes = g.nodes /\ a.leafs = g.leafs
    BY DEF Graphs, Visited
  <2>2. Lists(ts, a) = Lists(ts, g)
    BY <2>1 DEF Lists
  <2>3. Pending(ts, a) = Pending(ts, g) \cup {t} /\ t \in Pending(ts, a)
    BY <1>5, <2>1, <2>2 DEF Pending, Above, Wellformed
  <2>4. Wellformed(ts, a)
    BY <2>1, <2>2 DEF Above, Wellformed
  <2> HIDE DEF a
  <2>5. Turned(InTurn(v, a), v, a, G)
    <3> HIDE DEF G
    <3>1. QED
      BY <1>2, <2>1, InTurnIs
  <2>6. PICK e \in [0..n -> G] :
            /\ e[0] = a /\ \A i \in 1..n : e[i] = v[i][e[i - 1]]
            /\ InTurn(v, a) = e[n]
    <3> HIDE DEF G
    <3>1. QED
      BY <1>2, <2>5 DEF Turned
  <2> DEFINE Done(m) == /\ Extends(ts, a, e[m])
                        /\ \A j \in 1..m : ts[t].src[j] \in Lists(ts, e[m])
             S == {m \in 0..n : Done(m)}
  <2>7. 0 \in S
    <3>1. Extends(ts, a, e[0])
      BY <2>4, <2>6 DEF Extends
    <3>2. QED
      BY <1>1, <3>1
  <2>8. \A m \in 0..(n - 1) : m \in S => m + 1 \in S
    <3> SUFFICES ASSUME NEW m \in 0..(n - 1), m \in S PROVE m + 1 \in S
      OBVIOUS
    <3> DEFINE u == ts[t].src[m + 1]
               k == m + 1
    <3>1. k \in 1..n /\ k \in 0..n /\ k - 1 = m /\ m \in 0..n
      BY <1>1
    <3>2. u \in 1..(t - 1) /\ u < t /\ u \in Nat
      BY <1>1, <3>1
    <3>3. e[k] = f[u][e[m]] /\ e[m] \in G
      BY <1>2, <2>6, <3>1
    <3>4. Extends(ts, a, e[m]) /\ \A j \in 1..m : ts[t].src[j] \in Lists(ts, e[m])
      OBVIOUS
    <3> HIDE DEF u, G, S
    <3>5. \A p \in Pending(ts, e[m]) : p > u
      <4>1. \A p \in Pending(ts, g) : p > t /\ p \in Nat
        <5>1. Pending(ts, g) \subseteq DOMAIN ts
          BY DEF Pending, Graphs
        <5>2. QED
          BY <1>1, <5>1 DEF Above
      <4>2. QED
        BY <1>1, <2>3, <3>2, <3>4, <4>1 DEF Extends
    <3>6. Extends(ts, e[m], e[k]) /\ u \in Lists(ts, e[k])
      <4>1. Above(ts, e[m], u)
        BY <3>4, <3>5 DEF Above, Extends
      <4>2. QED
        BY <3>2, <3>3, <4>1 DEF G
    <3>7. Extends(ts, a, e[k])
      BY <3>4, <3>6 DEF Extends
    <3>8. ASSUME NEW j \in 1..k PROVE ts[t].src[j] \in Lists(ts, e[k])
      <4>1. CASE j = k
        BY <3>6, <4>1 DEF u
      <4>2. CASE j # k
        <5>1. j \in 1..m
          BY <4>2
        <5>2. QED
          BY <3>4, <3>6, <5>1 DEF Extends
      <4>3. QED
        BY <4>1, <4>2
    <3>9. QED
      BY <3>1, <3>7, <3>8 DEF S
  <2>9. \A m \in 0..n : m \in S
    <3> HIDE DEF S, n
    <3>1. QED
      BY <1>1, <2>7, <2>8, Induction
  <2>10. Done(n)
    <3>1. n \in 0..n
      BY <1>1
    <3>2. QED
      BY <2>9, <3>1
  <2> DEFINE b == e[n]
             h == Listed(ts, b, t)
  <2>11. /\ Wellformed(ts, b) /\ Lists(ts, a) \subseteq Lists(ts, b)
         /\ Pending(ts, b) = Pending(ts, a)
         /\ \A j \in 1..n : ts[t].src[j] \in Lists(ts, b)
    BY <2>10 DEF Extends
  <2> HIDE DEF b
  <2>12. /\ Wellformed(ts, h) /\ Lists(ts, h) = Lists(ts, b) \cup {t} /\ h.visited = b.visited
    BY <2>3, <2>11, ListedIs
  <2>13. f[t][g] = h
    BY <1>3, <1>5, <2>6 DEF b
  <2> HIDE DEF h
  <2>14. Pending(ts, h) = Pending(ts, g)
    <3>1. Pending(ts, h) = Pending(ts, b) \ {t}
      BY <2>12 DEF Pending
    <3>2. t \notin Pending(ts, g)
      BY <1>5 DEF Pending
    <3>3. QED
      BY <2>3, <2>11, <3>1, <3>2
  <2>15. QED
    BY <2>2, <2>11, <2>12, <2>13, <2>14 DEF Extends
<1>6. QED
  BY <1>4, <1>5

LEMMA VisitsAll ==
    ASSUME NEW ts, TensorsOk(ts), NEW f, Visits(ts, f), NEW t \in DOMAIN ts
    PROVE  \A g \in Graphs(ts) : Above(ts, g, t) =>
              Extends(ts, g, f[t][g]) /\ t \in Lists(ts, f[t][g])
<1> DEFINE Ok(u) == \A g \in Graphs(ts) : Above(ts, g, u) =>
                       Extends(ts, g, f[u][g]) /\ u \in Lists(ts, f[u][g])
           W == {u \in DOMAIN ts : ~Ok(u)}
<1> SUFFICES ASSUME t \in W PROVE FALSE
  OBVIOUS
<1>1. DOMAIN ts = 1..Len(ts) /\ Len(ts) \in Nat
  BY DEF TensorsOk
<1>2. W \subseteq Nat /\ W # {}
  BY <1>1
<1>3. PICK x \in W : \A y \in W : x <= y
  <2> HIDE DEF W
  <2>1. QED
    BY <1>2, Smallest
<1>4. x \in DOMAIN ts /\ ~Ok(x)
  OBVIOUS
<1>5. ASSUME NEW u \in 1..(x - 1) PROVE Ok(u)
  <2>1. u \in DOMAIN ts /\ ~(x <= u)
    BY <1>1, <1>4
  <2>2. u \notin W
    BY <1>3, <2>1
  <2>3. QED
    BY <2>1, <2>2
<1>6. Ok(x)
  <2> SUFFICES ASSUME NEW g \in Graphs(ts), Above(ts, g, x)
               PROVE  Extends(ts, g, f[x][g]) /\ x \in Lists(ts, f[x][g])
    OBVIOUS
  <2>1. \A u \in 1..(x - 1) : \A e \in Graphs(ts) : Above(ts, e, u) =>
              Extends(ts, e, f[u][e]) /\ u \in Lists(ts, f[u][e])
    BY <1>5
  <2> HIDE DEF W
  <2>2. QED
    BY <1>4, <2>1, VisitIs
<1>7. QED
  BY <1>4, <1>6

(* ggml_build_forward_expand adds what a root is computed from, and it.    *)
LEMMA ExpandIs ==
    ASSUME NEW ts, TensorsOk(ts), NEW g, Wellformed(ts, g), Pending(ts, g) = {},
           NEW root \in DOMAIN ts
    PROVE  Extends(ts, g, Expand(ts, g, root)) /\ root \in Lists(ts, Expand(ts, g, root))
<1> DEFINE Is(f) == Visits(ts, f)
<1>1. \E f : Is(f)
  BY VisitsExist
<1>2. Expand(ts, g, root) = (CHOOSE f : Is(f))[root][g]
  BY DEF Expand, Visits, Body, VisitSrc
<1>3. PICK f : Is(f) /\ Expand(ts, g, root) = f[root][g]
  <2> HIDE DEF Is
  <2>1. QED
    BY <1>1, <1>2
<1>4. g \in Graphs(ts) /\ Above(ts, g, root)
  BY DEF Above, Wellformed
<1>5. Extends(ts, g, f[root][g]) /\ root \in Lists(ts, f[root][g])
  BY <1>3, <1>4, VisitsAll
<1>6. QED
  BY <1>3, <1>5

(* The graph of some roots lists them all. *)
Listing(ts, g, R) == Wellformed(ts, g) /\ Pending(ts, g) = {} /\ R \subseteq Lists(ts, g)

LEMMA NoGraphIs ==
    ASSUME NEW ts, TensorsOk(ts)
    PROVE  Listing(ts, NoGraph, {})
<1>1. NoGraph \in Graphs(ts)
  BY DEF NoGraph, Graphs
<1>2. /\ NoGraph.visited = {} /\ Len(NoGraph.nodes) = 0 /\ Len(NoGraph.leafs) = 0
      /\ NoGraph.nodes \in Seq(DOMAIN ts) /\ NoGraph.leafs \in Seq(DOMAIN ts)
  BY DEF NoGraph
<1>3. \A i \in 1..0 : FALSE
  OBVIOUS
<1>4. Lists(ts, NoGraph) = {}
  BY <1>2, <1>3 DEF Lists
<1>5. NodesOk(ts, NoGraph.nodes) /\ LeafsOk(ts, NoGraph.leafs)
  BY <1>2, <1>3 DEF NodesOk, LeafsOk
<1>6. QED
  BY <1>1, <1>2, <1>4, <1>5 DEF Listing, Wellformed, Pending

LEMMA GraphOfIs ==
    ASSUME NEW ts, TensorsOk(ts), NEW roots \in SUBSET DOMAIN ts
    PROVE  Listing(ts, GraphOf(ts, roots), roots)
<1> DEFINE n == Len(ts)
           G == {g \in Graphs(ts) : Wellformed(ts, g) /\ Pending(ts, g) = {}}
           Next_(g, t) == IF t \in roots THEN Expand(ts, g, t) ELSE g
           step == [t \in 1..n |-> [g \in G |-> Next_(g, t)]]
           Is(f) == f = [t \in 0..n |-> IF t = 0 THEN NoGraph
                                        ELSE IF t \in roots THEN Expand(ts, f[t - 1], t)
                                        ELSE f[t - 1]]
<1>1. n \in Nat /\ DOMAIN ts = 1..n
  BY DEF TensorsOk
<1>2. NoGraph \in G
  BY NoGraphIs DEF Listing, Wellformed
<1>3. ASSUME NEW g \in G, NEW t \in 1..n
      PROVE  /\ Next_(g, t) \in G /\ Lists(ts, g) \subseteq Lists(ts, Next_(g, t))
             /\ t \in roots => t \in Lists(ts, Next_(g, t))
  <2>1. CASE t \in roots
    <3>1. Extends(ts, g, Expand(ts, g, t)) /\ t \in Lists(ts, Expand(ts, g, t))
      BY <1>1, ExpandIs
    <3>2. Next_(g, t) = Expand(ts, g, t)
      BY <2>1
    <3> HIDE DEF Next_
    <3>3. QED
      BY <3>1, <3>2 DEF Extends, Wellformed
  <2>2. CASE t \notin roots
    BY <2>2
  <2>3. QED
    BY <2>1, <2>2
<1> HIDE DEF G
<1>4. step \in [1..n -> [G -> G]]
  BY <1>3
<1>5. PICK f : Follows(f, n, G, NoGraph, step)
  <2> HIDE DEF step, n
  <2>1. QED
    BY <1>1, <1>2, <1>4, Recursion
<1>6. Is(f)
  <2>1. f \in [0..n -> G] /\ f[0] = NoGraph /\ \A t \in 1..n : f[t] = step[t][f[t - 1]]
    BY <1>5 DEF Follows
  <2>2. ASSUME NEW t \in 0..n
        PROVE  f[t] = IF t = 0 THEN NoGraph
                      ELSE IF t \in roots THEN Expand(ts, f[t - 1], t) ELSE f[t - 1]
    <3>1. CASE t = 0
      BY <2>1, <3>1
    <3>2. CASE t # 0
      <4>1. t \in 1..n /\ t - 1 \in 0..n
        BY <1>1, <3>2
      <4>2. f[t - 1] \in G /\ f[t] = step[t][f[t - 1]]
        BY <2>1, <4>1
      <4>3. QED
        BY <3>2, <4>1, <4>2
    <3>3. QED
      BY <3>1, <3>2
  <2> HIDE DEF n
  <2>3. QED
    BY <2>1, <2>2
<1>7. GraphOf(ts, roots) = (CHOOSE g : Is(g))[n]
  BY DEF GraphOf
<1>8. PICK e : Is(e) /\ GraphOf(ts, roots) = e[n]
  <2> HIDE DEF Is
  <2>1. QED
    BY <1>6, <1>7
<1>9. e[0] = NoGraph /\ \A t \in 1..n : e[t] = Next_(e[t - 1], t)
  <2>1. 0 \in 0..n /\ \A t \in 1..n : t \in 0..n /\ t # 0
    BY <1>1
  <2>2. QED
    BY <1>8, <2>1
<1> DEFINE Done(m) == e[m] \in G /\ \A t \in 1..m : t \in roots => t \in Lists(ts, e[m])
<1>10. \A m \in 0..n : Done(m)
  <2> DEFINE S == {m \in 0..n : Done(m)}
  <2>1. 0 \in S
    BY <1>1, <1>2, <1>9
  <2>2. \A m \in 0..(n - 1) : m \in S => m + 1 \in S
    <3> SUFFICES ASSUME NEW m \in 0..(n - 1), m \in S PROVE m + 1 \in S
      OBVIOUS
    <3> DEFINE k == m + 1
    <3>1. k \in 1..n /\ k \in 0..n /\ k - 1 = m
      BY <1>1
    <3>2. e[k] = Next_(e[m], k) /\ e[m] \in G /\ \A t \in 1..m : t \in roots => t \in Lists(ts, e[m])
      BY <1>9, <3>1
    <3> HIDE DEF Next_
    <3>3. /\ e[k] \in G /\ Lists(ts, e[m]) \subseteq Lists(ts, e[k])
          /\ k \in roots => k \in Lists(ts, e[k])
      BY <1>3, <3>1, <3>2
    <3>4. \A t \in 1..k : t = k \/ t \in 1..m
      OBVIOUS
    <3>5. Done(k)
      BY <3>2, <3>3, <3>4
    <3>6. QED
      BY <3>1, <3>5
  <2>3. \A m \in 0..n : m \in S
    <3> HIDE DEF S, n
    <3>1. QED
      BY <1>1, <2>1, <2>2, Induction
  <2>4. QED
    BY <2>3
<1>11. Done(n)
  <2>1. n \in 0..n
    BY <1>1
  <2> HIDE DEF Done
  <2>2. QED
    BY <1>10, <2>1
<1>12. QED
  BY <1>1, <1>8, <1>11 DEF Listing, G

(* Whatever is not a sink is a source, of one that was created later.      *)
LEMMA SinksReach ==
    ASSUME NEW ts, TensorsOk(ts), NEW g, Listing(ts, g, Sinks(ts))
    PROVE  Lists(ts, g) = DOMAIN ts
<1> DEFINE n == Len(ts)
           W == {t \in DOMAIN ts : t \notin Lists(ts, g)}
           X == {n - t : t \in W}
<1>1. n \in Nat /\ DOMAIN ts = 1..n
  BY DEF TensorsOk
<1>2. SUFFICES ASSUME W # {} PROVE FALSE
  BY DEF Lists
<1>3. X \subseteq Nat /\ X # {}
  BY <1>1, <1>2
<1>4. PICK x \in X : \A y \in X : x <= y
  <2> HIDE DEF X
  <2>1. QED
    BY <1>3, Smallest
<1>5. PICK t \in W : x = n - t
  BY <1>4
<1>6. t \notin Sinks(ts)
  BY DEF Listing
<1>7. PICK u \in DOMAIN ts : t \in ToSet(ts[u].src)
  BY <1>6 DEF Sinks
<1>8. PICK j \in 1..Len(ts[u].src) : ts[u].src[j] = t
  <2>1. DOMAIN ts[u].src = 1..Len(ts[u].src)
    BY SrcTyped
  <2>2. QED
    BY <1>7, <2>1 DEF ToSet
<1>9. t < u
  BY <1>8, SrcTyped
<1>10. u \in Lists(ts, g)
  <2> SUFFICES ASSUME u \notin Lists(ts, g) PROVE FALSE
    OBVIOUS
  <2>1. n - u \in X
    OBVIOUS
  <2>2. x <= n - u
    BY <1>4, <2>1
  <2>3. QED
    BY <1>1, <1>5, <1>9, <2>2
<1>11. t \in Lists(ts, g)
  BY <1>8, <1>10 DEF Listing, Wellformed
<1>12. QED
  BY <1>11

(* A sequence without repetitions is as long as its set of elements.       *)
LEMMA LengthIs ==
    ASSUME NEW S, NEW s \in Seq(S), \A i, k \in 1..Len(s) : i # k => s[i] # s[k]
    PROVE  IsFiniteSet(ToSet(s)) /\ Cardinality(ToSet(s)) = Len(s)
<1> DEFINE I == 1..Len(s)
           f == [i \in I |-> s[i]]
<1>1. Len(s) \in Nat /\ DOMAIN s = I
  OBVIOUS
<1>2. f \in Bijection(I, ToSet(s))
  <2>1. \A u : u \in ToSet(s) <=> \E i \in I : f[i] = u
    BY <1>1 DEF ToSet
  <2>2. f \in [I -> ToSet(s)]
    BY <2>1
  <2>3. \A i, k \in I : f[i] = f[k] => i = k
    OBVIOUS
  <2>4. f \in Injection(I, ToSet(s))
    BY <2>2, <2>3 DEF Injection, IsInjective
  <2>5. f \in Surjection(I, ToSet(s))
    BY <2>1, <2>2 DEF Surjection
  <2>6. QED
    BY <2>4, <2>5 DEF Bijection
<1>3. IsFiniteSet(I) /\ Cardinality(I) = Len(s)
  <2>1. \A a, b \in Int : IsFiniteSet(a..b) /\ Cardinality(a..b) = IF a > b THEN 0 ELSE b - a + 1
    BY FS_Interval
  <2>2. QED
    BY <1>1, <2>1
<1>4. ExistsBijection(I, ToSet(s))
  BY <1>2 DEF ExistsBijection
<1> HIDE DEF I
<1>5. QED
  BY <1>3, <1>4, FS_Bijection

Ordered(ts, g) ==
    /\ ToSet(g.nodes) \cup ToSet(g.leafs) = DOMAIN ts
    /\ Len(g.nodes) + Len(g.leafs) = Len(ts)
    /\ \A i \in DOMAIN g.nodes : \A p \in ToSet(ts[g.nodes[i]].src) :
          IsLeaf(ts, p) \/ \E k \in 1..(i - 1) : g.nodes[k] = p

LEMMA ListedIsOrdered ==
    ASSUME NEW ts, TensorsOk(ts), NEW g, Wellformed(ts, g), Lists(ts, g) = DOMAIN ts
    PROVE  Ordered(ts, g)
<1> DEFINE A == ToSet(g.nodes)
           B == ToSet(g.leafs)
           D == DOMAIN ts
<1>1. /\ g.nodes \in Seq(D) /\ g.leafs \in Seq(D) /\ NodesOk(ts, g.nodes) /\ LeafsOk(ts, g.leafs)
      /\ DOMAIN g.nodes = 1..Len(g.nodes) /\ DOMAIN g.leafs = 1..Len(g.leafs)
  BY DEF Wellformed, Graphs
<1>2. A \cup B = D
  <2>1. \A u : u \in A <=> \E i \in 1..Len(g.nodes) : g.nodes[i] = u
    BY <1>1 DEF ToSet
  <2>2. \A u : u \in B <=> \E i \in 1..Len(g.leafs) : g.leafs[i] = u
    BY <1>1 DEF ToSet
  <2>3. A \subseteq D /\ B \subseteq D
    BY <1>1, <2>1, <2>2, ElementOfSeq
  <2>4. D \subseteq A \cup B
    BY <2>1, <2>2 DEF Lists
  <2>5. QED
    BY <2>3, <2>4
<1>3. A \cap B = {}
  <2>1. \A u \in A : ~IsLeaf(ts, u)
    BY <1>1 DEF ToSet, NodesOk
  <2>2. \A u \in B : IsLeaf(ts, u)
    BY <1>1 DEF ToSet, LeafsOk
  <2>3. QED
    BY <2>1, <2>2
<1>4. IsFiniteSet(A) /\ Cardinality(A) = Len(g.nodes)
  BY <1>1, LengthIs DEF NodesOk
<1>5. IsFiniteSet(B) /\ Cardinality(B) = Len(g.leafs)
  BY <1>1, LengthIs DEF LeafsOk
<1>6. Len(ts) \in Nat /\ D = 1..Len(ts) /\ Cardinality(D) = Len(ts)
  <2>1. \A a, b \in Int : Cardinality(a..b) = IF a > b THEN 0 ELSE b - a + 1
    BY FS_Interval
  <2>2. Len(ts) \in Nat /\ D = 1..Len(ts)
    BY DEF TensorsOk
  <2>3. QED
    BY <2>1, <2>2
<1>7. Len(g.nodes) + Len(g.leafs) = Len(ts)
  <2>1. Cardinality(A \cup B) = Cardinality(A) + Cardinality(B) - Cardinality(A \cap B)
    BY <1>4, <1>5, FS_Union
  <2>2. Cardinality(A \cap B) = 0
    BY <1>3, FS_EmptySet
  <2>3. Len(g.nodes) \in Nat /\ Len(g.leafs) \in Nat
    BY <1>1
  <2>4. Cardinality(A \cup B) = Len(ts)
    BY <1>2, <1>6
  <2>5. Len(ts) = Cardinality(A) + Cardinality(B) - 0
    BY <2>1, <2>2, <2>4
  <2>6. Len(ts) = Len(g.nodes) + Len(g.leafs) - 0
    BY <1>4, <1>5, <2>5
  <2>7. QED
    BY <2>3, <2>6
<1>8. ASSUME NEW i \in DOMAIN g.nodes, NEW p \in ToSet(ts[g.nodes[i]].src)
      PROVE  IsLeaf(ts, p) \/ \E k \in 1..(i - 1) : g.nodes[k] = p
  <2>1. g.nodes[i] \in D /\ i \in 1..Len(g.nodes)
    BY <1>1, ElementOfSeq
  <2>2. DOMAIN ts[g.nodes[i]].src = 1..Len(ts[g.nodes[i]].src)
    BY <2>1, SrcTyped
  <2>3. PICK j \in 1..Len(ts[g.nodes[i]].src) : ts[g.nodes[i]].src[j] = p
    BY <2>2 DEF ToSet
  <2>4. QED
    BY <1>1, <2>1, <2>3 DEF NodesOk
<1>9. QED
  BY <1>2, <1>7, <1>8 DEF Ordered

-----------------------------------------------------------------------------
(* What a tiled chunk accounts for, byte by byte.                          *)
Blocks(free, b) == {i \in DOMAIN free : b \in free[i].offset..(End(free[i]) - 1)}

LEMMA OneOrNone ==
    ASSUME NEW A, NEW B, A = {} \/ B = {}, A \cup B # {},
           \A x, y \in A : x = y, \A x, y \in B : x = y
    PROVE  Cardinality(A) + Cardinality(B) = 1
<1>1. \A S : S = {} => Cardinality(S) = 0
  BY FS_EmptySet
<1>2. \A x : Cardinality({x}) = 1
  BY FS_Singleton
<1>3. ASSUME NEW S, S # {}, \A x, y \in S : x = y
      PROVE  Cardinality(S) = 1
  <2>1. PICK x \in S : TRUE
    BY <1>3
  <2>2. S = {x}
    BY <1>3, <2>1
  <2>3. QED
    BY <1>2, <2>2
<1>4. CASE A = {}
  <2>1. Cardinality(A) = 0 /\ Cardinality(B) = 1
    BY <1>1, <1>3, <1>4
  <2>2. QED
    BY <2>1
<1>5. CASE B = {}
  <2>1. Cardinality(B) = 0 /\ Cardinality(A) = 1
    BY <1>1, <1>3, <1>5
  <2>2. QED
    BY <2>1
<1>6. QED
  BY <1>4, <1>5

LEMMA AccountedList ==
    ASSUME MemOk(State(chunks, hash)), NEW c \in DOMAIN chunks
    PROVE  Coalesced(chunks[c].free)
<1> DEFINE free == chunks[c].free
<1>1. /\ State(chunks, hash) \in States
      /\ State(chunks, hash).chunks = chunks /\ State(chunks, hash).hash = hash
  BY DEF MemOk, State
<1>2. chunks \in Seq(Chunk)
  BY <1>1 DEF States
<1>3. c \in 1..Len(chunks) /\ free \in Seq(FreeBlock)
  BY <1>2, ChunkTyped
<1>4. Neat(free)
  BY <1>1, <1>3 DEF MemOk, Tiled
<1> HIDE DEF free
<1>5. \A i \in 1..(Len(free) - 1) : i \in 1..Len(free) /\ i + 1 \in 1..Len(free) /\ i < i + 1
  BY <1>3, FreeTyped
<1>6. DOMAIN free = 1..Len(free)
  BY <1>3, FreeTyped
<1>7. Coalesced(free)
  BY <1>4, <1>5, <1>6 DEF Neat, Coalesced
<1>8. QED
  BY <1>7 DEF free

LEMMA Accounted ==
    ASSUME TensorsOk(tensors), MemOk(State(chunks, hash)), NEW c \in DOMAIN chunks,
           NEW b \in 0..(chunks[c].max_size - 1)
    PROVE  Cardinality({t \in {t \in T : hash[t].allocated /\ hash[t].addr.chunk = c} :
                           b \in Extent(t)})
           + Cardinality(Blocks(chunks[c].free, b)) = 1
<1> DEFINE free == chunks[c].free
           held == {t \in T : hash[t].allocated /\ hash[t].addr.chunk = c}
           A == {t \in held : b \in Extent(t)}
           B == Blocks(free, b)
           H == HeldIn(hash, c)
           at == At(hash)
<1>1. /\ State(chunks, hash) \in States
      /\ State(chunks, hash).chunks = chunks /\ State(chunks, hash).hash = hash
  BY DEF MemOk, State
<1>2. chunks \in Seq(Chunk) /\ hash \in [T -> HashEntry]
  BY <1>1 DEF States
<1>3. /\ c \in 1..Len(chunks) /\ free \in Seq(FreeBlock) /\ chunks[c].max_size \in Nat
      /\ b \in Nat
  BY <1>2, ChunkTyped
<1>4. Tiled(chunks[c], H, at)
  BY <1>1, <1>3 DEF MemOk
<1>5. /\ Neat(free) /\ Covered(chunks[c], H, at, b)
      /\ \A t \in H : Busy(free, at[t])
      /\ \A t, u \in H : t # u /\ In(b, at[t]) => ~In(b, at[u])
  BY <1>3, <1>4 DEF Tiled
<1>6. \A i : i \in B <=> i \in 1..Len(free) /\ In(b, free[i])
  <2>1. DOMAIN free = 1..Len(free)
    BY <1>3, FreeTyped
  <2>2. \A i \in 1..Len(free) : free[i].offset \in Nat /\ End(free[i]) \in Nat
    BY <1>3, FreeTyped
  <2> HIDE DEF free
  <2>3. QED
    BY <1>3, <2>1, <2>2 DEF Blocks, In
<1>7. \A t : t \in held <=> t \in H
  BY <1>2, HashTyped DEF HeldIn
<1>8. \A t \in H : b \in Extent(t) <=> In(b, at[t])
  <2> SUFFICES ASSUME NEW t \in H PROVE b \in Extent(t) <=> In(b, at[t])
    OBVIOUS
  <2>1. t \in T /\ hash[t].allocated = TRUE
    BY DEF HeldIn
  <2>2. at[t] = Block(hash[t].addr.offset, Aligned(tensors[t].size)) /\ hash[t].addr.offset \in Nat
    BY <1>2, <2>1, HashTyped
  <2>3. Aligned(tensors[t].size) \in Nat
    <3>1. tensors[t].size \in Sizes
      BY <1>1, <2>1 DEF MemOk
    <3>2. QED
      BY <3>1, AlignedIs
  <2> DEFINE x == hash[t].addr.offset
             y == Aligned(tensors[t].size)
  <2>4. at[t] = Block(x, y) /\ x \in Nat /\ y \in Nat
    BY <2>2, <2>3
  <2>5. Extent(t) = x..(x + y - 1)
    BY DEF Extent
  <2> HIDE DEF x, y
  <2>6. at[t].offset = x /\ End(at[t]) = x + y
    BY <2>4, BlockIs
  <2>7. b \in Nat
    BY <1>3
  <2>8. b \in x..(x + y - 1) <=> x <= b /\ b < x + y
    BY <2>4, <2>7
  <2>9. QED
    BY <2>5, <2>6, <2>8 DEF In
<1>9. \A t : t \in A <=> t \in H /\ In(b, at[t])
  BY <1>7, <1>8
<1> HIDE DEF A, B, H, at, free, held
<1>10. A = {} \/ B = {}
  <2> SUFFICES ASSUME A # {}, B # {} PROVE FALSE
    OBVIOUS
  <2>1. PICK t \in A : TRUE
    OBVIOUS
  <2>2. PICK i \in B : TRUE
    OBVIOUS
  <2>3. b \in Available(free)
    BY <1>3, <1>6, <2>2 DEF Available
  <2>4. QED
    BY <1>3, <1>5, <1>9, <2>1, <2>3 DEF Busy
<1>11. A \cup B # {}
  BY <1>5, <1>6, <1>9 DEF Covered, Available, free
<1>12. \A x, y \in A : x = y
  BY <1>5, <1>9
<1>13. \A x, y \in B : x = y
  <2> SUFFICES ASSUME NEW x \in B, NEW y \in B, x # y PROVE FALSE
    OBVIOUS
  <2>1. /\ x \in 1..Len(free) /\ y \in 1..Len(free)
        /\ In(b, free[x]) /\ In(b, free[y])
    BY <1>6
  <2>2. /\ free[x].offset \in Nat /\ End(free[x]) \in Nat
        /\ free[y].offset \in Nat /\ End(free[y]) \in Nat
    BY <1>3, <2>1, FreeTyped
  <2>3. x < y \/ y < x
    BY <2>1
  <2>4. End(free[x]) < free[y].offset \/ End(free[y]) < free[x].offset
    BY <1>5, <2>1, <2>3 DEF Neat
  <2>5. QED
    BY <1>3, <2>1, <2>2, <2>4 DEF In
<1>14. Cardinality(A) + Cardinality(B) = 1
  BY <1>10, <1>11, <1>12, <1>13, OneOrNone
<1>15. QED
  BY <1>14 DEF A, B, free, held

(* Between two free blocks there is a tenant: a chunk has at most one more *)
(* free block than tenants.                                                *)
LEMMA FewBlocks ==
    ASSUME NEW chunk, NEW H, NEW at, Tiled(chunk, H, at), IsFiniteSet(H)
    PROVE  Len(chunk.free) <= Cardinality(H) + 1
<1> DEFINE free == chunk.free
           n == Len(free)
           gap(i) == End(free[i])
           f == [i \in 1..(n - 1) |-> CHOOSE t \in H : In(gap(i), at[t])]
<1>1. /\ free \in Seq(FreeBlock) /\ Neat(free)
      /\ \A t \in H : at[t] \in FreeBlock /\ Busy(free, at[t])
      /\ \A b, d \in Nat : d < b /\ Covered(chunk, H, at, b) => Covered(chunk, H, at, d)
  BY DEF Tiled, Neat
<1>2. n \in Nat /\ \A i \in 1..n : /\ free[i].offset \in Nat /\ gap(i) \in Nat
                                  /\ free[i].size \in Nat /\ free[i].size > 0
                                  /\ gap(i) = free[i].offset + free[i].size
  BY <1>1, FreeTyped DEF Neat
<1>3. \A i, k \in 1..n : i < k => gap(i) < free[k].offset
  BY <1>1 DEF Neat
<1>4. ASSUME NEW i \in 1..n PROVE free[i].offset \in Available(free)
  <2>1. free[i].offset \in Nat /\ i \in 1..Len(free)
    BY <1>2
  <2>2. free[i].offset < End(free[i])
    BY <1>2
  <2> HIDE DEF free
  <2>3. In(free[i].offset, free[i])
    BY <2>1, <2>2 DEF In
  <2>4. QED
    BY <2>1, <2>3 DEF Available
<1> HIDE DEF free, n, gap
<1>5. ASSUME NEW i \in 1..(n - 1) PROVE gap(i) \notin Available(free)
  <2> SUFFICES ASSUME NEW k \in 1..n, In(gap(i), free[k]) PROVE FALSE
    BY DEF Available, n
  <2>1. i \in 1..n
    BY <1>2
  <2>2. free[k].offset <= gap(i) /\ gap(i) < gap(k)
    BY DEF In, gap
  <2>3. i < k \/ k < i \/ i = k
    BY <1>2
  <2>4. CASE i < k
    BY <1>2, <1>3, <2>1, <2>2, <2>4
  <2>5. CASE k < i
    <3>1. gap(k) < free[i].offset /\ free[i].offset < gap(i)
      BY <1>2, <1>3, <2>1, <2>5
    <3>2. QED
      BY <1>2, <2>1, <2>2, <3>1
  <2>6. CASE i = k
    BY <1>2, <2>1, <2>2, <2>6
  <2>7. QED
    BY <2>3, <2>4, <2>5, <2>6
<1>6. ASSUME NEW i \in 1..(n - 1) PROVE \E t \in H : In(gap(i), at[t])
  <2>1. i \in 1..n /\ i + 1 \in 1..n /\ i < i + 1
    BY <1>2
  <2>2. gap(i) < free[i + 1].offset /\ gap(i) \in Nat /\ free[i + 1].offset \in Nat
    BY <1>2, <1>3, <2>1
  <2>3. Covered(chunk, H, at, free[i + 1].offset)
    BY <1>4, <2>1 DEF Covered, free
  <2>4. Covered(chunk, H, at, gap(i))
    BY <1>1, <2>2, <2>3
  <2>5. QED
    BY <1>5, <2>4 DEF Covered, free
<1>7. \A i \in 1..(n - 1) : f[i] \in H /\ In(gap(i), at[f[i]])
  BY <1>6
<1> HIDE DEF f
<1>8. ASSUME NEW i \in 1..(n - 1), NEW k \in 1..(n - 1), i < k PROVE f[i] # f[k]
  <2> SUFFICES ASSUME f[i] = f[k] PROVE FALSE
    OBVIOUS
  <2> DEFINE t == f[i]
             b == free[k].offset
  <2>1. t \in H /\ In(gap(i), at[t]) /\ In(gap(k), at[t])
    BY <1>7
  <2>2. i \in 1..n /\ k \in 1..n
    BY <1>2
  <2>3. b \in Nat /\ gap(i) \in Nat /\ gap(k) \in Nat /\ gap(i) < b /\ b < gap(k)
    BY <1>2, <1>3, <1>8, <2>2
  <2>4. b \in Available(free)
    BY <1>4, <2>2
  <2> HIDE DEF t, b
  <2>5. /\ at[t].offset \in Nat /\ End(at[t]) \in Nat
        /\ at[t].offset <= gap(i) /\ gap(k) < End(at[t])
    BY <1>1, <2>1 DEF In, FreeBlock, End
  <2>6. In(b, at[t])
    BY <2>3, <2>5 DEF In
  <2>7. QED
    BY <1>1, <2>1, <2>3, <2>4, <2>6 DEF Busy
<1>9. f \in Injection(1..(n - 1), H)
  <2>1. f \in [1..(n - 1) -> H]
    BY <1>7 DEF f
  <2>2. \A i, k \in 1..(n - 1) : f[i] = f[k] => i = k
    <3> SUFFICES ASSUME NEW i \in 1..(n - 1), NEW k \in 1..(n - 1), f[i] = f[k], i # k
                 PROVE  FALSE
      OBVIOUS
    <3>1. i < k \/ k < i
      BY <1>2
    <3>2. QED
      BY <1>8, <3>1
  <2>3. QED
    BY <2>1, <2>2 DEF Injection, IsInjective
<1>10. Cardinality(1..(n - 1)) <= Cardinality(H)
  BY <1>9, FS_Injection
<1>11. Cardinality(1..(n - 1)) = IF 1 > n - 1 THEN 0 ELSE n - 1
  <2>1. 1 \in Int /\ n - 1 \in Int
    BY <1>2
  <2> DEFINE m == n - 1
  <2>2. Cardinality(1..m) = IF 1 > m THEN 0 ELSE m - 1 + 1
    <3>1. m \in Int
      BY <2>1
    <3> HIDE DEF m
    <3>2. QED
      BY <3>1, FS_Interval
  <2>3. QED
    BY <2>1, <2>2
<1>12. Cardinality(H) \in Nat
  BY FS_CardinalityType
<1>13. n <= Cardinality(H) + 1
  BY <1>2, <1>10, <1>11, <1>12
<1>14. QED
  BY <1>13 DEF n, free

LEMMA AccountedLength ==
    ASSUME TensorsOk(tensors), MemOk(State(chunks, hash)), NEW c \in DOMAIN chunks
    PROVE  Len(chunks[c].free)
             <= Cardinality({t \in T : hash[t].allocated /\ hash[t].addr.chunk = c}) + 1
<1> DEFINE held == {t \in T : hash[t].allocated /\ hash[t].addr.chunk = c}
           H == HeldIn(hash, c)
<1>1. /\ State(chunks, hash) \in States
      /\ State(chunks, hash).chunks = chunks /\ State(chunks, hash).hash = hash
  BY DEF MemOk, State
<1>2. chunks \in Seq(Chunk) /\ hash \in [T -> HashEntry]
  BY <1>1 DEF States
<1>3. c \in 1..Len(chunks)
  BY <1>2, ChunkTyped
<1>4. Tiled(chunks[c], H, At(hash))
  BY <1>1, <1>3 DEF MemOk
<1>5. held = H
  BY <1>2, HashTyped DEF HeldIn
<1>6. IsFiniteSet(H)
  <2>1. T = 1..Len(tensors) /\ Len(tensors) \in Nat
    BY DEF TensorsOk, T
  <2>2. IsFiniteSet(1..Len(tensors))
    BY <2>1, FS_Interval
  <2>3. H \in SUBSET T
    BY DEF HeldIn
  <2>4. QED
    BY <2>1, <2>2, <2>3, FS_Subset
<1> HIDE DEF H, held
<1>7. Len(chunks[c].free) <= Cardinality(H) + 1
  BY <1>4, <1>6, FewBlocks
<1>8. QED
  BY <1>5, <1>7 DEF held

-----------------------------------------------------------------------------
(* The invariant: the tensors are well made, the graph lists all of them,  *)
(* and while it is planned the memory of every chunk is tiled.             *)
SizesOk(ts) == \A t \in 1..Len(ts) : ts[t].size # 0 => ts[t].size \in Sizes

PlanInv ==
    /\ TensorsOk(tensors) /\ SizesOk(tensors)
    /\ phase # "create" => Wellformed(tensors, graph) /\ Lists(tensors, graph) = T
    /\ phase = "plan" /\ next > 0 => MemOk(State(chunks, hash))

(* The tensors stay well made when one more is created, *)
Addable(ts, r) ==
    /\ r \in TensorRecord /\ r.src \in Seq(1..Len(ts)) /\ Len(r.src) <= 2
    /\ r.root # 0 =>
          /\ r.root \in 1..Len(ts) /\ ts[r.root].root = 0
          /\ r.kind \in Sharers
    /\ r.kind \notin Sharers \cup {"weight"} => r.size \in Sizes /\ r.root = 0
    /\ r.kind \in Sharers => r.root # 0
    /\ r.size # 0 => r.size \in Sizes

LEMMA Created ==
    ASSUME NEW ts, TensorsOk(ts), SizesOk(ts), NEW r, Addable(ts, r)
    PROVE  TensorsOk(Append(ts, r)) /\ SizesOk(Append(ts, r))
<1> DEFINE n == Len(ts)
           us == Append(ts, r)
<1>1. ts \in Seq(TensorRecord) /\ r \in TensorRecord /\ n \in Nat
  BY DEF TensorsOk, Addable
<1>2. Appends(us, ts, r, TensorRecord)
  BY <1>1, AppendIs
<1>3. us \in Seq(TensorRecord) /\ Len(us) = n + 1 /\ us[n + 1] = r
      /\ \A t \in 1..n : us[t] = ts[t]
  BY <1>2 DEF Appends
<1> HIDE DEF us
<1>4. ASSUME NEW t \in 1..n
      PROVE  TensorOk(us, t) /\ (us[t].size # 0 => us[t].size \in Sizes)
  <2>1. us[t] = ts[t] /\ TensorOk(ts, t)
    BY <1>3 DEF TensorsOk
  <2>2. \A u \in 1..(t - 1) : u \in 1..n /\ us[u] = ts[u]
    BY <1>1, <1>3
  <2>3. QED
    BY <2>1, <2>2 DEF TensorOk, SizesOk
<1>5. TensorOk(us, n + 1) /\ (us[n + 1].size # 0 => us[n + 1].size \in Sizes)
  <2>1. (n + 1) - 1 = n
    BY <1>1
  <2>2. \A u \in 1..n : us[u] = ts[u]
    BY <1>3
  <2>3. QED
    BY <1>3, <2>1, <2>2 DEF TensorOk, Addable
<1>6. \A t \in 1..Len(us) : t \in 1..n \/ t = n + 1
  BY <1>1, <1>3
<1>7. TensorsOk(us) /\ SizesOk(us)
  BY <1>3, <1>4, <1>5, <1>6 DEF TensorsOk, SizesOk
<1>8. QED
  BY <1>7 DEF us

(* or when one that lies there gets another size or becomes an output; and *)
(* the graph does not depend on that.                                      *)
Remade(us, ts) ==
    /\ us \in Seq(TensorRecord) /\ Len(us) = Len(ts)
    /\ \A t \in 1..Len(ts) :
          /\ us[t].kind = ts[t].kind /\ us[t].src = ts[t].src /\ us[t].root = ts[t].root
          /\ us[t].size # 0 => us[t].size \in Sizes
          /\ ts[t].size # 0 => us[t].size \in Sizes

LEMMA RemadeOk ==
    ASSUME NEW ts, TensorsOk(ts), NEW us, Remade(us, ts)
    PROVE  /\ TensorsOk(us) /\ SizesOk(us) /\ DOMAIN us = DOMAIN ts
           /\ \A g : Lists(us, g) = Lists(ts, g)
           /\ \A g : Wellformed(ts, g) => Wellformed(us, g)
<1>1. /\ us \in Seq(TensorRecord) /\ Len(us) = Len(ts) /\ Len(ts) \in Nat
      /\ DOMAIN us = DOMAIN ts /\ DOMAIN ts = 1..Len(ts)
  BY DEF Remade, TensorsOk
<1>2. \A t \in 1..Len(ts) :
          /\ us[t].kind = ts[t].kind /\ us[t].src = ts[t].src /\ us[t].root = ts[t].root
          /\ us[t].size # 0 => us[t].size \in Sizes
          /\ ts[t].size # 0 => us[t].size \in Sizes
  BY DEF Remade
<1>3. ASSUME NEW t \in 1..Len(ts) PROVE TensorOk(us, t)
  <2>1. TensorOk(ts, t)
    BY DEF TensorsOk
  <2>2. \A u \in 1..(t - 1) : u \in 1..Len(ts)
    BY <1>1
  <2>3. 0 \notin Sizes
    BY GraphAssumption
  <2>4. QED
    BY <1>2, <2>1, <2>2, <2>3 DEF TensorOk
<1>4. TensorsOk(us) /\ SizesOk(us)
  BY <1>1, <1>2, <1>3 DEF TensorsOk, SizesOk
<1>5. ASSUME NEW g PROVE Lists(us, g) = Lists(ts, g)
  BY <1>1 DEF Lists
<1>6. ASSUME NEW g, Wellformed(ts, g) PROVE Wellformed(us, g)
  <2>1. /\ g \in Graphs(ts) /\ NodesOk(ts, g.nodes) /\ LeafsOk(ts, g.leafs)
        /\ Lists(ts, g) \subseteq g.visited
        /\ \A t \in Lists(ts, g) : \A j \in 1..Len(ts[t].src) : ts[t].src[j] \in Lists(ts, g)
    BY <1>6 DEF Wellformed
  <2>2. Graphs(us) = Graphs(ts)
    BY <1>1 DEF Graphs
  <2>3. \A t \in DOMAIN ts : IsLeaf(us, t) <=> IsLeaf(ts, t)
    BY <1>1, <1>2 DEF IsLeaf
  <2>4. LeafsOk(us, g.leafs)
    <3>1. \A i \in 1..Len(g.leafs) : g.leafs[i] \in DOMAIN ts
      BY <2>1, ElementOfSeq DEF LeafsOk
    <3>2. QED
      BY <1>1, <2>1, <2>3, <3>1 DEF LeafsOk
  <2>5. NodesOk(us, g.nodes)
    <3>1. \A i \in 1..Len(g.nodes) : g.nodes[i] \in DOMAIN ts
      BY <2>1, ElementOfSeq DEF NodesOk
    <3>2. \A i \in 1..Len(g.nodes) : us[g.nodes[i]].src = ts[g.nodes[i]].src
      BY <1>1, <1>2, <3>1
    <3>3. \A i \in 1..Len(g.nodes) : \A j \in 1..Len(ts[g.nodes[i]].src) :
             ts[g.nodes[i]].src[j] \in DOMAIN ts
      BY <3>1, SrcTyped
    <3>4. ASSUME NEW i \in 1..Len(g.nodes), NEW j \in 1..Len(us[g.nodes[i]].src)
          PROVE  IsLeaf(us, us[g.nodes[i]].src[j])
                 \/ \E k \in 1..(i - 1) : g.nodes[k] = us[g.nodes[i]].src[j]
      <4>1. us[g.nodes[i]].src = ts[g.nodes[i]].src /\ j \in 1..Len(ts[g.nodes[i]].src)
        BY <3>2
      <4>2. IsLeaf(ts, ts[g.nodes[i]].src[j])
            \/ \E k \in 1..(i - 1) : g.nodes[k] = ts[g.nodes[i]].src[j]
        BY <2>1, <4>1 DEF NodesOk
      <4>3. ts[g.nodes[i]].src[j] \in DOMAIN ts
        BY <3>3, <4>1
      <4>4. QED
        BY <2>3, <4>1, <4>2, <4>3
    <3>5. \A i \in 1..Len(g.nodes) : ~IsLeaf(us, g.nodes[i])
      BY <2>1, <2>3, <3>1 DEF NodesOk
    <3>6. g.nodes \in Seq(DOMAIN us)
          /\ \A i, k \in 1..Len(g.nodes) : i # k => g.nodes[i] # g.nodes[k]
      BY <1>1, <2>1 DEF NodesOk
    <3>7. QED
      BY <3>4, <3>5, <3>6 DEF NodesOk
  <2>6. \A t \in Lists(ts, g) : us[t].src = ts[t].src
    BY <1>1, <1>2 DEF Lists
  <2>7. QED
    BY <1>5, <2>1, <2>2, <2>4, <2>5, <2>6 DEF Wellformed
<1>7. QED
  BY <1>1, <1>4, <1>5, <1>6

(* As when ggml_set_output marks one, or the graph is made again. *)
LEMMA MarkedIs ==
    ASSUME TensorsOk(tensors), SizesOk(tensors), NEW t \in T, NEW us,
           us = [tensors EXCEPT ![t].output = TRUE]
    PROVE  Remade(us, tensors)
<1> DEFINE r == [tensors[t] EXCEPT !.output = TRUE]
<1>1. tensors \in Seq(TensorRecord) /\ T = 1..Len(tensors)
  BY DEF TensorsOk, T
<1>2. tensors[t] \in TensorRecord
  BY <1>1, ElementOfSeq
<1>3. /\ r \in TensorRecord /\ r.kind = tensors[t].kind /\ r.src = tensors[t].src
      /\ r.root = tensors[t].root /\ r.size = tensors[t].size
  BY <1>2 DEF TensorRecord
<1> DEFINE ds == [tensors EXCEPT ![t] = r]
<1>4. us = ds
  OBVIOUS
<1> HIDE DEF r
<1>5. ds \in Seq(TensorRecord) /\ Len(ds) = Len(tensors)
      /\ \A u \in 1..Len(tensors) : ds[u] = IF u = t THEN r ELSE tensors[u]
  <2>1. t \in 1..Len(tensors)
    BY <1>1
  <2>2. QED
    BY ONLY <1>1, <1>3, <2>1
<1> HIDE DEF ds
<1>6. \A u \in 1..Len(tensors) : tensors[u].size # 0 => tensors[u].size \in Sizes
  BY DEF SizesOk
<1>7. QED
  BY <1>3, <1>4, <1>5, <1>6 DEF Remade

LEMMA RebuiltIs ==
    ASSUME TensorsOk(tensors), SizesOk(tensors), NEW now \in [Sizes -> Sizes], NEW us,
           us = [t \in T |-> [tensors[t] EXCEPT !.size = IF @ > 0 THEN now[@] ELSE 0]]
    PROVE  Remade(us, tensors)
<1> DEFINE Size(t) == IF tensors[t].size > 0 THEN now[tensors[t].size] ELSE 0
           r(t) == [tensors[t] EXCEPT !.size = Size(t)]
<1>1. tensors \in Seq(TensorRecord) /\ Len(tensors) \in Nat /\ T = 1..Len(tensors)
  BY DEF TensorsOk, T
<1>2. ASSUME NEW t \in 1..Len(tensors)
      PROVE  /\ r(t) \in TensorRecord
             /\ r(t).kind = tensors[t].kind /\ r(t).src = tensors[t].src
             /\ r(t).root = tensors[t].root
             /\ r(t).size # 0 => r(t).size \in Sizes
             /\ tensors[t].size # 0 => r(t).size \in Sizes
  <2> DEFINE z == Size(t)
             x == tensors[t]
  <2>1. x \in TensorRecord
    BY <1>1, ElementOfSeq
  <2>2. x.size \in Nat /\ (x.size # 0 => x.size \in Sizes)
    BY <1>1, <2>1 DEF SizesOk, TensorRecord
  <2>3. (x.size # 0 => z \in Sizes) /\ (x.size = 0 => z = 0)
    BY <2>2
  <2>4. z \in Nat /\ 0 \notin Sizes
    BY <2>3, GraphAssumption
  <2>5. r(t) = [x EXCEPT !.size = z]
    OBVIOUS
  <2> HIDE DEF z, x, r
  <2>6. /\ r(t) \in TensorRecord /\ r(t).kind = x.kind /\ r(t).src = x.src
        /\ r(t).root = x.root /\ r(t).size = z
    BY <2>1, <2>4, <2>5 DEF TensorRecord
  <2>7. QED
    BY <2>2, <2>3, <2>6 DEF x
<1>3. us = [t \in 1..Len(tensors) |-> r(t)]
  BY <1>1
<1> HIDE DEF r
<1>4. us \in Seq(TensorRecord) /\ Len(us) = Len(tensors)
      /\ \A t \in 1..Len(tensors) : us[t] = r(t)
  <2> DEFINE N == Len(tensors)
  <2>1. N \in Nat
    BY <1>1, LenProperties
  <2>2. us \in [1..N -> TensorRecord] /\ \A t \in 1..N : us[t] = r(t)
    BY <1>2, <1>3
  <2> HIDE DEF N
  <2>3. us \in Seq(TensorRecord) /\ Len(us) = N
    BY ONLY <2>1, <2>2
  <2>4. QED
    BY <2>2, <2>3 DEF N
<1>5. QED
  BY <1>2, <1>4 DEF Remade

LEMMA RootIs ==
    ASSUME NEW ts, TensorsOk(ts), SizesOk(ts), NEW t \in DOMAIN ts
    PROVE  /\ RootOf(ts, t) \in 1..Len(ts) /\ ts[RootOf(ts, t)].root = 0
           /\ ts[RootOf(ts, t)].size # 0 => ts[RootOf(ts, t)].size \in Sizes
           /\ RootOf(ts, t) # 0
<1>1. DOMAIN ts = 1..Len(ts) /\ Len(ts) \in Nat /\ TensorOk(ts, t) /\ t \in 1..Len(ts)
  BY DEF TensorsOk
<1>2. ts[t].root # 0 => ts[t].root \in 1..Len(ts) /\ ts[ts[t].root].root = 0
  BY <1>1 DEF TensorOk
<1>3. RootOf(ts, t) \in 1..Len(ts) /\ ts[RootOf(ts, t)].root = 0
  BY <1>1, <1>2 DEF RootOf
<1>4. QED
  BY <1>1, <1>3 DEF SizesOk

(* The tensors the application may create next.                            *)
LEMMA SourcesTyped ==
    ASSUME TensorsOk(tensors), NEW src \in Sources
    PROVE  src \in Seq(1..Len(tensors)) /\ Len(src) <= 2 /\ src[1] \in T
<1>1. T = 1..Len(tensors)
  BY DEF TensorsOk, T
<1>2. CASE \E a \in T : src = <<a>>
  BY <1>1, <1>2
<1>3. CASE \E a, b \in T : src = <<a, b>>
  BY <1>1, <1>3
<1>4. QED
  BY <1>2, <1>3 DEF Sources

LEMMA TensorIs ==
    ASSUME NEW kind \in Kinds, NEW src \in Seq(Nat), NEW root \in Nat, NEW size \in Nat
    PROVE  /\ Tensor(kind, src, root, size) \in TensorRecord
           /\ Tensor(kind, src, root, size).kind = kind
           /\ Tensor(kind, src, root, size).src = src
           /\ Tensor(kind, src, root, size).root = root
           /\ Tensor(kind, src, root, size).size = size
BY DEF Tensor, TensorRecord

LEMMA SeqOfNat ==
    ASSUME NEW n \in Nat, NEW src \in Seq(1..n)
    PROVE  src \in Seq(Nat)
<1>1. \A j \in 1..Len(src) : src[j] \in Nat
  BY ElementOfSeq
<1>2. QED
  BY <1>1

LEMMA OpAddable ==
    ASSUME TensorsOk(tensors), NEW kind \in {"op", "inplace"},
           NEW src \in Sources, NEW size \in Sizes
    PROVE  Addable(tensors, Tensor(kind, src, 0, size))
<1>1. Len(tensors) \in Nat /\ size \in Nat /\ 0 \in Nat
  BY GraphAssumption DEF TensorsOk
<1>2. src \in Seq(1..Len(tensors)) /\ Len(src) <= 2
  BY SourcesTyped
<1>3. src \in Seq(Nat) /\ kind \in Kinds
  BY <1>1, <1>2, SeqOfNat DEF Kinds
<1>7. kind \notin Sharers
  BY DEF Sharers
<1> DEFINE o == 0
           r == Tensor(kind, src, o, size)
<1>4. r \in TensorRecord /\ r.kind = kind /\ r.src = src /\ r.root = o /\ r.size = size
  <2>1. o \in Nat
    OBVIOUS
  <2> HIDE DEF o
  <2>2. QED
    BY <1>1, <1>3, <2>1, TensorIs
<1> HIDE DEF r
<1>5. Addable(tensors, r)
  BY <1>2, <1>4, <1>7 DEF Addable
<1>6. QED
  BY <1>5 DEF r

LEMMA LeafAddable ==
    ASSUME TensorsOk(tensors), NEW kind, NEW size,
           (kind = "weight" /\ size = 0) \/ (kind = "leaf" /\ size \in Sizes)
    PROVE  Addable(tensors, Tensor(kind, <<>>, 0, size))
<1> DEFINE o == 0
           none == <<>>
           r == Tensor(kind, none, o, size)
<1>1. kind \in Kinds /\ kind \notin Sharers /\ o \in Nat
  BY DEF Kinds, Sharers
<1>2. size \in Nat
  <2>1. \A z \in Sizes : z \in Nat
    BY GraphAssumption
  <2>2. QED
    BY <2>1
<1>3. none \in Seq(Nat) /\ none \in Seq(1..Len(tensors)) /\ Len(none) = 0
  OBVIOUS
<1>4. r \in TensorRecord /\ r.kind = kind /\ r.src = none /\ r.root = o /\ r.size = size
  <2>1. none \in Seq(Nat)
    BY <1>3
  <2> HIDE DEF o, none
  <2>2. QED
    BY <1>1, <1>2, <2>1, TensorIs
<1> HIDE DEF r, none
<1>5. Addable(tensors, r)
  BY <1>1, <1>3, <1>4 DEF Addable
<1>6. QED
  BY <1>5 DEF r, none

LEMMA SharerAddable ==
    ASSUME TensorsOk(tensors), SizesOk(tensors), NEW kind \in Sharers,
           NEW src \in Seq(1..Len(tensors)), Len(src) <= 2, NEW t \in T
    PROVE  Addable(tensors, Tensor(kind, src, RootOf(tensors, t), 0))
<1>1. T = 1..Len(tensors) /\ Len(tensors) \in Nat
  BY DEF TensorsOk, T
<1> DEFINE root == RootOf(tensors, t)
           o == 0
           r == Tensor(kind, src, root, o)
<1>2. root \in 1..Len(tensors) /\ tensors[root].root = 0
  BY RootIs DEF T
<1>3. src \in Seq(Nat) /\ kind \in Kinds /\ root \in Nat /\ o \in Nat
  BY <1>1, <1>2 DEF Kinds, Sharers
<1>4. r \in TensorRecord /\ r.kind = kind /\ r.src = src /\ r.root = root /\ r.size = o
  <2> HIDE DEF o, root
  <2>1. QED
    BY <1>3, TensorIs
<1>5. root # 0
  BY <1>2
<1> HIDE DEF r, root
<1>6. Addable(tensors, r)
  BY <1>2, <1>3, <1>4, <1>5 DEF Addable
<1>7. QED
  BY <1>6 DEF r, root

LEMMA ViewAddable ==
    ASSUME TensorsOk(tensors), SizesOk(tensors), NEW t \in T
    PROVE  Addable(tensors, Tensor("view", <<t>>, RootOf(tensors, t), 0))
<1> DEFINE src == <<t>>
<1>1. src \in Seq(1..Len(tensors)) /\ Len(src) <= 2 /\ "view" \in Sharers
  BY DEF TensorsOk, T, Sharers
<1> HIDE DEF src
<1>2. Addable(tensors, Tensor("view", src, RootOf(tensors, t), 0))
  BY <1>1, SharerAddable
<1>3. QED
  BY <1>2 DEF src

LEMMA StoreAddable ==
    ASSUME TensorsOk(tensors), SizesOk(tensors), NEW a \in T, NEW b \in T
    PROVE  Addable(tensors, Tensor("store", <<a, b>>, RootOf(tensors, b), 0))
<1> DEFINE src == <<a, b>>
<1>1. src \in Seq(1..Len(tensors)) /\ Len(src) <= 2 /\ "store" \in Sharers
  BY DEF TensorsOk, T, Sharers
<1> HIDE DEF src
<1>2. Addable(tensors, Tensor("store", src, RootOf(tensors, b), 0))
  BY <1>1, SharerAddable
<1>3. QED
  BY <1>2 DEF src

-----------------------------------------------------------------------------
LEMMA PlanInit == Init => PlanInv
<1> SUFFICES ASSUME Init PROVE PlanInv
  OBVIOUS
<1>1. tensors = <<>> /\ phase = "create"
  BY DEF Init
<1>2. TensorsOk(tensors) /\ SizesOk(tensors)
  BY <1>1 DEF TensorsOk, SizesOk
<1>3. QED
  BY <1>1, <1>2 DEF PlanInv

(* The planning of the tensors is about the allocator's state only.        *)
LEMMA SamePlan ==
    ASSUME MemOk(State(chunks', hash')), tensors' = tensors
    PROVE  MemOk(State(chunks, hash))'
BY DEF MemOk, States, HeldIn, At, T

LEMMA ListedSeqs ==
    ASSUME TensorsOk(tensors), Wellformed(tensors, graph)
    PROVE  /\ graph.nodes \in Seq(T) /\ graph.leafs \in Seq(T)
           /\ \A i \in 1..Len(graph.nodes) : graph.nodes[i] \in T /\ Src(graph.nodes[i]) \in Seq(T)
<1>1. graph.nodes \in Seq(T) /\ graph.leafs \in Seq(T)
  BY DEF Wellformed, NodesOk, LeafsOk, T
<1>2. \A i \in 1..Len(graph.nodes) : graph.nodes[i] \in T
  BY <1>1, ElementOfSeq
<1>3. ASSUME NEW i \in 1..Len(graph.nodes) PROVE Src(graph.nodes[i]) \in Seq(T)
  <2> DEFINE t == graph.nodes[i]
             src == tensors[t].src
  <2>1. t \in DOMAIN tensors
    BY <1>2 DEF T
  <2> HIDE DEF t
  <2>2. src \in Seq(1..(t - 1)) /\ \A j \in 1..Len(src) : src[j] \in DOMAIN tensors
    BY <2>1, SrcTyped
  <2>3. src \in Seq(DOMAIN tensors)
    <3> HIDE DEF src
    <3>1. QED
      BY <2>2
  <2>4. QED
    BY <2>3 DEF Src, T, t
<1>4. QED
  BY <1>1, <1>2, <1>3

LEMMA PlanNext == PlanInv /\ [Next]_vars => PlanInv'
<1> SUFFICES ASSUME PlanInv, [Next]_vars PROVE PlanInv'
  OBVIOUS
<1>1. TensorsOk(tensors) /\ SizesOk(tensors) /\ T = 1..Len(tensors)
  BY DEF PlanInv, TensorsOk, T
<1>2. ASSUME NEW r, NewTensor(r), Addable(tensors, r) PROVE PlanInv'
  <2>1. phase' = "create" /\ tensors' = Append(tensors, r)
    BY <1>2 DEF NewTensor
  <2>2. TensorsOk(tensors') /\ SizesOk(tensors')
    BY <1>1, <1>2, <2>1, Created
  <2>3. QED
    BY <2>1, <2>2 DEF PlanInv
<1>3. CASE NewLeaf
  <2>1. CASE NewTensor(Tensor("weight", <<>>, 0, 0))
    <3>1. Addable(tensors, Tensor("weight", <<>>, 0, 0))
      BY <1>1, LeafAddable
    <3>2. QED
      BY <1>2, <2>1, <3>1
  <2>2. CASE \E size \in Sizes : NewTensor(Tensor("leaf", <<>>, 0, size))
    <3>1. PICK size \in Sizes : NewTensor(Tensor("leaf", <<>>, 0, size))
      BY <2>2
    <3>2. Addable(tensors, Tensor("leaf", <<>>, 0, size))
      BY <1>1, LeafAddable
    <3>3. QED
      BY <1>2, <3>1, <3>2
  <2>3. QED
    BY <1>3, <2>1, <2>2 DEF NewLeaf
<1>4. CASE NewOp
  <2>1. PICK src \in Sources :
            \/ \E size \in Sizes : NewTensor(Tensor("op", src, 0, size))
            \/ LET size == tensors[RootOf(tensors, src[1])].size
               IN  size > 0 /\ NewTensor(Tensor("inplace", src, 0, size))
    BY <1>4 DEF NewOp
  <2>2. CASE \E size \in Sizes : NewTensor(Tensor("op", src, 0, size))
    <3>1. PICK size \in Sizes : NewTensor(Tensor("op", src, 0, size))
      BY <2>2
    <3>2. Addable(tensors, Tensor("op", src, 0, size))
      BY <1>1, OpAddable
    <3>3. QED
      BY <1>2, <3>1, <3>2
  <2>3. CASE LET size == tensors[RootOf(tensors, src[1])].size
             IN  size > 0 /\ NewTensor(Tensor("inplace", src, 0, size))
    <3> DEFINE p == src[1]
               size == tensors[RootOf(tensors, p)].size
    <3>1. size > 0 /\ NewTensor(Tensor("inplace", src, 0, size))
      BY <2>3
    <3>2. size # 0 => size \in Sizes
      <4>1. p \in DOMAIN tensors
        BY <1>1, SourcesTyped DEF T
      <4>2. QED
        BY <1>1, <4>1, RootIs
    <3>3. size # 0
      BY <3>1
    <3> HIDE DEF size
    <3>4. Addable(tensors, Tensor("inplace", src, 0, size))
      BY <1>1, <3>2, <3>3, OpAddable
    <3>5. QED
      BY <1>2, <3>1, <3>4
  <2>4. QED
    BY <2>1, <2>2, <2>3
<1>5. CASE NewView
  <2>1. PICK t \in T : NewTensor(Tensor("view", <<t>>, RootOf(tensors, t), 0))
    BY <1>5 DEF NewView
  <2>2. Addable(tensors, Tensor("view", <<t>>, RootOf(tensors, t), 0))
    BY <1>1, <2>1, ViewAddable
  <2>3. QED
    BY <1>2, <2>1, <2>2
<1>17. CASE NewStore
  <2>1. PICK a \in T, b \in T : NewTensor(Tensor("store", <<a, b>>, RootOf(tensors, b), 0))
    BY <1>17 DEF NewStore
  <2>2. Addable(tensors, Tensor("store", <<a, b>>, RootOf(tensors, b), 0))
    BY <1>1, <2>1, StoreAddable
  <2>3. QED
    BY <1>2, <2>1, <2>2
<1>6. CASE SetOutput
  <2>1. PICK t \in T : tensors' = [tensors EXCEPT ![t].output = TRUE] /\ phase' = "create"
    BY <1>6 DEF SetOutput
  <2>2. Remade(tensors', tensors)
    BY <1>1, <2>1, MarkedIs
  <2>3. TensorsOk(tensors') /\ SizesOk(tensors')
    BY <1>1, <2>2, RemadeOk
  <2>4. QED
    BY <2>1, <2>3 DEF PlanInv
<1>7. CASE BuildForward
  <2>1. graph' = GraphOf(tensors, Sinks(tensors)) /\ next' = 0 /\ tensors' = tensors
    BY <1>7 DEF BuildForward, built
  <2>2. Sinks(tensors) \in SUBSET DOMAIN tensors
    BY DEF Sinks
  <2>3. Listing(tensors, graph', Sinks(tensors))
    BY <1>1, <2>1, <2>2, GraphOfIs
  <2>4. Lists(tensors, graph') = DOMAIN tensors
    BY <1>1, <2>3, SinksReach
  <2>5. QED
    BY <1>1, <2>1, <2>3, <2>4 DEF PlanInv, Listing, T
<1>8. CASE PlanLeafs
  <2> DEFINE s == AllocateAll(State(NoChunks, [t \in T |-> Unplanned]), graph.leafs)
  <2>1. /\ phase = "plan" /\ phase' = phase /\ tensors' = tensors /\ graph' = graph
        /\ chunks' = s.chunks
        /\ hash' = Counted(s.hash)
    BY <1>8 DEF PlanLeafs, built, Counted
  <2>2. Wellformed(tensors, graph) /\ Lists(tensors, graph) = T
    BY <2>1 DEF PlanInv
  <2>3. graph.nodes \in Seq(T) /\ graph.leafs \in Seq(T)
    BY <1>1, <2>2, ListedSeqs
  <2>4. MemOk(State(NoChunks, [t \in T |-> Unplanned]))
    BY UnplannedOk
  <2>5. MemOk(s)
    BY <1>1, <2>3, <2>4, AllocateAllOk
  <2> HIDE DEF s
  <2>6. MemOk(State(chunks', hash'))
    BY <1>1, <2>1, <2>3, <2>5, CountsOk
  <2>7. MemOk(State(chunks, hash))'
    BY <2>1, <2>6, SamePlan
  <2>8. QED
    BY <1>1, <2>1, <2>2, <2>7 DEF PlanInv, T
<1>9. CASE PlanNode
  <2> DEFINE parents == AllocateAll(State(chunks, hash), Src(Node))
             allocated == AllocateNode(parents, Node)
             s == UsesOver(allocated, Src(Node))
  <2>1. /\ phase = "plan" /\ phase' = phase /\ tensors' = tensors /\ graph' = graph
        /\ next \in 1..Len(graph.nodes) /\ chunks' = s.chunks /\ hash' = s.hash
    BY <1>9 DEF PlanNode, built
  <2>2. Wellformed(tensors, graph) /\ Lists(tensors, graph) = T
    BY <2>1 DEF PlanInv
  <2>3. graph.nodes \in Seq(T) /\ Node \in T /\ Src(Node) \in Seq(T)
    BY <1>1, <2>1, <2>2, ListedSeqs DEF Node
  <2>4. MemOk(State(chunks, hash))
    <3>1. next > 0
      BY <2>1, <2>3
    <3>2. QED
      BY <2>1, <3>1 DEF PlanInv
  <2>5. MemOk(parents)
    BY <1>1, <2>3, <2>4, AllocateAllOk
  <2> HIDE DEF parents
  <2>6. MemOk(allocated)
    BY <1>1, <2>3, <2>5, AllocateNodeOk
  <2> HIDE DEF allocated
  <2>7. MemOk(s)
    BY <1>1, <2>3, <2>6, UsesOverOk
  <2> HIDE DEF s
  <2>8. State(chunks', hash') = s
    <3>1. s \in [chunks : Seq(Chunk), hash : [T -> HashEntry]]
      BY <2>7 DEF MemOk, States
    <3>2. QED
      BY <2>1, <3>1 DEF State
  <2>9. MemOk(State(chunks', hash'))
    BY <2>7, <2>8
  <2>10. MemOk(State(chunks, hash))'
    BY <2>1, <2>9, SamePlan
  <2>11. QED
    BY <1>1, <2>1, <2>2, <2>10 DEF PlanInv, T
<1>10. CASE Reserve
  <2>1. /\ phase = "plan" /\ phase' # "plan" /\ phase' # "create"
        /\ tensors' = tensors /\ graph' = graph
    BY <1>10 DEF Reserve, NewBuffer, Ready, built
  <2>2. QED
    BY <1>1, <2>1 DEF PlanInv, T
<1>18. CASE ReserveAgain
  <2>1. /\ phase = "failed" /\ phase' # "plan" /\ phase' # "create"
        /\ tensors' = tensors /\ graph' = graph
    BY <1>18 DEF ReserveAgain, NewBuffer, Ready, built
  <2>2. QED
    BY <1>1, <2>1 DEF PlanInv, T
<1>11. CASE Rebuild
  <2>1. PICK now \in [Sizes -> Sizes] :
            /\ tensors' = [t \in T |-> [tensors[t] EXCEPT !.size = IF @ > 0 THEN now[@] ELSE 0]]
            /\ phase = "measured" /\ phase' = "alloc" /\ graph' = graph
    BY <1>11 DEF Rebuild
  <2>2. Remade(tensors', tensors)
    BY <1>1, <2>1, RebuiltIs
  <2>3. /\ TensorsOk(tensors') /\ SizesOk(tensors') /\ DOMAIN tensors' = DOMAIN tensors
        /\ Lists(tensors', graph) = Lists(tensors, graph)
        /\ (Wellformed(tensors, graph) => Wellformed(tensors', graph))
    BY <1>1, <2>2, RemadeOk
  <2>4. Wellformed(tensors, graph) /\ Lists(tensors, graph) = T
    BY <2>1 DEF PlanInv
  <2>5. QED
    BY <2>1, <2>3, <2>4 DEF PlanInv, T
<1>12. CASE AllocGraph
  <2>1. /\ phase = "alloc" /\ tensors' = tensors /\ graph' = graph
        /\ (phase' = "plan" /\ next' = 0) \/ phase' = "reserved"
    BY <1>12 DEF AllocGraph, built
  <2>2. QED
    BY <1>1, <2>1 DEF PlanInv, T
<1>13. CASE SetInputs
  <2>1. phase = "reserved" /\ phase' = "compute" /\ tensors' = tensors /\ graph' = graph
    BY <1>13 DEF SetInputs, built
  <2>2. QED
    BY <1>1, <2>1 DEF PlanInv, T
<1>14. CASE Compute
  <2>1. /\ phase = "compute" /\ phase' \in {"done", "compute"}
        /\ tensors' = tensors /\ graph' = graph
    BY <1>14 DEF Compute, built
  <2>2. QED
    BY <1>1, <2>1 DEF PlanInv, T
<1>15. CASE UNCHANGED vars
  <2>1. /\ phase' = phase /\ tensors' = tensors /\ graph' = graph /\ next' = next
        /\ chunks' = chunks /\ hash' = hash
    BY <1>15 DEF vars
  <2>2. phase = "plan" /\ next > 0 => MemOk(State(chunks', hash'))
    BY <2>1 DEF PlanInv
  <2>3. phase = "plan" /\ next > 0 => MemOk(State(chunks, hash))'
    BY <2>1, <2>2, SamePlan
  <2>4. QED
    BY <1>1, <2>1, <2>3 DEF PlanInv, T
<1>16. QED
  BY <1>3, <1>4, <1>5, <1>6, <1>7, <1>8, <1>9, <1>10, <1>11, <1>12, <1>13, <1>14, <1>15,
     <1>17, <1>18 DEF Next

-----------------------------------------------------------------------------
(* The invariant of the application's graphs and of ggml-alloc's plans:    *)
(* tensors refer to earlier ones, the graph lists every one of them once,  *)
(* and while its memory is planned (AllocateNode, FreeNode, Alloc,         *)
(* FreeBytes) allocated tensors and free blocks tile every chunk.          *)
THEOREM PlanInvariant == Spec => []PlanInv
<1>1. Init => PlanInv
  BY PlanInit
<1>2. PlanInv /\ [Next]_vars => PlanInv'
  BY PlanNext
<1>3. QED
  BY <1>1, <1>2, PTL DEF Spec

(* Whatever tensors share, ggml_build_forward_expand lists each of them    *)
(* once, and every node behind the nodes it is computed from: for graphs   *)
(* of every size and shape.                                                *)
THEOREM ExpandOrders == Spec => []ListedInOrder
<1>1. PlanInv => ListedInOrder
  <2> SUFFICES ASSUME PlanInv, phase # "create"
               PROVE  /\ ToSet(graph.nodes) \cup ToSet(graph.leafs) = T
                      /\ Len(graph.nodes) + Len(graph.leafs) = Len(tensors)
                      /\ \A i \in DOMAIN graph.nodes : \A p \in ToSet(Src(graph.nodes[i])) :
                            IsLeaf(tensors, p) \/ \E k \in 1..(i - 1) : graph.nodes[k] = p
    BY DEF ListedInOrder
  <2>1. TensorsOk(tensors) /\ Wellformed(tensors, graph) /\ Lists(tensors, graph) = DOMAIN tensors
    BY DEF PlanInv, T
  <2>2. /\ ToSet(graph.nodes) \cup ToSet(graph.leafs) = DOMAIN tensors
        /\ Len(graph.nodes) + Len(graph.leafs) = Len(tensors)
        /\ \A i \in DOMAIN graph.nodes : \A p \in ToSet(tensors[graph.nodes[i]].src) :
              IsLeaf(tensors, p) \/ \E k \in 1..(i - 1) : graph.nodes[k] = p
    <3>1. Ordered(tensors, graph)
      BY <2>1, ListedIsOrdered
    <3>2. QED
      BY <3>1 DEF Ordered
  <2>3. ToSet(graph.nodes) \cup ToSet(graph.leafs) = T
    BY <2>2 DEF T
  <2>4. \A i \in DOMAIN graph.nodes : Src(graph.nodes[i]) = tensors[graph.nodes[i]].src
    BY DEF Src
  <2>5. \A i \in DOMAIN graph.nodes : \A p \in ToSet(Src(graph.nodes[i])) :
           IsLeaf(tensors, p) \/ \E k \in 1..(i - 1) : graph.nodes[k] = p
    BY <2>2, <2>4
  <2>6. QED
    BY <2>2, <2>3, <2>5
<1>2. QED
  BY <1>1, PlanInvariant, PTL

(* While a graph is planned every byte of every chunk belongs to exactly   *)
(* one tensor that is allocated or to exactly one free block, whatever the *)
(* sizes, the alignment and the size of a chunk (also one that is no       *)
(* multiple of the alignment, as SIZE_MAX/2): ggml_dyn_tallocr hands       *)
(* nothing out twice, frees nothing twice and loses nothing; and a chunk   *)
(* has at most one free block more than tenants.                           *)
THEOREM PlanTiles == Spec => []MemoryAccounted
<1>1. PlanInv => MemoryAccounted
  <2> SUFFICES ASSUME PlanInv, phase = "plan" /\ next > 0, NEW c \in DOMAIN chunks
               PROVE  LET free == chunks[c].free
                          held == {t \in T : hash[t].allocated /\ hash[t].addr.chunk = c}
                      IN  /\ Coalesced(free) /\ Len(free) <= Cardinality(held) + 1
                          /\ \A b \in 0..(chunks[c].max_size - 1) :
                                Cardinality({t \in held : b \in Extent(t)})
                              + Cardinality({i \in DOMAIN free :
                                    b \in free[i].offset..(End(free[i]) - 1)}) = 1
    BY DEF MemoryAccounted
  <2>1. TensorsOk(tensors) /\ MemOk(State(chunks, hash))
    BY DEF PlanInv
  <2>2. Coalesced(chunks[c].free)
    BY <2>1, AccountedList
  <2>3. ASSUME NEW b \in 0..(chunks[c].max_size - 1)
        PROVE  Cardinality({t \in {t \in T : hash[t].allocated /\ hash[t].addr.chunk = c} :
                               b \in Extent(t)})
               + Cardinality({i \in DOMAIN chunks[c].free :
                     b \in chunks[c].free[i].offset..(End(chunks[c].free[i]) - 1)}) = 1
    BY <2>1, Accounted DEF Blocks
  <2>4. Len(chunks[c].free)
          <= Cardinality({t \in T : hash[t].allocated /\ hash[t].addr.chunk = c}) + 1
    BY <2>1, AccountedLength
  <2>5. QED
    BY <2>2, <2>3, <2>4
<1>2. QED
  BY <1>1, PlanInvariant, PTL

=============================================================================
