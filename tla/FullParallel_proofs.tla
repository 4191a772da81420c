------------------------- MODULE FullParallel_proofs -------------------------
(***************************************************************************)
(* For every audio, any probabilities of speech, any setting of the        *)
(* detection and any number of threads: the segments of speech are apart   *)
(* and cover what was found to be speech, it fits the room made for it,    *)
(* its times map back in order and to where it was copied from,            *)
(* the shares of the threads tile the audio, and their results come        *)
(* together complete and in order.                                         *)
(*                                                                         *)
(* The invariant says what the variables of the loop over the              *)
(* probabilities hold while segments are still open (ScanOk), what the     *)
(* segments are once it is over (SpeechFound), and that the segments of    *)
(* each thread follow each other (Threads).  What is computed by a         *)
(* recursive function - merging, filtering, copying, combining - is        *)
(* followed step by step with Recursion (the function is what its steps    *)
(* make it) and Induction (what each step preserves, the result has).      *)
(***************************************************************************)
EXTENDS FullParallel, SequenceTheorems, WellFoundedInduction, NaturalsInduction, TLAPS

(* Numbers, and recursion over them. *)
LEMMA Smallest ==
    ASSUME NEW S, S \subseteq Nat, S # {}
    PROVE  \E x \in S : \A y \in S : x <= y
<1>1. PICK x \in S : \A y \in S : ~(<<y, x>> \in OpToRel(<, Nat))
  BY NatLessThanWellFounded, WFMin
<1>2. \A y \in S : ~(y < x)
  BY <1>1 DEF OpToRel
<1>3. QED
  BY <1>2

(* A set of numbers that has 0 and with each number the next has them all, *)
(* up to a bound.                                                          *)
LEMMA Induction ==
    ASSUME NEW n \in Nat, NEW S, 0 \in S,
           \A m \in 0..(n - 1) : m \in S => m + 1 \in S
    PROVE  \A m \in 0..n : m \in S
<1> SUFFICES ASSUME NEW z \in 0..n, z \notin S PROVE FALSE
  OBVIOUS
<1> DEFINE T == {m \in 0..n : m \notin S}
<1>1. T \subseteq Nat /\ T # {}
  OBVIOUS
<1>2. PICK x \in T : \A y \in T : x <= y
  BY <1>1, Smallest
<1>3. x \in 0..n /\ x \notin S /\ x # 0
  OBVIOUS
<1>4. x - 1 \in 0..(n - 1) /\ x - 1 \in 0..n /\ ~(x <= x - 1) /\ (x - 1) + 1 = x
  BY <1>3
<1>5. x - 1 \in S
  BY <1>2, <1>4
<1>6. QED
  BY <1>3, <1>4, <1>5

(* What a recursive function yields when each of its steps stays in V.     *)
Follows(f, n, V, a, step) ==
    f \in [0..n -> V] /\ f[0] = a /\ \A i \in 1..n : f[i] = step[i][f[i - 1]]

LEMMA Recursion ==
    ASSUME NEW n \in Nat, NEW V, NEW a \in V, NEW step \in [1..n -> [V -> V]]
    PROVE  \E f : Follows(f, n, V, a, step)
<1> DEFINE Is(f, m) == /\ f \in [0..m -> V] /\ f[0] = a
                       /\ \A i \in 1..m : f[i] = step[i][f[i - 1]]
           S == {m \in 0..n : \E f : Is(f, m)}
<1>1. 0 \in S
  <2> DEFINE h == [i \in 0..0 |-> a]
  <2>1. h \in [0..0 -> V] /\ h[0] = a
    OBVIOUS
  <2>2. \A i \in 1..0 : FALSE
    OBVIOUS
  <2>3. Is(h, 0)
    BY <2>1, <2>2
  <2> HIDE DEF h, Is
  <2>4. QED
    BY <2>3
<1>2. ASSUME NEW m \in 0..(n - 1), m \in S PROVE m + 1 \in S
  <2>1. PICK f : Is(f, m)
    BY <1>2
  <2>2. m \in 0..m /\ m + 1 \in 1..n /\ m + 1 \in 0..n
    OBVIOUS
  <2>3. f[m] \in V /\ step[m + 1] \in [V -> V]
    BY <2>1, <2>2
  <2>4. step[m + 1][f[m]] \in V
    BY <2>3
  <2> DEFINE g == [i \in 0..(m + 1) |-> IF i <= m THEN f[i] ELSE step[m + 1][f[m]]]
  <2>5. g \in [0..(m + 1) -> V]
    <3>1. \A i \in 0..(m + 1) : i <= m => i \in 0..m
      OBVIOUS
    <3>2. QED
      BY <2>1, <2>4, <3>1
  <2>6. g[0] = a
    BY <2>1
  <2>7. ASSUME NEW i \in 1..(m + 1) PROVE g[i] = step[i][g[i - 1]]
    <3>1. i - 1 \in 0..(m + 1) /\ i \in 0..(m + 1) /\ i - 1 <= m
      OBVIOUS
    <3>2. g[i - 1] = f[i - 1]
      BY <3>1
    <3>3. CASE i <= m
      <4>1. g[i] = f[i] /\ i \in 1..m
        BY <3>1, <3>3
      <4>2. QED
        BY <2>1, <3>2, <4>1
    <3>4. CASE i = m + 1
      <4>1. g[i] = step[m + 1][f[m]] /\ i - 1 = m
        BY <3>1, <3>4
      <4>2. QED
        BY <3>2, <3>4, <4>1
    <3>5. QED
      BY <3>3, <3>4
  <2>8. Is(g, m + 1)
    BY <2>5, <2>6, <2>7
  <2>9. QED
    BY <2>2, <2>8
<1>3. \A m \in 0..n : m \in S
  <2> HIDE DEF S
  <2>1. \A m \in 0..(n - 1) : m \in S => m + 1 \in S
    BY <1>2
  <2>2. QED
    BY <1>1, <2>1, Induction
<1>4. n \in S
  BY <1>3
<1>5. QED
  BY <1>4 DEF Follows

-----------------------------------------------------------------------------
(* The voice activity detection: what its variables hold.                  *)

Speech == [start : Int, end : Int]

LEMMA Rates ==
    /\ SampleRate \in Nat /\ SampleRate > 0 /\ n_window \in Nat /\ n_window > 0
    /\ SampleRate \div 100 \in Nat /\ SampleRate = 100 * (SampleRate \div 100)
    /\ SampleRate \div 100 > 0
BY VadAssumption

LEMMA Conversions ==
    /\ \A ms \in Nat : Samples(ms) \in Nat
    /\ \A n \in Int : cs_to_samples(n) \in Int /\ samples_to_cs(n) \in Int
<1>1. ASSUME NEW ms \in Nat PROVE Samples(ms) \in Nat
  <2>1. SampleRate * ms \in Nat
    BY Rates
  <2>2. \A x \in Nat : x \div 1000 \in Nat
    OBVIOUS
  <2>3. QED
    BY <2>1, <2>2 DEF Samples
<1>2. ASSUME NEW n \in Int PROVE cs_to_samples(n) \in Int
  <2>1. \A x \in Nat : n * x \in Int
    OBVIOUS
  <2>2. QED
    BY Rates, <2>1 DEF cs_to_samples
<1>3. ASSUME NEW n \in Int PROVE samples_to_cs(n) \in Int
  <2>1. 2 * SampleRate \in Nat \ {0}
    BY Rates
  <2>2. 2 * 100 * n + SampleRate \in Int
    BY Rates
  <2>3. \A x \in Int, y \in Nat \ {0} : x \div y \in Int
    OBVIOUS
  <2>4. QED
    BY <2>1, <2>2, <2>3 DEF samples_to_cs
<1>4. QED
  BY <1>1, <1>2, <1>3

LEMMA ParamsInt ==
    ASSUME NEW p \in VadParams
    PROVE  /\ min_speech_samples(p) \in Nat /\ min_silence_samples(p) \in Nat
           /\ speech_pad_samples(p) \in Nat /\ Samples(p.samples_overlap_ms) \in Nat
           /\ silence_samples \in Nat /\ max_merge_gap_samples \in Nat
           /\ min_silence_samples_at_max_speech \in Nat
           /\ max_speech_samples(p) \in Int
<1>1. /\ p.min_speech_ms \in Nat /\ p.min_silence_ms \in Nat /\ p.speech_pad_ms \in Nat
      /\ p.samples_overlap_ms \in Nat /\ p.max_speech_s \in Nat
  BY DEF VadParams
<1>2. /\ min_speech_samples(p) \in Nat /\ min_silence_samples(p) \in Nat
      /\ speech_pad_samples(p) \in Nat /\ Samples(p.samples_overlap_ms) \in Nat
  BY <1>1, Conversions DEF min_speech_samples, min_silence_samples, speech_pad_samples
<1>3. /\ silence_samples \in Nat /\ max_merge_gap_samples \in Nat
      /\ min_silence_samples_at_max_speech \in Nat
  BY Conversions DEF silence_samples, max_merge_gap_samples, min_silence_samples_at_max_speech
<1>4. max_speech_samples(p) \in Int
  <2>1. IntMax \div 2 \in Int
    BY VadAssumption
  <2>2. SampleRate * p.max_speech_s \in Int
    BY <1>1, Rates
  <2>3. SampleRate * p.max_speech_s - n_window - 2 * speech_pad_samples(p) \in Int
    BY <1>2, <2>2, Rates
  <2>4. QED
    BY <2>1, <2>3 DEF max_speech_samples
<1>5. QED
  BY <1>2, <1>3, <1>4

(* The room for the speech that is copied. *)
Rooms(g, segs, p, n) ==
    /\ g[0] = (Len(segs) - 1) * silence_samples
    /\ \A i \in 1..Len(segs) :
          g[i] = g[i - 1] + SegmentEnd(segs, p, i, n) - cs_to_samples(segs[i].start)
    /\ \A i \in 0..Len(segs) : g[i] \in Int

LEMMA RoomIs ==
    ASSUME NEW segs \in Seq(Speech), NEW p \in VadParams, NEW n \in Int
    PROVE  \E g : Rooms(g, segs, p, n) /\ RoomNeeded(segs, p, n) = g[Len(segs)]
<1> DEFINE N == Len(segs)
           a == (N - 1) * silence_samples
           step == [i \in 1..N |-> [v \in Int |->
                       v + SegmentEnd(segs, p, i, n) - cs_to_samples(segs[i].start)]]
           Is(f) == f = [i \in 0..N |->
                       IF i = 0 THEN (Len(segs) - 1) * silence_samples
                       ELSE f[i - 1] + SegmentEnd(segs, p, i, n)
                                     - cs_to_samples(segs[i].start)]
<1>1. N \in Nat /\ a \in Int
  BY ParamsInt
<1>2. \A i \in 1..N : SegmentEnd(segs, p, i, n) \in Int /\ cs_to_samples(segs[i].start) \in Int
  <2> TAKE i \in 1..N
  <2>0. segs[i] \in Speech
    BY ElementOfSeq
  <2>1. segs[i].start \in Int /\ segs[i].end \in Int
    BY <2>0 DEF Speech
  <2>2. cs_to_samples(segs[i].start) \in Int /\ cs_to_samples(segs[i].end) \in Int
    BY <2>1, Conversions
  <2>3. QED
    BY <2>2, ParamsInt DEF SegmentEnd, Smaller
<1>3. step \in [1..N -> [Int -> Int]]
  BY <1>2
<1>4. PICK f \in [0..N -> Int] : f[0] = a /\ \A i \in 1..N : f[i] = step[i][f[i - 1]]
  <2> HIDE DEF N, a, step
  <2>1. \E f : Follows(f, N, Int, a, step)
    BY <1>1, <1>3, Recursion
  <2>2. QED
    BY <2>1 DEF Follows
<1>5. Is(f)
  <2>1. \A i \in 0..N : i # 0 => i \in 1..N /\ i - 1 \in 0..N
    BY <1>1
  <2>2. \A i \in 1..N : f[i] = f[i - 1] + SegmentEnd(segs, p, i, n) - cs_to_samples(segs[i].start)
    <3> TAKE i \in 1..N
    <3>1. i - 1 \in 0..N
      BY <1>1
    <3>2. f[i - 1] \in Int /\ f[i] = step[i][f[i - 1]]
      BY <1>4, <3>1
    <3>3. QED
      BY <3>2
  <2>3. f = [i \in 0..N |-> f[i]]
    BY <1>4
  <2>4. QED
    BY <1>4, <2>1, <2>2, <2>3
<1>6. RoomNeeded(segs, p, n) = (CHOOSE g : Is(g))[N]
  BY DEF RoomNeeded
<1>7. PICK g : Is(g) /\ RoomNeeded(segs, p, n) = g[N]
  <2> HIDE DEF Is
  <2>1. QED
    BY <1>5, <1>6
<1>8. \A m \in 0..N : g[m] \in Int
  <2> DEFINE S == {m \in 0..N : g[m] \in Int}
  <2>1. 0 \in S
    BY <1>1, <1>7
  <2>2. ASSUME NEW m \in 0..(N - 1), m \in S PROVE m + 1 \in S
    <3>1. m + 1 \in 1..N /\ m + 1 \in 0..N /\ m + 1 # 0 /\ (m + 1) - 1 = m
      BY <1>1
    <3>2. g[m + 1] = g[m] + SegmentEnd(segs, p, m + 1, n) - cs_to_samples(segs[m + 1].start)
      BY <1>7, <3>1
    <3>3. g[m] \in Int
      BY <2>2
    <3>4. QED
      BY <1>2, <3>1, <3>2, <3>3
  <2>3. \A m \in 0..N : m \in S
    <3> HIDE DEF S, N
    <3>1. QED
      BY <1>1, <2>1, <2>2, Induction
  <2>4. QED
    BY <2>3
<1>9. g[0] = a /\ \A i \in 1..N :
        g[i] = g[i - 1] + SegmentEnd(segs, p, i, n) - cs_to_samples(segs[i].start)
  <2>1. 0 \in 0..N /\ \A i \in 1..N : i \in 0..N /\ i # 0
    BY <1>1
  <2>2. QED
    BY <1>7, <2>1
<1>10. QED
  BY <1>7, <1>8, <1>9 DEF Rooms

LEMMA RoomIsInt ==
    ASSUME NEW segs \in Seq(Speech), NEW p \in VadParams, NEW n \in Int
    PROVE  RoomNeeded(segs, p, n) \in Int
<1>1. PICK g : Rooms(g, segs, p, n) /\ RoomNeeded(segs, p, n) = g[Len(segs)]
  BY RoomIs
<1>2. Len(segs) \in 0..Len(segs)
  OBVIOUS
<1>3. QED
  BY <1>1, <1>2 DEF Rooms

-----------------------------------------------------------------------------
(* Segments of speech one after the other, each of a window at least, that *)
(* end before sample number at.                                            *)
Apart(q, at) ==
    /\ q \in Seq(Speech)
    /\ \A i \in 1..Len(q) : /\ 0 <= q[i].start /\ q[i].start + n_window <= q[i].end
                            /\ q[i].end <= at
    /\ \A i \in 1..(Len(q) - 1) : q[i].end <= q[i + 1].start

(* Nothing yet ends behind x. *)
NothingBehind(q, x) == q # <<>> => q[Len(q)].end <= x

Grows(q, at, b, e, next) ==
    /\ at \in Int /\ b \in Int /\ e \in Int /\ next \in Int
    /\ Apart(q, at) /\ NothingBehind(q, b)
    /\ 0 <= b /\ b + n_window <= e /\ e <= next /\ at <= next

Grown(q, b, e, next) ==
    LET r == Append(q, [start |-> b, end |-> e])
    IN  Apart(r, next) /\ r # <<>> /\ r[Len(r)].end = e

LEMMA AppendApart ==
    ASSUME NEW q, NEW at, NEW b, NEW e, NEW next, Grows(q, at, b, e, next)
    PROVE  Grown(q, b, e, next)
<1> DEFINE s == [start |-> b, end |-> e]
           r == Append(q, s)
<1> USE DEF Grows
<1>1. q \in Seq(Speech) /\ s \in Speech /\ s.start = b /\ s.end = e
  BY DEF Apart, Speech
<1>2. /\ r \in Seq(Speech) /\ Len(r) = Len(q) + 1 /\ Len(q) \in Nat
      /\ \A i \in 1..Len(q) : r[i] = q[i]
      /\ r[Len(q) + 1] = s
  BY <1>1
<1>3. \A i \in 1..Len(q) : /\ q[i].start \in Int /\ q[i].end \in Int
                           /\ 0 <= q[i].start /\ q[i].start + n_window <= q[i].end
                           /\ q[i].end <= at
  <2> TAKE i \in 1..Len(q)
  <2>1. q[i] \in Speech
    BY <1>1, ElementOfSeq
  <2>2. QED
    BY <2>1 DEF Apart, Speech
<1>4. ASSUME NEW i \in 1..Len(r)
      PROVE  /\ 0 <= r[i].start /\ r[i].start + n_window <= r[i].end /\ r[i].end <= next
  <2>1. CASE i \in 1..Len(q)
    <3>1. r[i] = q[i]
      BY <1>2, <2>1
    <3>2. QED
      BY <1>3, <2>1, <3>1
  <2>2. CASE i = Len(q) + 1
    BY <1>1, <1>2, <2>2
  <2>3. QED
    BY <1>2, <2>1, <2>2
<1>5. ASSUME NEW i \in 1..(Len(r) - 1) PROVE r[i].end <= r[i + 1].start
  <2>1. i \in 1..Len(q) /\ r[i] = q[i]
    BY <1>2
  <2>2. CASE i = Len(q)
    <3>1. q # <<>>
      BY <2>1, <2>2
    <3>2. QED
      BY <1>1, <1>2, <2>1, <2>2, <3>1 DEF NothingBehind
  <2>3. CASE i # Len(q)
    <3>1. i \in 1..(Len(q) - 1) /\ i + 1 \in 1..Len(q)
      BY <1>2, <2>1, <2>3
    <3>2. QED
      BY <1>2, <2>1, <3>1 DEF Apart
  <2>4. QED
    BY <2>2, <2>3
<1>6. r # <<>>
  BY <1>2
<1>7. Apart(r, next) /\ r # <<>> /\ r[Len(r)].end = e
  <2> HIDE DEF s, r
  <2>1. QED
    BY <1>1, <1>2, <1>4, <1>5, <1>6 DEF Apart
<1>8. QED
  BY <1>7 DEF Grown

LEMMA ApartLater ==
    ASSUME NEW q, NEW at \in Int, Apart(q, at), NEW next \in Int, at <= next
    PROVE  Apart(q, next) /\ NothingBehind(q, next)
<1>1. q \in Seq(Speech) /\ Len(q) \in Nat
  BY DEF Apart
<1>2. \A i \in 1..Len(q) : q[i].end \in Int /\ q[i].end <= next
  <2> TAKE i \in 1..Len(q)
  <2>1. q[i] \in Speech
    BY <1>1, ElementOfSeq
  <2>2. QED
    BY <2>1 DEF Apart, Speech
<1>3. q # <<>> => Len(q) \in 1..Len(q)
  BY <1>1
<1>4. QED
  BY <1>2, <1>3 DEF Apart, NothingBehind

(* The variables of the loop when the windows before sample number at have *)
(* been looked at: open speech began a window ago at least, behind the     *)
(* segments that are found, and its pauses and their ends lie in it.       *)
ScanTyped(s) ==
    s \in [is_speech : BOOLEAN, temp_end : Int, prev_end : Int, next_start : Int,
           start : Int, has_speech : BOOLEAN, speeches : Seq(Speech)]

(* A time that is set lies a window behind the start of the speech.        *)
Later(s, x, at) == x # 0 => s.start + n_window <= x /\ x <= at

Idle(s) == ~s.is_speech => s.temp_end = 0 /\ s.prev_end = 0 /\ s.next_start = 0

ScanOk(s, at) ==
    /\ ScanTyped(s) /\ Apart(s.speeches, at) /\ Idle(s)
    /\ s.has_speech = s.is_speech
    /\ s.is_speech => /\ 0 <= s.start /\ s.start + n_window <= at
                      /\ NothingBehind(s.speeches, s.start)
                      /\ Later(s, s.temp_end, at) /\ Later(s, s.prev_end, at)
                      /\ 0 <= s.next_start /\ s.next_start + n_window <= at

LEMMA ForgetTyped ==
    ASSUME NEW s, ScanTyped(s)
    PROVE  /\ ScanTyped(Forget(s))
           /\ Forget(s).temp_end = 0 /\ Forget(s).prev_end = 0 /\ Forget(s).next_start = 0
           /\ Forget(s).start = s.start /\ Forget(s).speeches = s.speeches
           /\ Forget(s).is_speech = s.is_speech /\ Forget(s).has_speech = s.has_speech
<1>1. PICK z \in Int : z = 0
  OBVIOUS
<1>2. Forget(s) = [s EXCEPT !.temp_end = z, !.prev_end = z, !.next_start = z]
  BY <1>1 DEF Forget
<1>3. ScanTyped([s EXCEPT !.temp_end = z, !.prev_end = z, !.next_start = z])
  BY DEF ScanTyped
<1>4. ScanTyped(Forget(s))
  BY <1>2, <1>3
<1>5. QED
  BY <1>4 DEF ScanTyped, Forget

LEMMA StopOk ==
    ASSUME NEW s, ScanTyped(s), NEW at \in Int, Apart(s.speeches, at)
    PROVE  ScanOk(Stop(s), at) /\ ~Stop(s).is_speech
<1> DEFINE t == Stop(s)
<1>1. t = [is_speech |-> FALSE, temp_end |-> 0, prev_end |-> 0, next_start |-> 0,
           start |-> s.start, has_speech |-> FALSE, speeches |-> s.speeches]
  <2> DEFINE f == Forget(s)
  <2>1. /\ ScanTyped(f) /\ f.temp_end = 0 /\ f.prev_end = 0 /\ f.next_start = 0
        /\ f.start = s.start /\ f.speeches = s.speeches
    BY ForgetTyped
  <2>2. t = [f EXCEPT !.is_speech = FALSE, !.has_speech = FALSE]
    BY DEF Stop
  <2> HIDE DEF f, t
  <2>3. QED
    BY <2>1, <2>2 DEF ScanTyped
<1>2. s.start \in Int /\ s.speeches \in Seq(Speech)
  BY DEF ScanTyped
<1>3. /\ t.is_speech = FALSE /\ t.has_speech = FALSE /\ t.temp_end = 0 /\ t.prev_end = 0
      /\ t.next_start = 0 /\ t.speeches = s.speeches
  BY <1>1
<1>4. ScanTyped(t)
  BY <1>1, <1>2 DEF ScanTyped
<1>5. QED
  <2> HIDE DEF t
  <2>1. Apart(t.speeches, at)
    BY <1>3
  <2>2. Idle(t) /\ t.has_speech = t.is_speech
    BY <1>3 DEF Idle
  <2>3. ScanOk(t, at)
    BY ONLY <1>3, <1>4, <2>1, <2>2 DEF ScanOk
  <2>4. QED
    BY <1>3, <2>3 DEF t

LEMMA FoundApart ==
    ASSUME NEW s, ScanTyped(s), NEW at \in Int, Apart(s.speeches, at),
           NothingBehind(s.speeches, s.start), 0 <= s.start,
           NEW e \in Int, s.start + n_window <= e, e <= at
    PROVE  /\ ScanTyped(Found(s, e)) /\ Apart(Found(s, e).speeches, at)
           /\ Found(s, e) = [s EXCEPT !.speeches = Append(s.speeches, [start |-> s.start, end |-> e])]
           /\ NothingBehind(Found(s, e).speeches, e)
<1>1. s.start \in Int /\ s.speeches \in Seq(Speech)
  BY DEF ScanTyped
<1> DEFINE f == [start |-> s.start, end |-> e]
           r == Append(s.speeches, f)
<1>2. Apart(r, at) /\ r # <<>> /\ r[Len(r)].end = e
  <2>1. at <= at
    OBVIOUS
  <2> HIDE DEF r
  <2>2. f = [start |-> s.start, end |-> e] /\ r = Append(s.speeches, f)
    BY DEF r
  <2> HIDE DEF f
  <2>3. Grows(s.speeches, at, s.start, e, at)
    BY <1>1, <2>1 DEF Grows
  <2>4. Grown(s.speeches, s.start, e, at)
    BY <2>3, AppendApart
  <2>5. QED
    BY <2>2, <2>4 DEF Grown
<1>3. Found(s, e) = [s EXCEPT !.speeches = r]
  BY DEF Found
<1>4. r \in Seq(Speech)
  BY <1>2 DEF Apart
<1>5. Found(s, e) = [is_speech |-> s.is_speech, temp_end |-> s.temp_end,
                     prev_end |-> s.prev_end, next_start |-> s.next_start,
                     start |-> s.start, has_speech |-> s.has_speech, speeches |-> r]
  <2> HIDE DEF r
  <2>1. QED
    BY <1>3 DEF ScanTyped
<1>6. ScanTyped(Found(s, e)) /\ Found(s, e).speeches = r
  <2> HIDE DEF r
  <2>1. QED
    BY <1>4, <1>5 DEF ScanTyped
<1>7. NothingBehind(r, e)
  BY <1>2, <1>4 DEF NothingBehind
<1>8. QED
  BY <1>2, <1>3, <1>6, <1>7

(* The same amid a turn of the loop: speech may have begun with the window *)
(* that ends at now, pauses are looked at up to where it starts.           *)
ScanMid(s, at, now) ==
    /\ ScanTyped(s) /\ Apart(s.speeches, at) /\ Idle(s)
    /\ s.has_speech = s.is_speech
    /\ s.is_speech => /\ 0 <= s.start /\ s.start + n_window <= now
                      /\ NothingBehind(s.speeches, s.start)
                      /\ Later(s, s.temp_end, at) /\ Later(s, s.prev_end, at)
                      /\ 0 <= s.next_start /\ s.next_start + n_window <= now

(* A pause that goes on, and what follows of it. *)
Paused(u, s, at) ==
    \E x, y \in Int :
         /\ u = [is_speech |-> TRUE, temp_end |-> x, prev_end |-> y,
                 next_start |-> s.next_start, start |-> s.start, has_speech |-> TRUE,
                 speeches |-> s.speeches]
         /\ Later(s, x, at) /\ Later(s, y, at) /\ s.start + n_window <= x /\ x <= at
         /\ x = (IF s.temp_end = 0 THEN at ELSE s.temp_end) /\ y \in {x, s.prev_end}

PauseOf(r, u, p, at) ==
    r = IF at - u.temp_end < min_silence_samples(p) THEN u
        ELSE IF u.temp_end - u.start > min_speech_samples(p)
             THEN Stop(Found(u, u.temp_end)) ELSE Stop(u)

LEMMA PauseIs ==
    ASSUME NEW s, NEW at \in Int, ScanMid(s, at, at), s.is_speech, NEW p \in VadParams
    PROVE  \E u : Paused(u, s, at) /\ PauseOf(Pause(s, p, at), u, p, at)
<1> DEFINE t == [s EXCEPT !.temp_end = IF @ = 0 THEN at ELSE @]
           u == IF at - t.temp_end > min_silence_samples_at_max_speech
                THEN [t EXCEPT !.prev_end = t.temp_end] ELSE t
<1>1. /\ s.start \in Int /\ s.speeches \in Seq(Speech) /\ s.temp_end \in Int
      /\ s.prev_end \in Int /\ s.next_start \in Int
      /\ s = [is_speech |-> TRUE, temp_end |-> s.temp_end, prev_end |-> s.prev_end,
              next_start |-> s.next_start, start |-> s.start, has_speech |-> TRUE,
              speeches |-> s.speeches]
  BY DEF ScanMid, ScanTyped
<1>2. \E x, y \in Int :
         /\ u = [is_speech |-> TRUE, temp_end |-> x, prev_end |-> y,
                 next_start |-> s.next_start, start |-> s.start, has_speech |-> TRUE,
                 speeches |-> s.speeches]
         /\ Later(s, x, at) /\ Later(s, y, at) /\ s.start + n_window <= x /\ x <= at
         /\ x = (IF s.temp_end = 0 THEN at ELSE s.temp_end) /\ y \in {x, s.prev_end}
  <2> DEFINE x == IF s.temp_end = 0 THEN at ELSE s.temp_end
             y == IF at - x > min_silence_samples_at_max_speech THEN x ELSE s.prev_end
  <2>1. x \in Int /\ y \in Int
    BY <1>1
  <2>2. s.start + n_window <= x /\ x <= at /\ Later(s, x, at)
    BY <1>1, Rates DEF ScanMid, Later
  <2>3. Later(s, y, at) /\ y \in {x, s.prev_end}
    BY <2>2 DEF ScanMid
  <2> DEFINE first == x = (IF s.temp_end = 0 THEN at ELSE s.temp_end)
  <2>8. first
    OBVIOUS
  <2> HIDE DEF first
  <2>4. t = [is_speech |-> TRUE, temp_end |-> x, prev_end |-> s.prev_end,
             next_start |-> s.next_start, start |-> s.start, has_speech |-> TRUE,
             speeches |-> s.speeches]
    <3>1. t = [s EXCEPT !.temp_end = x]
      BY <1>1
    <3> HIDE DEF t, x
    <3>2. ScanTyped(s) /\ s.is_speech = TRUE /\ s.has_speech = TRUE
      BY DEF ScanMid
    <3>3. QED
      BY <3>1, <3>2 DEF ScanTyped
  <2> HIDE DEF t, x
  <2>5. t.temp_end = x
    BY <2>4
  <2>6. u = [is_speech |-> TRUE, temp_end |-> x, prev_end |-> y,
             next_start |-> s.next_start, start |-> s.start, has_speech |-> TRUE,
             speeches |-> s.speeches]
    <3>1. CASE at - x > min_silence_samples_at_max_speech
      <4>1. u = [t EXCEPT !.prev_end = x] /\ y = x
        BY <2>5, <3>1
      <4>2. QED
        BY <2>4, <4>1
    <3>2. CASE ~(at - x > min_silence_samples_at_max_speech)
      BY <2>4, <2>5, <3>2
    <3>3. QED
      BY <3>1, <3>2
  <2> HIDE DEF u, y
  <2>7. QED
    BY <2>1, <2>2, <2>3, <2>6, <2>8 DEF first
<1>3. Paused(u, s, at)
  <2> HIDE DEF u
  <2>1. QED
    BY <1>2 DEF Paused
<1>4. Pause(s, p, at) = IF at - u.temp_end < min_silence_samples(p) THEN u
                        ELSE IF u.temp_end - u.start > min_speech_samples(p)
                             THEN Stop(Found(u, u.temp_end)) ELSE Stop(u)
  BY DEF Pause
<1>5. PauseOf(Pause(s, p, at), u, p, at)
  <2> HIDE DEF u
  <2>1. QED
    BY <1>4 DEF PauseOf
<1>6. QED
  BY <1>3, <1>5

LEMMA PauseOk ==
    ASSUME NEW s, NEW at \in Int, ScanMid(s, at, at), s.is_speech, NEW p \in VadParams
    PROVE  ScanMid(Pause(s, p, at), at, at)
<1>1. /\ s.start \in Int /\ s.speeches \in Seq(Speech) /\ s.temp_end \in Int
      /\ s.prev_end \in Int /\ s.next_start \in Int
  BY DEF ScanMid, ScanTyped
<1>2. PICK u : Paused(u, s, at) /\ PauseOf(Pause(s, p, at), u, p, at)
  BY PauseIs
<1>3. ScanMid(u, at, at) /\ u.is_speech /\ u.temp_end \in Int /\ u.start = s.start
      /\ s.start + n_window <= u.temp_end /\ u.temp_end <= at /\ u.speeches = s.speeches
  <2>1. PICK x, y \in Int :
           /\ u = [is_speech |-> TRUE, temp_end |-> x, prev_end |-> y,
                   next_start |-> s.next_start, start |-> s.start, has_speech |-> TRUE,
                   speeches |-> s.speeches]
           /\ Later(s, x, at) /\ Later(s, y, at) /\ s.start + n_window <= x /\ x <= at
    BY <1>2 DEF Paused
  <2>2. /\ u.is_speech /\ u.has_speech /\ u.temp_end = x /\ u.prev_end = y
        /\ u.next_start = s.next_start /\ u.start = s.start /\ u.speeches = s.speeches
    BY <2>1
  <2>3. ScanTyped(u)
    BY <1>1, <2>1 DEF ScanTyped
  <2>4. Later(u, x, at) /\ Later(u, y, at)
    BY <2>1, <2>2 DEF Later
  <2>5. QED
    BY <1>1, <2>1, <2>2, <2>3, <2>4 DEF ScanMid, Idle
<1>4. Pause(s, p, at) = IF at - u.temp_end < min_silence_samples(p) THEN u
                        ELSE IF u.temp_end - u.start > min_speech_samples(p)
                             THEN Stop(Found(u, u.temp_end)) ELSE Stop(u)
  BY <1>2 DEF PauseOf
<1>5. ScanTyped(u) /\ Apart(u.speeches, at)
  BY <1>3 DEF ScanMid
<1>6. ScanOk(Stop(u), at) /\ ~Stop(u).is_speech
  BY <1>5, StopOk
<1>7. ScanOk(Stop(Found(u, u.temp_end)), at) /\ ~Stop(Found(u, u.temp_end)).is_speech
  <2>1. /\ NothingBehind(u.speeches, u.start) /\ 0 <= u.start
        /\ u.start + n_window <= u.temp_end
    BY <1>3 DEF ScanMid
  <2>2. ScanTyped(Found(u, u.temp_end)) /\ Apart(Found(u, u.temp_end).speeches, at)
    BY <1>3, <1>5, <2>1, FoundApart
  <2>3. QED
    BY <2>2, StopOk
<1>8. QED
  BY <1>3, <1>4, <1>6, <1>7 DEF ScanMid, ScanOk

LEMMA ScanLater ==
    ASSUME NEW s, NEW at \in Int, NEW now \in Int, ScanMid(s, at, now),
           NEW next \in Int, now <= next, at <= next
    PROVE  ScanOk(s, next)
<1>1. Apart(s.speeches, next)
  BY ApartLater DEF ScanMid
<1>2. s.start \in Int /\ s.temp_end \in Int /\ s.prev_end \in Int /\ s.next_start \in Int
  BY DEF ScanMid, ScanTyped
<1>3. s.is_speech => Later(s, s.temp_end, next) /\ Later(s, s.prev_end, next)
  BY <1>2 DEF ScanMid, Later
<1>4. QED
  BY <1>1, <1>2, <1>3, Rates DEF ScanMid, ScanOk

LEMMA ScanOkMid ==
    ASSUME NEW s, NEW at \in Int, ScanOk(s, at), NEW now \in Int, at <= now
    PROVE  ScanMid(s, at, now)
<1>1. s.start \in Int /\ s.next_start \in Int
  BY DEF ScanOk, ScanTyped
<1>2. QED
  BY <1>1, Rates DEF ScanMid, ScanOk

LEMMA ResumeOk ==
    ASSUME NEW s, NEW at \in Int, 0 <= at, ScanOk(s, at), NEW level, NEW now \in Int,
           now = IF level = "speech" THEN at + n_window ELSE at
    PROVE  LET r == Resume(s, level, at)
           IN  /\ ScanMid(r, at, now) /\ r.is_speech = s.is_speech
               /\ r.is_speech => r.start + n_window <= at
<1> DEFINE r == Resume(s, level, at)
<1>1. at <= now
  BY Rates
<1>2. /\ s.start \in Int /\ s.temp_end \in Int /\ s.prev_end \in Int
      /\ s.next_start \in Int /\ s.speeches \in Seq(Speech)
      /\ s.is_speech \in BOOLEAN /\ s.has_speech \in BOOLEAN
  BY DEF ScanOk, ScanTyped
<1>3. CASE level # "speech" \/ s.temp_end = 0
  <2>1. r = s
    BY <1>3 DEF Resume
  <2>2. ScanMid(s, at, now)
    BY <1>1, ScanOkMid
  <2>3. QED
    BY <2>1, <2>2 DEF ScanOk
<1>4. CASE ~(level # "speech" \/ s.temp_end = 0)
  <2> DEFINE x == IF s.next_start < s.prev_end THEN at ELSE s.next_start
  <2>1. x \in Int /\ now = at + n_window /\ s.is_speech
    BY <1>2, <1>4 DEF ScanOk, Idle
  <2>2. PICK z \in Int : z = 0
    OBVIOUS
  <2>3. r = [s EXCEPT !.temp_end = z, !.next_start = x]
    BY <1>4, <2>2 DEF Resume
  <2>4. 0 <= x /\ x + n_window <= now
    BY <1>2, <2>1, Rates DEF ScanOk
  <2> HIDE DEF x
  <2>5. ScanTyped(s)
    BY DEF ScanOk
  <2>6. ScanTyped([s EXCEPT !.temp_end = z, !.next_start = x])
    BY <2>1, <2>5 DEF ScanTyped
  <2> HIDE DEF r
  <2>7. /\ ScanTyped(r) /\ r.temp_end = 0 /\ r.prev_end = s.prev_end /\ r.next_start = x
        /\ r.start = s.start /\ r.has_speech = s.has_speech /\ r.is_speech = s.is_speech
        /\ r.speeches = s.speeches
    BY <2>2, <2>3, <2>5, <2>6 DEF ScanTyped
  <2>8. Later(r, r.temp_end, at) /\ Later(r, r.prev_end, at)
    BY <2>1, <2>7 DEF ScanOk, Later
  <2>9. Idle(r)
    BY <2>1, <2>7 DEF Idle
  <2>10. r.start + n_window <= at /\ r.start + n_window <= now
    BY <1>1, <1>2, <2>1, <2>7, Rates DEF ScanOk
  <2>11. Apart(r.speeches, at) /\ r.has_speech = r.is_speech /\ 0 <= r.start
         /\ NothingBehind(r.speeches, r.start)
    BY <2>1, <2>7 DEF ScanOk
  <2>12. ScanMid(r, at, now)
    BY ONLY <2>4, <2>7, <2>8, <2>9, <2>10, <2>11 DEF ScanMid
  <2>13. QED
    BY <2>7, <2>10, <2>12 DEF r
<1>5. QED
  BY <1>3, <1>4

LEMMA CutOk ==
    ASSUME NEW s, NEW at \in Int, NEW now \in Int, at <= now, ScanMid(s, at, now),
           s.is_speech, s.prev_end # 0
    PROVE  ScanMid(CutAtPause(s), at, now)
<1>1. /\ s.start \in Int /\ s.temp_end \in Int /\ s.prev_end \in Int
      /\ s.next_start \in Int /\ s.speeches \in Seq(Speech)
      /\ ScanTyped(s) /\ Apart(s.speeches, at)
  BY DEF ScanMid, ScanTyped
<1>2. /\ 0 <= s.start /\ s.start + n_window <= s.prev_end /\ s.prev_end <= at
      /\ NothingBehind(s.speeches, s.start)
  BY DEF ScanMid, Later
<1> DEFINE f == Found(s, s.prev_end)
<1>3. /\ ScanTyped(f) /\ Apart(f.speeches, at) /\ NothingBehind(f.speeches, s.prev_end)
      /\ f = [s EXCEPT !.speeches = Append(s.speeches, [start |-> s.start, end |-> s.prev_end])]
  BY <1>1, <1>2, FoundApart
<1>4. CASE s.next_start < s.prev_end
  <2>1. CutAtPause(s) = Stop(f)
    BY <1>4 DEF CutAtPause
  <2> HIDE DEF f
  <2>2. ScanOk(Stop(f), at)
    BY <1>3, StopOk
  <2>3. QED
    BY <2>1, <2>2, ScanOkMid
<1>5. CASE ~(s.next_start < s.prev_end)
  <2> DEFINE g == [f EXCEPT !.start = s.next_start, !.has_speech = TRUE]
             t == Forget(g)
  <2>1. CutAtPause(s) = t
    BY <1>5 DEF CutAtPause
  <2>2. f.is_speech = s.is_speech
    BY <1>1, <1>3 DEF ScanTyped
  <2> HIDE DEF f
  <2>3. /\ ScanTyped(g) /\ g.start = s.next_start /\ g.speeches = f.speeches
        /\ g.is_speech = s.is_speech /\ g.has_speech = TRUE
    BY <1>1, <1>3, <2>2 DEF ScanTyped
  <2> HIDE DEF g
  <2>4. /\ ScanTyped(t) /\ t.start = s.next_start /\ t.speeches = f.speeches
        /\ t.is_speech = s.is_speech /\ t.has_speech = TRUE
        /\ t.temp_end = 0 /\ t.prev_end = 0 /\ t.next_start = 0
    BY <2>3, ForgetTyped
  <2> HIDE DEF t
  <2>5. s.next_start + n_window <= now /\ 0 <= s.next_start /\ s.prev_end <= s.next_start
    BY <1>1, <1>5 DEF ScanMid
  <2>6. NothingBehind(t.speeches, t.start)
    <3>1. f.speeches \in Seq(Speech)
      BY <1>3 DEF ScanTyped
    <3>2. f.speeches # <<>> => Len(f.speeches) \in 1..Len(f.speeches)
      BY <3>1
    <3>3. f.speeches # <<>> => f.speeches[Len(f.speeches)] \in Speech
      BY <3>1, <3>2, ElementOfSeq
    <3>4. f.speeches # <<>> => f.speeches[Len(f.speeches)].end \in Int
      BY <3>3 DEF Speech
    <3>5. QED
      BY <1>1, <1>3, <2>4, <2>5, <3>4 DEF NothingBehind
  <2>7. t.is_speech = TRUE /\ Idle(t) /\ 0 <= t.next_start /\ t.next_start + n_window <= now
    BY <1>1, <1>2, <2>4, <2>5, Rates DEF Idle, ScanMid, ScanTyped
  <2>8. ScanMid(t, at, now)
    BY <1>3, <2>4, <2>5, <2>6, <2>7 DEF ScanMid, Later
  <2>9. QED
    BY <2>1, <2>8
<1>6. QED
  BY <1>4, <1>5

LEMMA PauseIfSilentOk ==
    ASSUME NEW s, NEW at \in Int, NEW level, NEW now \in Int,
           now = IF level = "speech" THEN at + n_window ELSE at,
           ScanMid(s, at, now), NEW p \in VadParams
    PROVE  ScanOk(PauseIfSilent(s, p, level, at), at + n_window)
<1>1. CASE level = "silence" /\ s.is_speech
  <2>1. now = at
    BY <1>1
  <2>2. ScanMid(Pause(s, p, at), at, at)
    BY <1>1, <2>1, PauseOk
  <2>3. ScanOk(Pause(s, p, at), at + n_window)
    BY <2>2, ScanLater, Rates
  <2>4. QED
    BY <1>1, <2>3 DEF PauseIfSilent
<1>2. CASE ~(level = "silence" /\ s.is_speech)
  <2>1. at + n_window \in Int /\ now <= at + n_window /\ at <= at + n_window
    BY Rates
  <2>2. ScanOk(s, at + n_window)
    BY <2>1, ScanLater
  <2>3. PauseIfSilent(s, p, level, at) = s
    BY <1>2 DEF PauseIfSilent
  <2>4. QED
    BY <2>2, <2>3
<1>3. QED
  BY <1>1, <1>2

LEMMA ScanStep ==
    ASSUME NEW was, NEW at \in Int, 0 <= at, ScanOk(was, at), NEW level, NEW p \in VadParams
    PROVE  ScanOk(Scan(was, p, level, at), at + n_window)
<1> DEFINE s == Resume(was, level, at)
           now == IF level = "speech" THEN at + n_window ELSE at
<1>1. now \in Int /\ at <= now /\ at + n_window \in Int
  BY Rates
<1>2. ScanMid(s, at, now) /\ s.is_speech = was.is_speech
      /\ (s.is_speech => s.start + n_window <= at)
  BY <1>1, ResumeOk
<1>3. Scan(was, p, level, at) =
        IF level = "speech" /\ ~s.is_speech
        THEN [s EXCEPT !.is_speech = TRUE, !.has_speech = TRUE, !.start = at]
        ELSE IF s.is_speech /\ at - s.start > max_speech_samples(p)
        THEN IF s.prev_end = 0 THEN Stop(Found(s, at))
             ELSE PauseIfSilent(CutAtPause(s), p, level, at)
        ELSE PauseIfSilent(s, p, level, at)
  BY DEF Scan
<1> HIDE DEF s
<1>4. /\ s.start \in Int /\ s.temp_end \in Int /\ s.prev_end \in Int
      /\ s.next_start \in Int /\ s.speeches \in Seq(Speech)
      /\ ScanTyped(s) /\ Apart(s.speeches, at)
  BY <1>2 DEF ScanMid, ScanTyped
<1>5. CASE level = "speech" /\ ~s.is_speech
  <2> DEFINE t == [s EXCEPT !.is_speech = TRUE, !.has_speech = TRUE, !.start = at]
  <2>1. /\ ScanTyped(t) /\ t.is_speech = TRUE /\ t.has_speech = TRUE /\ t.start = at
        /\ t.temp_end = s.temp_end /\ t.prev_end = s.prev_end
        /\ t.next_start = s.next_start /\ t.speeches = s.speeches
    BY <1>4 DEF ScanTyped
  <2> HIDE DEF t
  <2>2. t.temp_end = 0 /\ t.prev_end = 0 /\ t.next_start = 0
    BY <1>2, <1>5, <2>1 DEF ScanMid, Idle
  <2>3. Apart(t.speeches, at + n_window) /\ NothingBehind(t.speeches, t.start)
    BY <1>1, <1>4, <2>1, ApartLater, Rates
  <2>4. Idle(t) /\ t.has_speech = t.is_speech
    BY <2>1, <2>2 DEF Idle
  <2>5. Later(t, t.temp_end, at + n_window) /\ Later(t, t.prev_end, at + n_window)
    BY <2>2 DEF Later
  <2>6. /\ 0 <= t.start /\ t.start + n_window <= at + n_window
        /\ 0 <= t.next_start /\ t.next_start + n_window <= at + n_window
    BY <2>1, <2>2, Rates
  <2>7. ScanOk(t, at + n_window)
    BY ONLY <2>1, <2>3, <2>4, <2>5, <2>6 DEF ScanOk
  <2>8. QED
    BY <1>3, <1>5, <2>7 DEF t
<1>6. CASE ~(level = "speech" /\ ~s.is_speech) /\ s.is_speech
           /\ at - s.start > max_speech_samples(p) /\ s.prev_end = 0
  <2>1. /\ 0 <= s.start /\ s.start + n_window <= at /\ NothingBehind(s.speeches, s.start)
    BY <1>2, <1>6 DEF ScanMid
  <2>2. ScanTyped(Found(s, at)) /\ Apart(Found(s, at).speeches, at)
    <3>1. at <= at
      OBVIOUS
    <3>2. QED
      BY <1>4, <2>1, <3>1, FoundApart
  <2>3. ScanOk(Stop(Found(s, at)), at)
    BY <2>2, StopOk
  <2>4. ScanMid(Stop(Found(s, at)), at, at)
    BY <2>3, ScanOkMid
  <2>5. ScanOk(Stop(Found(s, at)), at + n_window)
    BY <1>1, <2>4, ScanLater, Rates
  <2>6. QED
    BY <1>3, <1>6, <2>5
<1>7. CASE ~(level = "speech" /\ ~s.is_speech) /\ s.is_speech
           /\ at - s.start > max_speech_samples(p) /\ s.prev_end # 0
  <2>1. ScanMid(CutAtPause(s), at, now)
    <3> HIDE DEF now
    <3>1. QED
      BY <1>1, <1>2, <1>7, CutOk
  <2>2. ScanOk(PauseIfSilent(CutAtPause(s), p, level, at), at + n_window)
    BY <1>1, <2>1, PauseIfSilentOk
  <2>3. QED
    BY <1>3, <1>7, <2>2
<1>8. CASE /\ ~(level = "speech" /\ ~s.is_speech)
           /\ ~(s.is_speech /\ at - s.start > max_speech_samples(p))
  <2>1. ScanOk(PauseIfSilent(s, p, level, at), at + n_window)
    BY <1>1, <1>2, PauseIfSilentOk
  <2>2. QED
    BY <1>3, <1>8, <2>1
<1>9. QED
  BY <1>5, <1>6, <1>7, <1>8

(* After the loop. *)
LEMMA EndedApart ==
    ASSUME NEW s, NEW length \in Int, ScanOk(s, length), NEW p \in VadParams
    PROVE  Apart(Ended(s, p, length), length)
<1>1. ScanTyped(s) /\ Apart(s.speeches, length) /\ s.has_speech = s.is_speech
  BY DEF ScanOk
<1>2. CASE s.has_speech /\ length - s.start > min_speech_samples(p)
  <2>1. 0 <= s.start /\ s.start + n_window <= length /\ NothingBehind(s.speeches, s.start)
    BY <1>2 DEF ScanOk
  <2>2. length <= length
    OBVIOUS
  <2>3. Apart(Found(s, length).speeches, length)
    BY <1>1, <2>1, <2>2, FoundApart
  <2>4. QED
    BY <1>2, <2>3 DEF Ended
<1>3. CASE ~(s.has_speech /\ length - s.start > min_speech_samples(p))
  BY <1>1, <1>3 DEF Ended
<1>4. QED
  BY <1>2, <1>3

LEMMA JoinApart ==
    ASSUME NEW q, NEW at \in Int, Apart(q, at), NEW s \in Speech, NothingBehind(q, s.start),
           0 <= s.start, s.start + n_window <= s.end, s.end <= at
    PROVE  Apart(Join(q, s), at) /\ Join(q, s) # <<>> /\ Join(q, s)[Len(Join(q, s))].end = s.end
<1>1. q \in Seq(Speech) /\ Len(q) \in Nat /\ s.start \in Int /\ s.end \in Int
  BY DEF Apart, Speech
<1>2. CASE q # <<>> /\ s.start - Last(q).end < max_merge_gap_samples
  <2> DEFINE n == Len(q)
             r == [q EXCEPT ![n].end = s.end]
  <2>1. Join(q, s) = r
    BY <1>2 DEF Join
  <2>2. n \in 1..n /\ q[n] \in Speech
    BY <1>1, <1>2, ElementOfSeq
  <2>3. q[n] = [start |-> q[n].start, end |-> q[n].end]
        /\ q[n].start \in Int /\ q[n].end \in Int
    BY <2>2 DEF Speech
  <2> DEFINE e == [start |-> q[n].start, end |-> s.end]
  <2>4. e \in Speech /\ e.start = q[n].start /\ e.end = s.end
    BY <1>1, <2>3 DEF Speech
  <2>5. r = [q EXCEPT ![n] = e]
    <3>1. [q[n] EXCEPT !.end = s.end] = e
      BY <2>3
    <3>2. QED
      BY <3>1
  <2> HIDE DEF r, e
  <2>6. /\ r \in Seq(Speech) /\ Len(r) = n /\ r[n] = e
        /\ \A i \in 1..n : i # n => r[i] = q[i]
    BY <1>1, <2>2, <2>4, <2>5
  <2>7. \A i \in 1..n : /\ q[i].start \in Int /\ q[i].end \in Int
                        /\ 0 <= q[i].start /\ q[i].start + n_window <= q[i].end
                        /\ q[i].end <= at
    <3> TAKE i \in 1..n
    <3>1. q[i] \in Speech
      BY <1>1, ElementOfSeq
    <3>2. QED
      BY <3>1 DEF Apart, Speech
  <2>8. q[n].end <= s.start
    BY <1>2 DEF NothingBehind
  <2>9. ASSUME NEW i \in 1..n
        PROVE  /\ 0 <= r[i].start /\ r[i].start + n_window <= r[i].end /\ r[i].end <= at
    <3>1. CASE i = n
      <4>1. 0 <= q[n].start /\ q[n].start + n_window <= q[n].end
        BY <2>2, <2>7
      <4>2. QED
        BY <1>1, <2>3, <2>4, <2>6, <2>8, <3>1, <4>1, Rates
    <3>2. CASE i # n
      BY <2>6, <2>7, <3>2
    <3>3. QED
      BY <3>1, <3>2
  <2>10. ASSUME NEW i \in 1..(n - 1) PROVE r[i].end <= r[i + 1].start
    <3>1. i \in 1..n /\ i + 1 \in 1..n /\ i # n
      BY <1>1
    <3>2. r[i] = q[i] /\ q[i].end <= q[i + 1].start
      BY <2>6, <3>1 DEF Apart
    <3>3. r[i + 1].start = q[i + 1].start
      BY <2>4, <2>6, <3>1
    <3>4. QED
      BY <3>2, <3>3
  <2>11. Apart(r, at)
    BY <2>6, <2>9, <2>10 DEF Apart
  <2>12. r # <<>>
    BY <1>1, <2>2, <2>6
  <2>13. QED
    BY <2>1, <2>4, <2>6, <2>11, <2>12
<1>3. CASE ~(q # <<>> /\ s.start - Last(q).end < max_merge_gap_samples)
  <2>1. Join(q, s) = Append(q, s)
    BY <1>3 DEF Join
  <2>2. s = [start |-> s.start, end |-> s.end]
    BY DEF Speech
  <2>3. Grows(q, at, s.start, s.end, at)
    BY <1>1 DEF Grows
  <2>4. Grown(q, s.start, s.end, at)
    BY <2>3, AppendApart
  <2>5. QED
    BY <2>1, <2>2, <2>4 DEF Grown
<1>4. QED
  BY <1>2, <1>3

LEMMA JoinTyped ==
    ASSUME NEW q \in Seq(Speech), NEW s \in Speech
    PROVE  Join(q, s) \in Seq(Speech)
<1>1. Len(q) \in Nat /\ s.end \in Int
  BY DEF Speech
<1>2. CASE q # <<>> /\ s.start - Last(q).end < max_merge_gap_samples
  <2> DEFINE n == Len(q)
             r == [q EXCEPT ![n].end = s.end]
  <2>1. n \in 1..n /\ q[n] \in Speech
    BY <1>1, <1>2, ElementOfSeq
  <2>2. [q[n] EXCEPT !.end = s.end] \in Speech
    BY <1>1, <2>1 DEF Speech
  <2>3. r \in Seq(Speech)
    BY <2>1, <2>2
  <2>4. QED
    BY <1>2, <2>3 DEF Join
<1>3. CASE ~(q # <<>> /\ s.start - Last(q).end < max_merge_gap_samples)
  BY <1>3 DEF Join
<1>4. QED
  BY <1>2, <1>3

(* What merging does, segment by segment. *)
Joins(g, q) == g[0] = <<>> /\ \A i \in 1..Len(q) : g[i] = Join(g[i - 1], q[i])

LEMMA MergedIs ==
    ASSUME NEW q \in Seq(Speech)
    PROVE  \E g : Joins(g, q) /\ Merged(q) = g[Len(q)]
<1> DEFINE N == Len(q)
           Is(f) == f = [i \in 0..Len(q) |-> IF i = 0 THEN <<>> ELSE Join(f[i - 1], q[i])]
           step == [i \in 1..N |-> [v \in Seq(Speech) |-> Join(v, q[i])]]
<1>1. q \in Seq(Speech) /\ N \in Nat /\ \A i \in 1..N : q[i] \in Speech
  BY ElementOfSeq
<1>2. <<>> \in Seq(Speech)
  OBVIOUS
<1>3. step \in [1..N -> [Seq(Speech) -> Seq(Speech)]]
  BY <1>1, JoinTyped
<1>4. PICK f : Follows(f, N, Seq(Speech), <<>>, step)
  <2> HIDE DEF N, step
  <2>1. QED
    BY <1>1, <1>2, <1>3, Recursion
<1>5. Is(f)
  <2>1. \A i \in 0..N : i # 0 => i \in 1..N /\ i - 1 \in 0..N
    BY <1>1
  <2>2. \A i \in 1..N : f[i] = Join(f[i - 1], q[i])
    <3> TAKE i \in 1..N
    <3>1. i - 1 \in 0..N
      BY <1>1
    <3>2. f[i - 1] \in Seq(Speech) /\ f[i] = step[i][f[i - 1]]
      BY <1>4, <3>1 DEF Follows
    <3>3. QED
      BY <3>2
  <2>3. f[0] = <<>> /\ f = [i \in 0..N |-> f[i]]
    BY <1>4 DEF Follows
  <2>4. QED
    BY <2>1, <2>2, <2>3
<1>6. Merged(q) = (CHOOSE g : Is(g))[N]
  BY DEF Merged
<1>7. PICK g : Is(g) /\ Merged(q) = g[N]
  <2> HIDE DEF Is
  <2>1. QED
    BY <1>5, <1>6
<1>8. Joins(g, q)
  <2>1. 0 \in 0..N /\ \A i \in 1..N : i \in 0..N /\ i # 0
    BY <1>1
  <2>2. QED
    BY <1>7, <2>1 DEF Joins
<1>9. QED
  BY <1>7, <1>8

LEMMA MergedApart ==
    ASSUME NEW q, NEW at \in Int, Apart(q, at)
    PROVE  Apart(Merged(q), at)
<1> DEFINE N == Len(q)
<1>1. q \in Seq(Speech) /\ N \in Nat /\ \A i \in 1..N : q[i] \in Speech
  BY ElementOfSeq DEF Apart
<1>2. <<>> \in Seq(Speech)
  OBVIOUS
<1>7. PICK g : Joins(g, q) /\ Merged(q) = g[N]
  BY <1>1, MergedIs
<1> DEFINE S == {m \in 0..N : /\ Apart(g[m], at)
                              /\ m = 0 => g[m] = <<>>
                              /\ m > 0 => NothingBehind(g[m], q[m].end)}
<1>8. 0 \in S
  <2>1. g[0] = <<>>
    BY <1>7 DEF Joins
  <2>2. Apart(<<>>, at)
    BY <1>2 DEF Apart
  <2>3. 0 \in 0..N /\ ~(0 > 0)
    BY <1>1
  <2>4. QED
    BY <2>1, <2>2, <2>3
<1>9. ASSUME NEW m \in 0..(N - 1), m \in S PROVE m + 1 \in S
  <2>1. m + 1 \in 1..N /\ m + 1 \in 0..N /\ m + 1 # 0 /\ (m + 1) - 1 = m
    BY <1>1
  <2>2. g[m + 1] = Join(g[m], q[m + 1])
    BY <1>7, <2>1 DEF Joins
  <2> DEFINE s == q[m + 1]
  <2>3. s \in Speech /\ 0 <= s.start /\ s.start + n_window <= s.end /\ s.end <= at
    BY <1>1, <2>1 DEF Apart
  <2>4. NothingBehind(g[m], s.start)
    <3>1. CASE m = 0
      BY <1>9, <3>1 DEF NothingBehind
    <3>2. CASE m # 0
      <4>1. m > 0 /\ m \in 1..N /\ m \in 1..(N - 1)
        BY <1>1, <3>2
      <4>2. NothingBehind(g[m], q[m].end) /\ q[m].end <= s.start
        BY <1>9, <4>1 DEF Apart
      <4>3. q[m].end \in Int /\ s.start \in Int
        BY <1>1, <2>3, <4>1 DEF Speech
      <4>4. Apart(g[m], at)
        BY <1>9
      <4>5. g[m] # <<>> => g[m][Len(g[m])].end \in Int
        <5>1. g[m] \in Seq(Speech)
          BY <4>4 DEF Apart
        <5>2. g[m] # <<>> => Len(g[m]) \in 1..Len(g[m])
          BY <5>1
        <5>3. g[m] # <<>> => g[m][Len(g[m])] \in Speech
          BY <5>1, <5>2, ElementOfSeq
        <5>4. QED
          BY <5>3 DEF Speech
      <4>6. QED
        BY <4>2, <4>3, <4>5 DEF NothingBehind
    <3>3. QED
      BY <3>1, <3>2
  <2>5. Apart(g[m], at)
    BY <1>9
  <2>6. Apart(Join(g[m], s), at) /\ NothingBehind(Join(g[m], s), s.end)
    <3> HIDE DEF s
    <3>1. /\ Apart(Join(g[m], s), at) /\ Join(g[m], s) # <<>>
          /\ Join(g[m], s)[Len(Join(g[m], s))].end = s.end
      BY <2>3, <2>4, <2>5, JoinApart
    <3>2. s.end \in Int
      BY <2>3 DEF Speech
    <3>3. QED
      BY <3>1, <3>2 DEF NothingBehind
  <2>7. QED
    BY <2>1, <2>2, <2>6
<1>10. \A m \in 0..N : m \in S
  <2> HIDE DEF S, N
  <2>1. QED
    BY <1>1, <1>8, <1>9, Induction
<1>11. N \in S
  BY <1>1, <1>10
<1>12. QED
  BY <1>7, <1>11

(* The ends of segments are numbers. *)
LEMMA ApartInt ==
    ASSUME NEW q, NEW at \in Int, Apart(q, at)
    PROVE  /\ q \in Seq(Speech) /\ Len(q) \in Nat
           /\ \A i \in 1..Len(q) : /\ q[i] \in Speech /\ q[i].start \in Int /\ q[i].end \in Int
                                   /\ 0 <= q[i].start /\ q[i].start + n_window <= q[i].end
                                   /\ q[i].end <= at
           /\ q # <<>> => Len(q) \in 1..Len(q)
<1>1. q \in Seq(Speech) /\ Len(q) \in Nat
  BY DEF Apart
<1>2. \A i \in 1..Len(q) : q[i] \in Speech
  BY <1>1, ElementOfSeq
<1>3. \A i \in 1..Len(q) : q[i].start \in Int /\ q[i].end \in Int
  BY <1>2 DEF Speech
<1>4. q # <<>> => Len(q) \in 1..Len(q)
  BY <1>1
<1>5. QED
  BY <1>1, <1>2, <1>3, <1>4 DEF Apart

AllLong(q, p) == \A i \in 1..Len(q) : min_speech_samples(p) <= q[i].end - q[i].start

(* What dropping the short ones does, segment by segment. *)
IsLong(e, p) == e.end - e.start >= min_speech_samples(p)

Keeps(g, q, p) ==
    g[0] = <<>> /\ \A i \in 1..Len(q) :
        g[i] = IF IsLong(q[i], p) THEN Append(g[i - 1], q[i]) ELSE g[i - 1]

LEMMA LongEnoughIs ==
    ASSUME NEW q \in Seq(Speech), NEW p \in VadParams
    PROVE  \E g : Keeps(g, q, p) /\ LongEnough(q, p) = g[Len(q)]
<1> DEFINE N == Len(q)
           Long(i) == q[i].end - q[i].start >= min_speech_samples(p)
           Is(f) == f = [i \in 0..Len(q) |->
                           IF i = 0 THEN <<>>
                           ELSE IF q[i].end - q[i].start >= min_speech_samples(p)
                           THEN Append(f[i - 1], q[i]) ELSE f[i - 1]]
           step == [i \in 1..N |-> [v \in Seq(Speech) |->
                       IF Long(i) THEN Append(v, q[i]) ELSE v]]
<1>1. q \in Seq(Speech) /\ N \in Nat /\ \A i \in 1..N : q[i] \in Speech
  BY ElementOfSeq
<1>2. <<>> \in Seq(Speech)
  OBVIOUS
<1>3. step \in [1..N -> [Seq(Speech) -> Seq(Speech)]]
  <2>1. ASSUME NEW i \in 1..N, NEW v \in Seq(Speech)
        PROVE  (IF Long(i) THEN Append(v, q[i]) ELSE v) \in Seq(Speech)
    <3>1. q[i] \in Speech
      BY <1>1
    <3>2. Append(v, q[i]) \in Seq(Speech)
      BY <3>1
    <3>3. QED
      BY <3>2
  <2> HIDE DEF Long
  <2>2. QED
    BY <2>1
<1>4. PICK f : Follows(f, N, Seq(Speech), <<>>, step)
  <2> HIDE DEF N, step
  <2>1. QED
    BY <1>1, <1>2, <1>3, Recursion
<1>5. Is(f)
  <2>1. \A i \in 0..N : i # 0 => i \in 1..N /\ i - 1 \in 0..N
    BY <1>1
  <2>2. \A i \in 1..N : f[i] = IF Long(i) THEN Append(f[i - 1], q[i]) ELSE f[i - 1]
    <3> TAKE i \in 1..N
    <3>1. i - 1 \in 0..N
      BY <1>1
    <3>2. f[i - 1] \in Seq(Speech) /\ f[i] = step[i][f[i - 1]]
      BY <1>4, <3>1 DEF Follows
    <3>3. QED
      BY <3>2
  <2>3. f[0] = <<>> /\ f = [i \in 0..N |-> f[i]]
    BY <1>4 DEF Follows
  <2>4. QED
    BY <2>1, <2>2, <2>3
<1>6. LongEnough(q, p) = (CHOOSE g : Is(g))[N]
  BY DEF LongEnough
<1>7. PICK g : Is(g) /\ LongEnough(q, p) = g[N]
  <2> HIDE DEF Is
  <2>1. QED
    BY <1>5, <1>6
<1>8. Keeps(g, q, p)
  <2>1. 0 \in 0..N /\ \A i \in 1..N : i \in 0..N /\ i # 0
    BY <1>1
  <2>2. QED
    BY <1>7, <2>1 DEF Keeps, IsLong
<1>9. QED
  BY <1>7, <1>8

LEMMA LongEnoughApart ==
    ASSUME NEW q, NEW at \in Int, Apart(q, at), NEW p \in VadParams
    PROVE  Apart(LongEnough(q, p), at) /\ AllLong(LongEnough(q, p), p)
<1> DEFINE N == Len(q)
<1>1. q \in Seq(Speech) /\ N \in Nat /\ \A i \in 1..N : q[i] \in Speech
  BY ElementOfSeq DEF Apart
<1>2. <<>> \in Seq(Speech)
  OBVIOUS
<1>7. PICK g : Keeps(g, q, p) /\ LongEnough(q, p) = g[N]
  BY <1>1, LongEnoughIs
<1> DEFINE S == {m \in 0..N : /\ Apart(g[m], at) /\ AllLong(g[m], p)
                              /\ m = 0 => g[m] = <<>>
                              /\ m > 0 => NothingBehind(g[m], q[m].end)}
<1>8. 0 \in S
  <2>1. g[0] = <<>>
    BY <1>7 DEF Keeps
  <2>2. Apart(<<>>, at) /\ AllLong(<<>>, p)
    BY <1>2 DEF Apart, AllLong
  <2>3. 0 \in 0..N /\ ~(0 > 0)
    BY <1>1
  <2>4. QED
    BY <2>1, <2>2, <2>3
<1>9. ASSUME NEW m \in 0..(N - 1), m \in S PROVE m + 1 \in S
  <2>1. m + 1 \in 1..N /\ m + 1 \in 0..N /\ m + 1 # 0 /\ (m + 1) - 1 = m
    BY <1>1
  <2> DEFINE s == q[m + 1]
  <2>2. g[m + 1] = IF s.end - s.start >= min_speech_samples(p) THEN Append(g[m], s) ELSE g[m]
    BY <1>7, <2>1 DEF Keeps, IsLong
  <2>3. /\ s \in Speech /\ 0 <= s.start /\ s.start + n_window <= s.end /\ s.end <= at
        /\ s.start \in Int /\ s.end \in Int
    BY <2>1, ApartInt
  <2>4. Apart(g[m], at) /\ AllLong(g[m], p)
    BY <1>9
  <2>5. g[m] # <<>> => g[m][Len(g[m])].end \in Int
    BY <2>4, ApartInt
  <2>6. NothingBehind(g[m], s.start)
    <3>1. CASE m = 0
      BY <1>9, <3>1 DEF NothingBehind
    <3>2. CASE m # 0
      <4>1. m > 0 /\ m \in 1..N /\ m \in 1..(N - 1)
        BY <1>1, <3>2
      <4>2. NothingBehind(g[m], q[m].end) /\ q[m].end <= s.start
        BY <1>9, <4>1 DEF Apart
      <4>3. q[m].end \in Int
        BY <4>1, ApartInt
      <4>4. QED
        BY <2>3, <2>5, <4>2, <4>3 DEF NothingBehind
    <3>3. QED
      BY <3>1, <3>2
  <2>7. CASE s.end - s.start >= min_speech_samples(p)
    <3> DEFINE r == Append(g[m], s)
    <3>1. s = [start |-> s.start, end |-> s.end]
      BY <2>3 DEF Speech
    <3>2. Grows(g[m], at, s.start, s.end, at)
      BY <2>3, <2>4, <2>6 DEF Grows
    <3>3. Grown(g[m], s.start, s.end, at)
      BY <3>2, AppendApart
    <3>4. Apart(r, at) /\ r # <<>> /\ r[Len(r)].end = s.end
      BY <3>1, <3>3 DEF Grown
    <3>5. AllLong(r, p)
      <4>1. g[m] \in Seq(Speech)
        BY <2>4 DEF Apart
      <4>2. /\ Len(r) = Len(g[m]) + 1 /\ Len(g[m]) \in Nat /\ r[Len(g[m]) + 1] = s
            /\ \A i \in 1..Len(g[m]) : r[i] = g[m][i]
        BY <2>3, <4>1
      <4> SUFFICES ASSUME NEW i \in 1..Len(r)
                   PROVE  min_speech_samples(p) <= r[i].end - r[i].start
        BY DEF AllLong
      <4>3. CASE i \in 1..Len(g[m])
        <5>1. r[i] = g[m][i]
          BY <4>2, <4>3
        <5>2. QED
          BY <2>4, <4>3, <5>1 DEF AllLong
      <4>4. CASE i = Len(g[m]) + 1
        <5>1. r[i] = s
          BY <4>2, <4>4
        <5> HIDE DEF s, r
        <5>2. QED
          BY <2>3, <2>7, <5>1, ParamsInt
      <4>5. QED
        BY <4>2, <4>3, <4>4
    <3>6. NothingBehind(r, s.end)
      BY <2>3, <3>4 DEF NothingBehind
    <3>7. g[m + 1] = r
      BY <2>2, <2>7
    <3> HIDE DEF r
    <3>8. QED
      BY <2>1, <3>4, <3>5, <3>6, <3>7
  <2>8. CASE ~(s.end - s.start >= min_speech_samples(p))
    <3>1. g[m + 1] = g[m]
      BY <2>2, <2>8
    <3>2. NothingBehind(g[m], s.end)
      BY <2>3, <2>5, <2>6, Rates DEF NothingBehind
    <3>3. QED
      BY <2>1, <2>4, <3>1, <3>2
  <2>9. QED
    BY <2>7, <2>8
<1>10. \A m \in 0..N : m \in S
  <2> HIDE DEF S, N
  <2>1. QED
    BY <1>1, <1>8, <1>9, Induction
<1>11. N \in S
  BY <1>1, <1>10
<1>12. QED
  BY <1>7, <1>11

(* Division. *)
LEMMA DivIs ==
    ASSUME NEW a \in Int, NEW k \in Nat, k > 0
    PROVE  /\ a \div k \in Int /\ k * (a \div k) \in Int
           /\ k * (a \div k) <= a /\ a < k * (a \div k) + k
OBVIOUS

LEMMA DivUnique ==
    ASSUME NEW a \in Int, NEW k \in Nat, k > 0, NEW d \in Int,
           k * d <= a, a < k * d + k
    PROVE  a \div k = d
<1> DEFINE q == a \div k
<1>1. q \in Int /\ k * q <= a /\ a < k * q + k
  BY DivIs
<1>2. \A x, y \in Int : k * x < k * y + k => x <= y
  <2> TAKE x, y \in Int
  <2>1. CASE y + 1 <= x
    <3>1. k * (y + 1) <= k * x
      BY <2>1
    <3>2. k * (y + 1) = k * y + k
      OBVIOUS
    <3>3. QED
      BY <3>1, <3>2
  <2>2. QED
    BY <2>1
<1> HIDE DEF q
<1>3. q <= d /\ d <= q
  <2>1. k * q < k * d + k /\ k * d < k * q + k
    BY <1>1
  <2>2. QED
    BY <1>1, <1>2, <2>1
<1>4. QED
  BY <1>1, <1>3 DEF q

LEMMA DivMono ==
    ASSUME NEW a \in Int, NEW b \in Int, NEW k \in Nat, k > 0, a <= b
    PROVE  a \div k <= b \div k
<1> DEFINE x == a \div k
           y == b \div k
<1>1. x \in Int /\ y \in Int /\ k * x <= a /\ b < k * y + k
  BY DivIs
<1> HIDE DEF x, y
<1>2. ASSUME y + 1 <= x PROVE FALSE
  <2>1. k * (y + 1) <= k * x
    BY <1>1, <1>2
  <2>2. k * (y + 1) = k * y + k
    BY <1>1
  <2>3. k * x \in Int /\ k * y \in Int
    BY <1>1
  <2>4. QED
    BY <1>1, <2>1, <2>2, <2>3
<1>3. QED
  BY <1>1, <1>2 DEF x, y

LEMMA CsMono ==
    ASSUME NEW a \in Int, NEW b \in Int
    PROVE  /\ a <= b => samples_to_cs(a) <= samples_to_cs(b)
           /\ a + SampleRate \div 100 <= b => samples_to_cs(a) + 1 <= samples_to_cs(b)
<1> DEFINE k == 2 * SampleRate
           n(x) == 2 * 100 * x + SampleRate
<1>1. k \in Nat /\ k > 0 /\ \A x \in Int : n(x) \in Int
  BY Rates
<1>2. \A x \in Int : samples_to_cs(x) = n(x) \div k
  BY DEF samples_to_cs
<1>3. ASSUME a <= b PROVE samples_to_cs(a) <= samples_to_cs(b)
  <2>1. n(a) <= n(b)
    BY <1>3, Rates
  <2> HIDE DEF k, n
  <2>2. QED
    BY <1>1, <1>2, <2>1, DivMono
<1>4. ASSUME a + SampleRate \div 100 <= b PROVE samples_to_cs(a) + 1 <= samples_to_cs(b)
  <2>1. n(a) + k <= n(b)
    BY <1>4, Rates
  <2> HIDE DEF k, n
  <2>2. (n(a) + k) \div k <= n(b) \div k
    BY <1>1, <2>1, DivMono
  <2>3. (n(a) + k) \div k = n(a) \div k + 1
    <3> DEFINE q == n(a) \div k
    <3>1. n(a) \in Int /\ q \in Int /\ k * q <= n(a) /\ n(a) < k * q + k
      BY <1>1, DivIs
    <3> HIDE DEF q
    <3>2. k * (q + 1) = k * q + k /\ k * q \in Int
      BY <1>1, <3>1
    <3>3. k * (q + 1) <= n(a) + k /\ n(a) + k < k * (q + 1) + k
      BY <1>1, <3>1, <3>2
    <3>4. (n(a) + k) \div k = q + 1
      BY <1>1, <3>1, <3>3, DivUnique
    <3>5. QED
      BY <3>4 DEF q
  <2>4. QED
    BY <1>1, <1>2, <2>2, <2>3
<1>5. QED
  BY <1>3, <1>4

(* A sample and the sample at which its centisecond begins.                *)
LEMMA CsBack ==
    ASSUME NEW n \in Int
    PROVE  /\ cs_to_samples(samples_to_cs(n)) \in Int
           /\ 2 * cs_to_samples(samples_to_cs(n)) <= 2 * n + SampleRate \div 100
           /\ 2 * n < 2 * cs_to_samples(samples_to_cs(n)) + SampleRate \div 100
<1> DEFINE s == SampleRate \div 100
           k == 2 * SampleRate
           m == 2 * 100 * n + SampleRate
           q == m \div k
<1>1. s \in Nat /\ s > 0 /\ SampleRate = 100 * s /\ k = 200 * s /\ m = 200 * n + 100 * s
      /\ k \in Nat /\ k > 0 /\ m \in Int
  BY Rates
<1>2. q = samples_to_cs(n)
  BY DEF samples_to_cs
<1>3. q \in Int /\ k * q <= m /\ m < k * q + k
  <2> HIDE DEF k, m
  <2>1. QED
    BY <1>1, DivIs
<1> HIDE DEF s, k, m, q
<1>4. cs_to_samples(q) = q * s /\ q * s \in Int
  BY <1>1, <1>3 DEF cs_to_samples, s
<1>5. k * q = 200 * (q * s)
  BY <1>1, <1>3
<1>6. /\ 200 * (q * s) <= 200 * n + 100 * s
      /\ 200 * n + 100 * s < 200 * (q * s) + 200 * s
  BY <1>1, <1>3, <1>5
<1>7. 2 * (q * s) <= 2 * n + s /\ 2 * n < 2 * (q * s) + s
  <2> DEFINE z == q * s
  <2>1. z \in Int /\ 200 * z <= 200 * n + 100 * s /\ 200 * n + 100 * s < 200 * z + 200 * s
    BY <1>4, <1>6
  <2> HIDE DEF z
  <2>2. 2 * z <= 2 * n + s /\ 2 * n < 2 * z + s
    BY <1>1, <2>1
  <2>3. QED
    BY <2>2 DEF z
<1>8. QED
  BY <1>2, <1>4, <1>7 DEF s

LEMMA SpeechIs ==
    ASSUME NEW x \in Int, NEW y \in Int
    PROVE  LET r == [start |-> x, end |-> y]
           IN  r \in Speech /\ r.start = x /\ r.end = y
BY DEF Speech

LEMMA PaddingNat ==
    ASSUME NEW q, NEW at \in Int, Apart(q, at), NEW p \in VadParams, NEW i \in Int
    PROVE  /\ Padding(q, p, i) \in Nat
           /\ i \in 1..(Len(q) - 1) => 2 * Padding(q, p, i) <= q[i + 1].start - q[i].end
<1> DEFINE d == q[i + 1].start - q[i].end
<1>1. i \in 1..(Len(q) - 1) => d \in Nat
  <2>1. i \in 1..(Len(q) - 1) => i \in 1..Len(q) /\ i + 1 \in 1..Len(q)
    BY ApartInt
  <2>2. i \in 1..(Len(q) - 1) => q[i].end <= q[i + 1].start
    BY DEF Apart
  <2>3. i \in 1..(Len(q) - 1) => q[i].end \in Int /\ q[i + 1].start \in Int
    BY <2>1, ApartInt
  <2>4. QED
    BY <2>2, <2>3
<1>2. Padding(q, p, i) = IF i \in 1..(Len(q) - 1) /\ d < 2 * speech_pad_samples(p)
                         THEN d \div 2 ELSE speech_pad_samples(p)
  BY DEF Padding, Gap
<1>3. speech_pad_samples(p) \in Nat
  BY ParamsInt
<1> HIDE DEF d
<1>4. \A x \in Nat : x \div 2 \in Nat /\ 2 * (x \div 2) <= x
  OBVIOUS
<1>5. CASE i \in 1..(Len(q) - 1) /\ d < 2 * speech_pad_samples(p)
  BY <1>1, <1>2, <1>4, <1>5 DEF d
<1>6. CASE ~(i \in 1..(Len(q) - 1) /\ d < 2 * speech_pad_samples(p))
  <2>1. Padding(q, p, i) = speech_pad_samples(p)
    BY <1>2, <1>6
  <2>2. i \in 1..(Len(q) - 1) => 2 * speech_pad_samples(p) <= d
    BY <1>1, <1>3, <1>6
  <2>3. QED
    BY <1>3, <2>1, <2>2 DEF d
<1>7. QED
  BY <1>5, <1>6

LEMMA PaddedApart ==
    ASSUME NEW q, NEW at \in Int, Apart(q, at), NEW p \in VadParams,
           NEW r, r = Padded(q, p, at)
    PROVE  /\ r \in Seq(Speech) /\ Len(r) = Len(q)
           /\ \A i \in 1..Len(q) : /\ r[i].start \in Int /\ r[i].end \in Int
                                   /\ 0 <= r[i].start /\ r[i].start <= q[i].start
                                   /\ q[i].end <= r[i].end /\ r[i].end <= at
           /\ \A i \in 1..(Len(q) - 1) : r[i].end <= r[i + 1].start
<1> DEFINE b(i) == Before(q[i].start, Padding(q, p, i - 1))
           e(i) == Smaller(q[i].end + Padding(q, p, i), at)
<1>1. q \in Seq(Speech) /\ Len(q) \in Nat /\ DOMAIN q = 1..Len(q)
  BY ApartInt
<1>2. r = [i \in 1..Len(q) |-> [start |-> b(i), end |-> e(i)]]
  BY <1>1 DEF Padded
<1>3. ASSUME NEW i \in 1..Len(q)
      PROVE  /\ b(i) \in Int /\ 0 <= b(i) /\ b(i) <= q[i].start
             /\ q[i].start - Padding(q, p, i - 1) <= b(i)
             /\ e(i) \in Int /\ q[i].end <= e(i) /\ e(i) <= at
             /\ e(i) <= q[i].end + Padding(q, p, i)
  <2>1. /\ q[i].start \in Int /\ q[i].end \in Int /\ 0 <= q[i].start /\ q[i].end <= at
    BY ApartInt
  <2>2. i \in Int /\ i - 1 \in Int
    OBVIOUS
  <2>3. Padding(q, p, i) \in Nat /\ Padding(q, p, i - 1) \in Nat
    BY <2>2, PaddingNat
  <2>4. QED
    BY <2>1, <2>3 DEF Before, Smaller
<1> HIDE DEF b, e
<1>4. \A i \in 1..Len(q) : r[i] = [start |-> b(i), end |-> e(i)]
  BY <1>2
<1>5. \A i \in 1..Len(q) : r[i] \in Speech /\ r[i].start = b(i) /\ r[i].end = e(i)
  <2> TAKE i \in 1..Len(q)
  <2>1. b(i) \in Int /\ e(i) \in Int /\ r[i] = [start |-> b(i), end |-> e(i)]
    BY <1>3, <1>4
  <2>2. QED
    BY <2>1, SpeechIs
<1>6. r \in Seq(Speech) /\ Len(r) = Len(q)
  <2>1. r \in [1..Len(q) -> Speech]
    BY <1>2, <1>4, <1>5
  <2>2. QED
    BY <1>1, <2>1, SeqDef, LenProperties
<1>7. ASSUME NEW i \in 1..(Len(q) - 1) PROVE r[i].end <= r[i + 1].start
  <2>1. i \in 1..Len(q) /\ i + 1 \in 1..Len(q) /\ (i + 1) - 1 = i /\ i \in Int
    BY <1>1
  <2>2. e(i) \in Int /\ e(i) <= q[i].end + Padding(q, p, i)
    BY <1>3, <2>1
  <2>3. b(i + 1) \in Int /\ q[i + 1].start - Padding(q, p, (i + 1) - 1) <= b(i + 1)
    BY <1>3, <2>1
  <2>4. q[i + 1].start - Padding(q, p, i) <= b(i + 1)
    BY <2>1, <2>3
  <2>5. /\ Padding(q, p, i) \in Nat
        /\ 2 * Padding(q, p, i) <= q[i + 1].start - q[i].end
    BY <2>1, PaddingNat
  <2>6. q[i + 1].start \in Int /\ q[i].end \in Int
    BY <2>1, ApartInt
  <2>7. e(i) <= b(i + 1)
    BY <2>2, <2>3, <2>4, <2>5, <2>6
  <2>8. QED
    BY <1>5, <2>1, <2>7
<1>8. \A i \in 1..Len(q) : /\ r[i].start \in Int /\ r[i].end \in Int
                           /\ 0 <= r[i].start /\ r[i].start <= q[i].start
                           /\ q[i].end <= r[i].end /\ r[i].end <= at
  BY <1>3, <1>5
<1>9. QED
  BY <1>6, <1>7, <1>8

(* The segments of speech, in centiseconds, of audio of length samples.    *)
LastStart(p, length) == length - Larger(n_window, min_speech_samples(p))

SpeechFound(g, p, length) ==
    /\ g \in Seq(Speech)
    /\ \A i \in 1..Len(g) :
          /\ \E n \in Int : /\ g[i].start = samples_to_cs(n)
                            /\ 0 <= n /\ n <= LastStart(p, length)
          /\ g[i].start <= g[i].end
          /\ SampleRate \div 100 <= n_window => g[i].start + 1 <= g[i].end
          /\ g[i].end <= samples_to_cs(length)
    /\ \A i \in 1..(Len(g) - 1) : g[i].end <= g[i + 1].start

LEMMA SegmentsFound ==
    ASSUME NEW s, NEW length \in Int, ScanOk(s, length), NEW p \in VadParams
    PROVE  SpeechFound(SegmentsOf(s, p, length), p, length)
<1> DEFINE q == LongEnough(Merged(Ended(s, p, length)), p)
           r == Padded(q, p, length)
           g == InCentiseconds(r)
<1>1. Apart(q, length) /\ AllLong(q, p)
  <2>1. Apart(Merged(Ended(s, p, length)), length)
    BY EndedApart, MergedApart
  <2>2. QED
    BY <2>1, LongEnoughApart
<1>2. SegmentsOf(s, p, length) = g
  BY DEF SegmentsOf
<1> HIDE DEF q
<1>3. /\ r \in Seq(Speech) /\ Len(r) = Len(q)
      /\ \A i \in 1..Len(q) : /\ r[i].start \in Int /\ r[i].end \in Int
                              /\ 0 <= r[i].start /\ r[i].start <= q[i].start
                              /\ q[i].end <= r[i].end /\ r[i].end <= length
      /\ \A i \in 1..(Len(q) - 1) : r[i].end <= r[i + 1].start
  BY <1>1, PaddedApart
<1> HIDE DEF r
<1>4. Len(q) \in Nat /\ DOMAIN r = 1..Len(q)
  BY <1>1, <1>3, ApartInt
<1>5. g = [i \in 1..Len(q) |-> [start |-> samples_to_cs(r[i].start),
                                end   |-> samples_to_cs(r[i].end)]]
  BY <1>4 DEF InCentiseconds
<1> HIDE DEF g
<1>6. \A i \in 1..Len(q) : /\ g[i] = [start |-> samples_to_cs(r[i].start),
                                      end   |-> samples_to_cs(r[i].end)]
                           /\ samples_to_cs(r[i].start) \in Int
                           /\ samples_to_cs(r[i].end) \in Int
  BY <1>3, <1>5, Conversions
<1>7. \A i \in 1..Len(q) : /\ g[i] \in Speech /\ g[i].start = samples_to_cs(r[i].start)
                           /\ g[i].end = samples_to_cs(r[i].end)
                           /\ g[i].start \in Int /\ g[i].end \in Int
  <2> TAKE i \in 1..Len(q)
  <2> DEFINE x == samples_to_cs(r[i].start)
             y == samples_to_cs(r[i].end)
  <2>1. x \in Int /\ y \in Int /\ g[i] = [start |-> x, end |-> y]
    BY <1>6
  <2> HIDE DEF x, y
  <2>2. g[i] \in Speech /\ g[i].start = x /\ g[i].end = y
    BY <2>1, SpeechIs
  <2>3. QED
    BY <2>1, <2>2 DEF x, y
<1>8. g \in Seq(Speech) /\ Len(g) = Len(q)
  <2>1. g \in [1..Len(q) -> Speech]
    BY <1>5, <1>6, <1>7
  <2>2. QED
    BY <1>4, <2>1, SeqDef, LenProperties
<1>9. ASSUME NEW i \in 1..Len(q)
      PROVE  /\ \E n \in Int : /\ g[i].start = samples_to_cs(n)
                               /\ 0 <= n /\ n <= LastStart(p, length)
             /\ g[i].start <= g[i].end
             /\ SampleRate \div 100 <= n_window => g[i].start + 1 <= g[i].end
             /\ g[i].end <= samples_to_cs(length)
  <2> DEFINE x == r[i].start
             y == r[i].end
  <2>1. /\ q[i].start \in Int /\ q[i].end \in Int /\ q[i].start + n_window <= q[i].end
    BY <1>1, ApartInt
  <2>2. min_speech_samples(p) <= q[i].end - q[i].start /\ min_speech_samples(p) \in Nat
    BY <1>1, ParamsInt DEF AllLong
  <2>3. /\ x \in Int /\ y \in Int /\ 0 <= x /\ x <= q[i].start
        /\ q[i].end <= y /\ y <= length
    BY <1>3
  <2>4. g[i].start = samples_to_cs(x) /\ g[i].end = samples_to_cs(y)
    BY <1>7
  <2> HIDE DEF x, y
  <2>5. x <= LastStart(p, length) /\ x + n_window <= y
    <3> DEFINE from == q[i].start
               to   == q[i].end
               min  == min_speech_samples(p)
    <3>1. /\ from \in Int /\ to \in Int /\ min \in Int /\ x \in Int /\ y \in Int
          /\ from + n_window <= to /\ min <= to - from
          /\ x <= from /\ to <= y /\ y <= length
          /\ length \in Int /\ n_window \in Int
      BY <2>1, <2>2, <2>3, Rates
    <3>2. LastStart(p, length) = length - (IF n_window > min THEN n_window ELSE min)
      BY DEF LastStart, Larger
    <3> HIDE DEF from, to, min
    <3>3. QED
      BY ONLY <3>1, <3>2
  <2>6. x <= y
    BY <2>3, <2>5, Rates
  <2>7. SampleRate \div 100 <= n_window => x + SampleRate \div 100 <= y
    BY <2>3, <2>5, Rates
  <2>8. /\ samples_to_cs(x) <= samples_to_cs(y) /\ samples_to_cs(y) <= samples_to_cs(length)
        /\ x + SampleRate \div 100 <= y => samples_to_cs(x) + 1 <= samples_to_cs(y)
    BY <2>3, <2>6, CsMono
  <2>9. QED
    BY <2>3, <2>4, <2>5, <2>7, <2>8
<1>10. ASSUME NEW i \in 1..(Len(q) - 1) PROVE g[i].end <= g[i + 1].start
  <2>1. i \in 1..Len(q) /\ i + 1 \in 1..Len(q)
    BY <1>4
  <2>2. r[i].end \in Int /\ r[i + 1].start \in Int /\ r[i].end <= r[i + 1].start
    BY <1>3, <2>1
  <2>3. samples_to_cs(r[i].end) <= samples_to_cs(r[i + 1].start)
    BY <2>2, CsMono
  <2>4. QED
    BY <1>7, <2>1, <2>3
<1>11. SpeechFound(g, p, length)
  BY <1>8, <1>9, <1>10 DEF SpeechFound
<1>12. QED
  BY <1>2, <1>11

-----------------------------------------------------------------------------
(* The inductive invariant of a call up to the audio that is transcribed.  *)
Vad ==
    /\ stage \in {"idle", "detect", "segmented", "start", "crashed"}
    /\ params \in Calls
    /\ n_samples \in Int
    /\ ret \in {0, -1, -6}
    /\ stage \in {"detect", "segmented"} => params.vad

Detection ==
    /\ probs \in Seq(Level) /\ Len(probs) <= n_chunks
    /\ ScanOk(scan, n_window * Len(probs))
    /\ probs = <<>> => scan = NoSpeech
    /\ stage \notin {"detect", "segmented"} => probs = <<>>

Segmented ==
    stage = "segmented" \/ (stage = "start" /\ params.vad) =>
        SpeechFound(segments, params.vad_params, audio_length)

SpeechCopied ==
    stage = "start" /\ params.vad =>
        /\ segments # <<>> /\ n_samples = Room
        /\ table = Table(segments, params.vad_params, params.n_samples)

VadInv == Vad /\ Detection /\ Segmented /\ SpeechCopied

LEMMA CallIs ==
    ASSUME NEW c \in Calls
    PROVE  /\ c.vad \in BOOLEAN /\ c.vad_params \in VadParams
           /\ c.n_processors \in Nat /\ c.n_processors > 0
           /\ c.offset_ms \in Nat /\ c.n_samples \in Nat
BY ParallelAssumption

LEMMA Windows ==
    ASSUME NEW c \in Calls,
           NEW q, q = (c.n_samples + n_window - 1) \div n_window
    PROVE  /\ q \in Nat /\ q * n_window \in Nat
           /\ c.n_samples <= q * n_window /\ q * n_window < c.n_samples + n_window
<1> DEFINE a == c.n_samples + n_window - 1
<1>1. a \in Nat /\ n_window \in Nat /\ n_window > 0 /\ c.n_samples \in Nat
  BY CallIs, Rates
<1>2. q \in Int /\ n_window * q \in Int /\ n_window * q <= a /\ a < n_window * q + n_window
  <2>1. q = a \div n_window
    OBVIOUS
  <2> HIDE DEF a
  <2>2. QED
    BY <1>1, <2>1, DivIs
<1>4. q >= 0
  <2>1. CASE q <= -1
    <3>1. n_window * q <= n_window * (-1)
      BY <1>1, <1>2, <2>1
    <3>2. QED
      BY <1>1, <1>2, <3>1
  <2>2. QED
    BY <1>2, <2>1
<1>5. q * n_window = n_window * q
  BY <1>1, <1>2
<1>6. q \in Nat /\ q * n_window \in Nat
  <2>1. \A x, y \in Nat : x * y \in Nat
    OBVIOUS
  <2>2. QED
    BY <1>1, <1>2, <1>4, <2>1
<1>7. QED
  BY <1>1, <1>2, <1>5, <1>6

LEMMA ChunksNat ==
    ASSUME params \in Calls
    PROVE  /\ n_chunks \in Nat /\ audio_length \in Nat
           /\ params.n_samples <= audio_length
           /\ audio_length < params.n_samples + n_window
BY Windows DEF n_chunks, audio_length

LEMMA NothingScanned == ScanOk(NoSpeech, 0)
<1>1. <<>> \in Seq(Speech) /\ Len(<<>>) = 0
  OBVIOUS
<1>2. ScanTyped(NoSpeech)
  BY <1>1 DEF ScanTyped, NoSpeech
<1>3. Apart(<<>>, 0)
  BY <1>1 DEF Apart
<1>4. /\ NoSpeech.is_speech = FALSE /\ NoSpeech.has_speech = FALSE
      /\ NoSpeech.temp_end = 0 /\ NoSpeech.prev_end = 0 /\ NoSpeech.next_start = 0
      /\ NoSpeech.speeches = <<>>
  BY DEF NoSpeech
<1>5. QED
  BY <1>2, <1>3, <1>4 DEF ScanOk, Idle

LEMMA VadInit == Init => VadInv
<1> SUFFICES ASSUME Init PROVE VadInv
  OBVIOUS
<1>1. stage = "idle" /\ params \in Calls /\ probs = <<>> /\ scan = NoSpeech /\ n_samples = 0
      /\ ret = 0
  BY DEF Init
<1>2. Vad /\ Segmented /\ SpeechCopied
  BY <1>1 DEF Vad, Segmented, SpeechCopied
<1>3. <<>> \in Seq(Level) /\ Len(<<>>) = 0 /\ n_window * 0 = 0
  BY Rates
<1>4. Detection
  BY <1>1, <1>3, NothingScanned, ChunksNat DEF Detection
<1>5. QED
  BY <1>2, <1>4 DEF VadInv

LEMMA VadStep == VadInv /\ [Next]_vars => VadInv'
<1> SUFFICES ASSUME VadInv, [Next]_vars PROVE VadInv'
  OBVIOUS
<1> USE DEF VadInv, Vad, Detection, Segmented, SpeechCopied
<1>0. <<>> \in Seq(Level) /\ Len(<<>>) = 0 /\ n_window * 0 = 0
  BY Rates
<1>1. CASE Call
  <2>1. /\ stage = "idle" /\ params' \in Calls /\ n_samples' = params'.n_samples
        /\ probs' = probs /\ scan' = scan /\ ret' = ret
        /\ IF params'.vad THEN stage' = "detect" ELSE stage' = "start"
    BY <1>1 DEF Call, detection
  <2>2. params'.vad \in BOOLEAN /\ n_samples' \in Int
    BY <2>1, CallIs
  <2>3. probs' = <<>> /\ Detection'
    <3>1. probs = <<>>
      BY <2>1
    <3>2. n_chunks' \in Nat
      BY <2>1, Windows DEF n_chunks
    <3>3. QED
      BY <1>0, <2>1, <3>1, <3>2, NothingScanned
  <2>4. QED
    BY <2>1, <2>2, <2>3
<1>2. CASE VadFails
  BY <1>2 DEF VadFails, Return, detection, n_chunks
<1>3. CASE DetectWindow
  <2>1. PICK level \in Level :
           /\ probs' = Append(probs, level)
           /\ scan' = Scan(scan, params.vad_params, level, n_window * Len(probs))
    BY <1>3 DEF DetectWindow
  <2>2. /\ stage = "detect" /\ Len(probs) < n_chunks /\ stage' = stage /\ params' = params
        /\ n_samples' = n_samples /\ ret' = ret
    BY <1>3 DEF DetectWindow
  <2>3. /\ probs' \in Seq(Level) /\ Len(probs') = Len(probs) + 1 /\ probs' # <<>>
        /\ Len(probs) \in Nat
    BY <2>1
  <2>4. n_chunks' = n_chunks /\ n_chunks \in Nat
    BY <2>2, ChunksNat DEF n_chunks
  <2> DEFINE at == n_window * Len(probs)
  <2>5. at \in Int /\ 0 <= at /\ n_window * Len(probs') = at + n_window
    <3>1. \A x, y \in Nat : x * y \in Nat /\ x * (y + 1) = x * y + x
      OBVIOUS
    <3>2. QED
      BY <2>3, <3>1, Rates
  <2>6. ScanOk(scan', at + n_window)
    <3>1. ScanOk(scan, at) /\ params.vad_params \in VadParams
      BY CallIs
    <3> HIDE DEF at
    <3>2. QED
      BY <2>1, <2>5, <3>1, ScanStep DEF at
  <2>7. Detection'
    BY <2>2, <2>3, <2>4, <2>5, <2>6
  <2>8. QED
    BY <2>2, <2>7
<1>4. CASE FindSegments
  <2>1. /\ stage = "detect" /\ Len(probs) = n_chunks /\ stage' = "segmented"
        /\ segments' = SegmentsOf(scan, params.vad_params, audio_length)
        /\ params' = params /\ probs' = probs /\ scan' = scan /\ n_samples' = n_samples
        /\ ret' = ret
    BY <1>4 DEF FindSegments, detection
  <2>2. audio_length \in Int /\ n_window * Len(probs) = audio_length
    <3>1. audio_length = n_chunks * n_window /\ n_chunks \in Nat
      BY ChunksNat DEF audio_length
    <3>2. QED
      BY <2>1, <3>1, Rates
  <2>3. SpeechFound(segments', params.vad_params, audio_length)
    BY <2>1, <2>2, SegmentsFound, CallIs
  <2>4. audio_length' = audio_length /\ n_chunks' = n_chunks
    BY <2>1 DEF audio_length, n_chunks
  <2>5. QED
    BY <2>1, <2>3, <2>4
<1>5. CASE NoSpeechFound
  <2>1. /\ stage' = "idle" /\ params' = params /\ probs' = <<>> /\ scan' = NoSpeech
        /\ n_samples' = n_samples /\ ret' = 0
    BY <1>5 DEF NoSpeechFound, ForgetProbs
  <2>2. n_chunks' \in Nat
    BY <2>1, ChunksNat DEF n_chunks
  <2>3. QED
    BY <1>0, <2>1, <2>2, NothingScanned
<1>6. CASE CopySpeech
  <2>1. /\ stage = "segmented" /\ segments # <<>> /\ stage' = "start"
        /\ params' = params /\ probs' = <<>> /\ scan' = NoSpeech
        /\ n_samples' = Room /\ segments' = segments /\ ret' = ret
        /\ table' = Table(segments, params.vad_params, params.n_samples)
    BY <1>6 DEF CopySpeech, ForgetProbs
  <2>2. n_chunks' = n_chunks /\ n_chunks \in Nat /\ audio_length' = audio_length
    BY <2>1, ChunksNat DEF n_chunks, audio_length
  <2>3. Room' = Room
    BY <2>1 DEF Room
  <2>4. Room \in Int
    <3>1. segments \in Seq(Speech)
      BY <2>1 DEF SpeechFound
    <3>2. QED
      BY <3>1, RoomIsInt, CallIs DEF Room
  <2>5. QED
    BY <1>0, <2>1, <2>2, <2>3, <2>4, NothingScanned
<1>7. CASE CopyFails
  <2>1. /\ stage' = "idle" /\ params' = params /\ probs' = <<>> /\ scan' = NoSpeech
        /\ n_samples' = n_samples /\ ret' = -1
    BY <1>7 DEF CopyFails, ForgetProbs
  <2>2. n_chunks' \in Nat
    BY <2>1, ChunksNat DEF n_chunks
  <2>3. QED
    BY <1>0, <2>1, <2>2, NothingScanned
<1>8. ASSUME UNCHANGED others, \/ UNCHANGED stage
                               \/ stage = "start" /\ stage' = "crashed"
      PROVE  VadInv'
  <2>1. /\ params' = params /\ probs' = probs /\ scan' = scan /\ n_samples' = n_samples
        /\ segments' = segments /\ table' = table /\ ret' = ret
    BY <1>8 DEF others, detection, mapping
  <2>2. n_chunks' = n_chunks /\ audio_length' = audio_length /\ Room' = Room
    BY <2>1 DEF n_chunks, audio_length, Room
  <2>3. QED
    BY <1>8, <2>1, <2>2
<1>9. ASSUME NEW i \in Processors, Start(i) \/ NoMemory(i) \/ FindSegment(i) \/ Finish(i)
      PROVE  VadInv'
  <2>1. UNCHANGED others /\ (UNCHANGED stage \/ (stage = "start" /\ stage' = "crashed"))
    BY <1>9 DEF Start, NoMemory, FindSegment, Finish
  <2>2. QED
    BY <1>8, <2>1
<1>10. CASE Combine
  <2>1. /\ stage' = "idle" /\ stage = "start" /\ params' = params /\ probs' = probs
        /\ scan' = scan /\ n_samples' = n_samples /\ ret' \in {0, -6}
    BY <1>10 DEF Combine, detection
  <2>2. n_chunks' = n_chunks
    BY <2>1 DEF n_chunks
  <2>3. QED
    BY <2>1, <2>2
<1>11. CASE UNCHANGED vars
  <2>1. UNCHANGED others /\ UNCHANGED stage
    BY <1>11 DEF vars, others, detection, mapping
  <2>2. QED
    BY <1>8, <2>1
<1>12. QED
  BY <1>1, <1>2, <1>3, <1>4, <1>5, <1>6, <1>7, <1>9, <1>10, <1>11 DEF Next

LEMMA VadInvariant == Spec => []VadInv
BY VadInit, VadStep, PTL DEF Spec

-----------------------------------------------------------------------------
(* The segments of speech do not overlap and stay in the audio, whatever   *)
(* the probabilities, the limits and the padding are.  A window of at      *)
(* least a centisecond (512 samples of 160 in the code) keeps a segment    *)
(* of one window from being rounded to nothing.                            *)
THEOREM SpeechApart ==
    ASSUME SampleRate \div 100 <= n_window
    PROVE  Spec => []SegmentsApart
<1>1. VadInv => SegmentsApart
  <2> SUFFICES ASSUME VadInv, stage = "segmented", NEW i \in DOMAIN segments
               PROVE  /\ segments[i].start < segments[i].end
                      /\ segments[i].end <= samples_to_cs(audio_length)
                      /\ i < Len(segments) => segments[i].end <= segments[i + 1].start
    BY DEF SegmentsApart
  <2>1. SpeechFound(segments, params.vad_params, audio_length)
    BY DEF VadInv, Segmented
  <2>2. segments \in Seq(Speech) /\ i \in 1..Len(segments) /\ Len(segments) \in Nat
    BY <2>1 DEF SpeechFound
  <2>3. segments[i] \in Speech
    BY <2>2, ElementOfSeq
  <2>4. segments[i].start \in Int /\ segments[i].end \in Int
    BY <2>3 DEF Speech
  <2>5. /\ segments[i].start + 1 <= segments[i].end
        /\ segments[i].end <= samples_to_cs(audio_length)
    BY <2>1, <2>2 DEF SpeechFound
  <2>6. ASSUME i < Len(segments) PROVE segments[i].end <= segments[i + 1].start
    <3>1. i \in 1..(Len(segments) - 1)
      BY <2>2, <2>6
    <3>2. QED
      BY <2>1, <3>1 DEF SpeechFound
  <2>7. QED
    BY <2>4, <2>5, <2>6
<1>2. QED
  BY VadInvariant, <1>1, PTL

-----------------------------------------------------------------------------
(* Speech that is found is kept.  A row of windows of speech that begins   *)
(* with the window from sample number x to y is found when a segment long  *)
(* enough ends behind y and begins before x, or so shortly after a segment *)
(* that ends before x that the two are merged.                             *)
KeptAt(q, k, x, y, min) ==
    /\ min <= q[k].end - q[k].start /\ y <= q[k].end
    /\ \/ q[k].start <= x
       \/ /\ k - 1 \in 1..Len(q)
          /\ q[k].start - q[k - 1].end < max_merge_gap_samples
          /\ q[k - 1].end <= x

Kept(q, x, y, min) == \E k \in 1..Len(q) : KeptAt(q, k, x, y, min)

SpannedBy(e, x, y, min) == e.start <= x /\ y <= e.end /\ min <= e.end - e.start

Spanned(q, x, y, min) == \E k \in 1..Len(q) : SpannedBy(q[k], x, y, min)

LEMMA AppendKept ==
    ASSUME NEW q \in Seq(Speech), NEW e \in Speech, NEW x, NEW y, NEW min
    PROVE  /\ Kept(q, x, y, min) => Kept(Append(q, e), x, y, min)
           /\ Spanned(q, x, y, min) => Spanned(Append(q, e), x, y, min)
           /\ SpannedBy(e, x, y, min) => Spanned(Append(q, e), x, y, min)
           /\ /\ min <= e.end - e.start /\ y <= e.end
              /\ \/ e.start <= x
                 \/ /\ q # <<>> /\ q[Len(q)].end <= x
                    /\ e.start - q[Len(q)].end < max_merge_gap_samples
              => Kept(Append(q, e), x, y, min)
<1> DEFINE r == Append(q, e)
           n == Len(q)
<1>1. /\ Len(r) = n + 1 /\ n \in Nat /\ r[n + 1] = e /\ n + 1 \in 1..Len(r)
      /\ \A i \in 1..n : r[i] = q[i] /\ i \in 1..Len(r)
      /\ q # <<>> => n \in 1..n
  OBVIOUS
<1> HIDE DEF r
<1>2. ASSUME NEW k \in 1..n, KeptAt(q, k, x, y, min) PROVE KeptAt(r, k, x, y, min)
  <2>1. r[k] = q[k] /\ (k - 1 \in 1..n => r[k - 1] = q[k - 1] /\ k - 1 \in 1..Len(r))
    BY <1>1
  <2>2. QED
    BY <1>2, <2>1 DEF KeptAt
<1>3. Kept(q, x, y, min) => Kept(r, x, y, min)
  BY <1>1, <1>2 DEF Kept
<1>4. Spanned(q, x, y, min) => Spanned(r, x, y, min)
  <2> SUFFICES ASSUME NEW k \in 1..n, SpannedBy(q[k], x, y, min) PROVE Spanned(r, x, y, min)
    BY DEF Spanned
  <2>1. r[k] = q[k] /\ k \in 1..Len(r)
    BY <1>1
  <2>2. QED
    BY <2>1 DEF Spanned
<1>5. SpannedBy(e, x, y, min) => Spanned(r, x, y, min)
  BY <1>1 DEF Spanned
<1>6. ASSUME min <= e.end - e.start, y <= e.end,
             \/ e.start <= x
             \/ /\ q # <<>> /\ q[Len(q)].end <= x
                /\ e.start - q[Len(q)].end < max_merge_gap_samples
      PROVE  Kept(r, x, y, min)
  <2>1. CASE e.start <= x
    <3>1. KeptAt(r, n + 1, x, y, min)
      BY <1>1, <1>6, <2>1 DEF KeptAt
    <3>2. QED
      BY <1>1, <3>1 DEF Kept
  <2>2. CASE q # <<>> /\ q[Len(q)].end <= x /\ e.start - q[Len(q)].end < max_merge_gap_samples
    <3>1. (n + 1) - 1 = n /\ n \in 1..Len(r) /\ r[n] = q[n]
      BY <1>1, <2>2
    <3>2. KeptAt(r, n + 1, x, y, min)
      BY <1>1, <1>6, <2>2, <3>1 DEF KeptAt
    <3>3. QED
      BY <1>1, <3>2 DEF Kept
  <2>3. QED
    BY <1>6, <2>1, <2>2
<1>7. QED
  BY <1>3, <1>4, <1>5, <1>6 DEF r

(* One step of merging: the segment s is added to q or merged with its     *)
(* last one, so what q spans is still spanned, and so is what s keeps.     *)
JoinOf(r, q, s) ==
    \/ r = Append(q, s) /\ ~(q # <<>> /\ s.start - q[Len(q)].end < max_merge_gap_samples)
    \/ /\ q # <<>> /\ s.start - q[Len(q)].end < max_merge_gap_samples
       /\ r \in Seq(Speech) /\ Len(r) = Len(q)
       /\ r[Len(q)].start = q[Len(q)].start /\ r[Len(q)].end = s.end
       /\ \A i \in 1..Len(q) : i # Len(q) => r[i] = q[i]

LEMMA JoinIs ==
    ASSUME NEW q \in Seq(Speech), NEW s \in Speech
    PROVE  JoinOf(Join(q, s), q, s)
<1> DEFINE n == Len(q)
<1>1. n \in Nat /\ s.start \in Int /\ s.end \in Int
  BY DEF Speech
<1>2. Last(q) = q[n]
  BY DEF Last
<1>3. CASE q # <<>> /\ s.start - q[n].end < max_merge_gap_samples
  <2> DEFINE r == [q EXCEPT ![n].end = s.end]
             e == [start |-> q[n].start, end |-> s.end]
  <2>1. Join(q, s) = r
    BY <1>2, <1>3 DEF Join
  <2>2. n \in 1..n /\ q[n] \in Speech
    BY <1>1, <1>3, ElementOfSeq
  <2>3. q[n] = [start |-> q[n].start, end |-> q[n].end] /\ q[n].start \in Int
    BY <2>2 DEF Speech
  <2>4. e \in Speech /\ e.start = q[n].start /\ e.end = s.end
    BY <1>1, <2>3 DEF Speech
  <2>5. r = [q EXCEPT ![n] = e]
    <3>1. [q[n] EXCEPT !.end = s.end] = e
      BY <2>3
    <3>2. QED
      BY <3>1
  <2> HIDE DEF r, e
  <2>6. /\ r \in Seq(Speech) /\ Len(r) = n /\ r[n] = e
        /\ \A i \in 1..n : i # n => r[i] = q[i]
    BY <1>1, <2>2, <2>4, <2>5
  <2>7. QED
    BY <1>3, <2>1, <2>4, <2>6 DEF JoinOf
<1>4. CASE ~(q # <<>> /\ s.start - q[n].end < max_merge_gap_samples)
  BY <1>2, <1>4 DEF Join, JoinOf
<1>5. QED
  BY <1>3, <1>4

LEMMA JoinSpans ==
    ASSUME NEW q, NEW at \in Int, Apart(q, at), NEW s \in Speech, NothingBehind(q, s.start),
           0 <= s.start, s.start + n_window <= s.end, s.end <= at,
           NEW x \in Int, NEW y \in Int, NEW min \in Int
    PROVE  LET r == Join(q, s)
           IN  /\ r # <<>> /\ r[Len(r)].end = s.end /\ r[Len(r)].start <= s.start
               /\ Spanned(q, x, y, min) => Spanned(r, x, y, min)
               /\ /\ min <= s.end - s.start /\ y <= s.end
                  /\ \/ s.start <= x
                     \/ /\ q # <<>> /\ q[Len(q)].end <= x
                        /\ s.start - q[Len(q)].end < max_merge_gap_samples
                  => Spanned(r, x, y, min)
<1> DEFINE r == Join(q, s)
           n == Len(q)
<1>1. q \in Seq(Speech) /\ n \in Nat /\ s.start \in Int /\ s.end \in Int
  BY ApartInt DEF Speech
<1>2. JoinOf(r, q, s)
  BY <1>1, JoinIs
<1> HIDE DEF r
<1>3. CASE r = Append(q, s) /\ ~(q # <<>> /\ s.start - q[n].end < max_merge_gap_samples)
  <2>1. r # <<>> /\ Len(r) = n + 1 /\ r[n + 1] = s
    BY <1>1, <1>3
  <2>2. Spanned(q, x, y, min) => Spanned(r, x, y, min)
    BY <1>1, <1>3, AppendKept
  <2>3. SpannedBy(s, x, y, min) => Spanned(r, x, y, min)
    BY <1>1, <1>3, AppendKept
  <2>4. QED
    BY <1>1, <1>3, <2>1, <2>2, <2>3 DEF SpannedBy, r
<1>4. CASE /\ q # <<>> /\ s.start - q[n].end < max_merge_gap_samples
           /\ r \in Seq(Speech) /\ Len(r) = n
           /\ r[n].start = q[n].start /\ r[n].end = s.end
           /\ \A i \in 1..n : i # n => r[i] = q[i]
  <2>1. /\ n \in 1..n /\ q[n].start \in Int /\ q[n].end \in Int
        /\ q[n].start + n_window <= q[n].end /\ q[n].end <= s.start
    BY <1>4, ApartInt DEF NothingBehind
  <2>2. r # <<>>
    BY <1>4, <2>1
  <2>3. q[n].start <= s.start /\ q[n].end <= s.end
    BY <1>1, <2>1, Rates
  <2>4. ASSUME NEW k \in 1..n, SpannedBy(q[k], x, y, min) PROVE Spanned(r, x, y, min)
    <3>1. CASE k # n
      <4>1. r[k] = q[k] /\ k \in 1..Len(r)
        BY <1>4, <3>1
      <4>2. QED
        BY <2>4, <4>1 DEF Spanned
    <3>2. CASE k = n
      <4>1. SpannedBy(r[n], x, y, min)
        BY <1>1, <1>4, <2>1, <2>3, <2>4, <3>2 DEF SpannedBy
      <4>2. QED
        BY <1>4, <2>1, <4>1 DEF Spanned
    <3>3. QED
      BY <3>1, <3>2
  <2>5. ASSUME min <= s.end - s.start, y <= s.end, s.start <= x \/ q[n].end <= x
        PROVE  Spanned(r, x, y, min)
    <3>1. q[n].start <= x
      BY <1>1, <2>1, <2>3, <2>5, Rates
    <3>2. min <= s.end - q[n].start
      BY <1>1, <2>1, <2>3, <2>5
    <3>3. SpannedBy(r[n], x, y, min)
      BY <1>4, <2>5, <3>1, <3>2 DEF SpannedBy
    <3>4. QED
      BY <1>4, <2>1, <3>3 DEF Spanned
  <2>6. Spanned(q, x, y, min) => Spanned(r, x, y, min)
    BY <2>4 DEF Spanned
  <2>7. QED
    BY <1>4, <2>2, <2>3, <2>5, <2>6 DEF r
<1>5. QED
  BY <1>2, <1>3, <1>4 DEF JoinOf

LEMMA MergedSpans ==
    ASSUME NEW q, NEW at \in Int, Apart(q, at), NEW x \in Int, NEW y \in Int, NEW min \in Int,
           Kept(q, x, y, min)
    PROVE  Spanned(Merged(q), x, y, min)
<1> DEFINE N == Len(q)
<1>1. q \in Seq(Speech) /\ N \in Nat
  BY ApartInt
<1>2. PICK g : Joins(g, q) /\ Merged(q) = g[N]
  BY <1>1, MergedIs
<1>3. PICK k \in 1..N : KeptAt(q, k, x, y, min)
  BY DEF Kept
<1> DEFINE Reaches(m) ==
              /\ Apart(g[m], at)
              /\ m = 0 => g[m] = <<>>
              /\ m > 0 => /\ g[m] # <<>> /\ g[m][Len(g[m])].end = q[m].end
                          /\ g[m][Len(g[m])].start <= q[m].start
              /\ m >= k => Spanned(g[m], x, y, min)
           S == {m \in 0..N : Reaches(m)}
<1>4. 0 \in S
  <2>1. g[0] = <<>>
    BY <1>2 DEF Joins
  <2>2. Apart(<<>>, at)
    BY DEF Apart
  <2>3. 0 \in 0..N /\ ~(0 > 0) /\ ~(0 >= k)
    BY <1>1
  <2>4. QED
    BY <2>1, <2>2, <2>3
<1>5. ASSUME NEW m \in 0..(N - 1), m \in S PROVE m + 1 \in S
  <2> DEFINE s == q[m + 1]
             v == g[m]
             r == Join(v, s)
  <2>1. m + 1 \in 1..N /\ m + 1 \in 0..N /\ m + 1 # 0 /\ m + 1 > 0 /\ (m + 1) - 1 = m
    BY <1>1
  <2>2. g[m + 1] = r
    BY <1>2, <2>1 DEF Joins
  <2>3. /\ s \in Speech /\ 0 <= s.start /\ s.start + n_window <= s.end /\ s.end <= at
        /\ s.start \in Int /\ s.end \in Int
    BY <2>1, ApartInt
  <2>4. Reaches(m)
    BY <1>5
  <2>5. m > 0 => m \in 1..N /\ q[m].end <= s.start /\ q[m].end \in Int
    <3>1. m > 0 => m \in 1..N /\ m \in 1..(N - 1)
      BY <1>1
    <3>2. QED
      BY <3>1, ApartInt DEF Apart
  <2>6. Apart(v, at) /\ NothingBehind(v, s.start)
    <3>1. CASE m = 0
      BY <2>4, <3>1 DEF NothingBehind
    <3>2. CASE m > 0
      BY <2>4, <2>5, <3>2 DEF NothingBehind
    <3>3. QED
      BY <3>1, <3>2
  <2> HIDE DEF s, v, r
  <2>7. Apart(r, at)
    BY <2>3, <2>6, JoinApart DEF r
  <2>8. /\ r # <<>> /\ r[Len(r)].end = s.end /\ r[Len(r)].start <= s.start
        /\ Spanned(v, x, y, min) => Spanned(r, x, y, min)
        /\ /\ min <= s.end - s.start /\ y <= s.end
           /\ \/ s.start <= x
              \/ /\ v # <<>> /\ v[Len(v)].end <= x
                 /\ s.start - v[Len(v)].end < max_merge_gap_samples
           => Spanned(r, x, y, min)
    BY <2>3, <2>6, JoinSpans DEF r
  <2>9. ASSUME m + 1 >= k PROVE Spanned(r, x, y, min)
    <3>1. CASE m >= k
      BY <2>4, <2>8, <3>1 DEF v
    <3>2. CASE m + 1 = k
      <4>1. q[k] = s /\ k - 1 = m
        BY <3>2, <2>1 DEF s
      <4>2. min <= s.end - s.start /\ y <= s.end
        BY <1>3, <4>1 DEF KeptAt
      <4>3. CASE s.start <= x
        BY <2>8, <4>2, <4>3
      <4>4. CASE /\ m \in 1..N /\ s.start - q[m].end < max_merge_gap_samples
                 /\ q[m].end <= x
        <5>1. m > 0
          BY <4>4
        <5>2. v # <<>> /\ v[Len(v)].end = q[m].end
          BY <2>4, <5>1 DEF v
        <5>3. QED
          BY <2>8, <4>2, <4>4, <5>2
      <4>5. s.start <= x \/ (/\ m \in 1..N /\ s.start - q[m].end < max_merge_gap_samples
                             /\ q[m].end <= x)
        BY <1>3, <4>1 DEF KeptAt
      <4>6. QED
        BY <4>3, <4>4, <4>5
    <3>3. m >= k \/ m + 1 = k
      BY <2>9
    <3>4. QED
      BY <3>1, <3>2, <3>3
  <2>10. Reaches(m + 1)
    BY <2>1, <2>2, <2>7, <2>8, <2>9 DEF s
  <2> HIDE DEF Reaches
  <2>11. QED
    BY <2>1, <2>10
<1>6. \A m \in 0..N : m \in S
  <2> HIDE DEF S, N
  <2>1. QED
    BY <1>1, <1>4, <1>5, Induction
<1>7. N \in S /\ N >= k
  BY <1>1, <1>6
<1>8. QED
  BY <1>2, <1>7

LEMMA LongEnoughSpans ==
    ASSUME NEW q, NEW at \in Int, Apart(q, at), NEW p \in VadParams,
           NEW x \in Int, NEW y \in Int, Spanned(q, x, y, min_speech_samples(p))
    PROVE  Spanned(LongEnough(q, p), x, y, min_speech_samples(p))
<1> DEFINE N == Len(q)
           min == min_speech_samples(p)
<1>1. q \in Seq(Speech) /\ N \in Nat /\ min \in Int
  BY ApartInt, ParamsInt
<1>2. PICK g : Keeps(g, q, p) /\ LongEnough(q, p) = g[N]
  BY <1>1, LongEnoughIs
<1>3. PICK k \in 1..N : SpannedBy(q[k], x, y, min)
  BY DEF Spanned
<1> DEFINE S == {m \in 0..N : g[m] \in Seq(Speech) /\ (m >= k => Spanned(g[m], x, y, min))}
<1>4. 0 \in S
  <2>1. g[0] = <<>> /\ <<>> \in Seq(Speech)
    BY <1>2 DEF Keeps
  <2>2. 0 \in 0..N /\ ~(0 >= k)
    BY <1>1
  <2>3. QED
    BY <2>1, <2>2
<1>5. ASSUME NEW m \in 0..(N - 1), m \in S PROVE m + 1 \in S
  <2> DEFINE s == q[m + 1]
             v == g[m]
  <2>1. m + 1 \in 1..N /\ m + 1 \in 0..N /\ (m + 1) - 1 = m
    BY <1>1
  <2>2. g[m + 1] = IF IsLong(s, p) THEN Append(v, s) ELSE v
    BY <1>2, <2>1 DEF Keeps
  <2>3. s \in Speech /\ s.start \in Int /\ s.end \in Int /\ v \in Seq(Speech)
    BY <1>5, <2>1, ApartInt
  <2>4. m >= k => Spanned(v, x, y, min)
    BY <1>5
  <2>5. m + 1 = k => SpannedBy(s, x, y, min)
    BY <1>3
  <2> HIDE DEF s, v
  <2>6. g[m + 1] \in Seq(Speech)
    BY <2>2, <2>3
  <2>7. ASSUME m + 1 >= k PROVE Spanned(g[m + 1], x, y, min)
    <3>1. CASE m >= k
      BY <2>2, <2>3, <2>4, <3>1, AppendKept
    <3>2. CASE m + 1 = k
      <4>1. IsLong(s, p)
        BY <1>1, <2>3, <2>5, <3>2 DEF SpannedBy, IsLong
      <4>2. QED
        BY <2>2, <2>3, <2>5, <3>2, <4>1, AppendKept
    <3>3. m >= k \/ m + 1 = k
      BY <2>7
    <3>4. QED
      BY <3>1, <3>2, <3>3
  <2>8. QED
    BY <2>1, <2>6, <2>7
<1>6. \A m \in 0..N : m \in S
  <2> HIDE DEF S, N
  <2>1. QED
    BY <1>1, <1>4, <1>5, Induction
<1>7. N \in S /\ N >= k
  BY <1>1, <1>6
<1>8. QED
  BY <1>2, <1>7

(* What the segments found cover, in centiseconds. *)
CoveredBy(e, x, y) ==
    /\ cs_to_samples(e.start) <= x + SampleRate \div 100
    /\ cs_to_samples(e.end) + SampleRate \div 100 >= y

LEMMA SegmentsCover ==
    ASSUME NEW s, NEW length \in Int, ScanOk(s, length), NEW p \in VadParams,
           NEW x \in Int, NEW y \in Int,
           Kept(Ended(s, p, length), x, y, min_speech_samples(p))
    PROVE  LET g == SegmentsOf(s, p, length)
           IN  \E k \in DOMAIN g : CoveredBy(g[k], x, y)
<1> DEFINE min == min_speech_samples(p)
           ended == Ended(s, p, length)
           q == LongEnough(Merged(ended), p)
           r == Padded(q, p, length)
           g == InCentiseconds(r)
<1>1. min \in Int /\ Apart(ended, length) /\ Apart(Merged(ended), length)
  BY ParamsInt, EndedApart, MergedApart
<1>2. Spanned(Merged(ended), x, y, min)
  BY <1>1, MergedSpans
<1>3. Spanned(q, x, y, min) /\ Apart(q, length)
  BY <1>1, <1>2, LongEnoughSpans, LongEnoughApart
<1>4. SegmentsOf(s, p, length) = g
  BY DEF SegmentsOf
<1> HIDE DEF q, ended
<1>5. PICK k \in 1..Len(q) : SpannedBy(q[k], x, y, min)
  BY <1>3 DEF Spanned
<1>6. /\ r \in Seq(Speech) /\ Len(r) = Len(q)
      /\ r[k].start \in Int /\ r[k].end \in Int
      /\ r[k].start <= q[k].start /\ q[k].end <= r[k].end
  BY <1>3, PaddedApart
<1>7. q[k].start \in Int /\ q[k].end \in Int
  BY <1>3, ApartInt
<1> HIDE DEF r
<1>8. k \in DOMAIN g /\ g[k].start = samples_to_cs(r[k].start)
      /\ g[k].end = samples_to_cs(r[k].end)
  BY <1>6 DEF InCentiseconds
<1> DEFINE b == r[k].start
           e == r[k].end
<1>9. b \in Int /\ e \in Int /\ b <= x /\ y <= e
  BY <1>5, <1>6, <1>7 DEF SpannedBy
<1> HIDE DEF b, e, g
<1>10. /\ cs_to_samples(samples_to_cs(b)) \in Int
       /\ 2 * cs_to_samples(samples_to_cs(b)) <= 2 * b + SampleRate \div 100
  BY <1>9, CsBack
<1>11. /\ cs_to_samples(samples_to_cs(e)) \in Int
       /\ 2 * e < 2 * cs_to_samples(samples_to_cs(e)) + SampleRate \div 100
  BY <1>9, CsBack
<1>12. /\ cs_to_samples(samples_to_cs(b)) <= x + SampleRate \div 100
       /\ cs_to_samples(samples_to_cs(e)) + SampleRate \div 100 >= y
  BY <1>9, <1>10, <1>11, Rates
<1>13. CoveredBy(g[k], x, y)
  BY <1>8, <1>12 DEF CoveredBy, b, e
<1>14. QED
  BY <1>4, <1>8, <1>13

(* The loop.  Pauses lie before the window that is looked at next; one     *)
(* that was long and is over ended where the next speech starts.           *)
Pauses(s, at) ==
    /\ s.temp_end # 0 => s.temp_end + n_window <= at
    /\ s.prev_end # 0 => s.prev_end + n_window <= at
    /\ s.prev_end # 0 /\ s.temp_end = 0 => s.prev_end <= s.next_start

(* Speech that is still open, of a row from x (whose first window ends at  *)
(* y) to z at least: no pause of it ends before z, unless it ended before  *)
(* the row began.                                                          *)
Open(s, x, y, z) ==
    /\ s.is_speech /\ s.start <= y
    /\ \/ s.start <= x
       \/ /\ s.speeches # <<>> /\ s.speeches[Len(s.speeches)].end <= x
          /\ s.start - s.speeches[Len(s.speeches)].end < max_merge_gap_samples
    /\ s.temp_end # 0 => z <= s.temp_end
    /\ s.prev_end # 0 => \/ z <= s.prev_end
                         \/ s.prev_end <= s.next_start /\ s.next_start <= x

(* A segment got too long and was cut right before the row.                *)
JustCut(s, x) ==
    ~s.is_speech /\ s.speeches # <<>> /\ s.speeches[Len(s.speeches)].end = x

(* A row of speech is found, or open, or it is over and short; a row of    *)
(* one window may have been cut off.                                       *)
Row(s, x, y, z, at, min) ==
    \/ Kept(s.speeches, x, y, min)
    \/ Open(s, x, y, z)
    \/ z < at /\ z - y <= min
    \/ z = at /\ y = at /\ JustCut(s, x)

(* The same amid a turn of the loop, for a row that is not continued. *)
MidRow(s, x, y, z, min) ==
    Kept(s.speeches, x, y, min) \/ Open(s, x, y, z) \/ z - y <= min

LEMMA FoundIs ==
    ASSUME NEW s, ScanTyped(s), NEW e \in Int
    PROVE  LET f == Found(s, e)
           IN  /\ ScanTyped(f) /\ f.start = s.start
               /\ f.speeches = Append(s.speeches, [start |-> s.start, end |-> e])
               /\ s.start \in Int /\ s.speeches \in Seq(Speech)
               /\ [start |-> s.start, end |-> e] \in Speech
               /\ f.is_speech = s.is_speech /\ f.temp_end = s.temp_end
               /\ f.prev_end = s.prev_end /\ f.next_start = s.next_start
<1> DEFINE g == [start |-> s.start, end |-> e]
           r == Append(s.speeches, g)
           f == Found(s, e)
<1>1. s.start \in Int /\ s.speeches \in Seq(Speech)
  BY DEF ScanTyped
<1>2. g \in Speech /\ g.start = s.start /\ g.end = e
  BY <1>1, SpeechIs
<1>3. f = [s EXCEPT !.speeches = r]
  BY DEF Found
<1> HIDE DEF g, f
<1>4. r \in Seq(Speech)
  BY <1>1, <1>2
<1> HIDE DEF r
<1>5. /\ ScanTyped(f) /\ f.start = s.start /\ f.speeches = r
      /\ f.is_speech = s.is_speech /\ f.temp_end = s.temp_end
      /\ f.prev_end = s.prev_end /\ f.next_start = s.next_start
  BY <1>3, <1>4 DEF ScanTyped
<1>6. QED
  BY <1>1, <1>2, <1>5 DEF f, g, r

LEMMA StopIs ==
    ASSUME NEW s, ScanTyped(s)
    PROVE  LET t == Stop(s)
           IN  /\ ScanTyped(t) /\ t.start = s.start /\ t.speeches = s.speeches
               /\ t.is_speech = FALSE /\ t.temp_end = 0 /\ t.prev_end = 0 /\ t.next_start = 0
<1> DEFINE f == Forget(s)
           t == Stop(s)
<1>1. /\ ScanTyped(f) /\ f.temp_end = 0 /\ f.prev_end = 0 /\ f.next_start = 0
      /\ f.start = s.start /\ f.speeches = s.speeches
  BY ForgetTyped
<1>2. t = [f EXCEPT !.is_speech = FALSE, !.has_speech = FALSE]
  BY DEF Stop
<1> HIDE DEF f, t
<1>3. /\ ScanTyped(t) /\ t.start = f.start /\ t.speeches = f.speeches
      /\ t.is_speech = FALSE /\ t.temp_end = f.temp_end /\ t.prev_end = f.prev_end
      /\ t.next_start = f.next_start
  BY <1>1, <1>2 DEF ScanTyped
<1>4. QED
  BY <1>1, <1>3 DEF t

(* Open speech that ends at e, long enough and behind y, keeps the row. *)
LEMMA EndKeeps ==
    ASSUME NEW s, ScanTyped(s), NEW x \in Int, NEW y \in Int, NEW z \in Int, NEW min \in Int,
           NEW e \in Int, Open(s, x, y, z), y <= e, min <= e - s.start
    PROVE  Kept(Append(s.speeches, [start |-> s.start, end |-> e]), x, y, min)
<1> DEFINE q == s.speeches
           g == [start |-> s.start, end |-> e]
<1>1. /\ q \in Seq(Speech) /\ g \in Speech /\ g.start = s.start /\ g.end = e
  BY FoundIs
<1>2. s.start <= x \/ (/\ q # <<>> /\ q[Len(q)].end <= x
                       /\ s.start - q[Len(q)].end < max_merge_gap_samples)
  BY DEF Open
<1> HIDE DEF q, g
<1>3. Kept(Append(q, g), x, y, min)
  BY <1>1, <1>2, AppendKept
<1>4. QED
  BY <1>3 DEF q, g

(* What stopping at e does to a row that goes on to z <= e at least. *)
LEMMA StopRow ==
    ASSUME NEW s, ScanTyped(s), NEW x \in Int, NEW y \in Int, NEW z \in Int, NEW min \in Nat,
           NEW e \in Int, MidRow(s, x, y, z, min), y <= z,
           Open(s, x, y, z) => \/ z <= e
                               \/ y <= e /\ min <= e - s.start
    PROVE  MidRow(Stop(Found(s, e)), x, y, z, min)
<1> DEFINE f == Found(s, e)
           t == Stop(f)
<1>1. /\ ScanTyped(f) /\ f.start = s.start /\ s.start \in Int
      /\ s.speeches \in Seq(Speech) /\ [start |-> s.start, end |-> e] \in Speech
      /\ f.speeches = Append(s.speeches, [start |-> s.start, end |-> e])
  BY FoundIs
<1> HIDE DEF f
<1>2. t.speeches = f.speeches
  BY <1>1, StopIs
<1> HIDE DEF t
<1>3. CASE Kept(s.speeches, x, y, min)
  <2>1. Kept(f.speeches, x, y, min)
    BY <1>1, <1>3, AppendKept
  <2>2. QED
    BY <1>2, <2>1 DEF MidRow, t, f
<1>4. CASE z - y <= min
  BY <1>4 DEF MidRow
<1>5. CASE Open(s, x, y, z) /\ ~(z - y <= min)
  <2>1. y <= e /\ min <= e - s.start
    <3>1. s.start <= y
      BY <1>5 DEF Open
    <3>2. z <= e \/ (y <= e /\ min <= e - s.start)
      BY <1>5
    <3>3. s.start \in Int /\ ~(z - y <= min)
      BY <1>1, <1>5
    <3>4. ASSUME z <= e PROVE y <= e /\ min <= e - s.start
      BY ONLY <3>1, <3>3, <3>4, y <= z, x \in Int, y \in Int, z \in Int, e \in Int, min \in Nat
    <3>5. QED
      BY <3>2, <3>4
  <2>2. Kept(Append(s.speeches, [start |-> s.start, end |-> e]), x, y, min)
    <3>1. min \in Int /\ Open(s, x, y, z)
      BY <1>5
    <3>2. QED
      BY ONLY <2>1, <3>1, EndKeeps, ScanTyped(s), x \in Int, y \in Int, z \in Int, e \in Int
  <2>3. QED
    BY <1>1, <1>2, <2>2 DEF MidRow, t, f
<1>6. QED
  BY <1>3, <1>4, <1>5 DEF MidRow

LEMMA PauseRow ==
    ASSUME NEW s, NEW at \in Int, 0 <= at, ScanMid(s, at, at), s.is_speech, NEW p \in VadParams,
           NEW x \in Int, NEW y \in Int, NEW z \in Int, y <= z, z <= at,
           MidRow(s, x, y, z, min_speech_samples(p))
    PROVE  MidRow(Pause(s, p, at), x, y, z, min_speech_samples(p))
<1> DEFINE min == min_speech_samples(p)
<1>1. min \in Nat
  BY ParamsInt
<1>2. PICK u : Paused(u, s, at) /\ PauseOf(Pause(s, p, at), u, p, at)
  BY PauseIs
<1>3. PICK te, pe \in Int :
         /\ u = [is_speech |-> TRUE, temp_end |-> te, prev_end |-> pe,
                 next_start |-> s.next_start, start |-> s.start, has_speech |-> TRUE,
                 speeches |-> s.speeches]
         /\ te <= at /\ te = (IF s.temp_end = 0 THEN at ELSE s.temp_end)
         /\ pe \in {te, s.prev_end}
  BY <1>2 DEF Paused
<1>4. /\ s.start \in Int /\ s.speeches \in Seq(Speech) /\ s.temp_end \in Int
      /\ s.prev_end \in Int /\ s.next_start \in Int
  BY DEF ScanMid, ScanTyped
<1>5. ScanTyped(u)
  BY <1>3, <1>4 DEF ScanTyped
<1>6. /\ u.is_speech = TRUE /\ u.temp_end = te /\ u.prev_end = pe /\ u.start = s.start
      /\ u.next_start = s.next_start /\ u.speeches = s.speeches
  BY <1>3
<1>7. Open(s, x, y, z) => z <= te
  <2>1. Open(s, x, y, z) /\ s.temp_end # 0 => z <= s.temp_end
    BY DEF Open
  <2>2. QED
    BY <1>3, <2>1
<1>8. Open(s, x, y, z) => Open(u, x, y, z)
  <2> SUFFICES ASSUME Open(s, x, y, z) PROVE Open(u, x, y, z)
    OBVIOUS
  <2>1. pe # 0 => z <= pe \/ (pe <= s.next_start /\ s.next_start <= x)
    BY <1>3, <1>7 DEF Open
  <2>2. QED
    BY <1>6, <1>7, <2>1 DEF Open
<1>9. MidRow(u, x, y, z, min)
  BY <1>6, <1>8 DEF MidRow
<1> HIDE DEF min
<1>10. CASE Pause(s, p, at) = u
  BY <1>9, <1>10 DEF min
<1>11. CASE Pause(s, p, at) = Stop(Found(u, u.temp_end))
  <2>1. Open(u, x, y, z) => z <= te
    <3>1. Open(u, x, y, z) /\ te # 0 => z <= te
      BY <1>6 DEF Open
    <3>2. ASSUME te = 0 PROVE z <= te
      BY <1>3, <3>2
    <3>3. QED
      BY <3>1, <3>2
  <2>2. MidRow(Stop(Found(u, te)), x, y, z, min)
    BY <1>1, <1>5, <1>9, <2>1, StopRow
  <2>3. QED
    BY <1>6, <1>11, <2>2 DEF min
<1>12. CASE Pause(s, p, at) = Stop(u) /\ ~(te - s.start > min)
  <2>1. Stop(u).speeches = u.speeches
    BY <1>5, StopIs
  <2>2. Kept(u.speeches, x, y, min) => MidRow(Stop(u), x, y, z, min)
    BY <2>1 DEF MidRow
  <2>3. z - y <= min => MidRow(Stop(u), x, y, z, min)
    BY DEF MidRow
  <2>4. ASSUME Open(s, x, y, z) PROVE z - y <= min
    <3>1. s.start <= y /\ z <= te
      BY <1>7, <2>4 DEF Open
    <3>2. QED
      BY <1>1, <1>3, <1>4, <1>12, <3>1
  <2>5. MidRow(Stop(u), x, y, z, min)
    BY <1>6, <2>2, <2>3, <2>4 DEF MidRow, min
  <2>6. QED
    BY <1>12, <2>5 DEF min
<1>13. QED
  BY <1>2, <1>6, <1>10, <1>11, <1>12 DEF PauseOf, min

(* A longer pause ended where the next speech starts: a segment is cut     *)
(* there, and goes on with that speech.                                    *)
LEMMA CutIs ==
    ASSUME NEW s, ScanTyped(s), s.is_speech, ~(s.next_start < s.prev_end)
    PROVE  LET t == CutAtPause(s)
           IN  /\ ScanTyped(t) /\ t.start = s.next_start /\ t.is_speech = TRUE
               /\ t.speeches = Append(s.speeches, [start |-> s.start, end |-> s.prev_end])
               /\ t.temp_end = 0 /\ t.prev_end = 0 /\ t.next_start = 0
<1>1. s.prev_end \in Int /\ s.next_start \in Int /\ s.is_speech = TRUE
  BY DEF ScanTyped
<1> DEFINE f == Found(s, s.prev_end)
           g == [f EXCEPT !.start = s.next_start, !.has_speech = TRUE]
           t == Forget(g)
<1>2. /\ ScanTyped(f) /\ f.is_speech = TRUE
      /\ f.speeches = Append(s.speeches, [start |-> s.start, end |-> s.prev_end])
  BY <1>1, FoundIs
<1>3. CutAtPause(s) = t
  BY DEF CutAtPause
<1> HIDE DEF f
<1>4. /\ ScanTyped(g) /\ g.start = s.next_start /\ g.speeches = f.speeches
      /\ g.is_speech = TRUE
  BY <1>1, <1>2 DEF ScanTyped
<1> HIDE DEF g
<1>5. /\ ScanTyped(t) /\ t.start = s.next_start /\ t.speeches = f.speeches
      /\ t.is_speech = TRUE /\ t.temp_end = 0 /\ t.prev_end = 0 /\ t.next_start = 0
  BY <1>4, ForgetTyped
<1> HIDE DEF t
<1>6. QED
  BY <1>2, <1>3, <1>5

LEMMA CutRow ==
    ASSUME NEW s, ScanTyped(s), s.is_speech, s.prev_end # 0,
           NEW x \in Int, NEW y \in Int, NEW z \in Int, NEW min \in Nat,
           x <= y, y <= z, MidRow(s, x, y, z, min)
    PROVE  MidRow(CutAtPause(s), x, y, z, min)
<1> DEFINE c == CutAtPause(s)
           e == s.prev_end
           g == [start |-> s.start, end |-> e]
<1>1. s.start \in Int /\ e \in Int /\ s.next_start \in Int /\ s.speeches \in Seq(Speech)
  BY DEF ScanTyped
<1>2. Open(s, x, y, z) => z <= e \/ (e <= s.next_start /\ s.next_start <= x)
  BY DEF Open
<1> HIDE DEF e
<1>3. CASE s.next_start < e
  <2>1. Open(s, x, y, z) => z <= e
    BY <1>1, <1>2, <1>3
  <2>2. MidRow(Stop(Found(s, e)), x, y, z, min)
    BY <1>1, <2>1, StopRow
  <2>3. c = Stop(Found(s, e))
    BY <1>3 DEF CutAtPause, e
  <2>4. QED
    BY <2>2, <2>3
<1>4. CASE ~(s.next_start < e)
  <2>1. /\ c.start = s.next_start /\ c.is_speech = TRUE
        /\ c.speeches = Append(s.speeches, g)
        /\ c.temp_end = 0 /\ c.prev_end = 0 /\ c.next_start = 0
    BY <1>4, CutIs DEF e
  <2>2. g \in Speech
    BY <1>1, SpeechIs
  <2> HIDE DEF c
  <2>3. CASE Kept(s.speeches, x, y, min)
    <3> HIDE DEF g
    <3>1. Kept(Append(s.speeches, g), x, y, min)
      BY <1>1, <2>2, <2>3, AppendKept
    <3>2. QED
      BY <2>1, <3>1 DEF MidRow, c
  <2>4. CASE z - y <= min
    BY <2>4 DEF MidRow
  <2>5. CASE Open(s, x, y, z) /\ z <= e /\ ~(z - y <= min)
    <3>1. y <= e /\ min <= e - s.start
      <4>1. s.start <= y
        BY <2>5 DEF Open
      <4>2. QED
        BY <1>1, <2>5, <4>1
    <3>2. Kept(Append(s.speeches, g), x, y, min)
      <4>1. min \in Int /\ Open(s, x, y, z)
        BY <2>5
      <4>2. QED
        BY ONLY <1>1, <3>1, <4>1, EndKeeps, ScanTyped(s), x \in Int, y \in Int, z \in Int
    <3> HIDE DEF g
    <3>3. QED
      BY <2>1, <3>2 DEF MidRow, c
  <2>6. CASE s.next_start <= x
    <3>1. s.next_start <= y
      BY <1>1, <2>6
    <3>2. Open(c, x, y, z)
      BY <2>1, <2>6, <3>1 DEF Open
    <3>3. QED
      BY <3>2 DEF MidRow, c
  <2>7. QED
    BY <1>2, <2>3, <2>4, <2>5, <2>6 DEF MidRow
<1>5. QED
  BY <1>3, <1>4

LEMMA ResumeIs ==
    ASSUME NEW s, ScanTyped(s), NEW level, NEW at \in Int
    PROVE  LET r == Resume(s, level, at)
           IN  \/ r = s /\ (level # "speech" \/ s.temp_end = 0)
               \/ /\ level = "speech" /\ s.temp_end # 0 /\ ScanTyped(r)
                  /\ r.temp_end = 0 /\ r.prev_end = s.prev_end
                  /\ r.next_start = (IF s.next_start < s.prev_end THEN at ELSE s.next_start)
                  /\ r.start = s.start /\ r.is_speech = s.is_speech /\ r.speeches = s.speeches
<1> DEFINE r == Resume(s, level, at)
           nx == IF s.next_start < s.prev_end THEN at ELSE s.next_start
<1>1. CASE level # "speech" \/ s.temp_end = 0
  BY <1>1 DEF Resume
<1>2. CASE ~(level # "speech" \/ s.temp_end = 0)
  <2>1. nx \in Int
    BY DEF ScanTyped
  <2>2. PICK o \in Int : o = 0
    OBVIOUS
  <2>3. r = [s EXCEPT !.temp_end = o, !.next_start = nx]
    BY <1>2, <2>2 DEF Resume
  <2> HIDE DEF r
  <2> DEFINE is == nx
  <2>4. is = nx
    OBVIOUS
  <2> HIDE DEF is
  <2>5. r = [s EXCEPT !.temp_end = o, !.next_start = is] /\ is \in Int
    BY <2>1, <2>3, <2>4
  <2>6. /\ ScanTyped(r) /\ r.temp_end = o /\ r.prev_end = s.prev_end /\ r.next_start = is
        /\ r.start = s.start /\ r.is_speech = s.is_speech /\ r.speeches = s.speeches
    BY <2>5 DEF ScanTyped
  <2>7. QED
    BY <1>2, <2>2, <2>4, <2>6 DEF r
<1>3. QED
  BY <1>1, <1>2

(* What holds of the pauses amid a turn. *)
MidPauses(s, at) ==
    /\ s.temp_end # 0 => s.temp_end <= at
    /\ s.prev_end # 0 => s.prev_end <= at
    /\ s.prev_end # 0 /\ s.temp_end = 0 => s.prev_end <= s.next_start

LEMMA ResumePauses ==
    ASSUME NEW s, NEW at \in Int, ScanOk(s, at), Pauses(s, at), NEW level
    PROVE  LET r == Resume(s, level, at)
           IN  MidPauses(r, at) /\ (level = "speech" => r.temp_end = 0)
<1> DEFINE r == Resume(s, level, at)
<1>1. ScanTyped(s) /\ s.temp_end \in Int /\ s.prev_end \in Int /\ s.next_start \in Int
  BY DEF ScanOk, ScanTyped
<1>2. MidPauses(s, at)
  BY <1>1, Rates DEF Pauses, MidPauses
<1>3. s.prev_end # 0 => s.prev_end <= at
  BY <1>2 DEF MidPauses
<1>4. \/ r = s /\ (level # "speech" \/ s.temp_end = 0)
      \/ /\ level = "speech" /\ s.temp_end # 0
         /\ r.temp_end = 0 /\ r.prev_end = s.prev_end
         /\ r.next_start = (IF s.next_start < s.prev_end THEN at ELSE s.next_start)
  BY <1>1, ResumeIs
<1> HIDE DEF r
<1>5. CASE r = s /\ (level # "speech" \/ s.temp_end = 0)
  BY <1>2, <1>5 DEF r
<1>6. CASE /\ level = "speech" /\ s.temp_end # 0
           /\ r.temp_end = 0 /\ r.prev_end = s.prev_end
           /\ r.next_start = (IF s.next_start < s.prev_end THEN at ELSE s.next_start)
  <2>1. r.prev_end # 0 => r.prev_end <= r.next_start
    BY <1>1, <1>3, <1>6
  <2>2. MidPauses(r, at)
    BY <1>3, <1>6, <2>1 DEF MidPauses
  <2>3. QED
    BY <1>6, <2>2 DEF r
<1>7. QED
  BY <1>4, <1>5, <1>6

LEMMA ResumeRow ==
    ASSUME NEW s, NEW at \in Int, ScanOk(s, at), NEW level,
           NEW x \in Int, NEW y \in Int, NEW z \in Int, NEW min \in Nat,
           Row(s, x, y, z, at, min)
    PROVE  MidRow(Resume(s, level, at), x, y, z, min)
<1> DEFINE r == Resume(s, level, at)
<1>1. ScanTyped(s) /\ s.temp_end \in Int /\ s.prev_end \in Int /\ s.next_start \in Int
  BY DEF ScanOk, ScanTyped
<1>2. \/ r = s
      \/ /\ r.temp_end = 0 /\ r.prev_end = s.prev_end
         /\ r.next_start = (IF s.next_start < s.prev_end THEN at ELSE s.next_start)
         /\ r.start = s.start /\ r.is_speech = s.is_speech /\ r.speeches = s.speeches
  BY <1>1, ResumeIs
<1>3. MidRow(s, x, y, z, min)
  BY DEF Row, MidRow
<1> HIDE DEF r
<1>4. CASE r = s
  BY <1>3, <1>4 DEF r
<1>5. CASE /\ r.temp_end = 0 /\ r.prev_end = s.prev_end
           /\ r.next_start = (IF s.next_start < s.prev_end THEN at ELSE s.next_start)
           /\ r.start = s.start /\ r.is_speech = s.is_speech /\ r.speeches = s.speeches
  <2>1. s.prev_end <= s.next_start => r.next_start = s.next_start
    BY <1>1, <1>5
  <2>2. Open(s, x, y, z) => Open(r, x, y, z)
    BY <1>5, <2>1 DEF Open
  <2>3. QED
    BY <1>3, <1>5, <2>2 DEF MidRow, r
<1>6. QED
  BY <1>2, <1>4, <1>5

(* One turn of the loop, by cases. *)
Begun(s, at) == [s EXCEPT !.is_speech = TRUE, !.has_speech = TRUE, !.start = at]

TooLong(s, p, at) == s.is_speech /\ at - s.start > max_speech_samples(p)

Turned(t, s, p, level, at) ==
    \/ t = Begun(s, at) /\ level = "speech" /\ ~s.is_speech
    \/ t = Stop(Found(s, at)) /\ TooLong(s, p, at) /\ s.prev_end = 0
    \/ t = PauseIfSilent(CutAtPause(s), p, level, at) /\ TooLong(s, p, at) /\ s.prev_end # 0
    \/ t = PauseIfSilent(s, p, level, at) /\ (level = "speech" => s.is_speech)

LEMMA ScanTurned ==
    ASSUME NEW was, NEW p, NEW level, NEW at
    PROVE  Turned(Scan(was, p, level, at), Resume(was, level, at), p, level, at)
<1> DEFINE s == Resume(was, level, at)
<1>1. Scan(was, p, level, at) =
        IF level = "speech" /\ ~s.is_speech THEN Begun(s, at)
        ELSE IF s.is_speech /\ at - s.start > max_speech_samples(p)
        THEN IF s.prev_end = 0 THEN Stop(Found(s, at))
             ELSE PauseIfSilent(CutAtPause(s), p, level, at)
        ELSE PauseIfSilent(s, p, level, at)
  BY DEF Scan, Begun
<1> HIDE DEF s
<1>2. QED
  BY <1>1 DEF Turned, TooLong, s

LEMMA BegunIs ==
    ASSUME NEW s, ScanTyped(s), NEW at \in Int
    PROVE  LET t == Begun(s, at)
           IN  /\ t.is_speech = TRUE /\ t.start = at /\ t.speeches = s.speeches
               /\ t.temp_end = s.temp_end /\ t.prev_end = s.prev_end
               /\ t.next_start = s.next_start
BY DEF ScanTyped, Begun

LEMMA PauseIfSilentPauses ==
    ASSUME NEW s, NEW at \in Int, 0 <= at, NEW level, NEW p \in VadParams,
           ScanMid(s, at, at) \/ level # "silence", MidPauses(s, at)
    PROVE  MidPauses(PauseIfSilent(s, p, level, at), at)
<1>1. CASE ~(level = "silence" /\ s.is_speech)
  BY <1>1 DEF PauseIfSilent
<1>2. CASE level = "silence" /\ s.is_speech
  <2>1. ScanMid(s, at, at)
    BY <1>2
  <2>2. PICK u : Paused(u, s, at) /\ PauseOf(Pause(s, p, at), u, p, at)
    BY <1>2, <2>1, PauseIs
  <2>3. /\ s.start \in Int /\ 0 <= s.start /\ s.speeches \in Seq(Speech)
        /\ s.next_start \in Int /\ s.prev_end \in Int
    BY <1>2, <2>1 DEF ScanMid, ScanTyped
  <2>4. PICK te, pe \in Int :
           /\ u = [is_speech |-> TRUE, temp_end |-> te, prev_end |-> pe,
                   next_start |-> s.next_start, start |-> s.start, has_speech |-> TRUE,
                   speeches |-> s.speeches]
           /\ s.start + n_window <= te /\ te <= at /\ pe \in {te, s.prev_end}
    BY <2>2 DEF Paused
  <2>5. ScanTyped(u) /\ u.temp_end = te /\ u.prev_end = pe
    BY <2>3, <2>4 DEF ScanTyped
  <2>6. te # 0
    BY <2>3, <2>4, Rates
  <2>7. MidPauses(u, at)
    BY <2>4, <2>5, <2>6 DEF MidPauses
  <2>8. ASSUME NEW v, ScanTyped(v) PROVE MidPauses(Stop(v), at)
    <3>1. Stop(v).temp_end = 0 /\ Stop(v).prev_end = 0
      BY <2>8, StopIs
    <3>2. QED
      BY <3>1 DEF MidPauses
  <2>9. ScanTyped(Found(u, u.temp_end))
    BY <2>5, FoundIs
  <2>10. MidPauses(Pause(s, p, at), at)
    BY <2>2, <2>5, <2>7, <2>8, <2>9 DEF PauseOf
  <2>11. QED
    BY <1>2, <2>10 DEF PauseIfSilent
<1>3. QED
  BY <1>1, <1>2

LEMMA ScanPauses ==
    ASSUME NEW was, NEW at \in Int, 0 <= at, ScanOk(was, at), Pauses(was, at),
           NEW level, NEW p \in VadParams
    PROVE  Pauses(Scan(was, p, level, at), at + n_window)
<1> DEFINE s == Resume(was, level, at)
           t == Scan(was, p, level, at)
           now == IF level = "speech" THEN at + n_window ELSE at
<1>1. now \in Int /\ at <= now /\ (level # "speech" => now = at)
  BY Rates
<1>2. ScanMid(s, at, now) /\ MidPauses(s, at)
  BY <1>1, ResumeOk, ResumePauses
<1>3. Turned(t, s, p, level, at)
  BY ScanTurned
<1> HIDE DEF s, t, now
<1>4. ScanTyped(s) /\ s.temp_end \in Int /\ s.prev_end \in Int
  BY <1>2 DEF ScanMid, ScanTyped
<1>5. MidPauses(t, at)
  <2>1. CASE t = Begun(s, at)
    <3>1. /\ t.temp_end = s.temp_end /\ t.prev_end = s.prev_end
          /\ t.next_start = s.next_start
      BY <1>4, <2>1, BegunIs
    <3>2. QED
      BY <1>2, <3>1 DEF MidPauses
  <2>2. CASE t = Stop(Found(s, at))
    <3>1. ScanTyped(Found(s, at))
      BY <1>4, FoundIs
    <3>2. t.temp_end = 0 /\ t.prev_end = 0
      BY <2>2, <3>1, StopIs
    <3>3. QED
      BY <3>2 DEF MidPauses
  <2>3. CASE t = PauseIfSilent(CutAtPause(s), p, level, at) /\ TooLong(s, p, at)
             /\ s.prev_end # 0
    <3> DEFINE c == CutAtPause(s)
    <3>1. s.is_speech
      BY <2>3 DEF TooLong
    <3>2. ScanMid(c, at, now)
      BY <1>1, <1>2, <2>3, <3>1, CutOk
    <3>3. c.temp_end = 0 /\ c.prev_end = 0
      <4>1. CASE s.next_start < s.prev_end
        <5>1. c = Stop(Found(s, s.prev_end)) /\ ScanTyped(Found(s, s.prev_end))
          BY <1>4, <4>1, FoundIs DEF CutAtPause
        <5> HIDE DEF c
        <5>2. QED
          BY <5>1, StopIs
      <4>2. CASE ~(s.next_start < s.prev_end)
        BY <1>4, <3>1, <4>2, CutIs
      <4>3. QED
        BY <4>1, <4>2
    <3> HIDE DEF c
    <3>4. MidPauses(c, at) /\ (ScanMid(c, at, at) \/ level # "silence")
      BY <1>1, <3>2, <3>3 DEF MidPauses
    <3>5. QED
      BY <2>3, <3>4, PauseIfSilentPauses DEF c
  <2>4. CASE t = PauseIfSilent(s, p, level, at)
    <3>1. ScanMid(s, at, at) \/ level # "silence"
      BY <1>1, <1>2
    <3>2. QED
      BY <1>2, <2>4, <3>1, PauseIfSilentPauses
  <2>5. QED
    BY <1>3, <2>1, <2>2, <2>3, <2>4 DEF Turned
<1>6. ScanOk(t, at + n_window)
  BY ScanStep DEF t
<1>7. t.temp_end \in Int /\ t.prev_end \in Int
  BY <1>6 DEF ScanOk, ScanTyped
<1>8. Pauses(t, at + n_window)
  BY <1>5, <1>7, Rates DEF MidPauses, Pauses
<1>9. QED
  BY <1>8 DEF t

(* A row of speech that ended before. *)
LEMMA ScanOldRow ==
    ASSUME NEW was, NEW at \in Int, 0 <= at, ScanOk(was, at),
           NEW level, NEW p \in VadParams, min_speech_samples(p) <= max_speech_samples(p),
           NEW x \in Int, NEW y \in Int, NEW z \in Int, x <= y, y <= z, z <= at,
           Row(was, x, y, z, at, min_speech_samples(p))
    PROVE  Row(Scan(was, p, level, at), x, y, z, at + n_window, min_speech_samples(p))
<1> DEFINE s == Resume(was, level, at)
           t == Scan(was, p, level, at)
           now == IF level = "speech" THEN at + n_window ELSE at
           min == min_speech_samples(p)
<1>1. now \in Int /\ at <= now /\ (level # "speech" => now = at) /\ min \in Nat
  BY Rates, ParamsInt
<1>2. ScanMid(s, at, now)
  BY <1>1, ResumeOk
<1>3. MidRow(s, x, y, z, min)
  BY <1>1, ResumeRow
<1>4. Turned(t, s, p, level, at)
  BY ScanTurned
<1> HIDE DEF s, t, now
<1>5. ScanTyped(s) /\ s.start \in Int
  BY <1>2 DEF ScanMid, ScanTyped
<1>6. ASSUME NEW v, ScanMid(v, at, now), MidRow(v, x, y, z, min)
      PROVE  MidRow(PauseIfSilent(v, p, level, at), x, y, z, min)
  <2>1. CASE level = "silence" /\ v.is_speech
    <3>1. ScanMid(v, at, at)
      BY <1>1, <1>6, <2>1
    <3>2. MidRow(Pause(v, p, at), x, y, z, min)
      BY <1>6, <2>1, <3>1, PauseRow
    <3>3. QED
      BY <2>1, <3>2 DEF PauseIfSilent
  <2>2. CASE ~(level = "silence" /\ v.is_speech)
    BY <1>6, <2>2 DEF PauseIfSilent
  <2>3. QED
    BY <2>1, <2>2
<1>7. MidRow(t, x, y, z, min)
  <2>1. CASE t = Begun(s, at) /\ ~s.is_speech
    <3>1. t.speeches = s.speeches
      BY <1>5, <2>1, BegunIs
    <3>2. ~Open(s, x, y, z)
      BY <2>1 DEF Open
    <3>3. QED
      BY <1>3, <3>1, <3>2 DEF MidRow
  <2>2. CASE t = Stop(Found(s, at)) /\ TooLong(s, p, at)
    <3>1. y <= at /\ min <= at - s.start
      <4>1. at - s.start > max_speech_samples(p) /\ max_speech_samples(p) \in Int
        BY <2>2, ParamsInt DEF TooLong
      <4>2. QED
        BY <1>1, <1>5, <4>1
    <3>2. MidRow(Stop(Found(s, at)), x, y, z, min)
      BY <1>1, <1>3, <1>5, <3>1, StopRow
    <3>3. QED
      BY <2>2, <3>2
  <2>3. CASE t = PauseIfSilent(CutAtPause(s), p, level, at) /\ TooLong(s, p, at)
             /\ s.prev_end # 0
    <3>1. s.is_speech
      BY <2>3 DEF TooLong
    <3>2. ScanMid(CutAtPause(s), at, now)
      BY <1>1, <1>2, <2>3, <3>1, CutOk
    <3>3. MidRow(CutAtPause(s), x, y, z, min)
      BY <1>1, <1>3, <1>5, <2>3, <3>1, CutRow
    <3>4. QED
      BY <1>6, <2>3, <3>2, <3>3
  <2>4. CASE t = PauseIfSilent(s, p, level, at)
    BY <1>2, <1>3, <1>6, <2>4
  <2>5. QED
    BY <1>4, <2>1, <2>2, <2>3, <2>4 DEF Turned
<1>8. z < at + n_window
  BY Rates
<1>9. QED
  BY <1>7, <1>8 DEF MidRow, Row, t

(* A row of speech that begins or goes on. *)
LEMMA ScanNewRow ==
    ASSUME NEW was, NEW at \in Int, 0 <= at, ScanOk(was, at), Pauses(was, at),
           NEW p \in VadParams, min_speech_samples(p) <= max_speech_samples(p),
           n_window < max_merge_gap_samples,
           NEW x \in Int, NEW y \in Int, y = x + n_window,
           \/ x = at
           \/ y <= at /\ Row(was, x, y, at, at, min_speech_samples(p))
    PROVE  Row(Scan(was, p, "speech", at), x, y, at + n_window, at + n_window,
               min_speech_samples(p))
<1> DEFINE level == "speech"
           s == Resume(was, level, at)
           t == Scan(was, p, level, at)
           now == at + n_window
           min == min_speech_samples(p)
<1>1. now \in Int /\ at <= now /\ at < now /\ min \in Int /\ x <= y /\ max_merge_gap_samples \in Int
  BY Rates, ParamsInt
<1>2. ScanMid(s, at, now) /\ (s.is_speech => s.start + n_window <= at)
      /\ s.is_speech = was.is_speech
  BY <1>1, ResumeOk
<1>3. MidPauses(s, at) /\ s.temp_end = 0
  BY ResumePauses
<1>4. Turned(t, s, p, level, at)
  BY ScanTurned
<1>5. /\ ScanTyped(was) /\ was.temp_end \in Int /\ was.prev_end \in Int
      /\ was.next_start \in Int
  BY DEF ScanOk, ScanTyped
<1>6. \/ s = was /\ was.temp_end = 0
      \/ was.temp_end # 0 /\ s.speeches = was.speeches /\ s.is_speech = was.is_speech
  BY <1>5, ResumeIs
<1> HIDE DEF s, t
<1>7. /\ ScanTyped(s) /\ s.start \in Int /\ s.prev_end \in Int /\ s.next_start \in Int
      /\ s.speeches \in Seq(Speech)
  BY <1>2 DEF ScanMid, ScanTyped
<1>8. s.prev_end # 0 => s.prev_end <= s.next_start /\ s.prev_end <= at
  BY <1>3 DEF MidPauses
<1>9. s.is_speech => s.next_start <= at
  <2>1. s.is_speech => s.next_start + n_window <= now
    BY <1>2 DEF ScanMid
  <2>2. QED
    BY <1>7, <2>1, Rates
<1> DEFINE NewRow == \/ Kept(s.speeches, x, y, min)
                     \/ Open(s, x, y, now)
                     \/ ~s.is_speech /\ (x = at \/ (y = at /\ JustCut(s, x)))
<1>10. NewRow
  <2>1. CASE x = at
    <3>1. CASE s.is_speech
      <4>1. s.start <= x /\ s.start <= y
        BY <1>1, <1>2, <1>7, <2>1, <3>1, Rates
      <4>2. s.prev_end # 0 => s.prev_end <= s.next_start /\ s.next_start <= x
        BY <1>8, <1>9, <2>1, <3>1
      <4>3. Open(s, x, y, now)
        BY <1>3, <3>1, <4>1, <4>2 DEF Open
      <4>4. QED
        BY <4>3
    <3>2. QED
      BY <2>1, <3>1
  <2>2. CASE y <= at /\ Row(was, x, y, at, at, min)
    <3>1. CASE Kept(was.speeches, x, y, min)
      BY <1>6, <3>1
    <3>2. CASE Open(was, x, y, at)
      <4>1. was.temp_end = 0
        <5>1. was.temp_end # 0 => at <= was.temp_end /\ was.temp_end + n_window <= at
          BY <3>2 DEF Open, Pauses
        <5>2. QED
          BY <1>5, <5>1, Rates
      <4>2. s = was
        BY <1>6, <4>1
      <4>3. s.prev_end # 0 => s.prev_end <= s.next_start /\ s.next_start <= x
        <5>1. was.prev_end # 0 => was.prev_end + n_window <= at
          BY DEF Pauses
        <5>2. was.prev_end # 0 => ~(at <= was.prev_end)
          BY <1>5, <5>1, Rates
        <5>3. QED
          BY <3>2, <4>2, <5>2 DEF Open
      <4>4. Open(s, x, y, now)
        BY <1>3, <3>2, <4>2, <4>3 DEF Open
      <4>5. QED
        BY <4>4
    <3>3. CASE y = at /\ JustCut(was, x)
      <4>1. ~s.is_speech /\ JustCut(s, x)
        BY <1>6, <3>3 DEF JustCut
      <4>2. QED
        BY <3>3, <4>1
    <3>4. ~(at < at)
      OBVIOUS
    <3>5. QED
      BY <2>2, <3>1, <3>2, <3>3, <3>4 DEF Row
  <2>3. QED
    BY <2>1, <2>2 DEF min
<1>11. \A v : PauseIfSilent(v, p, level, at) = v
  BY DEF PauseIfSilent
<1> DEFINE Goal == Row(t, x, y, now, now, min)
<1> SUFFICES Goal
  BY DEF t
<1> HIDE DEF min
<1>12. CASE t = Begun(s, at) /\ ~s.is_speech
  <2>1. /\ t.is_speech = TRUE /\ t.start = at /\ t.speeches = s.speeches
        /\ t.temp_end = s.temp_end /\ t.prev_end = s.prev_end
    BY <1>7, <1>12, BegunIs
  <2>2. s.prev_end = 0
    BY <1>2, <1>12 DEF ScanMid, Idle
  <2>3. CASE Kept(s.speeches, x, y, min)
    BY <2>1, <2>3 DEF Row
  <2>4. CASE x = at
    <3>1. Open(t, x, y, now)
      BY <1>1, <1>3, <2>1, <2>2, <2>4 DEF Open
    <3>2. QED
      BY <3>1 DEF Row
  <2>5. CASE y = at /\ JustCut(s, x)
    <3> DEFINE e == s.speeches[Len(s.speeches)].end
    <3>1. s.speeches # <<>> /\ e = x
      BY <2>5 DEF JustCut
    <3> HIDE DEF e
    <3>2. at - e < max_merge_gap_samples /\ e <= x /\ at <= y
      BY <1>1, <2>5, <3>1, Rates
    <3>3. Open(t, x, y, now)
      BY <1>3, <2>1, <2>2, <3>1, <3>2 DEF Open, e
    <3>4. QED
      BY <3>3 DEF Row
  <2>6. ~Open(s, x, y, now)
    BY <1>12 DEF Open
  <2>7. Goal
    BY <1>10, <2>3, <2>4, <2>5, <2>6
  <2>8. QED
    BY <2>7
<1>13. CASE t = Stop(Found(s, at)) /\ TooLong(s, p, at)
  <2> DEFINE g == [start |-> s.start, end |-> at]
             f == Found(s, at)
  <2>1. ScanTyped(f) /\ f.speeches = Append(s.speeches, g) /\ g \in Speech /\ g.end = at
    BY <1>7, FoundIs
  <2> HIDE DEF f
  <2>2. t.speeches = f.speeches /\ t.is_speech = FALSE
    BY <1>13, <2>1, StopIs DEF f
  <2>3. s.is_speech /\ at - s.start > max_speech_samples(p)
    BY <1>13 DEF TooLong
  <2>4. CASE Kept(s.speeches, x, y, min)
    <3> HIDE DEF g
    <3>1. Kept(t.speeches, x, y, min)
      BY <1>7, <2>1, <2>2, <2>4, AppendKept
    <3>2. QED
      BY <3>1 DEF Row
  <2>5. CASE x = at
    <3> DEFINE r == Append(s.speeches, g)
    <3> HIDE DEF g
    <3>4. r # <<>> /\ r[Len(r)] = g
      BY <1>7, <2>1
    <3>5. t.speeches = r
      BY <2>1, <2>2
    <3> HIDE DEF r
    <3>1. /\ t.speeches # <<>> /\ t.speeches[Len(t.speeches)] = g
      BY <3>4, <3>5
    <3>2. JustCut(t, x)
      BY <2>1, <2>2, <2>5, <3>1 DEF JustCut
    <3>3. QED
      BY <2>5, <3>2 DEF Row
  <2>6. CASE Open(s, x, y, now) /\ y <= at
    <3>1. min <= at - s.start
      <4>1. max_speech_samples(p) \in Int /\ min <= max_speech_samples(p)
        BY ParamsInt DEF min
      <4>2. QED
        BY <1>1, <1>7, <2>3, <4>1
    <3>2. Kept(Append(s.speeches, g), x, y, min)
      BY ONLY <1>1, <1>7, <2>6, <3>1, EndKeeps, x \in Int, y \in Int, at \in Int
    <3> HIDE DEF g
    <3>3. Kept(t.speeches, x, y, min)
      BY <2>1, <2>2, <3>2
    <3>4. QED
      BY <3>3 DEF Row
  <2>7. Goal
    BY <1>10, <2>3, <2>4, <2>5, <2>6
  <2>8. QED
    BY <2>7
<1>14. CASE t = CutAtPause(s) /\ TooLong(s, p, at) /\ s.prev_end # 0
  <2> DEFINE g == [start |-> s.start, end |-> s.prev_end]
  <2>1. s.is_speech /\ ~(s.next_start < s.prev_end)
    BY <1>7, <1>8, <1>14 DEF TooLong
  <2>2. /\ t.start = s.next_start /\ t.is_speech = TRUE
        /\ t.speeches = Append(s.speeches, g) /\ t.temp_end = 0 /\ t.prev_end = 0
    BY <1>7, <1>14, <2>1, CutIs
  <2>3. g \in Speech
    BY <1>7, SpeechIs
  <2> HIDE DEF g
  <2>4. CASE Kept(s.speeches, x, y, min)
    <3>1. Kept(t.speeches, x, y, min)
      BY <1>7, <2>2, <2>3, <2>4, AppendKept
    <3>2. QED
      BY <3>1 DEF Row
  <2>5. CASE Open(s, x, y, now)
    <3>1. ~(now <= s.prev_end)
      BY <1>1, <1>7, <1>8, <1>14
    <3>2. s.next_start <= x
      BY <1>14, <2>5, <3>1 DEF Open
    <3>3. s.next_start <= y
      BY <1>1, <1>7, <3>2
    <3>4. Open(t, x, y, now)
      BY <2>2, <3>2, <3>3 DEF Open
    <3>5. QED
      BY <3>4 DEF Row
  <2>6. QED
    BY <1>10, <2>1, <2>4, <2>5
<1>15. CASE t = s /\ s.is_speech
  <2>1. Kept(t.speeches, x, y, min) \/ Open(t, x, y, now)
    BY <1>10, <1>15
  <2>2. QED
    BY <2>1 DEF Row
<1>16. QED
  BY <1>4, <1>11, <1>12, <1>13, <1>14, <1>15 DEF Turned

(* After the loop the row is found, if it is not a short one. *)
LEMMA EndedKeeps ==
    ASSUME NEW s, NEW length \in Int, ScanOk(s, length), NEW p \in VadParams,
           NEW x \in Int, NEW y \in Int, NEW z \in Int, y <= z, z <= length,
           z - y > min_speech_samples(p),
           Row(s, x, y, z, length, min_speech_samples(p))
    PROVE  Kept(Ended(s, p, length), x, y, min_speech_samples(p))
<1> DEFINE min == min_speech_samples(p)
           g == [start |-> s.start, end |-> length]
<1>1. min \in Int /\ min >= 0 /\ ScanTyped(s) /\ s.start \in Int /\ s.speeches \in Seq(Speech)
  BY ParamsInt DEF ScanOk, ScanTyped
<1>2. /\ Found(s, length).speeches = Append(s.speeches, g) /\ g \in Speech
  BY <1>1, FoundIs
<1> HIDE DEF min
<1>3. Kept(s.speeches, x, y, min) \/ Open(s, x, y, z)
  <2>1. ~(z - y <= min) /\ ~(z = y)
    BY <1>1 DEF min
  <2>2. QED
    BY <2>1 DEF Row, min
<1>4. CASE Kept(s.speeches, x, y, min)
  <2> HIDE DEF g
  <2>1. Kept(Append(s.speeches, g), x, y, min)
    BY <1>1, <1>2, <1>4, AppendKept
  <2>2. QED
    BY <1>2, <1>4, <2>1 DEF Ended, min
<1>5. CASE Open(s, x, y, z)
  <2>1. s.is_speech /\ s.start <= y
    BY <1>5 DEF Open
  <2>2. y <= length /\ min <= length - s.start /\ length - s.start > min
    BY <1>1, <2>1 DEF min
  <2>3. s.has_speech
    BY <2>1 DEF ScanOk
  <2>4. Kept(Append(s.speeches, g), x, y, min)
    BY ONLY <1>1, <1>5, <2>2, EndKeeps, x \in Int, y \in Int, z \in Int, length \in Int
  <2>5. Ended(s, p, length) = Found(s, length).speeches
    BY <2>2, <2>3 DEF Ended, min
  <2> HIDE DEF g
  <2>6. QED
    BY <1>2, <2>4, <2>5 DEF min
<1>6. QED
  BY <1>3, <1>4, <1>5

(* The windows, by number. *)
LEMMA WindowAt ==
    ASSUME NEW i \in Int, NEW j \in Int
    PROVE  /\ i * n_window \in Int /\ (i - 1) * n_window \in Int /\ (j - i) * n_window \in Int
           /\ n_window * i = i * n_window
           /\ i * n_window = (i - 1) * n_window + n_window
           /\ (j - i) * n_window = j * n_window - i * n_window
           /\ i <= j => i * n_window <= j * n_window
           /\ 0 <= i => 0 <= i * n_window
<1>1. n_window \in Nat
  BY Rates
<1> DEFINE w == n_window
<1>2. w \in Int /\ w >= 0
  BY <1>1
<1> HIDE DEF w
<1>3. i * w \in Int /\ (i - 1) * w \in Int /\ (j - i) * w \in Int /\ j * w \in Int
  BY <1>2
<1>4. w * i = i * w /\ i * w = (i - 1) * w + w /\ (j - i) * w = j * w - i * w
  BY <1>2
<1>5. i <= j => i * w <= j * w
  <2>1. \A d \in Nat : d * w \in Int /\ 0 <= d * w
    BY <1>2
  <2>2. i <= j => j - i \in Nat
    OBVIOUS
  <2>3. i <= j => 0 <= (j - i) * w
    BY <2>1, <2>2
  <2>4. QED
    BY <1>3, <1>4, <2>3
<1>6. 0 <= i => 0 <= i * w
  BY <1>2
<1>7. QED
  BY <1>3, <1>4, <1>5, <1>6 DEF w

(* What the rows of speech so far have come to. *)
RowOf(s, q, p, i, j) ==
    Row(s, (i - 1) * n_window, i * n_window, j * n_window, n_window * Len(q),
        min_speech_samples(p))

Rows ==
    stage = "detect" =>
        /\ Pauses(scan, n_window * Len(probs))
        /\ \A i, j \in 1..Len(probs) :
              i <= j /\ IsSpeech(i, j) => RowOf(scan, probs, params.vad_params, i, j)

KeptInv == VadInv /\ Rows /\ SpeechKept

(* A segment shorter than the shortest that counts is not cut off as too   *)
(* long, and what two windows of speech leave between them is merged (512  *)
(* samples, and 3200, in the code).                                        *)
CutsAreLong ==
    /\ n_window < max_merge_gap_samples
    /\ \A c \in Calls : c.vad =>
          min_speech_samples(c.vad_params) <= max_speech_samples(c.vad_params)

LEMMA RowsStep ==
    ASSUME CutsAreLong, VadInv, Rows, DetectWindow
    PROVE  Rows'
<1> DEFINE n == Len(probs)
           p == params.vad_params
           at == n_window * n
<1>1. PICK level \in Level :
         probs' = Append(probs, level) /\ scan' = Scan(scan, p, level, at)
  BY DEF DetectWindow
<1>2. stage = "detect" /\ params' = params /\ params \in Calls /\ params.vad
  BY DEF DetectWindow, VadInv, Vad
<1>3. /\ probs \in Seq(Level) /\ n \in Nat /\ Len(probs') = n + 1 /\ probs'[n + 1] = level
      /\ \A k \in 1..n : probs'[k] = probs[k]
  BY <1>1 DEF VadInv, Detection
<1>4. /\ p \in VadParams /\ n_window < max_merge_gap_samples
      /\ min_speech_samples(p) <= max_speech_samples(p)
  BY <1>2, CallIs DEF CutsAreLong
<1>5. at \in Int /\ 0 <= at /\ at = n * n_window /\ n_window * (n + 1) = at + n_window
      /\ (n + 1) * n_window = at + n_window /\ at = ((n + 1) - 1) * n_window
  <2>1. n \in Int /\ n + 1 \in Int /\ 0 <= n /\ (n + 1) - 1 = n
    BY <1>3
  <2>2. /\ n * n_window \in Int /\ n_window * n = n * n_window /\ 0 <= n * n_window
        /\ n_window * (n + 1) = (n + 1) * n_window
        /\ (n + 1) * n_window = ((n + 1) - 1) * n_window + n_window
    BY ONLY <2>1, WindowAt
  <2>3. QED
    BY <2>1, <2>2
<1>6. ScanOk(scan, at) /\ Pauses(scan, at)
  BY <1>2 DEF VadInv, Detection, Rows
<1>7. \A i, j \in 1..n : i <= j /\ IsSpeech(i, j) => RowOf(scan, probs, p, i, j)
  BY <1>2 DEF Rows
<1> HIDE DEF n, p, at
<1>8. Pauses(scan', at + n_window)
  BY <1>1, <1>4, <1>5, <1>6, ScanPauses
<1>9. ASSUME NEW i \in 1..(n + 1), NEW j \in 1..(n + 1), i <= j,
             \A k \in i..j : probs'[k] = "speech"
      PROVE  Row(scan', (i - 1) * n_window, i * n_window, j * n_window, at + n_window,
                 min_speech_samples(p))
  <2> DEFINE x == (i - 1) * n_window
             y == i * n_window
             z == j * n_window
  <2>1. /\ x \in Int /\ y \in Int /\ z \in Int /\ y = x + n_window /\ x <= y /\ y <= z
    <3>1. i \in Int /\ j \in Int
      BY <1>3
    <3>2. QED
      BY <1>9, <3>1, WindowAt, Rates
  <2>2. CASE j \in 1..n
    <3>1. i \in 1..n /\ j \in Int /\ n \in Int /\ j <= n
      BY <1>3, <1>9, <2>2
    <3>2. z <= at
      BY <1>5, <3>1, WindowAt
    <3>3. IsSpeech(i, j)
      <4> SUFFICES ASSUME NEW k \in i..j PROVE probs[k] = "speech"
        BY DEF IsSpeech
      <4>1. k \in 1..n
        BY <2>2, <3>1
      <4>2. QED
        BY <1>3, <1>9, <4>1
    <3>4. Row(scan, x, y, z, at, min_speech_samples(p))
      BY <1>7, <1>9, <2>2, <3>1, <3>3 DEF RowOf, at, n
    <3> HIDE DEF x, y, z
    <3>5. Row(Scan(scan, p, level, at), x, y, z, at + n_window, min_speech_samples(p))
      BY <1>4, <1>5, <1>6, <2>1, <3>2, <3>4, ScanOldRow
    <3>6. QED
      BY <1>1, <3>5 DEF x, y, z, p, at, n
  <2>3. CASE j = n + 1
    <3>1. z = at + n_window /\ level = "speech"
      <4>1. n + 1 \in i..j
        BY <1>3, <2>3
      <4>2. QED
        BY <1>3, <1>5, <1>9, <2>3, <4>1
    <3>2. x = at \/ (y <= at /\ Row(scan, x, y, at, at, min_speech_samples(p)))
      <4>1. CASE i = n + 1
        BY <1>5, <4>1
      <4>2. CASE i # n + 1
        <5>1. i \in 1..n /\ n \in 1..n /\ i <= n /\ i \in Int /\ n \in Int
          BY <1>3, <4>2
        <5>2. y <= at
          BY <1>5, <5>1, WindowAt
        <5>3. IsSpeech(i, n)
          <6> SUFFICES ASSUME NEW k \in i..n PROVE probs[k] = "speech"
            BY DEF IsSpeech
          <6>1. k \in 1..n /\ k \in i..j
            BY <1>3, <2>3, <5>1
          <6>2. QED
            BY <1>3, <1>9, <6>1
        <5>4. RowOf(scan, probs, p, i, n)
          BY <1>7, <5>1, <5>3
        <5>5. Row(scan, x, y, at, at, min_speech_samples(p))
          BY <1>5, <5>4 DEF RowOf, at, n
        <5>6. QED
          BY <5>2, <5>5
      <4>3. QED
        BY <4>1, <4>2
    <3> HIDE DEF x, y, z
    <3>3. Row(Scan(scan, p, "speech", at), x, y, at + n_window, at + n_window,
              min_speech_samples(p))
      BY <1>4, <1>5, <1>6, <2>1, <3>2, ScanNewRow
    <3>4. QED
      BY <1>1, <3>1, <3>3 DEF x, y, z, p, at, n
  <2>4. j \in 1..n \/ j = n + 1
    BY <1>3
  <2>5. QED
    BY <2>2, <2>3, <2>4
<1>10. n_window * Len(probs') = at + n_window /\ params'.vad_params = p
  BY <1>2, <1>3, <1>5 DEF p
<1>11. ASSUME NEW i \in 1..Len(probs'), NEW j \in 1..Len(probs'),
              i <= j, IsSpeech(i, j)'
       PROVE  RowOf(scan', probs', params'.vad_params, i, j)
  <2>1. i \in 1..(n + 1) /\ j \in 1..(n + 1)
    BY <1>3
  <2>2. \A k \in i..j : probs'[k] = "speech"
    BY <1>11 DEF IsSpeech
  <2>3. QED
    BY <1>9, <1>10, <1>11, <2>1, <2>2 DEF RowOf
<1>12. QED
  BY <1>8, <1>10, <1>11 DEF Rows, RowOf

LEMMA FoundKept ==
    ASSUME VadInv, Rows, FindSegments
    PROVE  SpeechKept'
<1> DEFINE n == Len(probs)
           p == params.vad_params
<1>1. /\ stage = "detect" /\ params' = params /\ probs' = probs /\ params \in Calls
      /\ n = n_chunks /\ segments' = SegmentsOf(scan, p, audio_length)
  BY DEF FindSegments, detection, VadInv, Vad
<1>2. /\ probs \in Seq(Level) /\ n \in Nat /\ DOMAIN probs = 1..n /\ p \in VadParams
      /\ ScanOk(scan, n_window * n)
  BY <1>1, CallIs DEF VadInv, Detection
<1>3. audio_length \in Int /\ audio_length = n * n_window /\ audio_length = n_window * n
  <2>1. n \in Int
    BY <1>2
  <2>2. n * n_window \in Int /\ n_window * n = n * n_window
    BY <2>1, WindowAt
  <2>3. QED
    BY <1>1, <2>2 DEF audio_length
<1>4. \A i, j \in 1..n : i <= j /\ IsSpeech(i, j) => RowOf(scan, probs, p, i, j)
  BY <1>1 DEF Rows
<1> SUFFICES ASSUME NEW i \in DOMAIN probs, NEW j \in DOMAIN probs, IsSpeech(i, j),
                    (j - i) * n_window > min_speech_samples(p)
             PROVE  Covered(i)'
  BY <1>1 DEF SpeechKept, IsSpeech
<1> DEFINE x == (i - 1) * n_window
           y == i * n_window
           z == j * n_window
           min == min_speech_samples(p)
<1>5. i \in Int /\ j \in Int /\ j <= n /\ n \in Int /\ i \in 1..n /\ j \in 1..n
  BY <1>2
<1>6. x \in Int /\ y \in Int /\ z \in Int /\ (j - i) * n_window = z - y
  BY <1>5, WindowAt
<1>7. z <= audio_length
  BY <1>3, <1>5, WindowAt
<1>8. min \in Nat
  BY <1>2, ParamsInt
<1>9. z - y > min
  BY <1>6
<1>10. i <= j
  <2>1. CASE j <= i
    <3>1. z <= y
      BY <1>5, <2>1, WindowAt
    <3> HIDE DEF x, y, z, min
    <3>2. FALSE
      BY <1>6, <1>8, <1>9, <3>1
    <3>3. QED
      BY <3>2
  <2>2. QED
    BY <1>5, <2>1
<1>11. y <= z
  BY <1>5, <1>10, WindowAt
<1>12. Row(scan, x, y, z, audio_length, min)
  BY <1>3, <1>4, <1>5, <1>10 DEF RowOf
<1> HIDE DEF x, y, z, n, p
<1>13. ScanOk(scan, audio_length)
  BY <1>2, <1>3
<1>14. Kept(Ended(scan, p, audio_length), x, y, min)
  BY <1>2, <1>3, <1>6, <1>7, <1>9, <1>11, <1>12, <1>13, EndedKeeps
<1>15. \E k \in DOMAIN segments' : CoveredBy(segments'[k], x, y)
  BY <1>1, <1>2, <1>3, <1>6, <1>13, <1>14, SegmentsCover
<1>16. PICK k \in DOMAIN segments' : CoveredBy(segments'[k], x, y)
  BY <1>15
<1>17. segments'[k] \in ToSet(segments')
  BY DEF ToSet
<1>18. QED
  BY <1>16, <1>17 DEF Covered, CoveredBy, x, y

(* Of windows of speech in a row the detection loses none but those in the *)
(* last min_speech_duration_ms of the row and the one before, for every    *)
(* audio, all probabilities and every setting for which a segment that is  *)
(* cut is not itself too short to count.                                   *)
THEOREM SpeechIsKept ==
    ASSUME CutsAreLong
    PROVE  Spec => []SpeechKept
<1>1. Init => KeptInv
  <2> SUFFICES ASSUME Init PROVE KeptInv
    OBVIOUS
  <2>1. stage = "idle"
    BY DEF Init
  <2>2. QED
    BY <2>1, VadInit DEF KeptInv, Rows, SpeechKept
<1>2. KeptInv /\ [Next]_vars => KeptInv'
  <2> SUFFICES ASSUME KeptInv, [Next]_vars PROVE KeptInv'
    OBVIOUS
  <2>1. VadInv /\ Rows /\ SpeechKept /\ VadInv'
    BY VadStep DEF KeptInv
  <2> SUFFICES Rows' /\ SpeechKept'
    BY <2>1 DEF KeptInv
  <2>2. ASSUME stage' \notin {"detect", "segmented"} PROVE Rows' /\ SpeechKept'
    BY <2>2 DEF Rows, SpeechKept
  <2>3. CASE Call
    <3>1. stage = "idle" /\ probs' = probs /\ scan' = scan /\ stage' \in {"detect", "start"}
      BY <2>3 DEF Call, detection
    <3>2. probs' = <<>> /\ scan' = NoSpeech
      BY <2>1, <3>1 DEF VadInv, Detection
    <3>3. Len(probs') = 0
      BY <3>2
    <3>4. Pauses(scan', n_window * Len(probs'))
      BY <3>2 DEF Pauses, NoSpeech
    <3>5. Rows'
      BY <3>3, <3>4 DEF Rows
    <3>6. QED
      BY <3>1, <3>5 DEF SpeechKept
  <2>4. CASE DetectWindow
    <3>1. stage' = "detect"
      BY <2>4 DEF DetectWindow
    <3>2. Rows'
      BY <2>1, <2>4, RowsStep
    <3>3. QED
      BY <3>1, <3>2 DEF SpeechKept
  <2>5. CASE FindSegments
    <3>1. stage' = "segmented"
      BY <2>5 DEF FindSegments
    <3>2. SpeechKept'
      BY <2>1, <2>5, FoundKept
    <3>3. QED
      BY <3>1, <3>2 DEF Rows
  <2>6. CASE VadFails \/ NoSpeechFound \/ CopySpeech \/ CopyFails \/ Combine
    BY <2>2, <2>6 DEF VadFails, Return, NoSpeechFound, CopySpeech, CopyFails, Combine
  <2>7. ASSUME NEW i \in Processors, Start(i) \/ NoMemory(i) \/ FindSegment(i) \/ Finish(i)
        PROVE  Rows' /\ SpeechKept'
    <3>1. UNCHANGED others /\ (UNCHANGED stage \/ stage' = "crashed")
      BY <2>7 DEF Start, NoMemory, FindSegment, Finish
    <3>2. CASE UNCHANGED <<others, stage>>
      BY <2>1, <3>2 DEF others, detection, mapping, Rows, SpeechKept, IsSpeech, Covered
    <3>3. QED
      BY <2>2, <3>1, <3>2
  <2>8. CASE UNCHANGED vars
    BY <2>1, <2>8 DEF vars, Rows, SpeechKept, IsSpeech, Covered
  <2>9. QED
    BY <2>3, <2>4, <2>5, <2>6, <2>7, <2>8 DEF Next
<1>3. KeptInv => SpeechKept
  BY DEF KeptInv
<1>4. QED
  BY <1>1, <1>2, <1>3, PTL DEF Spec

-----------------------------------------------------------------------------
(* A quotient is an integer, and that of the numbers where they fit.       *)
LEMMA QuotientIs ==
    ASSUME NEW x \in Int, NEW d \in Nat, d > 0
    PROVE  /\ Quotient(x, d) \in Int
           /\ Fits(x) => Quotient(x, d) = x \div d
<1> DEFINE b == 2 * (IntMax + 1)
           y == x + IntMax + 1
           w == Wrapped(x)
<1>1. b \in Nat /\ b > 0 /\ y \in Int /\ IntMax \in Nat
  BY Rates, VadAssumption
<1>2. y % b \in Int
  <2> HIDE DEF y, b
  <2>1. QED
    BY <1>1
<1>3. w \in Int
  <2>1. w = (y % b) - (IntMax + 1)
    BY DEF Wrapped
  <2> HIDE DEF w, y, b
  <2>2. QED
    BY <1>1, <1>2, <2>1
<1>4. Quotient(x, d) = IF Fits(x) THEN x \div d ELSE IF w >= 0 THEN w \div d ELSE -((-w) \div d)
  BY DEF Quotient
<1> HIDE DEF w
<1>5. -w \in Int
  BY <1>3
<1>6. x \div d \in Int /\ w \div d \in Int /\ (-w) \div d \in Int
  BY <1>3, <1>5, DivIs
<1>7. QED
  BY <1>4, <1>6

(* The samples skipped, and the share of a thread, with and without        *)
(* overflow.                                                               *)
LEMMA ShareIs ==
    ASSUME VadInv
    PROVE  /\ params.n_processors \in Nat /\ params.n_processors > 0
           /\ params.offset_ms \in Nat /\ n_samples \in Int
           /\ offset_samples \in Int /\ n_samples_per_processor \in Int
           /\ Fits(SampleRate * params.offset_ms) => offset_samples = Samples(params.offset_ms)
<1> DEFINE P == params.n_processors
           off == offset_samples
           x == SampleRate * params.offset_ms
<1>1. P \in Nat /\ P > 0 /\ params.offset_ms \in Nat /\ n_samples \in Int
  BY CallIs DEF VadInv, Vad
<1>2. x \in Int
  BY <1>1, Rates
<1>3. off = Quotient(x, 1000) /\ Samples(params.offset_ms) = x \div 1000
  BY DEF offset_samples, OffsetSamples, Samples
<1>4. n_samples_per_processor = (n_samples - off) \div P
  BY DEF n_samples_per_processor
<1>5. off \in Int /\ (Fits(x) => off = Samples(params.offset_ms))
  <2> HIDE DEF x, off
  <2>1. QED
    BY <1>2, <1>3, QuotientIs
<1> HIDE DEF P, off, x
<1>6. n_samples - off \in Int
  BY <1>1, <1>5
<1>7. n_samples_per_processor \in Int
  BY <1>1, <1>4, <1>6, DivIs
<1>8. QED
  BY <1>1, <1>5, <1>7 DEF P, off, x

(* What is added to the times of a thread: the start of its share, of      *)
(* offset_ms and some samples, rounded down twice.                         *)
LEMMA OffsetRounded ==
    ASSUME NEW ms \in Nat
    PROVE  100 * Samples(ms) - (ms \div 10) * SampleRate \in 0..(SampleRate - 1)
<1> DEFINE s == SampleRate \div 100
           q == ms \div 10
           r == ms - 10 * q
           x == Samples(ms)
<1>1. /\ s \in Nat /\ s > 0 /\ SampleRate = 100 * s
  BY Rates
<1>2. q \in Nat /\ r \in 0..9 /\ ms = 10 * q + r
  OBVIOUS
<1>3. x \in Nat
  BY Conversions
<1>4. 1000 * x <= SampleRate * ms /\ SampleRate * ms < 1000 * x + 1000
  <2>1. SampleRate * ms \in Int
    BY Rates
  <2>2. x = (SampleRate * ms) \div 1000
    BY DEF Samples
  <2> HIDE DEF x
  <2>3. QED
    BY <2>1, <2>2
<1> HIDE DEF s, q, r, x
<1>5. SampleRate * ms = 1000 * (s * q) + 100 * (s * r)
  <2>1. SampleRate * ms = (100 * s) * (10 * q + r)
    BY <1>1, <1>2
  <2>2. QED
    BY <1>1, <1>2, <2>1
<1>6. s * q \in Nat /\ s * r \in Nat /\ s * r <= 9 * s
  <2>1. \A a, b \in Nat : a * b \in Nat
    OBVIOUS
  <2>2. r \in Nat /\ r <= 9
    BY <1>2
  <2>3. s * r <= s * 9
    BY <1>1, <2>2
  <2>4. QED
    BY <1>1, <1>2, <2>1, <2>2, <2>3
<1>7. q * SampleRate = 100 * (s * q)
  BY <1>1, <1>2
<1>8. /\ 1000 * x <= 1000 * (s * q) + 100 * (s * r)
      /\ 1000 * (s * q) + 100 * (s * r) < 1000 * x + 1000
  BY <1>4, <1>5
<1>9. 100 * x - 100 * (s * q) \in 0..(100 * s - 1)
  <2> DEFINE a == s * q
             b == s * r
  <2>1. /\ a \in Nat /\ b \in Nat /\ b <= 9 * s
        /\ 1000 * x <= 1000 * a + 100 * b /\ 1000 * a + 100 * b < 1000 * x + 1000
    BY <1>6, <1>8
  <2> HIDE DEF a, b
  <2>2. 10 * x <= 10 * a + b /\ 10 * a + b < 10 * x + 10
    BY <1>3, <2>1
  <2>3. a <= x
    BY <1>3, <2>1, <2>2
  <2>4. 100 * x <= 100 * a + 90 * s
    BY <1>1, <1>3, <2>1, <2>2
  <2>5. 100 * x - 100 * a \in 0..(100 * s - 1)
    BY <1>1, <1>3, <2>1, <2>3, <2>4
  <2>6. QED
    BY <2>5 DEF a
<1>10. QED
  BY <1>1, <1>7, <1>9 DEF x, q

(* The shares of the threads tile the audio behind the offset, whether or  *)
(* not products overflow, and where they do not, what is added to a        *)
(* thread's times is where its share starts, to less than 20 ms.           *)
THEOREM SharesTile == Spec => []ChunksTile
<1>1. VadInv => ChunksTile
  <2> SUFFICES ASSUME VadInv PROVE ChunksTile
    OBVIOUS
  <2> DEFINE m == n_samples_per_processor
             off == offset_samples
             P == params.n_processors
  <2>1. P \in Nat /\ P > 0 /\ params.offset_ms \in Nat /\ n_samples \in Int
    BY ShareIs
  <2>2. off \in Int /\ m \in Int
    BY ShareIs
  <2>3. \A i \in Processors : i \in Nat /\ i <= P - 1 /\ i * m \in Int
    BY <2>1, <2>2 DEF Processors
  <2>4. ASSUME NEW i \in Processors, i + 1 \in Processors
        PROVE  ChunkStart(i) + ChunkLength(i) = ChunkStart(i + 1)
    <3>1. i \in Nat /\ i + 1 <= P - 1 /\ P > 1 /\ i # P - 1 /\ i + 1 # 0
      BY <2>1, <2>3, <2>4
    <3>2. ChunkStart(i + 1) = off + (i + 1) * m
      BY <3>1 DEF ChunkStart
    <3>3. (i + 1) * m = i * m + m /\ i * m \in Int /\ 0 * m = 0
      BY <2>2, <3>1
    <3>4. CASE i = 0
      <4>1. ChunkStart(i) = 0 /\ ChunkLength(i) = off + m
        BY <3>1, <3>4 DEF ChunkStart, ChunkLength
      <4> HIDE DEF off, m
      <4>2. QED
        BY <2>2, <3>2, <3>3, <3>4, <4>1
    <3>5. CASE i # 0
      <4>1. ChunkStart(i) = off + i * m /\ ChunkLength(i) = m
        BY <3>1, <3>5 DEF ChunkStart, ChunkLength
      <4> HIDE DEF off, m
      <4>2. QED
        BY <2>2, <3>2, <3>3, <4>1
    <3>6. QED
      BY <3>4, <3>5
  <2>5. ChunkStart(P - 1) + ChunkLength(P - 1) = n_samples
    <3>1. ChunkStart(P - 1) \in Int
      <4>1. P - 1 = 0 \/ P - 1 # 0
        OBVIOUS
      <4>2. (P - 1) * m \in Int
        BY <2>1, <2>2
      <4> HIDE DEF P
      <4>3. QED
        BY <2>1, <2>2, <4>2 DEF ChunkStart
    <3>2. ChunkLength(P - 1) = n_samples - ChunkStart(P - 1)
      <4>1. ~(P - 1 = 0 /\ P > 1)
        BY <2>1
      <4>2. QED
        BY <4>1 DEF ChunkLength
    <3> HIDE DEF P
    <3>3. QED
      BY <2>1, <3>1, <3>2
  <2>6. ASSUME NEW i \in Processors \ {0},
               Fits(SampleRate * params.offset_ms), Fits(100 * (i * m))
        PROVE  100 * ChunkStart(i) - TimeOffset(i) * SampleRate \in 0..(2 * SampleRate - 1)
    <3> DEFINE a == 100 * (i * m)
               d == a \div SampleRate
               t == offset_t
    <3>1. i * m \in Int /\ a \in Int
      BY <2>3
    <3>2. SampleRate \in Nat /\ SampleRate > 0
      BY Rates
    <3>3. d \in Int /\ SampleRate * d \in Int /\ SampleRate * d <= a
          /\ a < SampleRate * d + SampleRate
      <4> HIDE DEF a
      <4>1. QED
        BY <3>1, <3>2, DivIs
    <3>4. t \in Int /\ 100 * off - t * SampleRate \in 0..(SampleRate - 1) /\ t * SampleRate \in Int
      <4>1. t = params.offset_ms \div 10
        BY DEF offset_t
      <4>2. off = Samples(params.offset_ms)
        BY <2>6, ShareIs
      <4>3. t \in Int
        BY <2>1, <4>1
      <4>4. 100 * off - t * SampleRate \in 0..(SampleRate - 1)
        BY <2>1, <4>1, <4>2, OffsetRounded
      <4> HIDE DEF t
      <4>5. QED
        BY <3>2, <4>3, <4>4
    <3>5. ChunkStart(i) = off + i * m /\ TimeOffset(i) = d + t
      <4>1. ChunkStart(i) = off + i * m /\ TimeOffset(i) = Quotient(a, SampleRate) + t
        BY DEF ChunkStart, TimeOffset
      <4>2. Quotient(a, SampleRate) = a \div SampleRate
        <5>1. Fits(a)
          BY <2>6
        <5> HIDE DEF a
        <5>2. QED
          BY <3>1, <3>2, <5>1, QuotientIs
      <4>3. QED
        BY <4>1, <4>2
    <3> DEFINE im == i * m
    <3>6. a = 100 * im /\ im \in Int /\ ChunkStart(i) = off + im
      BY <3>1, <3>5
    <3> HIDE DEF a, d, t, off, im
    <3>7. (d + t) * SampleRate = SampleRate * d + t * SampleRate
      BY <3>2, <3>3, <3>4
    <3>8. 100 * (off + im) - (SampleRate * d + t * SampleRate) \in 0..(2 * SampleRate - 1)
      BY <2>2, <3>2, <3>3, <3>4, <3>6
    <3>9. QED
      BY <3>5, <3>6, <3>7, <3>8
  <2>7. QED
    BY <2>4, <2>5, <2>6 DEF ChunksTile
<1>2. QED
  BY VadInvariant, <1>1, PTL

-----------------------------------------------------------------------------
(* The threads: each has segments of its own, numbered, none of which ends *)
(* before another in front of it, nor, with timestamps, begins before that.*)
Segment == [thread : Nat, number : Nat, t0 : Int, t1 : Int]

Following(i, q) ==
    /\ q \in Seq(Segment)
    /\ \A k \in 1..Len(q) : q[k].thread = i /\ q[k].number = k
    /\ \A k \in 1..(Len(q) - 1) : q[k].t1 <= q[k + 1].t1

Successive(q) == \A k \in 1..(Len(q) - 1) : q[k].t1 <= q[k + 1].t0

Threads ==
    /\ states \in [Processors -> [status : Status, result : Seq(Segment)]]
    /\ \A i \in Processors : Following(i, states[i].result)
    /\ ~params.no_timestamps => \A i \in Processors : Successive(states[i].result)
    /\ stage \in {"detect", "segmented"} => states = NoStates
    /\ stage = "idle" => \A i \in Processors : states[i].status # "running"
    /\ Transcribed => result_all = AllResults

ParallelInv == VadInv /\ Threads

LEMMA SegmentIs ==
    ASSUME NEW s \in Segment
    PROVE  s.thread \in Nat /\ s.number \in Nat /\ s.t0 \in Int /\ s.t1 \in Int
BY DEF Segment

LEMMA NothingFollows ==
    ASSUME NEW i PROVE Following(i, <<>>) /\ Successive(<<>>) /\ NoState \in [status : Status, result : Seq(Segment)]
                       /\ NoState.status = "none" /\ NoState.result = <<>>
<1>1. <<>> \in Seq(Segment) /\ Len(<<>>) = 0
  OBVIOUS
<1>2. NoState.status = "none" /\ NoState.result = <<>>
  BY DEF NoState
<1>3. NoState \in [status : Status, result : Seq(Segment)]
  BY <1>1 DEF NoState, Status
<1>4. QED
  BY <1>1, <1>2, <1>3 DEF Following, Successive

LEMMA NextFollows ==
    ASSUME NEW i \in Nat, NEW q, Following(i, q), NEW s \in Segment,
           s.thread = i, s.number = Len(q) + 1,
           q # <<>> => q[Len(q)].t1 <= s.t1
    PROVE  /\ Following(i, Append(q, s))
           /\ Successive(q) /\ (q # <<>> => q[Len(q)].t1 <= s.t0) => Successive(Append(q, s))
<1> DEFINE r == Append(q, s)
<1>1. q \in Seq(Segment) /\ Len(q) \in Nat
  BY DEF Following
<1>2. s.t0 \in Int /\ s.t1 \in Int
  BY SegmentIs
<1>3. /\ r \in Seq(Segment) /\ Len(r) = Len(q) + 1 /\ r[Len(q) + 1] = s
      /\ \A k \in 1..Len(q) : r[k] = q[k]
  BY <1>1
<1> HIDE DEF r
<1>4. ASSUME NEW k \in 1..Len(r)
      PROVE  r[k].thread = i /\ r[k].number = k
  <2>1. CASE k \in 1..Len(q)
    BY <1>3, <2>1 DEF Following
  <2>2. CASE k = Len(q) + 1
    BY <1>2, <1>3, <2>2
  <2>3. QED
    BY <1>1, <1>3, <2>1, <2>2
<1>5. ASSUME NEW k \in 1..(Len(r) - 1)
      PROVE  /\ k \in 1..Len(q) /\ r[k] = q[k]
             /\ k = Len(q) => q # <<>> /\ r[k + 1] = s
             /\ k # Len(q) => k \in 1..(Len(q) - 1) /\ r[k + 1] = q[k + 1]
  <2>1. k \in 1..Len(q) /\ r[k] = q[k]
    BY <1>1, <1>3
  <2>2. k = Len(q) => q # <<>> /\ r[k + 1] = s
    BY <1>3, <2>1
  <2>3. k # Len(q) => k \in 1..(Len(q) - 1) /\ k + 1 \in 1..Len(q)
    BY <1>1, <2>1
  <2>4. QED
    BY <1>3, <2>1, <2>2, <2>3
<1>6. ASSUME NEW k \in 1..(Len(r) - 1) PROVE r[k].t1 <= r[k + 1].t1
  <2>1. k = Len(q) => r[k].t1 <= r[k + 1].t1
    BY <1>2, <1>5
  <2>2. k # Len(q) => r[k].t1 <= r[k + 1].t1
    BY <1>5 DEF Following
  <2>3. QED
    BY <2>1, <2>2
<1>7. ASSUME Successive(q), q # <<>> => q[Len(q)].t1 <= s.t0, NEW k \in 1..(Len(r) - 1)
      PROVE  r[k].t1 <= r[k + 1].t0
  <2>1. k = Len(q) => r[k].t1 <= r[k + 1].t0
    BY <1>2, <1>5, <1>7
  <2>2. k # Len(q) => r[k].t1 <= r[k + 1].t0
    BY <1>5, <1>7 DEF Successive
  <2>3. QED
    BY <2>1, <2>2
<1>8. Following(i, r)
  BY <1>3, <1>4, <1>6 DEF Following
<1>9. Successive(q) /\ (q # <<>> => q[Len(q)].t1 <= s.t0) => Successive(r)
  BY <1>7 DEF Successive
<1>10. QED
  BY <1>8, <1>9 DEF r

LEMMA ThreadsInit == Init => Threads
<1> SUFFICES ASSUME Init PROVE Threads
  OBVIOUS
<1>1. stage = "idle" /\ states = [i \in Processors |-> NoState] /\ params \in Calls
  BY DEF Init, NoStates
<1>2. 0 \in Processors
  <2>1. params.n_processors \in Nat /\ params.n_processors > 0
    BY <1>1, CallIs
  <2>2. QED
    BY <2>1 DEF Processors
<1>3. \A i \in Processors : states[i] = NoState
  BY <1>1
<1>4. ~Transcribed
  BY <1>2, <1>3, NothingFollows DEF Transcribed
<1>5. \A i \in Processors : /\ Following(i, states[i].result)
                            /\ Successive(states[i].result)
                            /\ states[i].status # "running"
  BY <1>3, NothingFollows
<1>6. states \in [Processors -> [status : Status, result : Seq(Segment)]]
  BY <1>1, NothingFollows
<1>7. QED
  BY <1>1, <1>4, <1>5, <1>6 DEF Threads

LEMMA ResultsFrame ==
    ASSUME params' = params, n_samples' = n_samples, states' = states
    PROVE  AllResults' = AllResults
BY DEF AllResults, Appended, Corrected, EndOf, TimeOffset, n_samples_per_processor,
       offset_samples, OffsetSamples, offset_t, Processors

LEMMA ThreadsStep == ParallelInv /\ [Next]_vars => Threads'
<1> SUFFICES ASSUME VadInv, Threads, [Next]_vars PROVE Threads'
  BY DEF ParallelInv
<1> USE DEF Threads
<1>0. 0 \in Processors /\ Processors \subseteq Nat
  BY CallIs DEF VadInv, Vad, Processors
<1>1. CASE Call
  <2>1. /\ stage' \in {"detect", "start"} /\ params' \in Calls
        /\ states' = [i \in Processors' |-> NoState]
    BY <1>1 DEF Call
  <2>2. \A i \in Processors' : states'[i] = NoState
    BY <2>1
  <2>3. ~Transcribed'
    BY <2>1 DEF Transcribed
  <2>4. \A i \in Processors' : Following(i, states'[i].result) /\ Successive(states'[i].result)
    BY <2>2, NothingFollows
  <2>5. states' \in [Processors' -> [status : Status, result : Seq(Segment)]]
    BY <2>1, NothingFollows
  <2>6. states' = NoStates'
    BY <2>1 DEF NoStates, NoState
  <2>7. QED
    BY <2>1, <2>3, <2>4, <2>5, <2>6
<1>2. ASSUME params' = params, states' = states, n_samples' = n_samples,
             stage' # "idle", stage' \in {"detect", "segmented"} => states = NoStates
      PROVE  Threads'
  <2>1. Processors' = Processors /\ NoStates' = NoStates
    BY <1>2 DEF Processors, NoStates, NoState
  <2>2. ~Transcribed'
    BY <1>2 DEF Transcribed
  <2>3. QED
    BY <1>2, <2>1, <2>2
<1>3. ASSUME params' = params, states' = states, stage' = "idle", states = NoStates
      PROVE  Threads'
  <2>1. Processors' = Processors
    BY <1>3 DEF Processors
  <2>2. ~Transcribed'
    <3>1. states[0].status = "none"
      BY <1>0, <1>3, NothingFollows DEF NoStates
    <3>2. QED
      BY <1>0, <1>3, <2>1, <3>1 DEF Transcribed
  <2>3. \A i \in Processors : states[i].status # "running"
    BY <1>3, NothingFollows DEF NoStates
  <2>4. QED
    BY <1>3, <2>1, <2>2, <2>3
<1>4. CASE VadFails
  BY <1>3, <1>4 DEF VadFails, Return
<1>5. CASE DetectWindow
  BY <1>2, <1>5 DEF DetectWindow
<1>6. CASE FindSegments
  BY <1>2, <1>6 DEF FindSegments
<1>7. CASE NoSpeechFound
  BY <1>3, <1>7 DEF NoSpeechFound
<1>8. CASE CopySpeech
  <2>1. stage' = "start" /\ params' = params /\ states' = states
    BY <1>8 DEF CopySpeech
  <2>2. Processors' = Processors /\ ~Transcribed'
    BY <2>1 DEF Processors, Transcribed
  <2>3. QED
    BY <2>1, <2>2
<1>9. CASE CopyFails
  BY <1>3, <1>9 DEF CopyFails
<1>10. ASSUME NEW i \in Processors, NEW status \in Status, NEW result,
              Following(i, result), ~params.no_timestamps => Successive(result),
              SetState(i, status, result),
              params' = params, stage' \in {"start", "crashed"}
       PROVE  Threads'
  <2>1. Processors' = Processors /\ ~Transcribed'
    BY <1>10 DEF Processors, Transcribed
  <2> DEFINE r == [status |-> status, result |-> result]
  <2>2. r \in [status : Status, result : Seq(Segment)] /\ r.result = result
    BY <1>10 DEF Following
  <2>3. states' = [states EXCEPT ![i] = r]
    BY <1>10 DEF SetState
  <2> HIDE DEF r
  <2>4. states' \in [Processors -> [status : Status, result : Seq(Segment)]]
    BY <2>2, <2>3
  <2>5. \A j \in Processors : states'[j] = IF j = i THEN r ELSE states[j]
    BY <2>3
  <2>6. /\ \A j \in Processors : Following(j, states'[j].result)
        /\ ~params.no_timestamps => \A j \in Processors : Successive(states'[j].result)
    BY <1>10, <2>2, <2>5
  <2>7. QED
    BY <1>10, <2>1, <2>4, <2>6
<1>11. ASSUME NEW i \in Processors, Start(i) PROVE Threads'
  <2>1. SetState(i, "running", <<>>) /\ params' = params /\ stage' = "start"
    BY <1>11 DEF Start, others
  <2>2. "running" \in Status
    BY DEF Status
  <2>3. QED
    BY <1>10, <2>1, <2>2, NothingFollows
<1>12. ASSUME NEW i \in Processors, NoMemory(i) PROVE Threads'
  <2>1. SetState(i, "null", <<>>) /\ params' = params /\ stage' = "crashed"
    BY <1>12 DEF NoMemory, others
  <2>2. "null" \in Status
    BY DEF Status
  <2>3. QED
    BY <1>10, <2>1, <2>2, NothingFollows
<1>13. ASSUME NEW i \in Processors, states[i].status = "running",
              stage' = stage
       PROVE  stage' \in {"start", "crashed"}
  <2>1. stage \in {"idle", "detect", "segmented", "start", "crashed"}
    BY DEF VadInv, Vad
  <2>2. states # NoStates
    <3>1. NoStates[i] = NoState
      BY DEF NoStates
    <3>2. QED
      BY <1>13, <3>1, NothingFollows
  <2>3. QED
    BY <1>13, <2>1, <2>2
<1>14. ASSUME NEW i \in Processors, FindSegment(i) PROVE Threads'
  <2> DEFINE q == states[i].result
             e == Reached(i)
  <2>1. PICK t0 \in Beginnings(i), d \in Lengths :
           SetState(i, "running", Append(q, [thread |-> i, number |-> Len(q) + 1,
                                             t0 |-> t0, t1 |-> e + d]))
    BY <1>14 DEF FindSegment
  <2>2. states[i].status = "running" /\ stage' = stage /\ params' = params
    BY <1>14 DEF FindSegment, others
  <2>3. /\ Following(i, q) /\ q \in Seq(Segment) /\ Len(q) \in Nat
        /\ ~params.no_timestamps => Successive(q)
    BY DEF Following
  <2>4. e \in Int /\ (q # <<>> => e = q[Len(q)].t1)
    <3>1. CASE q = <<>>
      <4>1. offset_t \in Int
        <5>1. params.offset_ms \in Nat
          BY CallIs DEF VadInv, Vad
        <5>2. QED
          BY <5>1 DEF offset_t
      <4>2. QED
        BY <3>1, <4>1 DEF Reached, SeekStart
    <3>2. CASE q # <<>>
      <4>1. Len(q) \in 1..Len(q)
        BY <2>3, <3>2
      <4>2. q[Len(q)] \in Segment
        BY <2>3, <4>1, ElementOfSeq
      <4>3. q[Len(q)].t1 \in Int
        BY <4>2, SegmentIs
      <4>4. e = q[Len(q)].t1
        BY <3>2 DEF Reached, Last
      <4>5. QED
        BY <4>3, <4>4
    <3>3. QED
      BY <3>1, <3>2
  <2>5. i \in Nat /\ d \in Nat /\ Lengths \subseteq Nat /\ no_tid \in Nat
    BY <1>0, ParallelAssumption
  <2>6. t0 \in Int /\ (~params.no_timestamps => e <= t0)
    <3>1. \/ \E l \in Lengths : t0 = e + l
          \/ params.no_timestamps /\ \E l \in Lengths : t0 = e + l - no_tid
      BY DEF Beginnings
    <3> HIDE DEF e
    <3>2. CASE \E l \in Lengths : t0 = e + l
      <4>1. PICK l \in Lengths : t0 = e + l
        BY <3>2
      <4>2. l \in Nat
        BY <2>5
      <4>3. QED
        BY <2>4, <4>1, <4>2
    <3>3. CASE params.no_timestamps /\ \E l \in Lengths : t0 = e + l - no_tid
      <4>1. PICK l \in Lengths : t0 = e + l - no_tid
        BY <3>3
      <4>2. l \in Int /\ no_tid \in Int
        BY <2>5
      <4>3. t0 \in Int
        BY <2>4, <4>1, <4>2
      <4>4. QED
        BY <3>3, <4>3
    <3>4. QED
      BY <3>1, <3>2, <3>3
  <2> DEFINE r == Append(q, [thread |-> i, number |-> Len(q) + 1, t0 |-> t0, t1 |-> e + d])
  <2> HIDE DEF q, e
  <2>7. e + d \in Int /\ e <= e + d /\ (q # <<>> => q[Len(q)].t1 <= e + d)
        /\ (~params.no_timestamps /\ q # <<>> => q[Len(q)].t1 <= t0)
    BY <2>4, <2>5, <2>6
  <2>8. Following(i, r) /\ (~params.no_timestamps => Successive(r))
    <3> DEFINE s == [thread |-> i, number |-> Len(q) + 1, t0 |-> t0, t1 |-> e + d]
    <3>1. s \in Segment
      BY <2>3, <2>5, <2>6, <2>7 DEF Segment
    <3>2. s.thread = i /\ s.number = Len(q) + 1 /\ s.t0 = t0 /\ s.t1 = e + d
      OBVIOUS
    <3>3. r = Append(q, s)
      OBVIOUS
    <3> HIDE DEF r, s
    <3>4. (q # <<>> => q[Len(q)].t1 <= s.t1) /\ (~params.no_timestamps /\ q # <<>> => q[Len(q)].t1 <= s.t0)
      BY <2>7, <3>2
    <3>5. /\ Following(i, Append(q, s))
          /\ Successive(q) /\ (q # <<>> => q[Len(q)].t1 <= s.t0) => Successive(Append(q, s))
      BY <2>3, <2>5, <3>1, <3>2, <3>4, NextFollows
    <3>6. QED
      BY <2>3, <3>3, <3>4, <3>5
  <2>9. "running" \in Status /\ SetState(i, "running", r)
    BY <2>1 DEF Status
  <2> HIDE DEF r
  <2>10. QED
    BY <1>10, <1>13, <2>2, <2>8, <2>9
<1>15. ASSUME NEW i \in Processors, Finish(i) PROVE Threads'
  <2>1. PICK status \in {"succeeded", "failed"} : SetState(i, status, states[i].result)
    BY <1>15 DEF Finish
  <2>2. states[i].status = "running" /\ stage' = stage /\ params' = params
    BY <1>15 DEF Finish, others
  <2>3. /\ status \in Status /\ Following(i, states[i].result)
        /\ ~params.no_timestamps => Successive(states[i].result)
    BY <2>1 DEF Status
  <2>4. QED
    BY <1>10, <1>13, <2>1, <2>2, <2>3
<1>16. CASE Combine
  <2>1. /\ Running = {} /\ result_all' = AllResults /\ stage' = "idle"
        /\ params' = params /\ states' = states /\ n_samples' = n_samples
    BY <1>16 DEF Combine
  <2>2. Processors' = Processors /\ AllResults' = AllResults
    BY <2>1, ResultsFrame DEF Processors
  <2>3. \A i \in Processors : states[i].status # "running"
    BY <2>1 DEF Running
  <2>4. QED
    BY <2>1, <2>2, <2>3
<1>17. CASE UNCHANGED vars
  <2>1. /\ params' = params /\ states' = states /\ n_samples' = n_samples
        /\ stage' = stage /\ result_all' = result_all
    BY <1>17 DEF vars
  <2>2. Processors' = Processors /\ AllResults' = AllResults /\ NoStates' = NoStates
    BY <2>1, ResultsFrame DEF Processors, NoStates, NoState
  <2>3. Transcribed' => Transcribed
    BY <2>1, <2>2 DEF Transcribed
  <2>4. QED
    BY <2>1, <2>2, <2>3
<1>18. QED
  BY <1>1, <1>4, <1>5, <1>6, <1>7, <1>8, <1>9, <1>11, <1>12, <1>14, <1>15, <1>16, <1>17
     DEF Next

(* The inductive invariant holds at every step of every call.  That the    *)
(* results of a call are those of its threads is in Threads, because the   *)
(* states of the threads outlive the call only in the model.               *)
THEOREM ParallelInvariant == Spec => []ParallelInv
<1>1. Init => ParallelInv
  BY VadInit, ThreadsInit DEF ParallelInv
<1>2. ParallelInv /\ [Next]_vars => ParallelInv'
  BY VadStep, ThreadsStep DEF ParallelInv
<1>3. QED
  BY <1>1, <1>2, PTL DEF Spec

-----------------------------------------------------------------------------
(* The results put together. *)

LEMMA TimeOffsetInt ==
    ASSUME VadInv, NEW i \in Processors
    PROVE  TimeOffset(i) \in Int
<1> DEFINE m == n_samples_per_processor
           a == 100 * (i * m)
<1>1. i \in Int /\ params.offset_ms \in Nat /\ m \in Int
  BY ShareIs DEF Processors
<1>2. a \in Int
  BY <1>1
<1>3. Quotient(a, SampleRate) \in Int
  <2> HIDE DEF a
  <2>1. QED
    BY <1>2, Rates, QuotientIs
<1>4. offset_t \in Int
  BY <1>1 DEF offset_t
<1>5. TimeOffset(i) = IF i = 0 THEN 0 ELSE Quotient(a, SampleRate) + offset_t
  BY DEF TimeOffset
<1> HIDE DEF a
<1>6. QED
  BY <1>3, <1>4, <1>5

LEMMA CorrectedIs ==
    ASSUME VadInv, NEW i \in Processors, NEW found, Following(i, found),
           NEW results \in Seq(Segment), NEW k \in 1..Len(found),
           NEW c, c = Corrected(results, found, k)
    PROVE  /\ c \in Segment /\ c.thread = i /\ c.number = k
           /\ c.t1 = found[k].t1 + TimeOffset(i)
           /\ k > 1 => c.t0 = Larger(found[k].t0 + TimeOffset(i),
                                     found[k - 1].t1 + TimeOffset(i))
           /\ k = 1 /\ results = <<>> => c.t0 = found[1].t0 + TimeOffset(i)
           /\ k = 1 /\ results # <<>> =>
                 c.t0 = Larger(found[1].t0 + TimeOffset(i), results[Len(results)].t1)
<1>1. found \in Seq(Segment) /\ Len(found) \in Nat /\ i \in Nat /\ TimeOffset(i) \in Int
  BY TimeOffsetInt, CallIs DEF Following, VadInv, Vad, Processors
<1>2. \A j \in 1..Len(found) : /\ found[j] \in Segment /\ found[j].thread = i
                               /\ found[j].number = j
                               /\ found[j].t0 \in Int /\ found[j].t1 \in Int
                               /\ EndOf(found[j]) = found[j].t1 + TimeOffset(i)
  <2> TAKE j \in 1..Len(found)
  <2>1. found[j] \in Segment
    BY <1>1, ElementOfSeq
  <2>2. found[j].thread = i /\ found[j].number = j
    BY DEF Following
  <2>3. QED
    BY <2>1, <2>2, SegmentIs DEF EndOf
<1> DEFINE a == found[k].t0 + TimeOffset(i)
           back == IF k > 1 THEN EndOf(found[k - 1]) ELSE Last(results).t1
           x == IF k = 1 /\ results = <<>> THEN a ELSE Larger(a, back)
           y == found[k].t1 + TimeOffset(i)
<1>3. a \in Int /\ y \in Int
  BY <1>1, <1>2
<1>4. c = [found[k] EXCEPT !.t0 = x, !.t1 = y]
  BY <1>2 DEF Corrected
<1>5. k > 1 => x = Larger(found[k].t0 + TimeOffset(i), found[k - 1].t1 + TimeOffset(i))
  <2> SUFFICES ASSUME k > 1
               PROVE  x = Larger(found[k].t0 + TimeOffset(i), found[k - 1].t1 + TimeOffset(i))
    OBVIOUS
  <2>1. k - 1 \in 1..Len(found) /\ k # 1
    BY <1>1
  <2>2. back = found[k - 1].t1 + TimeOffset(i) /\ x = Larger(a, back)
    BY <1>2, <2>1
  <2>3. QED
    BY <2>2
<1>6. k = 1 /\ results = <<>> => x = found[1].t0 + TimeOffset(i)
  OBVIOUS
<1>7. ASSUME k = 1, results # <<>>
      PROVE  /\ x = Larger(found[1].t0 + TimeOffset(i), results[Len(results)].t1)
             /\ results[Len(results)].t1 \in Int
  <2>1. Len(results) \in 1..Len(results)
    BY <1>7
  <2>2. results[Len(results)] \in Segment
    BY <2>1, ElementOfSeq
  <2>3. results[Len(results)].t1 \in Int
    BY <2>2, SegmentIs
  <2>4. back = results[Len(results)].t1
    BY <1>7 DEF Last
  <2>5. QED
    BY <1>7, <2>3, <2>4
<1>8. x \in Int
  <2>1. CASE k = 1 /\ results = <<>>
    <3>1. x = a
      BY <2>1
    <3> HIDE DEF x, a
    <3>2. QED
      BY <1>3, <3>1
  <2>2. CASE k = 1 /\ results # <<>>
    <3>1. found[1].t0 + TimeOffset(i) \in Int
      BY <1>3, <2>2
    <3> HIDE DEF x
    <3>2. QED
      BY <1>7, <2>2, <3>1 DEF Larger
  <2>3. CASE k # 1
    <3>1. k > 1 /\ k - 1 \in 1..Len(found)
      BY <1>1, <2>3
    <3> DEFINE y0 == found[k - 1].t1 + TimeOffset(i)
    <3>2. found[k - 1].t1 \in Int
      BY <1>2, <3>1
    <3>3. y0 \in Int
      BY <1>1, <3>2
    <3>4. x = Larger(a, y0)
      BY <1>5, <3>1
    <3> HIDE DEF x, a, y0
    <3>5. QED
      BY <1>3, <3>3, <3>4 DEF Larger
  <2>4. QED
    BY <2>1, <2>2, <2>3
<1> HIDE DEF x, y
<1>9. c \in Segment /\ c.thread = i /\ c.number = k /\ c.t0 = x /\ c.t1 = y
  <2>1. found[k] \in Segment /\ found[k].thread = i /\ found[k].number = k
    BY <1>2
  <2>2. QED
    BY <1>3, <1>4, <1>8, <2>1 DEF Segment
<1>10. QED
  BY <1>5, <1>6, <1>7, <1>9 DEF y

Lengthened(r, v, found) ==
    /\ r \in Seq(Segment) /\ Len(r) = Len(v) + Len(found)
    /\ \A k \in 1..Len(v) : r[k] = v[k]
    /\ \A k \in 1..Len(found) : r[Len(v) + k] = Corrected(v, found, k)

LEMMA AppendedIs ==
    ASSUME VadInv, NEW i \in Processors, NEW found, Following(i, found),
           NEW v \in Seq(Segment), NEW r, r = Appended(v, found)
    PROVE  Lengthened(r, v, found)
<1> DEFINE w == [k \in 1..Len(found) |-> Corrected(v, found, k)]
<1>1. found \in Seq(Segment) /\ Len(found) \in Nat /\ Len(v) \in Nat
      /\ DOMAIN found = 1..Len(found)
  BY DEF Following
<1>2. \A k \in 1..Len(found) : Corrected(v, found, k) \in Segment
  BY CorrectedIs
<1>3. w \in Seq(Segment) /\ Len(w) = Len(found)
  <2>1. w \in [1..Len(found) -> Segment]
    BY <1>2
  <2> HIDE DEF w
  <2>2. QED
    BY <1>1, <2>1, SeqDef, LenProperties
<1>4. r = v \o w
  BY <1>1 DEF Appended
<1>5. \A k \in 1..Len(found) : w[k] = Corrected(v, found, k)
  OBVIOUS
<1> HIDE DEF w
<1>6. /\ v \o w \in Seq(Segment)
      /\ Len(v \o w) = Len(v) + Len(w)
      /\ \A k \in 1..(Len(v) + Len(w)) : (v \o w)[k] = IF k <= Len(v) THEN v[k] ELSE w[k - Len(v)]
  BY <1>3, ConcatProperties
<1>7. ASSUME NEW k \in 1..Len(v) PROVE r[k] = v[k]
  <2>1. k \in 1..(Len(v) + Len(w)) /\ k <= Len(v)
    BY <1>1, <1>3
  <2>2. QED
    BY <1>4, <1>6, <2>1
<1>8. ASSUME NEW k \in 1..Len(found) PROVE r[Len(v) + k] = Corrected(v, found, k)
  <2>1. Len(v) + k \in 1..(Len(v) + Len(w)) /\ ~(Len(v) + k <= Len(v)) /\ (Len(v) + k) - Len(v) = k
    BY <1>1, <1>3
  <2>2. QED
    BY <1>4, <1>5, <1>6, <2>1
<1>9. QED
  BY <1>3, <1>4, <1>6, <1>7, <1>8 DEF Lengthened

(* The results after each of the threads. *)
UpTo(g) ==
    /\ g[0] = states[0].result
    /\ \A i \in 1..(params.n_processors - 1) : g[i] = Appended(g[i - 1], states[i].result)

LEMMA AllResultsIs ==
    ASSUME ParallelInv
    PROVE  \E g \in [Processors -> Seq(Segment)] :
              UpTo(g) /\ AllResults = g[params.n_processors - 1]
<1> DEFINE n == params.n_processors - 1
           V == Seq(Segment)
           Is(f) == f = [i \in 0..n |-> IF i = 0 THEN states[0].result
                                        ELSE Appended(f[i - 1], states[i].result)]
           step == [i \in 1..n |-> [v \in V |-> Appended(v, states[i].result)]]
<1>1. n \in Nat /\ Processors = 0..n /\ 0 \in Processors /\ \A i \in 1..n : i \in Processors
  <2>1. params.n_processors \in Nat /\ params.n_processors > 0
    BY CallIs DEF ParallelInv, VadInv, Vad
  <2>2. QED
    BY <2>1 DEF Processors
<1>2. VadInv /\ Threads
  BY DEF ParallelInv
<1>3. states[0].result \in V
  BY <1>1, <1>2 DEF Threads, Following
<1>4. \A i \in 1..n, v \in V : Appended(v, states[i].result) \in V
  <2> TAKE i \in 1..n, v \in V
  <2>1. Lengthened(Appended(v, states[i].result), v, states[i].result)
    BY <1>1, <1>2, AppendedIs DEF Threads
  <2>2. QED
    BY <2>1 DEF Lengthened
<1>5. step \in [1..n -> [V -> V]]
  <2> HIDE DEF V, n
  <2>1. QED
    BY <1>4
<1>6. PICK f : Follows(f, n, V, states[0].result, step)
  <2> HIDE DEF V, n, step
  <2>1. QED
    BY <1>1, <1>3, <1>5, Recursion
<1> HIDE DEF V
<1>7. Is(f)
  <2>1. \A i \in 0..n : i # 0 => i \in 1..n /\ i - 1 \in 0..n
    BY <1>1
  <2>2. \A i \in 1..n : f[i] = Appended(f[i - 1], states[i].result)
    <3> TAKE i \in 1..n
    <3>1. i - 1 \in 0..n
      BY <1>1
    <3>2. f[i - 1] \in V /\ f[i] = step[i][f[i - 1]]
      BY <1>6, <3>1 DEF Follows
    <3>3. QED
      BY <3>2
  <2>3. f[0] = states[0].result /\ f = [i \in 0..n |-> f[i]]
    BY <1>6 DEF Follows
  <2>4. QED
    BY <2>1, <2>2, <2>3
<1>8. AllResults = (CHOOSE g : Is(g))[n]
  BY DEF AllResults, Processors
<1>9. PICK g : Is(g) /\ AllResults = g[n]
  <2> HIDE DEF Is
  <2>1. QED
    BY <1>7, <1>8
<1>10. /\ g[0] = states[0].result
       /\ \A i \in 1..n : g[i] = Appended(g[i - 1], states[i].result)
  <2>1. 0 \in 0..n /\ \A i \in 1..n : i \in 0..n /\ i # 0
    BY <1>1
  <2>2. QED
    BY <1>9, <2>1
<1>11. UpTo(g)
  BY <1>10 DEF UpTo
<1> DEFINE S == {i \in 0..n : g[i] \in V}
<1>12. 0 \in S
  BY <1>1, <1>3, <1>10
<1>13. ASSUME NEW m \in 0..(n - 1), m \in S PROVE m + 1 \in S
  <2>1. m + 1 \in 1..n /\ m + 1 \in 0..n /\ (m + 1) - 1 = m
    BY <1>1
  <2>2. g[m + 1] = Appended(g[m], states[m + 1].result) /\ g[m] \in V
    BY <1>10, <1>13, <2>1
  <2>3. QED
    BY <1>4, <2>1, <2>2
<1>14. \A i \in 0..n : i \in S
  <2> HIDE DEF S, n
  <2>1. QED
    BY <1>1, <1>12, <1>13, Induction
<1>15. g \in [Processors -> V]
  <2>1. DOMAIN g = 0..n /\ g = [i \in 0..n |-> g[i]]
    BY <1>9
  <2>2. QED
    BY <1>1, <1>14, <2>1
<1>16. QED
  BY <1>9, <1>11, <1>15 DEF V

(* What flattening a sequence of sequences yields. *)
Flat(h, ss) ==
    h[1] = ss[1] /\ \A i \in 2..Len(ss) : h[i] = h[i - 1] \o ss[i]

LEMMA FlattenIs ==
    ASSUME NEW V, NEW ss \in Seq(Seq(V)), ss # <<>>
    PROVE  \E h : Flat(h, ss) /\ FlattenSeq(ss) = h[Len(ss)]
<1> DEFINE N == Len(ss)
           n == N - 1
           W == Seq(V)
           Is(f) == f = [i \in 1..Len(ss) |-> IF i = 1 THEN ss[i] ELSE f[i - 1] \o ss[i]]
           step == [i \in 1..n |-> [v \in W |-> v \o ss[i + 1]]]
<1>1. N \in Nat /\ N > 0 /\ n \in Nat /\ \A i \in 1..N : ss[i] \in W
  BY ElementOfSeq
<1>2. step \in [1..n -> [W -> W]]
  <2>1. ASSUME NEW i \in 1..n, NEW v \in W PROVE v \o ss[i + 1] \in W
    <3>1. i + 1 \in 1..N
      BY <1>1
    <3>2. ss[i + 1] \in Seq(V) /\ v \in Seq(V)
      BY <1>1, <3>1
    <3>3. v \o ss[i + 1] \in Seq(V)
      BY <3>2, ConcatProperties
    <3>4. QED
      BY <3>3
  <2> HIDE DEF W, n
  <2>2. QED
    BY <2>1
<1>3. ss[1] \in W
  BY <1>1
<1>4. PICK f : Follows(f, n, W, ss[1], step)
  <2> HIDE DEF W, n, step
  <2>1. QED
    BY <1>1, <1>2, <1>3, Recursion
<1> DEFINE h == [i \in 1..Len(ss) |-> f[i - 1]]
<1>5. Is(h)
  <2>1. \A i \in 1..N : i # 1 => i - 1 \in 1..N /\ i - 1 \in 1..n /\ (i - 1) - 1 \in 0..n /\ (i - 1) + 1 = i
    BY <1>1
  <2>2. \A i \in 1..N : i # 1 => h[i] = h[i - 1] \o ss[i]
    <3> SUFFICES ASSUME NEW i \in 1..N, i # 1 PROVE h[i] = h[i - 1] \o ss[i]
      OBVIOUS
    <3>1. h[i] = f[i - 1] /\ h[i - 1] = f[(i - 1) - 1]
      BY <2>1
    <3>2. f[i - 1] = step[i - 1][f[(i - 1) - 1]] /\ f[(i - 1) - 1] \in W
      BY <1>4, <2>1 DEF Follows
    <3>3. step[i - 1][f[(i - 1) - 1]] = f[(i - 1) - 1] \o ss[i]
      BY <2>1, <3>2
    <3>4. QED
      BY <3>1, <3>2, <3>3
  <2>3. h[1] = ss[1]
    <3>1. h[1] = f[1 - 1] /\ 1 - 1 = 0
      BY <1>1
    <3>2. QED
      BY <1>4, <3>1 DEF Follows
  <2>4. h = [i \in 1..N |-> h[i]]
    OBVIOUS
  <2> HIDE DEF h
  <2>5. QED
    BY <1>1, <2>2, <2>3, <2>4
<1>6. FlattenSeq(ss) = (CHOOSE g : Is(g))[N]
  BY <1>1 DEF FlattenSeq
<1>7. PICK g : Is(g) /\ FlattenSeq(ss) = g[N]
  <2> HIDE DEF Is, h
  <2>1. QED
    BY <1>5, <1>6
<1>8. g[1] = ss[1] /\ \A i \in 2..N : g[i] = g[i - 1] \o ss[i]
  <2>1. 1 \in 1..N /\ \A i \in 2..N : i \in 1..N /\ i # 1
    BY <1>1
  <2>2. QED
    BY <1>7, <2>1
<1>9. QED
  BY <1>7, <1>8 DEF Flat

NamesOf(q) == [k \in DOMAIN q |-> Name(q[k])]

(* When the call returns, the results are those of all threads, each as    *)
(* often as the thread found it, thread by thread.                         *)
THEOREM NothingIsLost == Spec => []NothingLost
<1>1. ParallelInv => NothingLost
  <2> SUFFICES ASSUME ParallelInv, Transcribed
               PROVE  NamesOf(result_all) =
                      FlattenSeq([n \in 1..params.n_processors |->
                          [k \in DOMAIN states[n - 1].result |-> <<n - 1, k>>]])
    BY DEF NothingLost, NamesOf
  <2> DEFINE P == params.n_processors
             own(i) == [k \in DOMAIN states[i].result |-> <<i, k>>]
             ss == [n \in 1..P |-> [k \in DOMAIN states[n - 1].result |-> <<n - 1, k>>]]
             V == Nat \X Nat
  <2>1. /\ P \in Nat /\ P > 0 /\ Processors = 0..(P - 1) /\ VadInv /\ Threads
        /\ result_all = AllResults
    <3>1. params.n_processors \in Nat /\ params.n_processors > 0
      BY CallIs DEF ParallelInv, VadInv, Vad
    <3>2. QED
      BY <3>1 DEF ParallelInv, Threads, Processors
  <2>2. PICK g \in [Processors -> Seq(Segment)] : UpTo(g) /\ AllResults = g[P - 1]
    BY AllResultsIs
  <2>3. ASSUME NEW i \in Processors
        PROVE  /\ own(i) \in Seq(V) /\ Len(own(i)) = Len(states[i].result)
               /\ DOMAIN states[i].result = 1..Len(states[i].result)
               /\ Len(states[i].result) \in Nat
               /\ \A k \in 1..Len(states[i].result) : own(i)[k] = <<i, k>>
    <3> DEFINE q == states[i].result
    <3>1. q \in Seq(Segment) /\ Len(q) \in Nat /\ DOMAIN q = 1..Len(q)
      BY <2>1 DEF Threads, Following
    <3>2. i \in Nat /\ own(i) = [k \in 1..Len(q) |-> <<i, k>>]
      BY <2>1, <3>1
    <3>3. own(i) \in [1..Len(q) -> V]
      BY <3>1, <3>2
    <3> HIDE DEF own, V, q
    <3>4. own(i) \in Seq(V) /\ Len(own(i)) = Len(q)
      BY <3>1, <3>3, SeqDef, LenProperties
    <3>5. QED
      BY <3>1, <3>2, <3>4 DEF q
  <2>4. \A n \in 1..P : n - 1 \in Processors /\ ss[n] = own(n - 1)
    BY <2>1
  <2>5. ss \in Seq(Seq(V)) /\ Len(ss) = P /\ ss # <<>>
    <3>1. ss \in [1..P -> Seq(V)]
      <4> HIDE DEF own, V
      <4>1. DOMAIN ss = 1..P /\ ss = [n \in 1..P |-> ss[n]]
        OBVIOUS
      <4> HIDE DEF ss
      <4>2. QED
        BY <2>3, <2>4, <4>1
    <3> HIDE DEF ss, V, own
    <3>2. ss \in Seq(Seq(V)) /\ Len(ss) = P
      BY <2>1, <3>1, SeqDef, LenProperties
    <3>3. QED
      BY <2>1, <3>2
  <2> HIDE DEF ss, V, own
  <2>6. PICK h : Flat(h, ss) /\ FlattenSeq(ss) = h[P]
    BY <2>5, FlattenIs
  <2>7. ASSUME NEW q \in Seq(Segment)
        PROVE  DOMAIN NamesOf(q) = 1..Len(q) /\ Len(q) \in Nat
               /\ \A k \in 1..Len(q) : NamesOf(q)[k] = Name(q[k])
    BY DEF NamesOf
  <2>8. ASSUME NEW i \in Processors, NEW q \in Seq(Segment), Len(q) = Len(states[i].result),
               \A k \in 1..Len(q) : q[k].thread = i /\ q[k].number = k
        PROVE  NamesOf(q) = own(i)
    <3>1. NamesOf(q) = [k \in 1..Len(q) |-> Name(q[k])]
      BY DEF NamesOf
    <3>2. \A k \in 1..Len(q) : Name(q[k]) = <<i, k>>
      BY <2>8 DEF Name
    <3>3. own(i) = [k \in 1..Len(q) |-> <<i, k>>]
      BY <2>3, <2>8 DEF own
    <3>4. QED
      BY <3>1, <3>2, <3>3
  <2> DEFINE S == {m \in 0..(P - 1) : NamesOf(g[m]) = h[m + 1] /\ h[m + 1] \in Seq(V)}
  <2>9. 0 \in S
    <3>1. g[0] = states[0].result /\ h[1] = ss[1] /\ 0 \in Processors /\ 1 \in 1..P /\ 1 - 1 = 0
      BY <2>1, <2>2, <2>6 DEF UpTo, Flat
    <3>2. h[1] = own(0) /\ own(0) \in Seq(V)
      BY <2>3, <2>4, <3>1
    <3>3. NamesOf(g[0]) = own(0)
      <4>1. Following(0, g[0])
        BY <2>1, <3>1 DEF Threads
      <4>2. QED
        BY <2>8, <3>1, <4>1 DEF Following
    <3>4. 0 + 1 = 1 /\ 0 \in 0..(P - 1)
      BY <2>1
    <3>5. QED
      BY <3>2, <3>3, <3>4
  <2>10. ASSUME NEW m \in 0..((P - 1) - 1), m \in S PROVE m + 1 \in S
    <3> DEFINE i == m + 1
               v == g[m]
               found == states[i].result
               r == g[i]
    <3>1. /\ i \in Processors /\ m \in Processors /\ i \in 1..(P - 1) /\ i - 1 = m
          /\ i + 1 \in 1..P /\ i + 1 \in 2..P /\ (i + 1) - 1 = i
      BY <2>1
    <3>2. r = Appended(v, found) /\ v \in Seq(Segment) /\ Following(i, found)
      BY <2>1, <2>2, <3>1 DEF UpTo, Threads
    <3>3. h[i + 1] = h[i] \o own(i)
      BY <2>4, <2>5, <2>6, <3>1 DEF Flat
    <3>4. NamesOf(v) = h[i] /\ h[i] \in Seq(V)
      BY <2>10
    <3>5. own(i) \in Seq(V) /\ Len(own(i)) = Len(found) /\ Len(found) \in Nat
          /\ \A k \in 1..Len(found) : own(i)[k] = <<i, k>>
      BY <2>3, <3>1
    <3> HIDE DEF i, v, found, r
    <3>6. /\ r \in Seq(Segment) /\ Len(r) = Len(v) + Len(found)
          /\ \A k \in 1..Len(v) : r[k] = v[k]
          /\ \A k \in 1..Len(found) : r[Len(v) + k] = Corrected(v, found, k)
      <4>1. VadInv /\ i \in Processors
        BY <2>1, <3>1
      <4>2. Lengthened(r, v, found)
        BY <3>2, <4>1, AppendedIs
      <4>3. QED
        BY <4>2 DEF Lengthened
    <3>7. /\ h[i] \o own(i) \in Seq(V)
          /\ Len(h[i] \o own(i)) = Len(h[i]) + Len(own(i))
          /\ \A k \in 1..(Len(h[i]) + Len(own(i))) :
                (h[i] \o own(i))[k] = IF k <= Len(h[i]) THEN h[i][k] ELSE own(i)[k - Len(h[i])]
      BY <3>4, <3>5, ConcatProperties
    <3>8. Len(h[i]) = Len(v) /\ Len(v) \in Nat /\ \A k \in 1..Len(v) : h[i][k] = Name(v[k])
      <4>1. DOMAIN h[i] = 1..Len(v) /\ Len(v) \in Nat
            /\ \A k \in 1..Len(v) : h[i][k] = Name(v[k])
        BY <2>7, <3>2, <3>4
      <4>2. Len(h[i]) \in Nat /\ DOMAIN h[i] = 1..Len(h[i])
        BY <3>4, LenProperties
      <4>3. QED
        BY <4>1, <4>2
    <3> DEFINE w == h[i] \o own(i)
    <3>9. w \in Seq(V) /\ Len(w) = Len(r) /\ Len(r) \in Nat
      BY <3>5, <3>6, <3>7, <3>8
    <3>10. ASSUME NEW k \in 1..Len(r) PROVE w[k] = Name(r[k])
      <4>1. CASE k <= Len(v)
        <5>1. k \in 1..Len(v) /\ k \in 1..(Len(h[i]) + Len(own(i)))
          BY <3>5, <3>6, <3>8, <4>1
        <5>2. w[k] = h[i][k] /\ r[k] = v[k]
          BY <3>6, <3>7, <3>8, <5>1
        <5>3. QED
          BY <3>8, <5>1, <5>2
      <4>2. CASE ~(k <= Len(v))
        <5> DEFINE j == k - Len(v)
        <5>1. /\ j \in 1..Len(found) /\ k \in 1..(Len(h[i]) + Len(own(i))) /\ Len(v) + j = k
          BY <3>5, <3>6, <3>8, <4>2
        <5>2. w[k] = own(i)[j]
          BY <3>7, <3>8, <4>2, <5>1
        <5> HIDE DEF j
        <5>3. r[k] = Corrected(v, found, j)
          BY <3>6, <5>1
        <5>4. r[k].thread = i /\ r[k].number = j
          BY <2>1, <3>1, <3>2, <5>1, <5>3, CorrectedIs
        <5>5. QED
          BY <3>5, <5>1, <5>2, <5>4 DEF Name
      <4>3. QED
        BY <4>1, <4>2
    <3>11. NamesOf(r) = w
      <4>1. NamesOf(r) = [k \in 1..Len(r) |-> Name(r[k])]
        BY <3>6 DEF NamesOf
      <4>2. w = [k \in 1..Len(r) |-> w[k]]
        <5> HIDE DEF w
        <5>1. DOMAIN w = 1..Len(r)
          BY <3>9, LenProperties
        <5>2. QED
          BY <3>9, <5>1
      <4> HIDE DEF w
      <4>3. QED
        BY <3>10, <4>1, <4>2
    <3>12. NamesOf(r) = h[i + 1] /\ h[i + 1] \in Seq(V)
      BY <3>3, <3>7, <3>11
    <3>13. m + 1 \in 0..(P - 1)
      BY <2>1
    <3>14. QED
      BY <3>12, <3>13 DEF i, r
  <2>11. \A m \in 0..(P - 1) : m \in S
    <3>1. P - 1 \in Nat
      BY <2>1
    <3> HIDE DEF S, P
    <3>2. QED
      BY <2>9, <2>10, <3>1, Induction
  <2>12. NamesOf(g[P - 1]) = h[P]
    <3>1. P - 1 \in 0..(P - 1) /\ (P - 1) + 1 = P
      BY <2>1
    <3>2. QED
      BY <2>11, <3>1
  <2>13. QED
    BY <2>1, <2>2, <2>6, <2>12 DEF ss
<1>2. QED
  BY ParallelInvariant, <1>1, PTL

(* Segments in order, and where the last of them is from. *)
InTime(q) ==
    /\ \A k \in 1..Len(q) : AsFound(q[k]).t0 <= AsFound(q[k]).t1 => q[k].t0 <= q[k].t1
    /\ \A k \in 1..(Len(q) - 1) : /\ q[k].t1 <= q[k + 1].t1
                                  /\ Stamped(q[k + 1]) => q[k].t1 <= q[k + 1].t0

LastFrom(q, m) == q # <<>> =>
    \E j \in 0..m : /\ j \in Processors /\ states[j].result # <<>>
                    /\ q[Len(q)].t1 = EndOf(Last(states[j].result))

LEMMA FollowingEnds ==
    ASSUME VadInv, NEW i \in Processors, NEW found, Following(i, found), found # <<>>
    PROVE  /\ 1 \in 1..Len(found) /\ Len(found) \in 1..Len(found)
           /\ EndOf(Head(found)) = found[1].t1 + TimeOffset(i)
           /\ EndOf(Last(found)) = found[Len(found)].t1 + TimeOffset(i)
           /\ \A k \in 1..Len(found) : found[k].t0 \in Int /\ found[k].t1 \in Int
           /\ TimeOffset(i) \in Int
<1>1. found \in Seq(Segment) /\ Len(found) \in Nat /\ Len(found) > 0
  BY DEF Following
<1>2. 1 \in 1..Len(found) /\ Len(found) \in 1..Len(found)
  BY <1>1
<1>3. Head(found) = found[1] /\ Last(found) = found[Len(found)]
  BY <1>1 DEF Last
<1>4. found[1].thread = i /\ found[Len(found)].thread = i
  BY <1>2 DEF Following
<1>5. \A k \in 1..Len(found) : found[k].t0 \in Int /\ found[k].t1 \in Int
  BY <1>1, ElementOfSeq, SegmentIs
<1>6. QED
  BY <1>2, <1>3, <1>4, <1>5, TimeOffsetInt DEF EndOf

(* The last of segments that end one after the other ends last. *)
LEMMA EndsRise ==
    ASSUME NEW q \in Seq(Segment), \A k \in 1..(Len(q) - 1) : q[k].t1 <= q[k + 1].t1,
           NEW b \in 1..Len(q), NEW a \in 1..b
    PROVE  q[a].t1 <= q[b].t1
<1> DEFINE n == b - a
           S == {m \in 0..n : q[a].t1 <= q[a + m].t1}
<1>1. n \in Nat /\ a \in Nat /\ a + n = b /\ Len(q) \in Nat
      /\ \A m \in 0..n : a + m \in 1..Len(q)
  OBVIOUS
<1>2. \A m \in 0..n : q[a + m].t1 \in Int
  BY <1>1, ElementOfSeq, SegmentIs
<1>3. 0 \in S
  <2>1. 0 \in 0..n /\ a + 0 = a
    BY <1>1
  <2>2. q[a].t1 \in Int
    BY <1>2, <2>1
  <2>3. QED
    BY <2>1, <2>2
<1>4. ASSUME NEW m \in 0..(n - 1), m \in S PROVE m + 1 \in S
  <2>1. /\ m \in 0..n /\ m + 1 \in 0..n
        /\ a + m \in 1..(Len(q) - 1) /\ (a + m) + 1 = a + (m + 1)
    BY <1>1
  <2>2. q[a + m].t1 <= q[a + (m + 1)].t1
    BY <2>1
  <2>3. q[a].t1 <= q[a + m].t1
    BY <1>4
  <2>4. q[a].t1 \in Int /\ q[a + m].t1 \in Int /\ q[a + (m + 1)].t1 \in Int
    <3>1. 0 \in 0..n /\ a + 0 = a
      BY <1>1
    <3>2. QED
      BY <1>2, <2>1, <3>1
  <2> DEFINE x == q[a].t1
             y == q[a + m].t1
             z == q[a + (m + 1)].t1
  <2>5. x <= z
    <3>1. x \in Int /\ y \in Int /\ z \in Int /\ x <= y /\ y <= z
      BY <2>2, <2>3, <2>4
    <3> HIDE DEF x, y, z
    <3>2. QED
      BY ONLY <3>1
  <2>6. QED
    BY <2>1, <2>5
<1>5. \A m \in 0..n : m \in S
  <2> HIDE DEF S, n
  <2>1. QED
    BY <1>1, <1>3, <1>4, Induction
<1>6. n \in 0..n
  BY <1>1
<1>7. QED
  BY <1>1, <1>5, <1>6

LEMMA InTimeStep ==
    ASSUME VadInv, NEW i \in Processors, NEW found, Following(i, found), found # <<>>,
           i # 0, found = states[i].result,
           NEW v \in Seq(Segment), InTime(v), NEW r, Lengthened(r, v, found),
           v # <<>> => v[Len(v)].t1 <= EndOf(Head(found))
    PROVE  InTime(r) /\ r # <<>> /\ r[Len(r)].t1 = EndOf(Last(found))
<1> DEFINE o == TimeOffset(i)
           n == Len(v)
           l == Len(found)
<1>1. /\ n \in Nat /\ l \in Nat /\ l > 0 /\ Len(r) = n + l /\ r \in Seq(Segment)
      /\ \A k \in 1..n : r[k] = v[k]
      /\ \A k \in 1..l : r[n + k] = Corrected(v, found, k)
  <2>1. found \in Seq(Segment)
    BY DEF Following
  <2>2. n \in Nat /\ l \in Nat /\ l > 0
    BY <2>1
  <2>3. QED
    BY <2>2 DEF Lengthened
<1>2. /\ o \in Int /\ 1 \in 1..l /\ l \in 1..l
      /\ \A k \in 1..l : found[k].t0 \in Int /\ found[k].t1 \in Int
      /\ EndOf(Head(found)) = found[1].t1 + o
      /\ EndOf(Last(found)) = found[l].t1 + o
  BY FollowingEnds
<1>3. ASSUME NEW k \in 1..l
      PROVE  /\ r[n + k].t1 = found[k].t1 + o
             /\ AsFound(r[n + k]) = found[k] /\ Stamped(r[n + k])
             /\ k > 1 => r[n + k].t0 = Larger(found[k].t0 + o, found[k - 1].t1 + o)
             /\ k = 1 /\ v = <<>> => r[n + k].t0 = found[1].t0 + o
             /\ k = 1 /\ v # <<>> => r[n + k].t0 = Larger(found[1].t0 + o, v[n].t1)
  <2>1. r[n + k] = Corrected(v, found, k)
    BY <1>1
  <2>2. r[n + k].thread = i /\ r[n + k].number = k
    BY <2>1, CorrectedIs
  <2>3. AsFound(r[n + k]) = found[k] /\ Stamped(r[n + k])
    BY <2>2 DEF AsFound, Stamped
  <2>4. QED
    BY <2>1, <2>3, CorrectedIs
<1>4. \A k \in 1..n : v[k] \in Segment /\ v[k].t0 \in Int /\ v[k].t1 \in Int
  BY ElementOfSeq, SegmentIs
<1>5. \A k \in 1..(l - 1) : found[k].t1 <= found[k + 1].t1
  BY DEF Following
<1>6. v # <<>> => n \in 1..n
  BY <1>1
<1> HIDE DEF o, n, l
<1>7. ASSUME NEW k \in 1..l, found[k].t0 <= found[k].t1 PROVE r[n + k].t0 <= r[n + k].t1
  <2>1. CASE k > 1
    <3>1. k - 1 \in 1..l /\ k - 1 \in 1..(l - 1) /\ (k - 1) + 1 = k
      BY <1>1, <2>1
    <3>2. found[k - 1].t1 <= found[k].t1
      BY <1>5, <3>1
    <3>3. /\ r[n + k].t0 = Larger(found[k].t0 + o, found[k - 1].t1 + o)
          /\ r[n + k].t1 = found[k].t1 + o
      BY <1>3, <2>1
    <3>4. /\ found[k].t0 \in Int /\ found[k].t1 \in Int /\ found[k - 1].t1 \in Int
      BY <1>2, <3>1
    <3> DEFINE x == found[k].t0
               y == found[k].t1
               z == found[k - 1].t1
    <3>5. /\ x \in Int /\ y \in Int /\ z \in Int /\ o \in Int /\ z <= y /\ x <= y
          /\ r[n + k].t0 = Larger(x + o, z + o) /\ r[n + k].t1 = y + o
      BY <1>2, <1>7, <3>2, <3>3, <3>4
    <3> HIDE DEF x, y, z
    <3>6. Larger(x + o, z + o) <= y + o
      BY <3>5 DEF Larger
    <3>7. QED
      BY <3>5, <3>6
  <2>2. CASE k = 1 /\ v = <<>>
    BY <1>2, <1>3, <1>7, <2>2
  <2>3. CASE k = 1 /\ v # <<>>
    <3>1. v[n].t1 <= found[1].t1 + o /\ v[n].t1 \in Int
      BY <1>2, <1>4, <1>6, <2>3 DEF n
    <3>2. r[n + k].t0 = Larger(found[1].t0 + o, v[n].t1) /\ r[n + k].t1 = found[1].t1 + o
      BY <1>3, <2>3
    <3>3. found[1].t0 <= found[1].t1 /\ found[1].t0 \in Int /\ found[1].t1 \in Int
      BY <1>2, <1>7, <2>3
    <3>4. QED
      BY <1>2, <3>1, <3>2, <3>3 DEF Larger
  <2>4. QED
    BY <1>1, <2>1, <2>2, <2>3
<1>8. ASSUME NEW k \in 1..Len(r), AsFound(r[k]).t0 <= AsFound(r[k]).t1
      PROVE  r[k].t0 <= r[k].t1
  <2>1. CASE k \in 1..n
    <3>1. r[k] = v[k]
      BY <1>1, <2>1
    <3>2. AsFound(v[k]).t0 <= AsFound(v[k]).t1 => v[k].t0 <= v[k].t1
      BY <2>1 DEF InTime, n
    <3>3. QED
      BY <1>8, <3>1, <3>2
  <2>2. CASE k \notin 1..n
    <3>1. k - n \in 1..l /\ n + (k - n) = k
      BY <1>1, <2>2
    <3>2. AsFound(r[k]) = found[k - n]
      BY <1>3, <3>1
    <3>3. QED
      BY <1>7, <1>8, <3>1, <3>2
  <2>3. QED
    BY <2>1, <2>2
<1>9. ASSUME NEW k \in 1..(Len(r) - 1)
      PROVE  r[k].t1 <= r[k + 1].t1 /\ (Stamped(r[k + 1]) => r[k].t1 <= r[k + 1].t0)
  <2>1. CASE k \in 1..(n - 1)
    <3>1. k \in 1..n /\ k + 1 \in 1..n
      BY <1>1, <2>1
    <3>2. /\ v[k].t1 <= v[k + 1].t1 /\ (Stamped(v[k + 1]) => v[k].t1 <= v[k + 1].t0)
          /\ r[k] = v[k] /\ r[k + 1] = v[k + 1]
      BY <1>1, <2>1, <3>1 DEF InTime, n
    <3>3. QED
      BY <3>2
  <2>2. CASE k = n
    <3>1. v # <<>> /\ n \in 1..n
      <4>1. n \in 1..n /\ n # 0
        BY <1>1, <2>2
      <4>2. v # <<>>
        BY <4>1 DEF n
      <4>3. QED
        BY <4>1, <4>2
    <3>2. /\ r[k] = v[n] /\ v[n].t1 \in Int
          /\ r[k + 1].t0 = Larger(found[1].t0 + o, v[n].t1)
          /\ r[k + 1].t1 = found[1].t1 + o
      BY <1>1, <1>2, <1>3, <1>4, <2>2, <3>1
    <3>3. found[1].t0 + o \in Int
      BY <1>2
    <3>4. v[n].t1 <= found[1].t1 + o
      BY <1>2, <3>1 DEF n
    <3>5. QED
      BY <3>2, <3>3, <3>4 DEF Larger
  <2>3. CASE k > n
    <3> DEFINE j == k - n
    <3>1. /\ j \in 1..l /\ j + 1 \in 1..l /\ n + j = k /\ n + (j + 1) = k + 1
          /\ j + 1 > 1 /\ (j + 1) - 1 = j /\ j \in 1..(l - 1)
      BY <1>1, <2>3
    <3> HIDE DEF j
    <3>2. /\ r[n + j].t1 = found[j].t1 + o
          /\ r[n + (j + 1)].t0 = Larger(found[j + 1].t0 + o, found[(j + 1) - 1].t1 + o)
          /\ r[n + (j + 1)].t1 = found[j + 1].t1 + o
      BY <1>3, <3>1
    <3>3. /\ r[k].t1 = found[j].t1 + o /\ r[k + 1].t1 = found[j + 1].t1 + o
          /\ r[k + 1].t0 = Larger(found[j + 1].t0 + o, found[j].t1 + o)
      BY <3>1, <3>2
    <3>4. found[j].t1 <= found[j + 1].t1
      BY <1>5, <3>1
    <3>5. found[j].t1 \in Int /\ found[j + 1].t1 \in Int /\ found[j + 1].t0 \in Int
      BY <1>2, <3>1
    <3> DEFINE x == found[j + 1].t0
               y == found[j + 1].t1
               z == found[j].t1
    <3>6. /\ x \in Int /\ y \in Int /\ z \in Int /\ o \in Int /\ z <= y
          /\ r[k].t1 = z + o /\ r[k + 1].t1 = y + o /\ r[k + 1].t0 = Larger(x + o, z + o)
      BY <1>2, <3>3, <3>4, <3>5
    <3> HIDE DEF x, y, z
    <3>7. z + o <= y + o /\ z + o <= Larger(x + o, z + o)
      BY <3>6 DEF Larger
    <3>8. QED
      BY <3>6, <3>7
  <2>4. QED
    BY <1>1, <2>1, <2>2, <2>3
<1>10. InTime(r)
  BY <1>8, <1>9 DEF InTime
<1>11. r # <<>> /\ r[Len(r)].t1 = EndOf(Last(found))
  <2>1. r[n + l].t1 = found[l].t1 + o
    BY <1>2, <1>3
  <2>2. r # <<>>
    BY <1>1
  <2>3. QED
    BY <1>1, <1>2, <2>1, <2>2
<1>12. QED
  BY <1>10, <1>11

(* "make sure that segments are not overlapping": a segment that a later   *)
(* thread has found begins when all before it have ended, whatever their   *)
(* times were, and the correction of its t0 does not put it behind its t1, *)
(* as long as no thread's segments last beyond the end of the first        *)
(* segment of a later thread.                                              *)
THEOREM ResultsInOrder == Spec => []SegmentsInOrder
<1>1. ParallelInv => SegmentsInOrder
  <2> SUFFICES ASSUME ParallelInv, Transcribed, ~Overlong,
                      NEW l \in DOMAIN result_all, NEW s, s = result_all[l]
               PROVE  /\ Stamped(s) => \A k \in 1..(l - 1) : result_all[k].t1 <= s.t0
                      /\ AsFound(s).t0 <= AsFound(s).t1 => s.t0 <= s.t1
    BY DEF SegmentsInOrder
  <2> DEFINE P == params.n_processors
  <2>1. /\ P \in Nat /\ P > 0 /\ Processors = 0..(P - 1) /\ VadInv /\ Threads
        /\ result_all = AllResults
    <3>1. params.n_processors \in Nat /\ params.n_processors > 0
      BY CallIs DEF ParallelInv, VadInv, Vad
    <3>2. QED
      BY <3>1 DEF ParallelInv, Threads, Processors
  <2>2. PICK g \in [Processors -> Seq(Segment)] : UpTo(g) /\ AllResults = g[P - 1]
    BY AllResultsIs
  <2> DEFINE S == {m \in 0..(P - 1) : InTime(g[m]) /\ LastFrom(g[m], m)}
  <2>3. 0 \in S
    <3> DEFINE q == states[0].result
    <3>1. g[0] = q /\ 0 \in Processors /\ 0 \in 0..(P - 1) /\ 0 \in 0..0
      BY <2>1, <2>2 DEF UpTo
    <3>2. Following(0, q)
      BY <2>1, <3>1 DEF Threads
    <3>3. InTime(q)
      <4>1. /\ \A j \in 1..Len(q) : q[j].thread = 0 /\ q[j].number = j
            /\ \A j \in 1..(Len(q) - 1) : q[j].t1 <= q[j + 1].t1
            /\ ~params.no_timestamps => Successive(q)
            /\ \A j \in 1..(Len(q) - 1) : j + 1 \in 1..Len(q)
        <5>1. Len(q) \in Nat
          BY <3>2 DEF Following
        <5>2. ~params.no_timestamps => Successive(q)
          BY <2>1, <3>1 DEF Threads
        <5> HIDE DEF q
        <5>3. QED
          BY <3>2, <5>1, <5>2 DEF Following
      <4>2. \A j \in 1..Len(q) : AsFound(q[j]) = q[j] /\ (Stamped(q[j]) => ~params.no_timestamps)
        BY <4>1 DEF AsFound, Stamped
      <4> HIDE DEF q
      <4>3. QED
        BY <4>1, <4>2 DEF InTime, Successive
    <3>4. ASSUME q # <<>> PROVE q[Len(q)].t1 = EndOf(Last(q))
      <4>1. /\ EndOf(Last(q)) = q[Len(q)].t1 + TimeOffset(0)
            /\ q[Len(q)].t1 \in Int
        <5> HIDE DEF q
        <5>1. QED
          BY <2>1, <3>1, <3>2, <3>4, FollowingEnds
      <4>2. TimeOffset(0) = 0
        BY DEF TimeOffset
      <4> HIDE DEF q
      <4>3. QED
        BY <4>1, <4>2
    <3>5. LastFrom(q, 0)
      BY <3>1, <3>4 DEF LastFrom
    <3>6. QED
      BY <3>1, <3>3, <3>5
  <2>4. ASSUME NEW m \in 0..((P - 1) - 1), m \in S PROVE m + 1 \in S
    <3> DEFINE i == m + 1
               v == g[m]
               found == states[i].result
               r == g[i]
    <3>1. /\ i \in Processors /\ m \in Processors /\ i \in 1..(P - 1) /\ i - 1 = m
          /\ i \in 0..i /\ \A j \in 0..m : j \in 0..i /\ j < i
      BY <2>1
    <3>2. r = Appended(v, found) /\ v \in Seq(Segment) /\ Following(i, found)
      BY <2>1, <2>2, <3>1 DEF UpTo, Threads
    <3>3. InTime(v) /\ LastFrom(v, m)
      BY <2>4
    <3>4. m + 1 \in 0..(P - 1)
      BY <2>1
    <3> HIDE DEF v, r
    <3>5. Lengthened(r, v, found)
      <4> HIDE DEF i, found
      <4>1. QED
        BY <2>1, <3>1, <3>2, AppendedIs
    <3>10. i # 0 /\ found = states[i].result
      BY <2>1
    <3>6. CASE found = <<>>
      <4>1. r = v
        <5>1. Len(found) = 0 /\ Len(v) \in Nat
          BY <3>2, <3>6
        <5>2. r \in Seq(Segment) /\ Len(r) = Len(v) /\ \A j \in 1..Len(v) : r[j] = v[j]
          BY <3>5, <5>1 DEF Lengthened
        <5>3. QED
          BY <3>2, <5>2, SeqEqual
      <4>2. LastFrom(v, i)
        BY <3>1, <3>3 DEF LastFrom
      <4>3. QED
        BY <3>3, <3>4, <4>1, <4>2 DEF r
    <3>7. CASE found # <<>>
      <4>1. v # <<>> => v[Len(v)].t1 <= EndOf(Head(found))
        <5> SUFFICES ASSUME v # <<>> PROVE v[Len(v)].t1 <= EndOf(Head(found))
          OBVIOUS
        <5>1. PICK j \in 0..m : /\ j \in Processors /\ states[j].result # <<>>
                                /\ v[Len(v)].t1 = EndOf(Last(states[j].result))
          BY <3>3 DEF LastFrom
        <5>2. j < i
          BY <3>1
        <5>3. ~(EndOf(Last(states[j].result)) > EndOf(Head(found)))
          BY <3>1, <3>7, <5>1, <5>2 DEF Overlong
        <5>4. EndOf(Last(states[j].result)) \in Int
          <6>1. Following(j, states[j].result)
            BY <2>1, <5>1 DEF Threads
          <6> DEFINE q == states[j].result
          <6>2. /\ EndOf(Last(q)) = q[Len(q)].t1 + TimeOffset(j)
                /\ q[Len(q)].t1 \in Int /\ TimeOffset(j) \in Int
            <7>1. Following(j, q) /\ q # <<>>
              BY <5>1, <6>1
            <7> HIDE DEF q
            <7>2. QED
              BY <2>1, <5>1, <7>1, FollowingEnds
          <6>3. QED
            BY <6>2
        <5>5. EndOf(Head(found)) \in Int
          <6> HIDE DEF i, found
          <6>1. /\ EndOf(Head(found)) = found[1].t1 + TimeOffset(i)
                /\ found[1].t1 \in Int /\ TimeOffset(i) \in Int
            BY <2>1, <3>1, <3>2, <3>7, FollowingEnds
          <6>2. QED
            BY <6>1
        <5>6. QED
          BY <5>1, <5>3, <5>4, <5>5
      <4>2. InTime(r) /\ r # <<>> /\ r[Len(r)].t1 = EndOf(Last(found))
        <5> HIDE DEF i, found
        <5>1. QED
          BY <2>1, <3>1, <3>2, <3>3, <3>5, <3>7, <3>10, <4>1, InTimeStep
      <4>3. LastFrom(r, i)
        BY <3>1, <3>7, <4>2 DEF LastFrom
      <4>4. QED
        BY <3>4, <4>2, <4>3 DEF r
    <3>8. QED
      BY <3>6, <3>7
  <2>5. \A m \in 0..(P - 1) : m \in S
    <3>1. P - 1 \in Nat
      BY <2>1
    <3> HIDE DEF S, P
    <3>2. QED
      BY <2>3, <2>4, <3>1, Induction
  <2>6. InTime(result_all) /\ result_all \in Seq(Segment)
    <3>1. P - 1 \in 0..(P - 1) /\ P - 1 \in Processors
      BY <2>1
    <3>2. QED
      BY <2>1, <2>2, <2>5, <3>1
  <2>7. l \in 1..Len(result_all) /\ Len(result_all) \in Nat
    BY <2>6
  <2>8. AsFound(s).t0 <= AsFound(s).t1 => s.t0 <= s.t1
    BY <2>6, <2>7 DEF InTime
  <2>9. ASSUME Stamped(s), NEW k \in 1..(l - 1) PROVE result_all[k].t1 <= s.t0
    <3> DEFINE b == l - 1
    <3>1. b \in 1..Len(result_all) /\ b \in 1..(Len(result_all) - 1) /\ b + 1 = l /\ k \in 1..b
      BY <2>7
    <3> HIDE DEF b
    <3>2. result_all[b].t1 <= s.t0
      BY <2>6, <2>9, <3>1 DEF InTime
    <3>3. result_all[k].t1 <= result_all[b].t1
      BY <2>6, <3>1, EndsRise DEF InTime
    <3>4. /\ k \in 1..Len(result_all)
          /\ result_all[k].t1 \in Int /\ result_all[b].t1 \in Int /\ s.t0 \in Int
      <4>1. k \in 1..Len(result_all)
        BY <2>7
      <4>2. QED
        BY <2>6, <2>7, <3>1, <4>1, ElementOfSeq, SegmentIs
    <3>5. QED
      BY <3>2, <3>3, <3>4
  <2>10. QED
    BY <2>8, <2>9
<1>2. QED
  BY ParallelInvariant, <1>1, PTL

-----------------------------------------------------------------------------
(* No segment of speech begins less than two centiseconds before the last  *)
(* sample.  The only one that could is a segment that consists of the      *)
(* incomplete window at the end; a shortest duration of speech well above  *)
(* that of a window rules it out (250 ms and 32 ms in the code).  Without  *)
(* it the last segment may have a length of less than a centisecond, which *)
(* the table of times cannot tell from none.                               *)
EnoughTail ==
    \A c \in Calls : c.vad =>
        ((c.n_samples + n_window - 1) \div n_window) * n_window + 2 * (SampleRate \div 100)
            < c.n_samples + Larger(n_window, min_speech_samples(c.vad_params))

LEMMA OffsetsIs ==
    ASSUME NEW segs \in Seq(Speech), NEW p \in VadParams, NEW n \in Int,
           NEW f, f = Offsets(segs, p, n)
    PROVE  /\ f[1] = 0
           /\ \A i \in 1..Len(segs) :
                 f[i + 1] = f[i] + IF SegmentLength(segs, p, i, n) > 0
                                   THEN SegmentLength(segs, p, i, n) + Silence(segs, i)
                                   ELSE 0
<1> DEFINE N == Len(segs)
           add(i) == IF SegmentLength(segs, p, i, n) > 0
                     THEN SegmentLength(segs, p, i, n) + Silence(segs, i) ELSE 0
           Is(g) == g = [i \in 1..(Len(segs) + 1) |->
                       IF i = 1 THEN 0
                       ELSE g[i - 1] + IF SegmentLength(segs, p, i - 1, n) > 0
                                       THEN SegmentLength(segs, p, i - 1, n) + Silence(segs, i - 1)
                                       ELSE 0]
           step == [i \in 1..N |-> [v \in Int |-> v + add(i)]]
<1>1. N \in Nat
  OBVIOUS
<1>2. \A i \in 1..N : add(i) \in Int
  <2> TAKE i \in 1..N
  <2>1. segs[i] \in Speech
    BY ElementOfSeq
  <2>2. segs[i].start \in Int /\ segs[i].end \in Int
    BY <2>1 DEF Speech
  <2>3. cs_to_samples(segs[i].start) \in Int /\ cs_to_samples(segs[i].end) \in Int
    BY <2>2, Conversions
  <2>4. SegmentEnd(segs, p, i, n) \in Int /\ SegmentStart(segs, i, n) \in Int
    BY <2>3, ParamsInt DEF SegmentEnd, SegmentStart, Smaller
  <2>5. SegmentLength(segs, p, i, n) \in Int /\ Silence(segs, i) \in Int
    BY <2>4, ParamsInt DEF SegmentLength, Silence
  <2>6. QED
    BY <2>5
<1>3. step \in [1..N -> [Int -> Int]]
  <2> HIDE DEF add
  <2>1. QED
    BY <1>2
<1>4. PICK h : Follows(h, N, Int, 0, step)
  <2>1. 0 \in Int
    OBVIOUS
  <2> HIDE DEF N, step
  <2>2. \E h : Follows(h, N, Int, 0, step)
    BY <1>1, <1>3, <2>1, Recursion
  <2>3. QED
    BY <2>2
<1> DEFINE g == [i \in 1..(Len(segs) + 1) |-> h[i - 1]]
<1>5. Is(g)
  <2>1. \A i \in 1..(N + 1) : i # 1 => /\ i - 1 \in 1..N /\ i - 1 \in 1..(N + 1)
                                       /\ (i - 1) - 1 \in 0..N
    BY <1>1
  <2>2. \A i \in 1..(N + 1) : i # 1 => g[i] = g[i - 1] + add(i - 1)
    <3> SUFFICES ASSUME NEW i \in 1..(N + 1), i # 1 PROVE g[i] = g[i - 1] + add(i - 1)
      OBVIOUS
    <3>1. g[i] = h[i - 1] /\ g[i - 1] = h[(i - 1) - 1]
      BY <2>1
    <3>2. h[i - 1] = step[i - 1][h[(i - 1) - 1]] /\ h[(i - 1) - 1] \in Int
      BY <1>4, <2>1 DEF Follows
    <3> HIDE DEF add
    <3>3. step[i - 1][h[(i - 1) - 1]] = h[(i - 1) - 1] + add(i - 1)
      BY <2>1, <3>2
    <3>4. QED
      BY <3>1, <3>2, <3>3
  <2>3. g[1] = 0
    <3>1. g[1] = h[1 - 1] /\ 1 - 1 = 0
      BY <1>1
    <3>2. QED
      BY <1>4, <3>1 DEF Follows
  <2>4. g = [i \in 1..(N + 1) |-> g[i]]
    OBVIOUS
  <2> HIDE DEF g
  <2>5. QED
    BY <1>1, <2>2, <2>3, <2>4
<1>6. f = (CHOOSE e : Is(e))
  BY DEF Offsets
<1>7. Is(f)
  <2> HIDE DEF Is, g
  <2>1. QED
    BY <1>5, <1>6
<1>8. 1 \in 1..(N + 1) /\ \A i \in 1..N : i + 1 \in 1..(N + 1) /\ i + 1 # 1 /\ (i + 1) - 1 = i
  BY <1>1
<1>9. QED
  BY <1>7, <1>8

LEMMA StartFits ==
    ASSUME EnoughTail, params \in Calls, params.vad,
           SpeechFound(segments, params.vad_params, audio_length),
           NEW i \in 1..Len(segments)
    PROVE  /\ cs_to_samples(segments[i].start) \in Nat
           /\ cs_to_samples(segments[i].start) + SampleRate \div 100 <= params.n_samples - 1
           /\ cs_to_samples(segments[i].start) <= cs_to_samples(segments[i].end)
           /\ cs_to_samples(segments[i].end) \in Int
<1> DEFINE p == params.vad_params
           n == params.n_samples
           s == SampleRate \div 100
           w == Larger(n_window, min_speech_samples(p))
<1>1. s \in Nat /\ s > 0 /\ n \in Nat /\ w \in Nat /\ audio_length \in Nat
  BY Rates, ParamsInt, CallIs, ChunksNat DEF Larger
<1>2. audio_length + 2 * s < n + w
  BY DEF EnoughTail, audio_length, n_chunks
<1>3. PICK x \in Int : segments[i].start = samples_to_cs(x) /\ 0 <= x /\ x <= audio_length - w
  BY DEF SpeechFound, LastStart
<1> DEFINE q == segments[i].start
           e == segments[i].end
<1>4. q \in Int /\ e \in Int /\ q <= e
  <2>1. segments \in Seq(Speech) /\ q <= e
    BY DEF SpeechFound
  <2>2. segments[i] \in Speech
    BY <2>1, ElementOfSeq
  <2>3. QED
    BY <2>1, <2>2 DEF Speech
<1>5. /\ cs_to_samples(q) \in Int
      /\ 2 * cs_to_samples(q) <= 2 * x + s /\ 2 * x < 2 * cs_to_samples(q) + s
  BY <1>3, CsBack
<1>6. cs_to_samples(q) = q * s /\ cs_to_samples(e) = e * s
  BY DEF cs_to_samples
<1> HIDE DEF q, e, s, n, w, p
<1>7. cs_to_samples(q) + s <= n - 1
  BY <1>1, <1>2, <1>3, <1>5
<1>8. q >= 0
  <2>1. CASE q <= -1
    <3>1. q * s <= (-1) * s
      BY <1>1, <1>4, <2>1
    <3>2. QED
      BY <1>1, <1>3, <1>5, <1>6, <3>1
  <2>2. QED
    BY <1>4, <2>1
<1>9. q * s \in Nat /\ q * s <= e * s /\ e * s \in Int
  <2>1. \A a, b \in Nat : a * b \in Nat
    OBVIOUS
  <2>2. q * s <= e * s
    BY <1>1, <1>4
  <2>3. QED
    BY <1>1, <1>4, <1>8, <2>1, <2>2
<1>10. QED
  BY <1>6, <1>7, <1>9 DEF q, e, n, s

LEMMA SpeechFits ==
    ASSUME EnoughTail, VadInv, stage = "start", params.vad
    PROVE  Offsets(segments, params.vad_params, params.n_samples)[Len(segments) + 1]
               \in 0..n_samples
<1> DEFINE p == params.vad_params
           n == params.n_samples
           N == Len(segments)
           f == Offsets(segments, p, n)
           len(i) == SegmentLength(segments, p, i, n)
           sil == silence_samples
<1>1. /\ SpeechFound(segments, p, audio_length) /\ segments # <<>> /\ n_samples = Room
      /\ params \in Calls
  BY DEF VadInv, Vad, Segmented, SpeechCopied
<1>2. /\ segments \in Seq(Speech) /\ N \in Nat /\ N > 0 /\ p \in VadParams /\ n \in Int
      /\ sil \in Nat
  BY <1>1, CallIs, ParamsInt DEF SpeechFound
<1>3. PICK g : Rooms(g, segments, p, n) /\ Room = g[N]
  <2>1. Room = RoomNeeded(segments, p, n)
    BY DEF Room
  <2> HIDE DEF p, n, N
  <2>2. QED
    BY <1>2, <2>1, RoomIs DEF N
<1>4. f[1] = 0 /\ \A i \in 1..N : f[i + 1] = f[i] + IF len(i) > 0 THEN len(i) + Silence(segments, i)
                                                  ELSE 0
  <2>1. f = Offsets(segments, p, n)
    OBVIOUS
  <2> HIDE DEF f, p, n
  <2>2. QED
    BY <1>2, <2>1, OffsetsIs
<1>5. ASSUME NEW i \in 1..N
      PROVE  /\ len(i) \in Nat
             /\ g[i] = g[i - 1] + len(i)
  <2> DEFINE b == cs_to_samples(segments[i].start)
             e == cs_to_samples(segments[i].end)
             o == IF i < N THEN Samples(p.samples_overlap_ms) ELSE 0
  <2>1. b \in Nat /\ b < n - 1 /\ b <= e /\ e \in Int
    <3>1. b \in Nat /\ b + SampleRate \div 100 <= n - 1 /\ b <= e /\ e \in Int
      BY <1>1, StartFits
    <3> HIDE DEF b, e
    <3>2. QED
      BY <1>2, <3>1, Rates
  <2>2. o \in Nat
    BY <1>2, ParamsInt
  <2>3. SegmentStart(segments, i, n) = b
    <3>1. SegmentStart(segments, i, n) = Smaller(b, n - 1)
      BY DEF SegmentStart
    <3> HIDE DEF b, n
    <3>2. QED
      BY <1>2, <2>1, <3>1 DEF Smaller
  <2>4. SegmentEnd(segments, p, i, n) = Smaller(e + o, n - 1)
    BY DEF SegmentEnd
  <2>5. g[i] = g[i - 1] + SegmentEnd(segments, p, i, n) - b /\ g[i - 1] \in Int
    <3>1. i - 1 \in 0..N
      BY <1>2
    <3>2. QED
      BY <1>3, <3>1 DEF Rooms
  <2>6. len(i) = SegmentEnd(segments, p, i, n) - SegmentStart(segments, i, n)
    BY DEF SegmentLength
  <2> HIDE DEF b, e, o, n, p, len
  <2>7. SegmentEnd(segments, p, i, n) \in Int /\ SegmentEnd(segments, p, i, n) >= b
    BY <1>2, <2>1, <2>2, <2>4 DEF Smaller
  <2>8. QED
    BY <2>1, <2>3, <2>5, <2>6, <2>7
<1>6. g[0] = (N - 1) * sil /\ \A i \in 0..N : g[i] \in Int
  BY <1>3 DEF Rooms
<1>7. \A i \in 1..N : Silence(segments, i) = IF i < N THEN sil ELSE 0
  BY DEF Silence
<1> HIDE DEF f, len, sil, N
<1> DEFINE rest(m) == IF m < N THEN (N - 1 - m) * sil ELSE 0
           S == {m \in 0..N : f[m + 1] \in Nat /\ f[m + 1] + rest(m) <= g[m]}
<1>8. 0 \in S
  <2>1. 0 \in 0..N /\ 0 + 1 = 1 /\ 0 < N /\ N - 1 - 0 = N - 1
    BY <1>2
  <2>2. rest(0) = g[0] /\ f[0 + 1] = 0
    BY <1>4, <1>6, <2>1
  <2>3. g[0] \in Int
    BY <1>6, <2>1
  <2> HIDE DEF rest
  <2>4. QED
    BY <2>1, <2>2, <2>3
<1>9. ASSUME NEW m \in 0..(N - 1), m \in S PROVE m + 1 \in S
  <2> DEFINE i == m + 1
  <2>1. /\ i \in 1..N /\ m \in 0..N /\ i \in 0..N /\ i - 1 = m /\ m < N /\ m \in Int
    BY <1>2
  <2>2. f[i] \in Nat /\ f[i] + (N - 1 - m) * sil <= g[m]
    BY <1>9, <2>1
  <2>3. len(i) \in Nat /\ g[i] = g[m] + len(i) /\ g[m] \in Int
    BY <1>5, <1>6, <2>1
  <2>4. f[i + 1] = f[i] + IF len(i) > 0 THEN len(i) + Silence(segments, i) ELSE 0
    BY <1>4, <2>1
  <2>5. (N - 1 - m) * sil \in Int
    BY <1>2, <2>1
  <2>6. CASE i < N
    <3>1. Silence(segments, i) = sil /\ rest(i) = (N - 1 - i) * sil
      BY <1>7, <2>1, <2>6
    <3>2. (N - 1 - m) * sil = (N - 1 - i) * sil + sil
      <4>1. N - 1 - m = (N - 1 - i) + 1 /\ N - 1 - i \in Int
        BY <1>2
      <4>2. \A a \in Int : (a + 1) * sil = a * sil + sil
        BY <1>2
      <4>3. QED
        BY <4>1, <4>2
    <3>3. (N - 1 - i) * sil \in Int
      BY <1>2
    <3> HIDE DEF i, rest
    <3>4. f[i + 1] \in Nat /\ f[i + 1] + rest(i) <= g[i]
      <4> DEFINE x == (N - 1 - i) * sil
                 l == len(i)
      <4>1. x \in Int /\ rest(i) = x /\ f[i] + (x + sil) <= g[m]
        BY <2>2, <3>1, <3>2, <3>3
      <4>2. l \in Nat /\ g[i] = g[m] + l /\ f[i + 1] = f[i] + IF l > 0 THEN l + sil ELSE 0
        BY <2>3, <2>4, <3>1
      <4> HIDE DEF x, l
      <4>3. CASE l > 0
        <5>1. f[i + 1] = f[i] + (l + sil)
          BY <4>2, <4>3
        <5>2. f[i] \in Nat /\ g[m] \in Int /\ sil \in Nat /\ l \in Nat /\ x \in Int
          BY <1>2, <2>2, <2>3, <4>1, <4>2
        <5>3. f[i] + (l + sil) + x <= g[m] + l
          BY <4>1, <5>2
        <5>4. QED
          BY <4>1, <4>2, <5>1, <5>2, <5>3
      <4>4. CASE l = 0
        BY <1>2, <2>2, <2>3, <4>1, <4>2, <4>4
      <4>5. QED
        BY <4>2, <4>3, <4>4
    <3>5. QED
      BY <2>1, <3>4 DEF i
  <2>7. CASE ~(i < N)
    <3>1. Silence(segments, i) = 0 /\ rest(i) = 0
      BY <1>7, <2>1, <2>7
    <3>2. (N - 1 - m) * sil = 0
      <4>1. N - 1 - m = 0
        BY <1>2, <2>7
      <4>2. QED
        BY <1>2, <4>1
    <3> HIDE DEF i, rest
    <3>3. f[i + 1] \in Nat /\ f[i + 1] + rest(i) <= g[i]
      BY <2>2, <2>3, <2>4, <3>1, <3>2
    <3>4. QED
      BY <2>1, <3>3 DEF i
  <2>8. QED
    BY <2>6, <2>7
<1>10. \A m \in 0..N : m \in S
  <2> HIDE DEF S
  <2>1. QED
    BY <1>2, <1>8, <1>9, Induction
<1>11. f[N + 1] \in Nat /\ f[N + 1] <= g[N] /\ g[N] \in Int
  <2>1. N \in 0..N /\ rest(N) = 0
    BY <1>2
  <2>2. f[N + 1] \in Nat /\ f[N + 1] + rest(N) <= g[N]
    BY <1>10, <2>1
  <2> HIDE DEF rest
  <2>3. QED
    BY <1>6, <2>1, <2>2
<1>12. f[N + 1] \in 0..n_samples
  BY <1>1, <1>3, <1>11
<1>13. QED
  BY <1>12 DEF f, N, p, n

(* The values of the variables, and: the speech fits the room made for it. *)
THEOREM TypeCorrect ==
    ASSUME EnoughTail
    PROVE  Spec => []TypeOK
<1>1. ParallelInv => TypeOK
  <2> SUFFICES ASSUME ParallelInv PROVE TypeOK
    OBVIOUS
  <2>1. VadInv /\ Threads
    BY DEF ParallelInv
  <2>2. \A i \in Processors : states[i].status \in Status
    BY <2>1 DEF Threads
  <2>3. /\ stage \in {"idle", "detect", "segmented", "start", "crashed"}
        /\ params \in Calls /\ Len(probs) <= n_chunks /\ ret \in {0, -1, -6}
    BY <2>1 DEF VadInv, Vad, Detection
  <2>4. QED
    BY <2>1, <2>2, <2>3, SpeechFits DEF TypeOK
<1>2. QED
  BY ParallelInvariant, <1>1, PTL

-----------------------------------------------------------------------------
(* A table in which a later point has a later original time, or the same.  *)
Rising(tab, M) ==
    /\ \A a \in tab : a.processed \in 0..M /\ a.original \in Int
    /\ \A a, b \in tab : a.processed <= b.processed => a.original <= b.original

LEMMA FirstIs ==
    ASSUME NEW M \in Nat, NEW tab, tab # {}, \A a \in tab : a.processed \in 0..M
    PROVE  First(tab) \in tab /\ \A b \in tab : First(tab).processed <= b.processed
<1> DEFINE S == {a.processed : a \in tab}
<1>1. S \subseteq Nat /\ S # {}
  OBVIOUS
<1>2. PICK x \in S : \A y \in S : x <= y
  BY <1>1, Smallest
<1>3. \E a \in tab : \A b \in tab : a.processed <= b.processed
  BY <1>2
<1>4. QED
  BY <1>3 DEF First

LEMMA FinalIs ==
    ASSUME NEW M \in Nat, NEW tab, tab # {}, \A a \in tab : a.processed \in 0..M
    PROVE  Final(tab) \in tab /\ \A b \in tab : b.processed <= Final(tab).processed
<1> DEFINE S == {M - a.processed : a \in tab}
<1>1. S \subseteq Nat /\ S # {}
  OBVIOUS
<1>2. PICK x \in S : \A y \in S : x <= y
  BY <1>1, Smallest
<1>3. PICK a \in tab : x = M - a.processed
  BY <1>2
<1>4. \A b \in tab : M - a.processed <= M - b.processed
  BY <1>2, <1>3
<1>5. \A b \in tab : a.processed >= b.processed
  BY <1>4
<1>6. \E c \in tab : \A b \in tab : c.processed >= b.processed
  BY <1>5
<1>7. Final(tab) \in tab /\ \A b \in tab : Final(tab).processed >= b.processed
  BY <1>6 DEF Final
<1>8. QED
  BY <1>7

(* Between two points. *)
Interpolated(l, u, t) ==
    l.original + ((t - l.processed) * (u.original - l.original)) \div (u.processed - l.processed)

LEMMA BetweenIs ==
    ASSUME NEW x \in Int, NEW d \in Nat, NEW e \in Nat, e > 0, 0 <= x, x <= e
    PROVE  /\ (x * d) \div e \in Int /\ 0 <= (x * d) \div e /\ (x * d) \div e <= d
           /\ x = e => (x * d) \div e = d
           /\ x + 1 <= e => (x * d) \div e <= ((x + 1) * d) \div e
<1>1. x * d \in Int /\ 0 <= x * d /\ x * d <= e * d /\ e * d \in Int /\ (x + 1) * d \in Int
      /\ x * d <= (x + 1) * d
  <2>1. x \in Nat
    OBVIOUS
  <2>2. \A a, b \in Nat : a * b \in Nat /\ (a + 1) * b = a * b + b
    OBVIOUS
  <2>3. x * d <= e * d
    OBVIOUS
  <2>4. QED
    BY <2>1, <2>2, <2>3
<1>2. 0 \div e = 0
  <2>1. e * 0 <= 0 /\ 0 < e * 0 + e
    OBVIOUS
  <2>2. QED
    BY <2>1, DivUnique
<1>3. (e * d) \div e = d
  <2>1. e * d <= e * d /\ e * d < e * d + e
    BY <1>1
  <2>2. QED
    BY <1>1, <2>1, DivUnique
<1>4. (x * d) \div e \in Int
  BY <1>1, DivIs
<1>5. 0 \div e <= (x * d) \div e
  BY <1>1, DivMono
<1>6. (x * d) \div e <= (e * d) \div e
  BY <1>1, DivMono
<1>7. (x * d) \div e <= ((x + 1) * d) \div e
  BY <1>1, DivMono
<1>8. QED
  BY <1>2, <1>3, <1>4, <1>5, <1>6, <1>7

(* Where a time between the ends of the table is looked up. *)
Above(tab, t) == First({a \in tab : a.processed >= t})
Below(tab, t) == Final({a \in tab : a.processed < t})

LEMMA Lookup ==
    ASSUME NEW M \in Nat, NEW tab, tab # {}, Rising(tab, M), NEW t \in Int,
           First(tab).processed < t, t < Final(tab).processed
    PROVE  LET u == Above(tab, t)
               l == Below(tab, t)
           IN  /\ u \in tab /\ l \in tab /\ l.processed < t /\ t <= u.processed
               /\ \A a \in tab : a.processed >= t => u.processed <= a.processed
               /\ \A a \in tab : a.processed < t => a.processed <= l.processed
               /\ l.original <= u.original
               /\ Original(tab, t) = Interpolated(l, u, t)
               /\ Original(tab, t) \in Int
               /\ l.original <= Original(tab, t) /\ Original(tab, t) <= u.original
<1> DEFINE A == {a \in tab : a.processed >= t}
           B == {a \in tab : a.processed < t}
           u == Above(tab, t)
           l == Below(tab, t)
<1>1. \A a \in tab : a.processed \in 0..M /\ a.original \in Int
  BY DEF Rising
<1>2. First(tab) \in tab /\ Final(tab) \in tab
  BY <1>1, FirstIs, FinalIs
<1>3. A # {} /\ B # {}
  <2>1. Final(tab) \in A
    BY <1>1, <1>2
  <2>2. First(tab) \in B
    BY <1>1, <1>2
  <2>3. QED
    BY <2>1, <2>2
<1>4. u \in A /\ \A b \in A : u.processed <= b.processed
  <2>1. \A a \in A : a.processed \in 0..M
    BY <1>1
  <2>2. u = First(A)
    BY DEF Above
  <2> HIDE DEF A
  <2>3. QED
    BY <1>3, <2>1, <2>2, FirstIs
<1>5. l \in B /\ \A b \in B : b.processed <= l.processed
  <2>1. \A a \in B : a.processed \in 0..M
    BY <1>1
  <2>2. l = Final(B)
    BY DEF Below
  <2> HIDE DEF B
  <2>3. QED
    BY <1>3, <2>1, <2>2, FinalIs
<1>6. /\ u \in tab /\ l \in tab /\ l.processed < t /\ u.processed >= t
      /\ \A a \in tab : a.processed >= t => u.processed <= a.processed
      /\ \A a \in tab : a.processed < t => a.processed <= l.processed
  BY <1>4, <1>5
<1>7. Original(tab, t) = IF u.processed = t THEN u.original ELSE Interpolated(l, u, t)
  <2>1. ~(t <= First(tab).processed) /\ ~(t >= Final(tab).processed)
    BY <1>1, <1>2
  <2>2. QED
    BY <2>1 DEF Original, Above, Below, Interpolated
<1> HIDE DEF u, l, A, B
<1> DEFINE x == t - l.processed
           d == u.original - l.original
           e == u.processed - l.processed
<1>8. /\ u.processed \in Int /\ l.processed \in Int /\ u.original \in Int /\ l.original \in Int
  BY <1>1, <1>6
<1>9. l.original <= u.original
  <2>1. l.processed <= u.processed
    BY <1>6, <1>8
  <2>2. QED
    BY <1>6, <2>1 DEF Rising
<1>10. /\ x \in Int /\ d \in Nat /\ e \in Nat /\ e > 0 /\ 0 <= x /\ x <= e
       /\ u.processed = t => x = e
  BY <1>6, <1>8, <1>9
<1>11. Interpolated(l, u, t) = l.original + (x * d) \div e
  BY DEF Interpolated
<1>12. l.original + d = u.original
  BY <1>8
<1> HIDE DEF x, d, e
<1>13. /\ (x * d) \div e \in Int /\ 0 <= (x * d) \div e /\ (x * d) \div e <= d
       /\ x = e => (x * d) \div e = d
  BY <1>10, BetweenIs
<1>14. Original(tab, t) = Interpolated(l, u, t)
  BY <1>7, <1>10, <1>11, <1>12, <1>13
<1>15. QED
  BY <1>6, <1>8, <1>9, <1>10, <1>11, <1>12, <1>13, <1>14 DEF u, l

LEMMA OriginalRises ==
    ASSUME NEW M \in Nat, NEW tab, tab # {}, Rising(tab, M), NEW t \in Int
    PROVE  Original(tab, t) <= Original(tab, t + 1)
<1> DEFINE f == First(tab)
           z == Final(tab)
<1>1. \A a \in tab : a.processed \in 0..M /\ a.processed \in Int /\ a.original \in Int
  BY DEF Rising
<1>2. /\ f \in tab /\ z \in tab
      /\ \A b \in tab : f.processed <= b.processed /\ b.processed <= z.processed
  BY <1>1, FirstIs, FinalIs
<1>3. \A b \in tab : f.original <= b.original /\ b.original <= z.original
  BY <1>2 DEF Rising
<1>4. f.processed \in Int /\ z.processed \in Int /\ f.original \in Int /\ z.original \in Int
      /\ f.processed <= z.processed /\ f.original <= z.original
  BY <1>1, <1>2, <1>3
<1>5. \A s \in Int : s <= f.processed => Original(tab, s) = f.original
  BY DEF Original
<1>6. \A s \in Int : f.processed < s /\ z.processed <= s => Original(tab, s) = z.original
  <2> SUFFICES ASSUME NEW s \in Int, f.processed < s, z.processed <= s
               PROVE  Original(tab, s) = z.original
    OBVIOUS
  <2>1. ~(s <= f.processed) /\ s >= z.processed
    BY <1>4
  <2>2. QED
    BY <2>1 DEF Original
<1> HIDE DEF f, z
<1>7. ASSUME NEW s \in Int
      PROVE  /\ Original(tab, s) \in Int
             /\ f.original <= Original(tab, s) /\ Original(tab, s) <= z.original
  <2>1. CASE s <= f.processed
    BY <1>4, <1>5, <2>1
  <2>2. CASE f.processed < s /\ z.processed <= s
    BY <1>4, <1>6, <2>2
  <2>3. CASE f.processed < s /\ s < z.processed
    <3> DEFINE u == Above(tab, s)
               l == Below(tab, s)
    <3>1. /\ u \in tab /\ l \in tab /\ Original(tab, s) \in Int
          /\ l.original <= Original(tab, s) /\ Original(tab, s) <= u.original
      BY <2>3, Lookup DEF f, z
    <3>2. u.original \in Int /\ l.original \in Int /\ f.original <= l.original /\ u.original <= z.original
      BY <1>1, <1>3, <3>1
    <3> HIDE DEF u, l
    <3>3. QED
      BY <1>4, <3>1, <3>2
  <2>4. QED
    BY <1>4, <2>1, <2>2, <2>3
<1>8. CASE t <= f.processed
  BY <1>4, <1>5, <1>7, <1>8
<1>9. CASE f.processed < t + 1 /\ z.processed <= t + 1
  BY <1>4, <1>6, <1>7, <1>9
<1>10. CASE f.processed < t /\ t + 1 < z.processed
  <2> DEFINE u == Above(tab, t)
             l == Below(tab, t)
             v == Above(tab, t + 1)
             k == Below(tab, t + 1)
             x == Original(tab, t)
             y == Original(tab, t + 1)
  <2>1. /\ u \in tab /\ l \in tab /\ l.processed < t /\ t <= u.processed
        /\ \A a \in tab : a.processed >= t => u.processed <= a.processed
        /\ x = Interpolated(l, u, t) /\ x \in Int /\ l.original <= u.original
        /\ l.original <= x /\ x <= u.original
    BY <1>4, <1>10, Lookup DEF f, z
  <2>2. /\ k \in tab /\ k.processed < t + 1
        /\ \A a \in tab : a.processed < t + 1 => a.processed <= k.processed
        /\ y = Interpolated(k, v, t + 1) /\ y \in Int
        /\ k.original <= y
    <3>1. t + 1 \in Int /\ f.processed < t + 1 /\ t + 1 < z.processed
      BY <1>4, <1>10
    <3>2. QED
      BY <3>1, Lookup DEF f, z
  <2>3. /\ u.processed \in Int /\ u.original \in Int /\ l.processed \in Int /\ l.original \in Int
        /\ k.processed \in Int /\ k.original \in Int
    BY <1>1, <2>1, <2>2
  <2>4. CASE u.processed = t
    <3>1. u.processed < t + 1
      BY <2>3, <2>4
    <3>2. u.processed <= k.processed
      BY <2>1, <2>2, <3>1
    <3>3. u.original <= k.original
      BY <2>1, <2>2, <3>2 DEF Rising
    <3> HIDE DEF x, y, u, l, v, k
    <3>4. QED
      BY <2>1, <2>2, <2>3, <3>3 DEF x, y
  <2>5. CASE u.processed # t
    <3>1. u.processed >= t + 1
      BY <2>1, <2>3, <2>5
    <3>2. \A a \in tab : (a.processed >= t) <=> (a.processed >= t + 1)
      BY <1>1, <2>1, <2>3, <3>1
    <3>3. \A a \in tab : (a.processed < t) <=> (a.processed < t + 1)
      BY <1>1, <3>2
    <3>4. {a \in tab : a.processed >= t} = {a \in tab : a.processed >= t + 1}
      BY <3>2
    <3>5. {a \in tab : a.processed < t} = {a \in tab : a.processed < t + 1}
      BY <3>3
    <3>6. v = u /\ k = l
      BY <3>4, <3>5 DEF Above, Below
    <3>7. y = Interpolated(l, u, t + 1)
      BY <2>2, <3>6
    <3> DEFINE p == t - l.processed
               d == u.original - l.original
               e == u.processed - l.processed
    <3> HIDE DEF x, y, u, l, v, k
    <3>8. /\ p \in Int /\ d \in Nat /\ e \in Nat /\ e > 0 /\ 0 <= p /\ p + 1 <= e /\ p <= e
          /\ (t + 1) - l.processed = p + 1
      BY <2>1, <2>3, <3>1
    <3>9. /\ x = l.original + (p * d) \div e
          /\ y = l.original + ((p + 1) * d) \div e
      BY <2>1, <3>7, <3>8 DEF Interpolated
    <3> HIDE DEF p, d, e
    <3>10. (p * d) \div e <= ((p + 1) * d) \div e /\ (p * d) \div e \in Int
      BY <3>8, BetweenIs
    <3>11. ((p + 1) * d) \div e \in Int
      <4>1. (p + 1) * d \in Int
        BY <3>8
      <4>2. QED
        BY <3>8, <4>1, DivIs
    <3>12. QED
      BY <2>3, <3>9, <3>10, <3>11 DEF x, y
  <2>6. QED
    BY <2>4, <2>5
<1>11. QED
  BY <1>4, <1>8, <1>9, <1>10

-----------------------------------------------------------------------------
(* The table is made of blocks, one for each segment, in which a time p of *)
(* from P to Q stands for one of from b to e.                              *)
On(a, P, Q, b, e) ==
    /\ a.processed \in P..Q
    /\ a.original = b + ((a.processed - P) * (e - b)) \div (Q - P)

LEMMA OnIs ==
    ASSUME NEW P \in Int, NEW Q \in Int, P < Q, NEW b \in Int, NEW e \in Int, b <= e,
           NEW a, On(a, P, Q, b, e)
    PROVE  /\ a.processed \in Int /\ P <= a.processed /\ a.processed <= Q
           /\ a.original \in Int /\ b <= a.original /\ a.original <= e
<1> DEFINE x == a.processed - P
           d == e - b
           q == Q - P
<1>1. a.processed \in Int /\ P <= a.processed /\ a.processed <= Q
  BY DEF On
<1>2. x \in Int /\ 0 <= x /\ x <= q /\ d \in Nat /\ q \in Nat /\ q > 0 /\ b + d = e
  BY <1>1
<1>3. a.original = b + (x * d) \div q
  BY DEF On
<1> HIDE DEF x, d, q
<1>4. (x * d) \div q \in Int /\ 0 <= (x * d) \div q /\ (x * d) \div q <= d
  BY <1>2, BetweenIs
<1>5. QED
  BY <1>1, <1>2, <1>3, <1>4

LEMMA OnRises ==
    ASSUME NEW P \in Int, NEW Q \in Int, P < Q, NEW b \in Int, NEW e \in Int, b <= e,
           NEW a, On(a, P, Q, b, e), NEW c, On(c, P, Q, b, e), a.processed <= c.processed
    PROVE  a.original <= c.original
<1> DEFINE x == a.processed - P
           y == c.processed - P
           d == e - b
           q == Q - P
<1>1. a.processed \in Int /\ c.processed \in Int
  BY DEF On
<1>2. x \in Int /\ y \in Int /\ x <= y /\ d \in Nat /\ q \in Nat /\ q > 0
  BY <1>1
<1>3. a.original = b + (x * d) \div q /\ c.original = b + (y * d) \div q
  BY DEF On
<1> HIDE DEF x, y, d, q
<1>4. x * d \in Int /\ y * d \in Int /\ x * d <= y * d
  BY <1>2
<1>5. (x * d) \div q <= (y * d) \div q
  BY <1>2, <1>4, DivMono
<1>6. (x * d) \div q \in Int /\ (y * d) \div q \in Int
  BY <1>2, <1>4, DivIs
<1>7. QED
  BY <1>3, <1>5, <1>6

LEMMA EndsOn ==
    ASSUME NEW P \in Int, NEW Q \in Int, P < Q, NEW b \in Int, NEW e \in Int, b <= e
    PROVE  On(Point(P, b), P, Q, b, e) /\ On(Point(Q, e), P, Q, b, e)
<1> DEFINE d == e - b
           q == Q - P
<1>1. d \in Nat /\ q \in Nat /\ q > 0 /\ P - P = 0 /\ b + d = e /\ b + 0 = b
  OBVIOUS
<1>2. (0 * d) \div q = 0
  <2>1. 0 * d = 0 /\ q * 0 <= 0 /\ 0 < q * 0 + q
    BY <1>1
  <2> HIDE DEF d, q
  <2>2. 0 \div q = 0
    BY <1>1, <2>1, DivUnique
  <2>3. QED
    BY <2>1, <2>2
<1>3. (q * d) \div q = d
  <2> HIDE DEF d, q
  <2>1. q \in Int /\ 0 <= q /\ q <= q
    BY <1>1
  <2>2. QED
    BY <1>1, <2>1, BetweenIs
<1>4. /\ Point(P, b).processed = P /\ Point(P, b).original = b
      /\ Point(Q, e).processed = Q /\ Point(Q, e).original = e
  BY DEF Point
<1>5. P \in P..Q /\ Q \in P..Q
  OBVIOUS
<1>6. b = b + ((P - P) * d) \div q /\ e = b + (q * d) \div q
  <2> HIDE DEF d, q
  <2>1. QED
    BY <1>1, <1>2, <1>3
<1>7. QED
  BY <1>4, <1>5, <1>6 DEF On

LEMMA BetweenOn ==
    ASSUME NEW P \in Int, NEW Q \in Int, P < Q, NEW b \in Int, NEW e \in Int, b <= e,
           NEW a \in Between(Point(P, b), Point(Q, e))
    PROVE  On(a, P, Q, b, e)
<1> DEFINE vad_total  == Q - P
           orig_total == e - b
           num_points == vad_total \div point_interval - 1
<1>1. PICK j \in 1..num_points : /\ j * point_interval < vad_total
                                 /\ a = Point(P + j * point_interval,
                                              b + (j * point_interval * orig_total) \div vad_total)
  BY DEF Between, Point
<1>2. num_points \in Int
  BY DEF point_interval
<1> DEFINE x == j * point_interval
<1>3. x \in Int /\ 0 <= x /\ x < vad_total
  BY <1>1, <1>2 DEF point_interval
<1>4. a.processed = P + x /\ a.original = b + (x * orig_total) \div vad_total
  BY <1>1 DEF Point
<1> HIDE DEF x
<1>5. a.processed \in P..Q /\ a.processed - P = x
  BY <1>3, <1>4
<1>6. QED
  BY <1>4, <1>5 DEF On

Blocks(N, P, Q, b, e) ==
    /\ N \in Nat /\ N > 0 /\ P[1] = 0
    /\ \A i \in 1..N : /\ P[i] \in Int /\ Q[i] \in Int /\ b[i] \in Int /\ e[i] \in Int
                       /\ P[i] < Q[i] /\ b[i] <= e[i]
    /\ \A i \in 1..(N - 1) : Q[i] < P[i + 1] /\ e[i] <= b[i + 1]

LEMMA BlocksApart ==
    ASSUME NEW N, NEW P, NEW Q, NEW b, NEW e, Blocks(N, P, Q, b, e),
           NEW i \in 1..N, NEW j \in 1..N, i < j
    PROVE  Q[i] < P[j] /\ e[i] <= b[j]
<1> DEFINE n == N - 1 - i
           S == {m \in 0..n : Q[i] < P[i + 1 + m] /\ e[i] <= b[i + 1 + m]}
<1>1. N \in Nat /\ n \in Nat /\ i \in 1..(N - 1) /\ i + 1 + 0 = i + 1 /\ 0 \in 0..n
  BY DEF Blocks
<1>2. 0 \in S
  BY <1>1 DEF Blocks
<1>3. ASSUME NEW m \in 0..(n - 1), m \in S PROVE m + 1 \in S
  <2> DEFINE k == i + 1 + m
  <2>1. /\ k \in 1..N /\ k \in 1..(N - 1) /\ k + 1 \in 1..N /\ i + 1 + (m + 1) = k + 1
        /\ m + 1 \in 0..n /\ i \in 1..N
    BY <1>1
  <2>2. Q[i] < P[k] /\ e[i] <= b[k]
    BY <1>3
  <2> HIDE DEF k
  <2>3. P[k] < Q[k] /\ Q[k] < P[k + 1] /\ b[k] <= e[k] /\ e[k] <= b[k + 1]
    BY <2>1 DEF Blocks
  <2>4. /\ P[k] \in Int /\ Q[k] \in Int /\ b[k] \in Int /\ e[k] \in Int
        /\ P[k + 1] \in Int /\ b[k + 1] \in Int /\ Q[i] \in Int /\ e[i] \in Int
    BY <2>1 DEF Blocks
  <2>5. Q[i] < P[k + 1] /\ e[i] <= b[k + 1]
    BY <2>2, <2>3, <2>4
  <2>6. QED
    BY <2>1, <2>5
<1>4. \A m \in 0..n : m \in S
  <2> HIDE DEF S, n
  <2>1. QED
    BY <1>1, <1>2, <1>3, Induction
<1>5. j - i - 1 \in 0..n /\ i + 1 + (j - i - 1) = j
  BY <1>1
<1>6. QED
  BY <1>4, <1>5

LEMMA BlocksRise ==
    ASSUME NEW N, NEW P, NEW Q, NEW b, NEW e, Blocks(N, P, Q, b, e),
           NEW tab, \A a \in tab : \E i \in 1..N : On(a, P[i], Q[i], b[i], e[i])
    PROVE  Q[N] \in Nat /\ Rising(tab, Q[N])
<1>1. /\ N \in Nat /\ N \in 1..N /\ 1 \in 1..N /\ P[1] = 0
      /\ \A i \in 1..N : /\ P[i] \in Int /\ Q[i] \in Int /\ b[i] \in Int /\ e[i] \in Int
                         /\ P[i] < Q[i] /\ b[i] <= e[i]
  BY DEF Blocks
<1>2. \A i \in 1..N : 0 <= P[i] /\ Q[i] <= Q[N]
  <2> TAKE i \in 1..N
  <2>1. 0 <= P[i]
    <3>1. CASE i = 1
      BY <1>1, <3>1
    <3>2. CASE 1 < i
      <4>1. Q[1] < P[i]
        BY <1>1, <3>2, BlocksApart
      <4>2. QED
        BY <1>1, <4>1
    <3>3. QED
      BY <3>1, <3>2
  <2>2. Q[i] <= Q[N]
    <3>1. CASE i = N
      BY <1>1, <3>1
    <3>2. CASE i < N
      <4>1. Q[i] < P[N]
        BY <1>1, <3>2, BlocksApart
      <4>2. QED
        BY <1>1, <4>1
    <3>3. QED
      BY <1>1, <3>1, <3>2
  <2>3. QED
    BY <2>1, <2>2
<1>3. Q[N] \in Nat
  BY <1>1, <1>2
<1>4. ASSUME NEW a \in tab PROVE a.processed \in 0..Q[N] /\ a.original \in Int
  <2>1. PICK i \in 1..N : On(a, P[i], Q[i], b[i], e[i])
    OBVIOUS
  <2>2. /\ a.processed \in Int /\ P[i] <= a.processed /\ a.processed <= Q[i]
        /\ a.original \in Int
    BY <1>1, <2>1, OnIs
  <2>3. QED
    BY <1>1, <1>2, <2>2
<1>5. ASSUME NEW a \in tab, NEW c \in tab, a.processed <= c.processed
      PROVE  a.original <= c.original
  <2>1. PICK i \in 1..N : On(a, P[i], Q[i], b[i], e[i])
    OBVIOUS
  <2>2. PICK j \in 1..N : On(c, P[j], Q[j], b[j], e[j])
    OBVIOUS
  <2>3. /\ a.processed \in Int /\ P[i] <= a.processed /\ a.processed <= Q[i]
        /\ a.original \in Int /\ b[i] <= a.original /\ a.original <= e[i]
    BY <1>1, <2>1, OnIs
  <2>4. /\ c.processed \in Int /\ P[j] <= c.processed /\ c.processed <= Q[j]
        /\ c.original \in Int /\ b[j] <= c.original /\ c.original <= e[j]
    BY <1>1, <2>2, OnIs
  <2>5. CASE i = j
    <3>1. On(c, P[i], Q[i], b[i], e[i])
      BY <2>2, <2>5
    <3>2. QED
      BY <1>1, <1>5, <2>1, <3>1, OnRises
  <2>6. CASE i < j
    <3>1. e[i] <= b[j]
      BY <2>6, BlocksApart
    <3>2. QED
      BY <1>1, <2>3, <2>4, <3>1
  <2>7. CASE j < i
    <3>1. Q[j] < P[i]
      BY <2>7, BlocksApart
    <3>2. QED
      BY <1>1, <1>5, <2>3, <2>4, <3>1
  <2>8. QED
    BY <2>5, <2>6, <2>7
<1>6. QED
  BY <1>3, <1>4, <1>5 DEF Rising

LEMMA SilenceIs == silence_samples \in Int /\ silence_samples >= SampleRate \div 100
<1> DEFINE s == SampleRate \div 100
<1>1. s \in Nat /\ SampleRate = 100 * s
  BY Rates
<1>2. silence_samples = (SampleRate * 100) \div 1000
  BY DEF silence_samples, Samples
<1>3. SampleRate * 100 = 10000 * s
  BY <1>1
<1> HIDE DEF s
<1>4. (SampleRate * 100) \div 1000 = 10 * s
  BY <1>1, <1>3
<1>5. QED
  BY <1>1, <1>2, <1>4 DEF s

LEMMA LengthIs ==
    ASSUME EnoughTail, SampleRate \div 100 <= n_window, params \in Calls, params.vad,
           SpeechFound(segments, params.vad_params, audio_length),
           NEW i \in 1..Len(segments)
    PROVE  /\ SegmentLength(segments, params.vad_params, i, params.n_samples) \in Int
           /\ SegmentLength(segments, params.vad_params, i, params.n_samples) >= SampleRate \div 100
           /\ segments[i].start \in Int /\ segments[i].end \in Int
           /\ segments[i].start <= segments[i].end
<1> DEFINE p == params.vad_params
           n == params.n_samples
           s == SampleRate \div 100
           b == segments[i].start
           e == segments[i].end
           o == IF i < Len(segments) THEN Samples(p.samples_overlap_ms) ELSE 0
<1>1. /\ b \in Int /\ e \in Int /\ b + 1 <= e
  <2>1. segments \in Seq(Speech) /\ b + 1 <= e
    BY DEF SpeechFound
  <2>2. segments[i] \in Speech
    BY <2>1, ElementOfSeq
  <2>3. QED
    BY <2>1, <2>2 DEF Speech
<1>2. s \in Nat /\ s > 0 /\ n \in Nat /\ o \in Nat /\ p \in VadParams
  BY Rates, CallIs, ParamsInt
<1>3. /\ cs_to_samples(b) \in Nat /\ cs_to_samples(b) + s <= n - 1
      /\ cs_to_samples(e) \in Int
  BY StartFits
<1>4. cs_to_samples(b) = b * s /\ cs_to_samples(e) = e * s
  BY DEF cs_to_samples
<1>5. SegmentLength(segments, p, i, n) = Smaller(cs_to_samples(e) + o, n - 1)
                                         - Smaller(cs_to_samples(b), n - 1)
  BY DEF SegmentLength, SegmentEnd, SegmentStart
<1> HIDE DEF p, n, s, b, e, o
<1>6. b * s + s <= e * s /\ b * s \in Int /\ e * s \in Int
  <2>1. (b + 1) * s <= e * s
    BY <1>1, <1>2
  <2>2. (b + 1) * s = b * s + s
    BY <1>1, <1>2
  <2>3. QED
    BY <1>1, <1>2, <2>1, <2>2
<1>7. cs_to_samples(b) + s <= cs_to_samples(e)
  BY <1>4, <1>6
<1>8. SegmentLength(segments, p, i, n) \in Int /\ SegmentLength(segments, p, i, n) >= s
  BY <1>2, <1>3, <1>5, <1>7 DEF Smaller
<1>9. QED
  BY <1>1, <1>8 DEF p, n, s, b, e

(* The blocks of the table: where the copy of each segment begins and ends, *)
(* and which times that is in the original audio.                          *)
Starts ==
    [i \in 1..Len(segments) |->
        samples_to_cs(Offsets(segments, params.vad_params, params.n_samples)[i])]

Ends ==
    [i \in 1..Len(segments) |->
        samples_to_cs(Offsets(segments, params.vad_params, params.n_samples)[i]
                      + SegmentLength(segments, params.vad_params, i, params.n_samples))]

Firsts == [i \in 1..Len(segments) |-> segments[i].start]
Lasts  == [i \in 1..Len(segments) |-> segments[i].end]

(* Two hypotheses keep every segment at least a centisecond long: a block  *)
(* of the table never shrinks to a single time with two original ones.     *)
LEMMA TableIs ==
    ASSUME EnoughTail, SampleRate \div 100 <= n_window,
           VadInv, stage = "start", params.vad
    PROVE  /\ Blocks(Len(segments), Starts, Ends, Firsts, Lasts)
           /\ \A a \in table : \E i \in 1..Len(segments) :
                 On(a, Starts[i], Ends[i], Firsts[i], Lasts[i])
           /\ \A i \in 1..Len(segments) :
                 /\ Point(Starts[i], Firsts[i]) \in table
                 /\ Point(Ends[i], Lasts[i]) \in table
                 /\ Offsets(segments, params.vad_params, params.n_samples)[i] \in Int
<1> DEFINE p == params.vad_params
           n == params.n_samples
           N == Len(segments)
           f == Offsets(segments, p, n)
           len(i) == SegmentLength(segments, p, i, n)
           s == SampleRate \div 100
           sil == silence_samples
<1>1. /\ SpeechFound(segments, p, audio_length) /\ segments # <<>> /\ params \in Calls
      /\ table = Table(segments, p, n)
  BY DEF VadInv, Vad, Segmented, SpeechCopied
<1>2. /\ segments \in Seq(Speech) /\ N \in Nat /\ N > 0 /\ p \in VadParams /\ n \in Int
      /\ s \in Nat /\ s > 0 /\ sil \in Int /\ sil >= s
  BY <1>1, CallIs, Rates, SilenceIs DEF SpeechFound
<1>3. \A i \in 1..N : /\ len(i) \in Int /\ len(i) >= s
                      /\ segments[i].start \in Int /\ segments[i].end \in Int
                      /\ segments[i].start <= segments[i].end
  BY <1>1, LengthIs
<1>4. f[1] = 0 /\ \A i \in 1..N : f[i + 1] = f[i] + IF len(i) > 0 THEN len(i) + Silence(segments, i)
                                                  ELSE 0
  <2>1. f = Offsets(segments, p, n)
    OBVIOUS
  <2> HIDE DEF f, p, n
  <2>2. QED
    BY <1>2, <2>1, OffsetsIs
<1>5. \A i \in 1..N : Silence(segments, i) = IF i < N THEN sil ELSE 0
  BY DEF Silence
<1> DEFINE P == [i \in 1..N |-> samples_to_cs(f[i])]
           Q == [i \in 1..N |-> samples_to_cs(f[i] + len(i))]
           b == [i \in 1..N |-> segments[i].start]
           e == [i \in 1..N |-> segments[i].end]
<1>6. ASSUME NEW i \in 1..(N - 1), f[i] \in Int
      PROVE  f[i + 1] \in Int /\ f[i + 1] = f[i] + len(i) + sil
  <2>1. i \in 1..N /\ i < N
    BY <1>2
  <2>2. len(i) > 0 /\ len(i) \in Int
    BY <1>2, <1>3, <2>1
  <2>3. f[i + 1] = f[i] + (len(i) + Silence(segments, i)) /\ Silence(segments, i) = sil
    BY <1>4, <1>5, <2>1, <2>2
  <2> HIDE DEF f, len, sil
  <2>4. QED
    BY <1>2, <1>6, <2>2, <2>3
<1>7. \A i \in 1..N : f[i] \in Int
  <2> DEFINE S == {m \in 0..(N - 1) : f[m + 1] \in Int}
  <2>1. 0 \in S
    BY <1>2, <1>4
  <2>2. ASSUME NEW m \in 0..((N - 1) - 1), m \in S PROVE m + 1 \in S
    <3>1. m + 1 \in 1..(N - 1) /\ m + 1 \in 0..(N - 1) /\ f[m + 1] \in Int
      BY <1>2, <2>2
    <3> HIDE DEF f
    <3>2. f[(m + 1) + 1] \in Int
      BY <1>6, <3>1
    <3>3. QED
      BY <3>1, <3>2
  <2>3. N - 1 \in Nat
    BY <1>2
  <2>4. \A m \in 0..(N - 1) : m \in S
    <3> HIDE DEF S
    <3>1. QED
      BY <2>1, <2>2, <2>3, Induction
  <2>5. \A i \in 1..N : i - 1 \in 0..(N - 1) /\ (i - 1) + 1 = i
    BY <1>2
  <2>6. QED
    BY <2>4, <2>5
<1>8. Blocks(N, P, Q, b, e)
  <2>1. P[1] = 0
    <3> DEFINE k == 2 * SampleRate
    <3>1. samples_to_cs(0) = SampleRate \div k
      BY Rates DEF samples_to_cs
    <3>2. k \in Nat /\ k > 0 /\ SampleRate \in Int /\ k * 0 <= SampleRate /\ SampleRate < k * 0 + k
      BY Rates
    <3> HIDE DEF k
    <3>3. SampleRate \div k = 0
      BY <3>2, DivUnique
    <3>4. 1 \in 1..N
      BY <1>2
    <3>5. QED
      BY <1>4, <3>1, <3>3, <3>4
  <2>2. ASSUME NEW i \in 1..N
        PROVE  /\ P[i] \in Int /\ Q[i] \in Int /\ b[i] \in Int /\ e[i] \in Int
               /\ P[i] < Q[i] /\ b[i] <= e[i]
    <3>1. P[i] = samples_to_cs(f[i]) /\ Q[i] = samples_to_cs(f[i] + len(i))
          /\ b[i] = segments[i].start /\ e[i] = segments[i].end
      OBVIOUS
    <3>2. f[i] \in Int /\ len(i) \in Int /\ s <= len(i)
      BY <1>2, <1>3, <1>7
    <3>3. /\ segments[i].start \in Int /\ segments[i].end \in Int
          /\ segments[i].start <= segments[i].end
      BY <1>3
    <3> HIDE DEF f, len, P, Q, b, e
    <3>4. f[i] + len(i) \in Int /\ f[i] + s <= f[i] + len(i)
      BY <1>2, <3>2
    <3>5. samples_to_cs(f[i]) + 1 <= samples_to_cs(f[i] + len(i))
      BY <3>2, <3>4, CsMono
    <3>6. P[i] \in Int /\ Q[i] \in Int
      BY <3>1, <3>2, <3>4, Conversions
    <3>7. QED
      BY <3>1, <3>3, <3>5, <3>6
  <2>3. ASSUME NEW i \in 1..(N - 1)
        PROVE  Q[i] < P[i + 1] /\ e[i] <= b[i + 1]
    <3>1. i \in 1..N /\ i + 1 \in 1..N
      BY <1>2
    <3>2. P[i + 1] = samples_to_cs(f[i + 1]) /\ Q[i] = samples_to_cs(f[i] + len(i))
          /\ b[i + 1] = segments[i + 1].start /\ e[i] = segments[i].end
      BY <3>1
    <3>3. segments[i].end <= segments[i + 1].start
      BY <1>1 DEF SpeechFound
    <3>4. f[i] \in Int /\ len(i) \in Int /\ f[i + 1] \in Int /\ f[i + 1] = f[i] + len(i) + sil
      BY <1>3, <1>6, <1>7, <3>1
    <3> HIDE DEF f, len, P, Q, b, e, s, sil
    <3>5. f[i] + len(i) \in Int /\ (f[i] + len(i)) + s <= f[i + 1]
      BY <1>2, <3>4
    <3>6. samples_to_cs(f[i] + len(i)) + 1 <= samples_to_cs(f[i + 1])
      BY <3>4, <3>5, CsMono DEF s
    <3>7. samples_to_cs(f[i] + len(i)) \in Int /\ samples_to_cs(f[i + 1]) \in Int
      BY <3>4, <3>5, Conversions
    <3>8. QED
      BY <3>2, <3>3, <3>6, <3>7
  <2> HIDE DEF P, Q, b, e
  <2>4. QED
    BY <1>2, <2>1, <2>2, <2>3 DEF Blocks
<1>9. ASSUME NEW a \in table
      PROVE  \E i \in 1..N : On(a, P[i], Q[i], b[i], e[i])
  <2>1. PICK i \in 1..N : a \in SegmentPoints(segments, p, i, n) \cup
            (IF i < Len(segments) THEN SilencePoints(segments, p, i, n) ELSE {})
    <3>1. DOMAIN segments = 1..N
      BY <1>2
    <3>2. QED
      BY <1>1, <3>1 DEF Table
  <2>2. \A k \in 1..N : /\ P[k] = samples_to_cs(f[k]) /\ Q[k] = samples_to_cs(f[k] + len(k))
                        /\ b[k] = segments[k].start /\ e[k] = segments[k].end
    OBVIOUS
  <2>3. \A k \in 1..N : /\ P[k] \in Int /\ Q[k] \in Int /\ b[k] \in Int /\ e[k] \in Int
                        /\ P[k] < Q[k] /\ b[k] <= e[k]
    <3> HIDE DEF P, Q, b, e
    <3>1. QED
      BY <1>8 DEF Blocks
  <2>4. \A k \in 1..N : /\ On(Point(P[k], b[k]), P[k], Q[k], b[k], e[k])
                        /\ On(Point(Q[k], e[k]), P[k], Q[k], b[k], e[k])
    <3> HIDE DEF P, Q, b, e
    <3>1. QED
      BY <2>3, EndsOn
  <2>5. SegmentPoints(segments, p, i, n) =
            {Point(P[i], b[i]), Point(Q[i], e[i])} \cup Between(Point(P[i], b[i]), Point(Q[i], e[i]))
    <3> HIDE DEF P, Q, b, e
    <3>1. QED
      BY <2>2 DEF SegmentPoints
  <2>6. CASE a \in SegmentPoints(segments, p, i, n)
    <3> HIDE DEF P, Q, b, e
    <3>1. CASE a \in Between(Point(P[i], b[i]), Point(Q[i], e[i]))
      BY <2>3, <3>1, BetweenOn
    <3>2. CASE a \in {Point(P[i], b[i]), Point(Q[i], e[i])}
      BY <2>4, <3>2
    <3>3. QED
      BY <2>5, <2>6, <3>1, <3>2
  <2>7. CASE i < N /\ a \in SilencePoints(segments, p, i, n)
    <3>1. i \in 1..(N - 1) /\ i + 1 \in 1..N
      BY <1>2, <2>7
    <3>2. f[i] + len(i) + sil = f[i + 1]
      BY <1>6, <1>7, <3>1
    <3> HIDE DEF P, Q, b, e
    <3>3. SilencePoints(segments, p, i, n) = {Point(Q[i], e[i]), Point(P[i + 1], b[i + 1])}
      BY <2>2, <3>1, <3>2 DEF SilencePoints
    <3>4. QED
      BY <2>4, <2>7, <3>1, <3>3
  <2>8. QED
    BY <2>1, <2>6, <2>7
<1>10. ASSUME NEW i \in 1..N
       PROVE  Point(P[i], b[i]) \in table /\ Point(Q[i], e[i]) \in table
  <2>1. DOMAIN segments = 1..N
    BY <1>2
  <2>2. len(i) > 0
    BY <1>2, <1>3
  <2>3. SegmentPoints(segments, p, i, n) \subseteq table
    BY <1>1, <2>1, <2>2 DEF Table
  <2>4. {Point(P[i], b[i]), Point(Q[i], e[i])} \subseteq SegmentPoints(segments, p, i, n)
    BY DEF SegmentPoints
  <2>5. QED
    BY <2>3, <2>4
<1>11. P = Starts /\ Q = Ends /\ b = Firsts /\ e = Lasts
  BY DEF Starts, Ends, Firsts, Lasts
<1> HIDE DEF P, Q, b, e
<1>12. QED
  BY <1>7, <1>8, <1>9, <1>10, <1>11

LEMMA RisingConsistent ==
    ASSUME NEW M \in Nat, NEW tab, Rising(tab, M)
    PROVE  TableConsistent(tab)
<1> SUFFICES ASSUME NEW x \in tab, NEW y \in tab, x.processed = y.processed
             PROVE  x.original = y.original
  BY DEF TableConsistent
<1>1. x.processed \in Int /\ x.original \in Int /\ y.original \in Int
  BY DEF Rising
<1>2. x.original <= y.original /\ y.original <= x.original
  BY <1>1 DEF Rising
<1>3. QED
  BY <1>1, <1>2

(* The original times rise with the times in the copied speech.            *)
THEOREM MappingRises ==
    ASSUME EnoughTail, SampleRate \div 100 <= n_window
    PROVE  Spec => []TimesMonotone
<1>1. VadInv => TimesMonotone
  <2> SUFFICES ASSUME VadInv, stage = "start", params.vad
               PROVE  /\ TableConsistent(table)
                      /\ \A t \in Int : table # {} =>
                            Original(table, t) <= Original(table, t + 1)
    BY DEF TimesMonotone, Copied
  <2> DEFINE N == Len(segments)
  <2>1. /\ Blocks(N, Starts, Ends, Firsts, Lasts)
        /\ \A a \in table : \E i \in 1..N : On(a, Starts[i], Ends[i], Firsts[i], Lasts[i])
    BY TableIs
  <2> HIDE DEF N
  <2>2. PICK M \in Nat : Rising(table, M)
    <3>1. Ends[N] \in Nat /\ Rising(table, Ends[N])
      BY <2>1, BlocksRise
    <3>2. QED
      BY <3>1
  <2>3. TableConsistent(table)
    BY <2>2, RisingConsistent
  <2>4. QED
    BY <2>2, <2>3, OriginalRises
<1>2. QED
  BY VadInvariant, <1>1, PTL

-----------------------------------------------------------------------------
(* How far a time is off.  Where b to e is stretched, or pressed, to P to  *)
(* Q, a time in between is off by no more than the end is.                 *)
LEMMA OffBy ==
    ASSUME NEW x \in Int, NEW v \in Nat, v > 0, 0 <= x, x <= v, NEW d \in Nat,
           NEW low \in Int, NEW high \in Int, low <= 0, 0 <= high,
           low <= v - d, v - d <= high
    PROVE  (x * d) \div v \in Int /\ x - (x * d) \div v \in low..high
<1> DEFINE D == v - d
<1>1. D \in Int /\ d = v - D /\ x \in Nat
  OBVIOUS
<1>2. x * d \in Int /\ x * d = v * x - x * D /\ v * x \in Int /\ x * D \in Int
  <2>1. x * (v - D) = x * v - x * D
    BY <1>1
  <2>2. x * v = v * x
    OBVIOUS
  <2>3. QED
    BY <1>1, <2>1, <2>2
<1>3. /\ v * high \in Int /\ v * low \in Int /\ 0 <= v * high /\ v * low <= 0
      /\ v * (x - high) = v * x - v * high /\ v * (x - low) = v * x - v * low
  <2>1. \A a, c \in Nat : 0 <= a * c
    OBVIOUS
  <2>2. v * (-low) = -(v * low) /\ -low \in Nat /\ high \in Nat
    OBVIOUS
  <2>3. QED
    BY <2>1, <2>2
<1> HIDE DEF D
<1>4. v * low <= x * D /\ x * D <= v * high
  <2>1. low <= D /\ D <= high
    BY DEF D
  <2>2. \A a, c, g, h \in Nat : a <= g /\ c <= h => a * c <= g * h
    <3> TAKE a, c, g, h \in Nat
    <3>1. a <= g => a * c <= g * c
      OBVIOUS
    <3>2. c <= h => g * c <= g * h
      OBVIOUS
    <3>3. a * c \in Int /\ g * c \in Int /\ g * h \in Int
      OBVIOUS
    <3>4. QED
      BY <3>1, <3>2, <3>3
  <2>3. CASE 0 <= D
    <3>1. D \in Nat /\ high \in Nat /\ D <= high
      BY <1>1, <2>1, <2>3
    <3>2. x * D <= v * high
      BY <1>1, <2>2, <3>1
    <3>3. 0 <= x * D
      BY <1>1, <3>1
    <3>4. QED
      BY <1>2, <1>3, <3>2, <3>3
  <2>4. CASE D < 0
    <3> DEFINE m == -D
               k == -low
    <3>1. m \in Nat /\ k \in Nat /\ m <= k /\ D = -m /\ low = -k
      BY <1>1, <2>1, <2>4
    <3> HIDE DEF m, k
    <3>2. x * m <= v * k /\ 0 <= x * m
      BY <1>1, <2>2, <3>1
    <3>3. x * D = -(x * m) /\ v * low = -(v * k) /\ x * m \in Int /\ v * k \in Int
      BY <1>1, <3>1
    <3>4. QED
      BY <1>3, <3>2, <3>3
  <2>5. QED
    BY <1>1, <2>3, <2>4
<1>5. v * (x - high) <= x * d /\ x * d <= v * (x - low)
  BY <1>2, <1>3, <1>4
<1>6. (v * (x - high)) \div v = x - high /\ (v * (x - low)) \div v = x - low
  <2>1. \A y \in Int : v * y \in Int /\ v * y <= v * y /\ v * y < v * y + v
    OBVIOUS
  <2>2. \A y \in Int : (v * y) \div v = y
    BY <2>1, DivUnique
  <2>3. QED
    BY <2>2
<1>7. x - high \in Int /\ x - low \in Int /\ v * (x - high) \in Int /\ v * (x - low) \in Int
  OBVIOUS
<1>8. /\ (v * (x - high)) \div v <= (x * d) \div v
      /\ (x * d) \div v <= (v * (x - low)) \div v
  BY <1>2, <1>5, <1>7, DivMono
<1>9. (x * d) \div v \in Int
  BY <1>2, DivIs
<1> DEFINE q == (x * d) \div v
<1>10. x - high <= q /\ q <= x - low /\ q \in Int
  BY <1>6, <1>8, <1>9
<1> HIDE DEF q
<1>11. x - q \in low..high
  BY <1>10
<1>12. QED
  BY <1>10, <1>11 DEF q

(* A point of the table is found as it is. *)
LEMMA OriginalAt ==
    ASSUME NEW M \in Nat, NEW tab, Rising(tab, M), NEW a \in tab
    PROVE  Original(tab, a.processed) = a.original
<1> DEFINE t == a.processed
           f == First(tab)
           z == Final(tab)
<1>1. \A c \in tab : c.processed \in 0..M /\ c.processed \in Int /\ c.original \in Int
  BY DEF Rising
<1>2. \A c \in tab : c.processed = t => c.original = a.original
  BY RisingConsistent DEF TableConsistent
<1>3. /\ f \in tab /\ z \in tab
      /\ \A b \in tab : f.processed <= b.processed /\ b.processed <= z.processed
  BY <1>1, FirstIs, FinalIs
<1>4. CASE t <= f.processed
  <2>1. f.processed = t
    BY <1>1, <1>3, <1>4
  <2>2. Original(tab, t) = f.original
    BY <1>4 DEF Original
  <2>3. QED
    BY <1>2, <1>3, <2>1, <2>2
<1>5. CASE f.processed < t /\ z.processed <= t
  <2>1. z.processed = t
    BY <1>1, <1>3, <1>5
  <2>2. ~(t <= f.processed) /\ t >= z.processed
    BY <1>1, <1>3, <1>5
  <2>3. Original(tab, t) = z.original
    BY <2>2 DEF Original
  <2>4. QED
    BY <1>2, <1>3, <2>1, <2>3
<1>6. CASE f.processed < t /\ t < z.processed
  <2> DEFINE u == Above(tab, t)
  <2>1. u \in tab /\ t <= u.processed /\ u.processed <= t
    <3>1. t \in Int /\ t >= t
      BY <1>1
    <3>2. QED
      BY <1>6, <3>1, Lookup
  <2>2. u.processed = t
    BY <1>1, <2>1
  <2>3. ~(t <= f.processed) /\ ~(t >= z.processed)
    BY <1>1, <1>3, <1>6
  <2>4. Original(tab, t) = u.original
    BY <2>2, <2>3 DEF Original, Above
  <2>5. QED
    BY <1>2, <2>1, <2>2, <2>4
<1>7. QED
  BY <1>1, <1>3, <1>4, <1>5, <1>6

LEMMA PointOff ==
    ASSUME NEW P \in Int, NEW Q \in Int, P < Q, NEW b \in Int, NEW e \in Int, b <= e,
           NEW a, On(a, P, Q, b, e),
           NEW low \in Int, NEW high \in Int, low <= 0, 0 <= high,
           low <= (Q - P) - (e - b), (Q - P) - (e - b) <= high
    PROVE  b + (a.processed - P) - a.original \in low..high
<1> DEFINE x == a.processed - P
           v == Q - P
           d == e - b
<1>1. /\ x \in Int /\ 0 <= x /\ x <= v /\ v \in Nat /\ v > 0 /\ d \in Nat
      /\ low <= v - d /\ v - d <= high /\ a.original = b + (x * d) \div v
  BY DEF On
<1> HIDE DEF x, v, d
<1>2. (x * d) \div v \in Int /\ x - (x * d) \div v \in low..high
  BY <1>1, OffBy
<1>3. b + x - a.original \in low..high
  BY <1>1, <1>2
<1>4. QED
  BY <1>3 DEF x

(* Two blocks have no time in common. *)
LEMMA OneBlock ==
    ASSUME NEW N, NEW P, NEW Q, NEW b, NEW e, Blocks(N, P, Q, b, e),
           NEW i \in 1..N, NEW j \in 1..N, NEW t \in Int,
           P[i] <= t, t <= Q[i], P[j] <= t, t <= Q[j]
    PROVE  i = j
<1>1. P[i] \in Int /\ Q[i] \in Int /\ P[j] \in Int /\ Q[j] \in Int /\ N \in Nat
  BY DEF Blocks
<1>2. i < j => Q[i] < P[j]
  BY BlocksApart
<1>3. j < i => Q[j] < P[i]
  BY BlocksApart
<1>4. QED
  BY <1>1, <1>2, <1>3

(* So no time is off by more than the ends of its block. *)
LEMMA BlocksOff ==
    ASSUME NEW N, NEW P, NEW Q, NEW b, NEW e, Blocks(N, P, Q, b, e),
           NEW tab, \A a \in tab : \E i \in 1..N : On(a, P[i], Q[i], b[i], e[i]),
           \A i \in 1..N : Point(P[i], b[i]) \in tab /\ Point(Q[i], e[i]) \in tab,
           NEW i \in 1..N, NEW t \in P[i]..Q[i],
           NEW low \in Int, NEW high \in Int, low <= 0, 0 <= high,
           low <= (Q[i] - P[i]) - (e[i] - b[i]), (Q[i] - P[i]) - (e[i] - b[i]) <= high
    PROVE  b[i] + (t - P[i]) - Original(tab, t) \in low..high
<1>1. /\ N \in Nat /\ P[i] \in Int /\ Q[i] \in Int /\ b[i] \in Int /\ e[i] \in Int
      /\ P[i] < Q[i] /\ b[i] <= e[i]
  BY DEF Blocks
<1>2. PICK M \in Nat : Rising(tab, M)
  <2>1. Q[N] \in Nat /\ Rising(tab, Q[N])
    BY BlocksRise
  <2>2. QED
    BY <2>1
<1>3. t \in Int /\ P[i] <= t /\ t <= Q[i]
  BY <1>1
<1>4. \A a \in tab : a.processed \in 0..M /\ a.processed \in Int /\ a.original \in Int
  BY <1>2 DEF Rising
<1>5. ASSUME NEW a \in tab, P[i] <= a.processed, a.processed <= Q[i]
      PROVE  /\ On(a, P[i], Q[i], b[i], e[i])
             /\ b[i] + (a.processed - P[i]) - a.original \in low..high
  <2>1. PICK j \in 1..N : On(a, P[j], Q[j], b[j], e[j])
    OBVIOUS
  <2>2. P[j] \in Int /\ Q[j] \in Int
    BY DEF Blocks
  <2>3. P[j] <= a.processed /\ a.processed <= Q[j] /\ a.processed \in Int
    BY <1>4, <2>1, <2>2 DEF On
  <2>4. i = j
    BY <1>5, <2>3, OneBlock
  <2>5. On(a, P[i], Q[i], b[i], e[i])
    BY <2>1, <2>4
  <2>6. QED
    BY <1>1, <2>5, PointOff
<1>6. CASE \E a \in tab : a.processed = t
  <2>1. PICK a \in tab : a.processed = t
    BY <1>6
  <2>2. Original(tab, t) = a.original
    BY <1>2, <2>1, OriginalAt
  <2>3. b[i] + (a.processed - P[i]) - a.original \in low..high
    BY <1>3, <1>5, <2>1
  <2>4. QED
    BY <2>1, <2>2, <2>3
<1>7. CASE \A a \in tab : a.processed # t
  <2> DEFINE g == Point(P[i], b[i])
             h == Point(Q[i], e[i])
             u == Above(tab, t)
             l == Below(tab, t)
             f == First(tab)
             z == Final(tab)
  <2>1. g \in tab /\ h \in tab /\ g.processed = P[i] /\ h.processed = Q[i]
    BY DEF Point
  <2>2. P[i] < t /\ t < Q[i]
    <3>1. P[i] # t /\ Q[i] # t
      BY <1>7, <2>1
    <3>2. QED
      BY <1>1, <1>3, <3>1
  <2>3. f.processed < t /\ t < z.processed
    <3>1. /\ f \in tab /\ z \in tab
          /\ \A c \in tab : f.processed <= c.processed /\ c.processed <= z.processed
      BY <1>4, <2>1, FirstIs, FinalIs
    <3>2. f.processed <= P[i] /\ Q[i] <= z.processed /\ f.processed \in Int /\ z.processed \in Int
      BY <1>4, <2>1, <3>1
    <3> HIDE DEF f, z
    <3>3. QED
      BY <1>1, <1>3, <2>2, <3>2
  <2>4. /\ u \in tab /\ l \in tab /\ l.processed < t /\ t <= u.processed
        /\ \A a \in tab : a.processed >= t => u.processed <= a.processed
        /\ \A a \in tab : a.processed < t => a.processed <= l.processed
        /\ l.original <= u.original
        /\ Original(tab, t) = Interpolated(l, u, t)
    BY <1>2, <1>3, <2>1, <2>3, Lookup
  <2>5. /\ u.processed \in Int /\ l.processed \in Int /\ u.original \in Int /\ l.original \in Int
    BY <1>4, <2>4
  <2>6. P[i] <= l.processed /\ u.processed <= Q[i]
    <3>1. g.processed < t /\ h.processed >= t
      BY <1>1, <1>3, <2>1, <2>2
    <3>2. QED
      BY <2>1, <2>4, <3>1
  <2> HIDE DEF g, h, u, l, f, z
  <2> DEFINE lateL == b[i] + (l.processed - P[i]) - l.original
             lateU == b[i] + (u.processed - P[i]) - u.original
             x == t - l.processed
             v == u.processed - l.processed
             d == u.original - l.original
  <2>7. P[i] <= u.processed /\ l.processed <= Q[i]
    BY <1>1, <1>3, <2>4, <2>5, <2>6
  <2>8. lateL \in low..high /\ lateU \in low..high
    BY <1>5, <2>4, <2>6, <2>7
  <2>9. /\ x \in Int /\ v \in Nat /\ v > 0 /\ 0 <= x /\ x <= v /\ d \in Nat
        /\ v - d = lateU - lateL /\ lateL \in Int /\ lateU \in Int
        /\ b[i] + (t - P[i]) - l.original = lateL + x
    BY <1>1, <1>3, <2>4, <2>5
  <2>10. Original(tab, t) = l.original + (x * d) \div v
    BY <2>4 DEF Interpolated
  <2> HIDE DEF lateL, lateU, x, v, d
  <2>11. /\ low - lateL \in Int /\ high - lateL \in Int /\ low - lateL <= 0 /\ 0 <= high - lateL
         /\ low - lateL <= v - d /\ v - d <= high - lateL
    BY <2>8, <2>9
  <2>12. (x * d) \div v \in Int /\ x - (x * d) \div v \in (low - lateL)..(high - lateL)
    BY <2>9, <2>11, OffBy
  <2> DEFINE q == (x * d) \div v
  <2>13. /\ q \in Int /\ x - q \in (low - lateL)..(high - lateL)
         /\ Original(tab, t) = l.original + q
    BY <2>10, <2>12
  <2> HIDE DEF q
  <2>14. b[i] + (t - P[i]) - Original(tab, t) = lateL + (x - q)
    BY <1>1, <1>3, <2>5, <2>9, <2>13
  <2>15. QED
    BY <2>8, <2>9, <2>13, <2>14
<1>8. QED
  BY <1>6, <1>7

(* How much longer, or shorter, a copy is than its segment.                *)
LEMMA CsShift ==
    ASSUME NEW a \in Int, NEW k \in Int
    PROVE  samples_to_cs(a + k * (SampleRate \div 100)) = samples_to_cs(a) + k
<1> DEFINE s == SampleRate \div 100
           m == 2 * SampleRate
           x == 2 * 100 * a + SampleRate
           y == 2 * 100 * (a + k * s) + SampleRate
<1>1. m \in Nat /\ m > 0 /\ x \in Int /\ y \in Int /\ k * s \in Int
  BY Rates
<1>2. y = x + m * k /\ m * k \in Int
  <2>1. s \in Nat /\ SampleRate = 100 * s
    BY Rates
  <2>2. m * k = 200 * (k * s)
    BY <2>1
  <2>3. QED
    BY <1>1, <2>1, <2>2
<1>3. samples_to_cs(a) = x \div m /\ samples_to_cs(a + k * s) = y \div m
  BY DEF samples_to_cs
<1> DEFINE d == x \div m
<1>4. d \in Int /\ m * d \in Int /\ m * d <= x /\ x < m * d + m
  <2> HIDE DEF x, m
  <2>1. QED
    BY <1>1, DivIs
<1>5. m * (d + k) = m * d + m * k
  <2> HIDE DEF d, m
  <2>1. QED
    BY <1>1, <1>4
<1> HIDE DEF d, x, y, m
<1>6. d + k \in Int /\ m * (d + k) <= y /\ y < m * (d + k) + m
  BY <1>1, <1>2, <1>4, <1>5
<1>7. y \div m = d + k
  BY <1>1, <1>6, DivUnique
<1>8. QED
  BY <1>3, <1>7 DEF d

LEMMA Stretch ==
    ASSUME NEW f \in Int, NEW k \in Int, NEW len \in Int, NEW low \in Int, NEW high \in Int,
           low * (SampleRate \div 100) <= len - k * (SampleRate \div 100),
           len - k * (SampleRate \div 100) <= high * (SampleRate \div 100)
    PROVE  samples_to_cs(f + len) - samples_to_cs(f) - k \in low..high
<1> DEFINE s == SampleRate \div 100
<1>1. s \in Nat /\ k * s \in Int /\ low * s \in Int /\ high * s \in Int
      /\ (k + low) * s = k * s + low * s /\ (k + high) * s = k * s + high * s
  BY Rates
<1>2. f + (k + low) * s <= f + len /\ f + len <= f + (k + high) * s
      /\ f + (k + low) * s \in Int /\ f + (k + high) * s \in Int /\ f + len \in Int
  BY <1>1
<1>3. /\ samples_to_cs(f + (k + low) * s) = samples_to_cs(f) + (k + low)
      /\ samples_to_cs(f + (k + high) * s) = samples_to_cs(f) + (k + high)
  BY CsShift
<1>4. /\ samples_to_cs(f + (k + low) * s) <= samples_to_cs(f + len)
      /\ samples_to_cs(f + len) <= samples_to_cs(f + (k + high) * s)
  BY <1>2, CsMono
<1>5. samples_to_cs(f) \in Int /\ samples_to_cs(f + len) \in Int
  BY <1>2, Conversions
<1>6. QED
  BY <1>3, <1>4, <1>5

Shorter(p) == -samples_to_cs(n_window) - 1
Longer(p)  == p.samples_overlap_ms \div 10 + 1

LEMMA Slack ==
    ASSUME NEW p \in VadParams
    PROVE  /\ Shorter(p) \in Int /\ Shorter(p) <= 0 /\ Longer(p) \in Int /\ 0 <= Longer(p)
           /\ Samples(p.samples_overlap_ms) <= Longer(p) * (SampleRate \div 100)
           /\ 2 * (Shorter(p) * (SampleRate \div 100)) <= -(2 * n_window) - SampleRate \div 100
<1> DEFINE s == SampleRate \div 100
           o == p.samples_overlap_ms
           h == o \div 10 + 1
           w == samples_to_cs(n_window)
<1>1. s \in Nat /\ s > 0 /\ SampleRate = 100 * s /\ n_window \in Nat /\ o \in Nat
  BY Rates DEF VadParams
<1>2. h \in Nat /\ o <= 10 * h
  <2>1. o \in Int /\ 10 \in Nat /\ 10 > 0
    BY <1>1
  <2> HIDE DEF o
  <2>2. o \div 10 \in Int /\ 10 * (o \div 10) <= o /\ o < 10 * (o \div 10) + 10
    BY <2>1, DivIs
  <2>3. QED
    BY <1>1, <2>2
<1>3. Samples(o) <= h * s
  <2> DEFINE a == SampleRate * o
  <2>1. a \in Int /\ h * s \in Int /\ a <= 1000 * (h * s)
    <3> HIDE DEF h, o
    <3>1. s * o <= s * (10 * h)
      BY <1>1, <1>2
    <3>2. s * (10 * h) = 10 * (h * s) /\ SampleRate * o = 100 * (s * o)
          /\ s * o \in Int /\ h * s \in Int
      BY <1>1, <1>2
    <3>3. QED
      BY <3>1, <3>2
  <2>2. Samples(o) = a \div 1000
    BY DEF Samples
  <2> DEFINE m == h * s
  <2>3. m \in Int /\ a <= 1000 * m
    BY <2>1
  <2> HIDE DEF a, m, h, o
  <2>4. a \div 1000 \in Int /\ 1000 * (a \div 1000) <= a
    BY <2>1, DivIs
  <2>5. a \div 1000 <= m
    BY <2>1, <2>3, <2>4
  <2>6. QED
    BY <2>2, <2>5 DEF m
<1>4. w \in Int /\ 2 * n_window < 2 * (w * s) + s /\ w * s \in Int
  <2>1. cs_to_samples(w) = w * s
    BY DEF cs_to_samples
  <2>2. n_window \in Int
    BY <1>1
  <2>3. cs_to_samples(w) \in Int /\ 2 * n_window < 2 * cs_to_samples(w) + s
    BY <2>2, CsBack
  <2>4. w \in Int
    BY <2>2, Conversions
  <2>5. QED
    BY <2>1, <2>3, <2>4
<1>5. 0 <= w
  <2> SUFFICES ASSUME w < 0 PROVE FALSE
    BY <1>4
  <2>1. w + 1 <= 0 /\ (w + 1) * s = w * s + s
    BY <1>1, <1>4
  <2>2. (w + 1) * s <= 0
    <3> DEFINE m == -(w + 1)
    <3>1. m \in Nat /\ (w + 1) * s = -(m * s)
      BY <1>1, <1>4, <2>1
    <3> HIDE DEF m, w
    <3>2. 0 <= m * s
      BY <1>1, <3>1
    <3>3. QED
      BY <1>1, <3>1, <3>2
  <2> HIDE DEF w, s
  <2>3. QED
    BY <1>1, <1>4, <2>1, <2>2
<1>6. (-w - 1) * s = -(w * s) - s
  BY <1>1, <1>4
<1> HIDE DEF w, h, o, s
<1>7. Shorter(p) = -w - 1 /\ Longer(p) = h
  BY DEF Shorter, Longer, w, h, o
<1>8. 2 * ((-w - 1) * s) <= -(2 * n_window) - s
  BY <1>1, <1>4, <1>6
<1>9. QED
  BY <1>2, <1>3, <1>4, <1>5, <1>7, <1>8 DEF s, o

(* The copy of a segment has the overlap with the next one besides, and    *)
(* lacks what of it is in an incomplete window behind the audio.           *)
LEMMA LengthOff ==
    ASSUME EnoughTail, params \in Calls, params.vad,
           SpeechFound(segments, params.vad_params, audio_length),
           NEW i \in 1..Len(segments),
           NEW k, k = segments[i].end - segments[i].start,
           NEW len, len = SegmentLength(segments, params.vad_params, i, params.n_samples)
    PROVE  /\ k \in Int /\ len \in Int
           /\ Shorter(params.vad_params) * (SampleRate \div 100) <= len - k * (SampleRate \div 100)
           /\ len - k * (SampleRate \div 100) <= Longer(params.vad_params) * (SampleRate \div 100)
<1> DEFINE p == params.vad_params
           n == params.n_samples
           s == SampleRate \div 100
           b == segments[i].start
           e == segments[i].end
           o == IF i < Len(segments) THEN Samples(p.samples_overlap_ms) ELSE 0
           low == Shorter(p) * s
           high == Longer(p) * s
<1>1. /\ b \in Int /\ e \in Int /\ e <= samples_to_cs(audio_length)
  <2>1. segments \in Seq(Speech) /\ e <= samples_to_cs(audio_length)
    BY DEF SpeechFound
  <2>2. segments[i] \in Speech
    BY <2>1, ElementOfSeq
  <2>3. QED
    BY <2>1, <2>2 DEF Speech
<1>2. s \in Nat /\ s > 0 /\ n \in Nat /\ o \in Nat /\ p \in VadParams /\ n_window \in Nat
  BY Rates, CallIs, ParamsInt
<1>3. /\ cs_to_samples(b) \in Nat /\ cs_to_samples(b) + s <= n - 1
      /\ cs_to_samples(e) \in Int /\ cs_to_samples(b) <= cs_to_samples(e)
  BY StartFits
<1>4. cs_to_samples(b) = b * s /\ cs_to_samples(e) = e * s
  BY DEF cs_to_samples
<1>5. len = Smaller(cs_to_samples(e) + o, n - 1) - Smaller(cs_to_samples(b), n - 1)
  BY DEF SegmentLength, SegmentEnd, SegmentStart
<1>6. 2 * cs_to_samples(e) <= 2 * audio_length + s /\ audio_length < n + n_window
      /\ audio_length \in Nat
  <2>1. audio_length \in Nat /\ audio_length < n + n_window
    BY ChunksNat
  <2> DEFINE c == samples_to_cs(audio_length)
  <2>2. c \in Int /\ 2 * cs_to_samples(c) <= 2 * audio_length + s /\ cs_to_samples(c) \in Int
    BY <2>1, Conversions, CsBack
  <2>3. cs_to_samples(e) <= cs_to_samples(c)
    <3>1. e <= c
      BY <1>1
    <3> HIDE DEF c, e, s
    <3>2. e * s <= c * s
      BY <1>1, <1>2, <2>2, <3>1
    <3>3. QED
      BY <3>2 DEF cs_to_samples, s
  <2> HIDE DEF c, e, s, n
  <2>4. QED
    BY <1>2, <1>3, <2>1, <2>2, <2>3
<1>7. /\ low \in Int /\ high \in Int /\ o <= high /\ low <= 0 /\ 0 <= high
      /\ 2 * low <= -(2 * n_window) - s
  <2>1. Shorter(p) \in Int /\ Longer(p) \in Int /\ Samples(p.samples_overlap_ms) <= high
        /\ 2 * low <= -(2 * n_window) - s
    BY <1>2, Slack
  <2>2. low \in Int /\ high \in Int
    BY <1>2, <2>1
  <2>3. Samples(p.samples_overlap_ms) \in Nat
    BY <1>2, ParamsInt
  <2> HIDE DEF low, high, s
  <2>4. QED
    BY <1>2, <2>1, <2>2, <2>3
<1>8. k * s = e * s - b * s /\ k \in Int
  BY <1>1, <1>2
<1> HIDE DEF p, n, s, b, e, o, low, high
<1>9. len \in Int /\ len = Smaller(cs_to_samples(e) + o, n - 1) - cs_to_samples(b)
  BY <1>2, <1>3, <1>5 DEF Smaller
<1>10. len - k * s = Smaller(o, n - 1 - cs_to_samples(e))
  <2> DEFINE c == cs_to_samples(e)
             a == cs_to_samples(b)
             r == k * s
  <2>1. r = c - a /\ c \in Int /\ a \in Int /\ len = Smaller(c + o, n - 1) - a
    BY <1>3, <1>4, <1>8, <1>9
  <2> HIDE DEF c, a, r
  <2>2. Smaller(c + o, n - 1) - c = Smaller(o, n - 1 - c)
    BY <1>2, <2>1 DEF Smaller
  <2>3. Smaller(c + o, n - 1) \in Int
    BY <1>2, <2>1 DEF Smaller
  <2>4. len - r = Smaller(o, n - 1 - c)
    BY <2>1, <2>2, <2>3
  <2>5. QED
    BY <2>4 DEF c, r
<1>11. low <= len - k * s /\ len - k * s <= high
  BY <1>2, <1>3, <1>6, <1>7, <1>10 DEF Smaller
<1>12. QED
  BY <1>8, <1>9, <1>11 DEF low, high, p, s

(* The time a segment of speech is mapped to is no further from where its  *)
(* samples were copied from than the overlap, or, where the last window of *)
(* the audio is incomplete, than that window, up to rounding.              *)
THEOREM TimesAreFaithful ==
    ASSUME EnoughTail, SampleRate \div 100 <= n_window
    PROVE  Spec => []TimesFaithful
<1>1. VadInv => TimesFaithful
  <2> DEFINE p == params.vad_params
             n == params.n_samples
             f(i) == Offsets(segments, p, n)[i]
             len(i) == SegmentLength(segments, p, i, n)
             N == Len(segments)
  <2> SUFFICES ASSUME VadInv, stage = "start", params.vad,
                      NEW i \in DOMAIN segments,
                      NEW t \in samples_to_cs(f(i))..samples_to_cs(f(i) + len(i))
               PROVE  segments[i].start + (t - samples_to_cs(f(i))) - Original(table, t)
                          \in Shorter(p)..Longer(p)
    BY DEF TimesFaithful, Copied, Shorter, Longer
  <2>1. /\ SpeechFound(segments, p, audio_length) /\ params \in Calls
        /\ segments \in Seq(Speech)
    BY DEF VadInv, Vad, Segmented, SpeechFound
  <2>2. i \in 1..N /\ p \in VadParams
    BY <2>1, CallIs
  <2>3. /\ Blocks(N, Starts, Ends, Firsts, Lasts)
        /\ \A a \in table : \E j \in 1..N : On(a, Starts[j], Ends[j], Firsts[j], Lasts[j])
        /\ \A j \in 1..N : /\ Point(Starts[j], Firsts[j]) \in table
                           /\ Point(Ends[j], Lasts[j]) \in table
                           /\ f(j) \in Int
    BY TableIs
  <2>4. /\ Starts[i] = samples_to_cs(f(i)) /\ Ends[i] = samples_to_cs(f(i) + len(i))
        /\ Firsts[i] = segments[i].start /\ Lasts[i] = segments[i].end
    BY <2>2 DEF Starts, Ends, Firsts, Lasts
  <2> DEFINE k == segments[i].end - segments[i].start
             low == Shorter(p)
             high == Longer(p)
  <2>5. /\ k \in Int /\ len(i) \in Int
        /\ low * (SampleRate \div 100) <= len(i) - k * (SampleRate \div 100)
        /\ len(i) - k * (SampleRate \div 100) <= high * (SampleRate \div 100)
    BY <2>1, <2>2, LengthOff
  <2>6. low \in Int /\ low <= 0 /\ high \in Int /\ 0 <= high
    BY <2>2, Slack
  <2>7. f(i) \in Int
    BY <2>2, <2>3
  <2> HIDE DEF f, len, N, low, high, k
  <2>8. samples_to_cs(f(i) + len(i)) - samples_to_cs(f(i)) - k \in low..high
    BY <2>5, <2>6, <2>7, Stretch
  <2>9. /\ Starts[i] \in Int /\ Ends[i] \in Int /\ Firsts[i] \in Int /\ Lasts[i] \in Int
    BY <2>2, <2>3 DEF Blocks
  <2>10. k = Lasts[i] - Firsts[i]
    BY <2>4 DEF k
  <2>11. /\ low <= (Ends[i] - Starts[i]) - (Lasts[i] - Firsts[i])
         /\ (Ends[i] - Starts[i]) - (Lasts[i] - Firsts[i]) <= high
    BY <2>4, <2>6, <2>8, <2>9, <2>10
  <2>12. t \in Starts[i]..Ends[i]
    BY <2>4
  <2>13. Firsts[i] + (t - Starts[i]) - Original(table, t) \in low..high
    BY <2>2, <2>3, <2>6, <2>11, <2>12, BlocksOff
  <2>14. QED
    BY <2>4, <2>13 DEF low, high
<1>2. QED
  BY VadInvariant, <1>1, PTL

=============================================================================
