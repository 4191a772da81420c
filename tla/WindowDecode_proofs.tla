------------------------- MODULE WindowDecode_proofs -------------------------
(***************************************************************************)
(* For every vocabulary, context length, set of parameters and number of   *)
(* decoders, and whatever is sampled: the decoding of a window goes        *)
(* forward only, ranks results that exist, yields what the loop over the   *)
(* windows relies on, and never reads a result of another temperature, if  *)
(* the number of decoders does not shrink.                                 *)
(*                                                                         *)
(* What a decoder holds (result_len, has_ts, seek_delta) is about the      *)
(* tokens it has processed: all of them, or all but the one just sampled.  *)
(* The second part is about the cache that the decoders share.             *)
(***************************************************************************)
EXTENDS WindowDecode, FiniteSetTheorems, SequenceTheorems, WellFoundedInduction,
        NaturalsInduction, TLAPS

Ids == 0..(MaxDecoders - 1)

Phases == {"temperature", "prompt", "sample", "copy", "move", "update", "decode",
           "rank", "done", "error"}

Busy == {"sample", "copy", "move", "update", "decode"}

(* Where the decoding of the window is.                                    *)
Control ==
    /\ phase \in Phases /\ remaining \in Remaining /\ params \in Params
    /\ it \in 0..(Temperatures - 1) /\ n_cur \in 1..MaxDecoders
    /\ i \in 0..n_max /\ turn \in Ids /\ best \in Ids /\ rc \in {0, -7, -8, -9}
    /\ decoders \in [Ids -> Decoder] /\ kv_n_dec \in 1..MaxDecoders
    /\ phase \notin {"temperature", "error"} => n_cur = Decoders(params, it)
    /\ phase \in Busy \cup {"prompt"} => n_cur <= kv_n_dec
    /\ phase \in Busy => Alive # {} /\ i < n_max
    /\ phase \in {"copy", "move"} => turn \in Alive
    /\ phase \in Busy \cup {"prompt"} =>
          \E n \in PromptLengths : prompt = [k \in 1..n |-> -k]
    /\ Len(prompt) \in PromptLengths \cup {0}
    /\ phase = "prompt" => \A j \in Current : decoders[j] = FreshDecoder
    /\ phase = "sample" => \A j \in Alive : Len(decoders[j].tokens) = i
    /\ phase \in {"copy", "move", "update", "decode"} =>
          \A j \in Alive : Len(decoders[j].tokens) = i + 1

-----------------------------------------------------------------------------
(* The rules of whisper_process_logits, for token k of a sequence.         *)
Rule(p, s, k) ==
    /\ k = 1 => s[k] # Eot /\ s[k] <= Beg + max_initial_ts
    /\ s[k] >= Beg => ~p.no_timestamps
    /\ \A l \in 1..(k - 1) : s[l] >= Beg /\ s[k] >= Beg => s[l] <= s[k]
    /\ k > 1 /\ s[k - 1] >= Beg =>
          IF k = 2 \/ s[k - 2] >= Beg THEN s[k] < Beg ELSE s[k] >= Eot

Obeys(p, s) ==
    /\ Len(s) <= n_max
    /\ \A k \in 1..Len(s) : Rule(p, s, k) /\ (s[k] = Eot => k = Len(s))

(* The last timestamp among the first n tokens is at position last.        *)
LastAt(s, last, n) ==
    /\ last \in 0..n
    /\ \A k \in (last + 1)..n : s[k] <= Beg
    /\ last # 0 => s[last] > Beg

(* A decoder that goes on has followed its first n tokens.                 *)
Follows(p, d, n) ==
    /\ Obeys(p, d.tokens) /\ \A k \in 1..n : d.tokens[k] # Eot
    /\ LastAt(d.tokens, d.result_len, n)
    /\ d.has_ts <=> d.result_len # 0
    /\ d.seek_delta = IF d.result_len = 0 THEN Chunk
                      ELSE 2 * (d.tokens[d.result_len] - Beg)

Whole(p) == p.single_segment \/ p.no_timestamps

(* What a decoder yields that does not go on.                              *)
Yields(p, d) ==
    /\ Obeys(p, d.tokens) /\ Len(d.tokens) >= 1
    /\ \E last \in 0..Len(d.tokens) :
          /\ LastAt(d.tokens, last, Len(d.tokens))
          /\ \/ d.result_len = last
             \/ (last = 0 \/ Whole(p)) /\ d.result_len = Len(d.tokens)
          /\ \/ last # 0 /\ d.seek_delta = 2 * (d.tokens[last] - Beg)
             \/ (last = 0 \/ Whole(p)) /\ d.seek_delta = Chunk

Rankable(p, d) == Yields(p, d) /\ (~d.failed => d.result_len \in 1..Len(d.tokens))

Sequences ==
    /\ phase \in {"sample", "copy", "move", "update"} =>
          \A j \in Alive : Follows(params, decoders[j], i)
    /\ phase = "decode" => \A j \in Alive :
          Follows(params, decoders[j], i + 1) /\ (i = n_max - 1 => decoders[j].result_len # 0)
    /\ phase \in Busy => \A j \in Current \ Alive : Rankable(params, decoders[j])
    /\ phase = "rank" => \A j \in Current : Rankable(params, decoders[j])

(* The best decoder so far, of this temperature or an earlier one. *)
BestYields ==
    /\ phase = "temperature" => best = 0 \/ Yields(params, decoders[best])
    /\ phase \in Busy \cup {"prompt", "rank"} =>
          best \in Current \/ Yields(params, decoders[best])
    /\ phase = "done" => Yields(params, decoders[best])

DecodeInv == Control /\ Sequences /\ BestYields

-----------------------------------------------------------------------------
LEMMA WindowFacts ==
    /\ Temperatures \in Nat /\ Temperatures >= 1
    /\ MaxDecoders \in Nat /\ MaxDecoders >= 1
    /\ n_text_ctx \in Nat /\ n_max \in Nat /\ n_max >= 1
    /\ NText \in Nat /\ NText >= 1 /\ NTimestamps \in Nat /\ NTimestamps >= 1
    /\ Eot = NText /\ Beg = NText + 1 /\ Chunk = 2 * NTimestamps
    /\ Token = 0..(Beg + NTimestamps)
    /\ max_initial_ts \in Nat /\ 0 \in Ids
BY OutcomeAssumption, DecodeAssumption
   DEF OutcomeAssumption, DecodeAssumption, Eot, Beg, Chunk, Token, n_max, Ids

LEMMA ParamFacts ==
    ASSUME NEW p \in Params
    PROVE  /\ p.beam \in BOOLEAN /\ p.no_timestamps \in BOOLEAN
           /\ p.single_segment \in BOOLEAN /\ p.max_tokens \in Nat
           /\ p.best_of \in Int /\ p.beam_size \in Int
           /\ \A n \in Nat : Decoders(p, n) \in 1..MaxDecoders
<1>1. p \in [beam : BOOLEAN, best_of : Int, beam_size : Int, max_tokens : Nat,
             no_timestamps : BOOLEAN, single_segment : BOOLEAN]
      /\ p.best_of <= MaxDecoders /\ p.beam_size <= MaxDecoders
  BY DecodeAssumption DEF DecodeAssumption
<1>2. p.best_of \in Int /\ p.beam_size \in Int
  BY <1>1
<1>3. \A n \in Nat : Decoders(p, n) \in 1..MaxDecoders
  BY <1>1, <1>2, WindowFacts DEF Decoders, AtLeastOne
<1>4. QED
  BY <1>1, <1>2, <1>3

LEMMA Smallest ==
    ASSUME NEW S, S \subseteq Nat, S # {}
    PROVE  \E x \in S : \A y \in S : x <= y
<1>1. PICK x \in S : \A y \in S : ~(<<y, x>> \in OpToRel(<, Nat))
  BY NatLessThanWellFounded, WFMin
<1>2. \A y \in S : ~(y < x)
  BY <1>1 DEF OpToRel
<1>3. QED
  BY <1>2

(* The loops over the decoders visit each running one, in order.           *)
LEMMA NextAliveFacts ==
    ASSUME Control, NEW j \in Int, \E k \in Alive : k > j
    PROVE  /\ NextAlive(j) \in Alive /\ NextAlive(j) > j
           /\ \A l \in Alive : l > j => NextAlive(j) <= l
<1>1. Alive \subseteq Nat
  BY DEF Control, Alive, Running, Current
<1>2. PICK k \in {l \in Alive : l > j} : \A m \in {l \in Alive : l > j} : k <= m
  BY <1>1, Smallest
<1>3. k \in Alive /\ k > j /\ \A l \in Alive : l > j => k <= l
  BY <1>2
<1>4. QED
  BY <1>3 DEF NextAlive

LEMMA AliveFacts ==
    ASSUME Control
    PROVE  /\ Alive \subseteq Current /\ Current \subseteq Ids
           /\ Ids \subseteq Nat /\ n_cur \in Nat /\ DOMAIN decoders = Ids
           /\ Alive # {} => FirstAlive \in Alive /\ \A l \in Alive : FirstAlive <= l
<1>1. Alive \subseteq Current /\ Current \subseteq Ids /\ Ids \subseteq Nat
      /\ n_cur \in Nat /\ DOMAIN decoders = Ids
  BY WindowFacts DEF Control, Alive, Running, Current, Ids
<1>2. ASSUME NEW k \in Alive
      PROVE  FirstAlive \in Alive /\ \A l \in Alive : FirstAlive <= l
  <2>1. \A l \in Alive : l > -1
    BY <1>1
  <2>2. QED
    BY <2>1, NextAliveFacts DEF FirstAlive
<1>3. QED
  BY <1>1, <1>2

(* One turn of a loop: on to the next decoder, or to what follows it.      *)
LEMMA TurnFacts ==
    ASSUME Control, turn \in Alive, NEW loop, NEW after, Turn(loop, after)
    PROVE  /\ turn' \in Alive
           /\ \/ IsLastAlive(turn) /\ phase' = after /\ \A l \in Alive : turn' <= l
              \/ /\ ~IsLastAlive(turn) /\ phase' = loop /\ turn' > turn
                 /\ \A l \in Alive : l > turn => turn' <= l
<1>1. turn \in Int
  BY AliveFacts
<1>2. CASE IsLastAlive(turn)
  BY <1>2, AliveFacts DEF Turn
<1>3. CASE ~IsLastAlive(turn)
  <2>1. PICK k \in Alive : k > turn
    BY <1>1, <1>3, AliveFacts DEF IsLastAlive
  <2>2. QED
    BY <1>1, <1>3, <2>1, NextAliveFacts DEF Turn
<1>4. QED
  BY <1>2, <1>3

-----------------------------------------------------------------------------
(* What sampling and following a token do to one decoder.                  *)

LEMMA PushFacts ==
    ASSUME NEW d \in Decoder, NEW t \in Token, Len(d.tokens) < n_max
    PROVE  /\ Push(d, t) \in Decoder
           /\ Push(d, t).tokens = Append(d.tokens, t)
           /\ Len(Push(d, t).tokens) = Len(d.tokens) + 1
           /\ \A k \in 1..(Len(d.tokens) + 1) :
                 Push(d, t).tokens[k] = IF k <= Len(d.tokens) THEN d.tokens[k] ELSE t
           /\ Push(d, t).result_len = d.result_len /\ Push(d, t).has_ts = d.has_ts
           /\ Push(d, t).seek_delta = d.seek_delta
           /\ Push(d, t).failed = d.failed /\ Push(d, t).completed = d.completed
<1>1. d.tokens \in Seq(Token)
  BY DEF Decoder
<1>2. /\ Append(d.tokens, t) \in Seq(Token) /\ Len(d.tokens) \in Nat
      /\ Len(Append(d.tokens, t)) = Len(d.tokens) + 1
      /\ \A k \in 1..(Len(d.tokens) + 1) :
            Append(d.tokens, t)[k] = IF k <= Len(d.tokens) THEN d.tokens[k] ELSE t
  BY <1>1
<1>3. Push(d, t) \in Decoder /\ Push(d, t).tokens = Append(d.tokens, t)
  BY <1>2 DEF Push, Decoder
<1>4. QED
  BY <1>2, <1>3 DEF Push, Decoder

LEMMA AdvanceFacts ==
    ASSUME Control, NEW d \in Decoder, Len(d.tokens) = i + 1, i < n_max
    PROVE  /\ FromEnd(d, 0) = d.tokens[i + 1] /\ d.tokens[i + 1] \in Token
           /\ SlideWindow(d) \in Decoder /\ SlideWindow(d).tokens = d.tokens
           /\ Advance(d) \in Decoder /\ Advance(d).tokens = d.tokens
<1>1. i \in Nat /\ d.tokens \in Seq(Token) /\ n_max \in Nat
  BY WindowFacts DEF Control, Decoder
<1>2. FromEnd(d, 0) = d.tokens[i + 1] /\ d.tokens[i + 1] \in Token
  BY <1>1 DEF FromEnd
<1>3. SlideWindow(d) \in Decoder /\ SlideWindow(d).tokens = d.tokens
  <2> DEFINE t == FromEnd(d, 0)
  <2>1. CASE IsTimestamp(t)
    <3>1. 2 * (t - Beg) \in 0..Chunk /\ i + 1 \in 0..n_max
      BY <1>1, <1>2, <2>1, WindowFacts DEF IsTimestamp
    <3>2. SlideWindow(d) = [d EXCEPT !.seek_delta = 2 * (t - Beg), !.result_len = i + 1,
                                     !.has_ts = TRUE]
      BY <2>1 DEF SlideWindow
    <3>3. QED
      BY <3>1, <3>2 DEF Decoder
  <2>2. CASE ~IsTimestamp(t)
    BY <2>2 DEF SlideWindow
  <2>3. QED
    BY <2>1, <2>2
<1>4. ASSUME NEW e \in Decoder
      PROVE  /\ Failed(e) \in Decoder /\ Failed(e).tokens = e.tokens
             /\ Completed(e) \in Decoder /\ Completed(e).tokens = e.tokens
  <2>1. i + 1 \in 0..n_max /\ Chunk \in 0..Chunk
    BY <1>1, WindowFacts
  <2>2. Failed(e) \in Decoder /\ Failed(e).tokens = e.tokens
    BY DEF Failed, Decoder
  <2>3. Completed(e) \in Decoder /\ Completed(e).tokens = e.tokens
    BY <2>1 DEF Completed, Decoder
  <2>4. QED
    BY <2>2, <2>3
<1>5. QED
  BY <1>2, <1>3, <1>4 DEF Advance

LEMMA AliveStays ==
    ASSUME Control, n_cur' = n_cur,
           \A j \in Current : /\ decoders'[j].failed = decoders[j].failed
                              /\ decoders'[j].completed = decoders[j].completed
    PROVE  Alive' = Alive /\ Current' = Current
BY DEF Alive, Running, Current

(* Each running decoder takes the sequence of one, and a token.            *)
Sampling(parent, token) ==
    /\ phase = "sample" /\ n_cur' = n_cur
    /\ decoders' = [j \in DOMAIN decoders |->
                       IF j \in Alive THEN Push(decoders[parent[j]], token[j])
                                      ELSE decoders[j]]
    /\ \A j \in Alive : parent[j] \in Alive /\ token[j] \in Allowed(decoders[parent[j]])

LEMMA SamplingFacts ==
    ASSUME Control, NEW parent, NEW token, Sampling(parent, token)
    PROVE  /\ decoders' \in [Ids -> Decoder] /\ Alive' = Alive /\ Current' = Current
           /\ \A j \in Alive :
                 /\ parent[j] \in Alive /\ decoders[parent[j]] \in Decoder
                 /\ token[j] \in Token /\ Len(decoders[parent[j]].tokens) = i
                 /\ decoders'[j] = Push(decoders[parent[j]], token[j])
                 /\ Len(decoders'[j].tokens) = i + 1
           /\ \A j \in Ids \ Alive : decoders'[j] = decoders[j]
<1>1. ASSUME NEW j \in Alive
      PROVE  /\ parent[j] \in Alive /\ decoders[parent[j]] \in Decoder
             /\ token[j] \in Token /\ Len(decoders[parent[j]].tokens) = i
             /\ decoders'[j] = Push(decoders[parent[j]], token[j])
             /\ decoders'[j] \in Decoder
             /\ decoders'[j].failed = decoders[j].failed
             /\ decoders'[j].completed = decoders[j].completed
             /\ Len(decoders'[j].tokens) = i + 1
  <2>1. parent[j] \in Alive /\ j \in Ids /\ parent[j] \in Ids
    BY AliveFacts DEF Sampling
  <2>2. decoders[parent[j]] \in Decoder /\ decoders[j] \in Decoder
    BY <2>1 DEF Control
  <2>3. token[j] \in Token
    BY DEF Sampling, Allowed
  <2>4. Len(decoders[parent[j]].tokens) = i /\ i < n_max
    BY <2>1 DEF Control, Sampling, Busy
  <2>5. decoders'[j] = Push(decoders[parent[j]], token[j])
    BY <2>1, AliveFacts DEF Sampling
  <2>6. /\ decoders[j].failed = FALSE /\ decoders[j].completed = FALSE
        /\ decoders[parent[j]].failed = FALSE /\ decoders[parent[j]].completed = FALSE
    BY <2>1, <2>2 DEF Alive, Running, Decoder
  <2>7. /\ Push(decoders[parent[j]], token[j]) \in Decoder
        /\ Len(Push(decoders[parent[j]], token[j]).tokens) = i + 1
        /\ Push(decoders[parent[j]], token[j]).failed = FALSE
        /\ Push(decoders[parent[j]], token[j]).completed = FALSE
    BY <2>2, <2>3, <2>4, <2>6, PushFacts
  <2>8. QED
    BY <2>1, <2>2, <2>3, <2>4, <2>5, <2>6, <2>7
<1>2. \A j \in Ids \ Alive : decoders'[j] = decoders[j]
  BY AliveFacts DEF Sampling
<1>3. decoders' \in [Ids -> Decoder]
  <2>1. DOMAIN decoders' = Ids /\ decoders' = [j \in Ids |-> decoders'[j]]
    BY AliveFacts DEF Sampling
  <2>2. \A j \in Ids : decoders'[j] \in Decoder
    BY <1>1, <1>2 DEF Control
  <2>3. QED
    BY <2>1, <2>2
<1>4. Alive' = Alive /\ Current' = Current
  BY <1>1, <1>2, AliveStays, AliveFacts DEF Sampling
<1>5. QED
  BY <1>1, <1>2, <1>3, <1>4

(* The two ways of sampling do that.                                       *)
LEMMA Samples ==
    ASSUME Control, SampleGreedy \/ SampleBeam
    PROVE  \E parent, token : Sampling(parent, token)
<1>1. CASE SampleGreedy
  <2>1. PICK token \in [Alive -> Token] :
           /\ \A j \in Alive : token[j] \in Allowed(decoders[j])
           /\ decoders' = [j \in DOMAIN decoders |->
                              IF j \in Alive THEN Push(decoders[j], token[j])
                                             ELSE decoders[j]]
    BY <1>1 DEF SampleGreedy
  <2> DEFINE own == [j \in Alive |-> j]
  <2>2. \A j \in Alive : own[j] = j
    OBVIOUS
  <2> HIDE DEF own
  <2>3. Sampling(own, token)
    BY <1>1, <2>1, <2>2 DEF SampleGreedy, Sampling
  <2>4. QED
    BY <2>3
<1>2. CASE SampleBeam
  <2>1. PICK p \in [Alive -> [parent : Alive, token : Token]] :
           /\ Selection(p)
           /\ decoders' = [j \in DOMAIN decoders |->
                              IF j \in Alive THEN Candidate(p[j]) ELSE decoders[j]]
    BY <1>2 DEF SampleBeam
  <2> DEFINE parent == [j \in Alive |-> p[j].parent]
             token  == [j \in Alive |-> p[j].token]
  <2>2. \A j \in Alive : parent[j] = p[j].parent /\ token[j] = p[j].token
    OBVIOUS
  <2>3. \A j \in Alive : p[j].parent \in Alive
                         /\ p[j].token \in Allowed(decoders[p[j].parent])
    BY <2>1 DEF Selection
  <2> HIDE DEF parent, token
  <2>4. Sampling(parent, token)
    BY <1>2, <2>1, <2>2, <2>3 DEF SampleBeam, Sampling, Candidate
  <2>5. QED
    BY <2>4
<1>3. QED
  BY <1>1, <1>2

LEMMA UpdateFacts ==
    ASSUME Control, Update
    PROVE  /\ decoders' \in [Ids -> Decoder] /\ Current' = Current
           /\ Alive' \subseteq Alive
           /\ \A j \in Alive : /\ decoders'[j] = Advance(decoders[j])
                               /\ decoders[j] \in Decoder
                               /\ Len(decoders[j].tokens) = i + 1 /\ i < n_max
                               /\ Advance(decoders[j]).tokens = decoders[j].tokens
           /\ \A j \in Ids \ Alive : decoders'[j] = decoders[j]
           /\ phase' = IF Alive' = {} THEN "rank" ELSE "decode"
<1>1. /\ phase = "update" /\ n_cur' = n_cur /\ DOMAIN decoders = Ids
      /\ decoders' = [j \in Ids |-> IF j \in Alive THEN Advance(decoders[j]) ELSE decoders[j]]
      /\ phase' = IF Running(decoders') = {} THEN "rank" ELSE "decode"
  BY AliveFacts DEF Update
<1>2. ASSUME NEW j \in Alive
      PROVE  /\ decoders'[j] = Advance(decoders[j]) /\ decoders[j] \in Decoder
             /\ Len(decoders[j].tokens) = i + 1 /\ i < n_max
             /\ Advance(decoders[j]) \in Decoder
             /\ Advance(decoders[j]).tokens = decoders[j].tokens
  <2>1. j \in Ids /\ decoders[j] \in Decoder
    BY AliveFacts DEF Control
  <2>2. Len(decoders[j].tokens) = i + 1 /\ i < n_max
    BY <1>1 DEF Control, Busy
  <2>3. QED
    BY <1>1, <2>1, <2>2, AdvanceFacts
<1>3. \A j \in Ids \ Alive : decoders'[j] = decoders[j]
  BY <1>1
<1>4. decoders' \in [Ids -> Decoder]
  <2>1. \A j \in Ids : decoders'[j] \in Decoder
    BY <1>2, <1>3 DEF Control
  <2>2. QED
    BY <1>1, <2>1
<1>5. Current' = Current
  BY <1>1 DEF Current
<1>6. Alive' = Running(decoders')
  BY <1>5 DEF Alive, Running
<1>7. Alive' \subseteq Alive
  BY <1>3, <1>5, AliveFacts DEF Alive, Running
<1>8. QED
  BY <1>1, <1>2, <1>3, <1>4, <1>5, <1>6, <1>7

-----------------------------------------------------------------------------

LEMMA RuleOfPrefix ==
    ASSUME NEW s, NEW u, NEW k \in Nat, k >= 1, \A m \in 1..k : u[m] = s[m], Rule(params, s, k)
    PROVE  Rule(params, u, k)
<1>1. u[k] = s[k] /\ \A l \in 1..(k - 1) : u[l] = s[l]
  OBVIOUS
<1>2. k > 1 => u[k - 1] = s[k - 1] /\ k - 1 # 0
  OBVIOUS
<1>3. k > 2 => u[k - 2] = s[k - 2]
  OBVIOUS
<1>4. k = 2 \/ k > 2 \/ k = 1
  OBVIOUS
<1>5. QED
  BY <1>1, <1>2, <1>3, <1>4 DEF Rule

(* A token that is not suppressed keeps the rules.                         *)
LEMMA RuleOfNext ==
    ASSUME NEW s, NEW n \in Nat, NEW t \in Int, NEW last \in 0..n,
           \A k \in 1..n : s[k] \in Int /\ Rule(params, s, k),
           LastAt(s, last, n),
           n = 0 => t # Eot /\ t <= Beg + max_initial_ts,
           params.no_timestamps => t < Beg,
           n > 0 /\ s[n] >= Beg => IF n = 1 \/ s[n - 1] >= Beg THEN t < Beg ELSE t >= Eot,
           last # 0 => t \notin Beg..(s[last] - 1),
           NEW u, \A k \in 1..n : u[k] = s[k], u[n + 1] = t
    PROVE  Rule(params, u, n + 1)
<1>0. Beg \in Int /\ Eot \in Int
  BY WindowFacts
<1>1. ASSUME NEW l \in 1..n, s[l] >= Beg, t >= Beg
      PROVE  s[l] <= t
  <2>0. s[l] \in Int
    OBVIOUS
  <2>1. CASE l > last
    <3>1. s[l] <= Beg
      BY <2>1 DEF LastAt
    <3>2. QED
      BY <1>0, <1>1, <2>0, <3>1
  <2>2. CASE l <= last
    <3>1. last \in 1..n /\ s[last] > Beg /\ s[last] \in Int
      BY <2>2 DEF LastAt
    <3>2. t >= s[last]
      BY <1>0, <1>1, <3>1
    <3>3. s[l] <= s[last]
      <4>1. CASE l = last
        BY <3>1, <4>1
      <4>2. CASE l < last
        <5>1. l \in 1..(last - 1) /\ s[last] >= Beg
          BY <1>0, <3>1, <4>2
        <5>2. QED
          BY <1>1, <3>1, <5>1 DEF Rule
      <4>3. QED
        BY <2>2, <3>1, <4>1, <4>2
    <3>4. QED
      BY <2>0, <3>1, <3>2, <3>3
  <2>3. QED
    BY <2>1, <2>2
<1>2. \A l \in 1..n : u[l] >= Beg /\ t >= Beg => u[l] <= t
  BY <1>1
<1>3. n + 1 = 1 => t # Eot /\ t <= Beg + max_initial_ts
  OBVIOUS
<1>4. t >= Beg => ~params.no_timestamps
  BY <1>0
<1>5. ASSUME n + 1 > 1, u[n] >= Beg
      PROVE  IF n + 1 = 2 \/ u[n - 1] >= Beg THEN t < Beg ELSE t >= Eot
  <2>1. u[n] = s[n] /\ (n > 1 => u[n - 1] = s[n - 1])
    BY <1>5
  <2>2. CASE n = 1
    BY <1>5, <2>1, <2>2
  <2>3. CASE n > 1
    BY <1>5, <2>1, <2>3
  <2>4. QED
    BY <1>5, <2>2, <2>3
<1>6. (n + 1) - 1 = n /\ (n + 1) - 2 = n - 1
  OBVIOUS
<1>7. QED
  BY <1>2, <1>3, <1>4, <1>5, <1>6 DEF Rule

LEMMA AllowedFacts ==
    ASSUME NEW d \in Decoder, NEW t \in Allowed(d)
    PROVE  LET n == Len(d.tokens)
           IN  /\ n \in Nat /\ t \in Token /\ t \in Int
               /\ \A k \in 1..n : d.tokens[k] \in Int /\ d.tokens[k] \in Token
               /\ n = 0 => t # Eot /\ t <= Beg + max_initial_ts
               /\ params.no_timestamps => t < Beg
               /\ n > 0 /\ d.tokens[n] >= Beg =>
                     IF n = 1 \/ d.tokens[n - 1] >= Beg THEN t < Beg ELSE t >= Eot
               /\ d.has_ts => t \notin Beg..(Beg + d.seek_delta \div 2 - 1)
<1> DEFINE s == d.tokens
           n == Len(s)
<1>1. s \in Seq(Token) /\ t \in Token
  BY DEF Decoder, Allowed
<1>2. n \in Nat /\ \A k \in 1..n : s[k] \in Token
  BY <1>1
<1>3. Token \subseteq Int
  BY WindowFacts
<1>4. n = 0 => t # Eot /\ t <= Beg + max_initial_ts
  <2>1. n = 0 => s = <<>>
    BY <1>1
  <2>2. QED
    BY <2>1 DEF Allowed
<1>5. params.no_timestamps => t < Beg
  BY DEF Allowed
<1>6. d.has_ts => t \notin Beg..(Beg + d.seek_delta \div 2 - 1)
  BY DEF Allowed
<1>7. ASSUME n > 0, s[n] >= Beg
      PROVE  IF n = 1 \/ s[n - 1] >= Beg THEN t < Beg ELSE t >= Eot
  <2>1. s # <<>> /\ n - 0 = n
    BY <1>1, <1>7
  <2>2. FromEnd(d, 0) = s[n] /\ FromEnd(d, 1) = s[n - 1]
    BY <2>1 DEF FromEnd
  <2>3. CASE n = 1
    <3>1. n < 2
      BY <2>3
    <3>2. QED
      BY <1>7, <2>1, <2>2, <2>3, <3>1 DEF Allowed
  <2>4. CASE n # 1
    <3>1. ~(n < 2)
      <4>1. n \in Nat
        BY <1>2
      <4> HIDE DEF n
      <4>2. QED
        BY <1>7, <2>4, <4>1
    <3>2. QED
      BY <1>7, <2>1, <2>2, <2>4, <3>1 DEF Allowed
  <2>5. QED
    BY <2>3, <2>4
<1>8. QED
  BY <1>2, <1>1, <1>3, <1>4, <1>5, <1>6, <1>7

LEMMA AllowedObeys ==
    ASSUME Control, NEW d \in Decoder, NEW t \in Allowed(d), Len(d.tokens) = i, i < n_max,
           Follows(params, d, i)
    PROVE  Follows(params, Push(d, t), i)
<1> DEFINE s == d.tokens
           u == Push(d, t).tokens
           last == d.result_len
<1>0. i \in Nat /\ n_max \in Nat /\ Beg \in Int
  BY WindowFacts DEF Control
<1>1. /\ Len(u) = i + 1 /\ (\A k \in 1..i : u[k] = s[k]) /\ u[i + 1] = t
      /\ Push(d, t).result_len = last /\ Push(d, t).has_ts = d.has_ts
      /\ Push(d, t).seek_delta = d.seek_delta
  <2>1. t \in Token
    BY DEF Allowed
  <2>2. QED
    BY <1>0, <2>1, PushFacts
<1>2. /\ last \in 0..i /\ LastAt(s, last, i) /\ (\A k \in 1..i : Rule(params, s, k) /\ s[k] # Eot)
      /\ d.has_ts <=> last # 0
      /\ d.seek_delta = IF last = 0 THEN Chunk ELSE 2 * (s[last] - Beg)
  BY DEF Follows, Obeys, LastAt
<1>3. last # 0 => t \notin Beg..(s[last] - 1)
  <2> SUFFICES ASSUME last # 0 PROVE t \notin Beg..(s[last] - 1)
    OBVIOUS
  <2>1. t \notin Beg..(Beg + d.seek_delta \div 2 - 1)
    BY <1>2, AllowedFacts
  <2>2. s[last] \in Int
    BY <1>0, <1>2, AllowedFacts
  <2>3. d.seek_delta = 2 * (s[last] - Beg)
    BY <1>2
  <2>4. d.seek_delta \div 2 = s[last] - Beg
    BY <1>0, <2>2, <2>3
  <2>5. Beg + (s[last] - Beg) - 1 = s[last] - 1
    BY <1>0, <2>2
  <2>6. QED
    BY <2>1, <2>4, <2>5
<1>4. Rule(params, u, i + 1)
  <2> HIDE DEF u, s, last
  <2>1. /\ t \in Int /\ \A k \in 1..i : s[k] \in Int
        /\ i = 0 => t # Eot /\ t <= Beg + max_initial_ts
        /\ params.no_timestamps => t < Beg
        /\ i > 0 /\ s[i] >= Beg =>
              IF i = 1 \/ s[i - 1] >= Beg THEN t < Beg ELSE t >= Eot
    BY AllowedFacts DEF s
  <2>2. \A k \in 1..i : s[k] \in Int /\ Rule(params, s, k)
    BY <1>2, <2>1
  <2>3. /\ i \in Nat /\ t \in Int /\ last \in 0..i /\ LastAt(s, last, i)
        /\ \A k \in 1..i : u[k] = s[k]
        /\ u[i + 1] = t
    BY <1>0, <1>1, <1>2, <2>1
  <2>4. QED
    BY ONLY <1>3, <2>1, <2>2, <2>3, RuleOfNext
<1>5. \A k \in 1..i : Rule(params, u, k)
  <2>1. ASSUME NEW k \in 1..i PROVE Rule(params, u, k)
    <3>1. k \in Nat /\ k >= 1 /\ \A m \in 1..k : u[m] = s[m]
      BY <1>0, <1>1
    <3>2. QED
      BY <1>2, <3>1, RuleOfPrefix
  <2>2. QED
    BY <2>1
<1>6. Obeys(params, u)
  <2> HIDE DEF u
  <2>1. \A k \in 1..(i + 1) : k \in 1..i \/ k = i + 1
    BY <1>0
  <2>2. \A k \in 1..(i + 1) : Rule(params, u, k)
    BY <1>4, <1>5, <2>1
  <2>3. \A k \in 1..(i + 1) : u[k] = Eot => k = i + 1
    BY <1>1, <1>2, <2>1
  <2>4. i + 1 <= n_max
    BY <1>0
  <2>5. QED
    BY <1>1, <2>2, <2>3, <2>4 DEF Obeys
<1>7. LastAt(u, last, i)
  BY <1>0, <1>1, <1>2 DEF LastAt
<1>8. last # 0 => u[last] = s[last]
  BY <1>0, <1>1, <1>2
<1>9. QED
  BY <1>1, <1>2, <1>6, <1>7, <1>8 DEF Follows

(* After a token a decoder goes on, or it yields something.                *)
LEMMA AdvanceYields ==
    ASSUME Control, NEW d \in Decoder, Len(d.tokens) = i + 1, i < n_max,
           ~d.failed, ~d.completed, Follows(params, d, i)
    PROVE  \/ /\ ~Advance(d).failed /\ ~Advance(d).completed
              /\ Follows(params, Advance(d), i + 1)
              /\ i = n_max - 1 => Advance(d).result_len # 0
           \/ /\ Advance(d).failed \/ Advance(d).completed
              /\ Rankable(params, Advance(d))
<1> DEFINE s == d.tokens
           t == s[i + 1]
           e == SlideWindow(d)
<1>0. /\ i \in Nat /\ n_max \in Nat /\ Beg \in Int /\ Eot \in Int /\ t \in Int
      /\ FromEnd(d, 0) = t /\ e \in Decoder /\ e.tokens = s
  <2>1. t \in Token
    BY AdvanceFacts
  <2>2. QED
    BY <2>1, WindowFacts, AdvanceFacts DEF Control
<1>1. /\ Obeys(params, s) /\ Rule(params, s, i + 1) /\ \A k \in 1..i : s[k] # Eot
      /\ LastAt(s, d.result_len, i) /\ d.result_len \in 0..i
      /\ d.has_ts <=> d.result_len # 0
      /\ d.seek_delta = IF d.result_len = 0 THEN Chunk ELSE 2 * (s[d.result_len] - Beg)
  <2>1. i + 1 \in 1..Len(s)
    BY <1>0
  <2>2. QED
    BY <2>1 DEF Follows, Obeys, LastAt
<1>2. ~GoesBack(d)
  <2> SUFFICES ASSUME IsTimestamp(t), d.has_ts, d.seek_delta > 2 * (t - Beg)
               PROVE  FALSE
    BY <1>0 DEF GoesBack
  <2> DEFINE l == d.result_len
  <2>1. l \in 1..i /\ s[l] > Beg /\ d.seek_delta = 2 * (s[l] - Beg)
    BY <1>0, <1>1 DEF LastAt
  <2>2. s[l] \in Token
    BY <1>0, <2>1 DEF Decoder
  <2>3. s[l] \in Int
    BY <2>2, WindowFacts
  <2>4. s[l] >= Beg /\ t >= Beg /\ l \in 1..((i + 1) - 1)
    BY <1>0, <2>1, <2>3 DEF IsTimestamp
  <2>5. s[l] <= t
    BY <1>1, <2>4 DEF Rule
  <2>6. QED
    BY <1>0, <2>1, <2>3, <2>5
<1>3. /\ LastAt(s, e.result_len, i + 1)
      /\ e.has_ts <=> e.result_len # 0
      /\ e.seek_delta = IF e.result_len = 0 THEN Chunk ELSE 2 * (s[e.result_len] - Beg)
      /\ e.failed = d.failed /\ e.completed = d.completed
  <2>1. CASE t > Beg
    <3>1. e = [d EXCEPT !.seek_delta = 2 * (t - Beg), !.result_len = i + 1, !.has_ts = TRUE]
      BY <1>0, <2>1 DEF SlideWindow, IsTimestamp
    <3>2. /\ e.result_len = i + 1 /\ e.has_ts = TRUE /\ e.seek_delta = 2 * (t - Beg)
          /\ e.failed = d.failed /\ e.completed = d.completed
      BY <3>1 DEF Decoder
    <3>3. LastAt(s, i + 1, i + 1)
      BY <1>0, <2>1 DEF LastAt
    <3>4. QED
      BY <1>0, <3>2, <3>3
  <2>2. CASE ~(t > Beg)
    <3>1. e = d
      BY <1>0, <2>2 DEF SlideWindow, IsTimestamp
    <3>2. LastAt(s, d.result_len, i + 1)
      <4>1. t <= Beg
        BY <1>0, <2>2
      <4>2. \A k \in (d.result_len + 1)..(i + 1) :
               k \in (d.result_len + 1)..i \/ k = i + 1
        BY <1>0, <1>1
      <4>3. d.result_len \in 0..(i + 1)
        BY <1>0, <1>1
      <4>4. QED
        BY <1>1, <4>1, <4>2, <4>3 DEF LastAt
    <3>3. QED
      BY <1>1, <3>1, <3>2
  <2>3. QED
    BY <2>1, <2>2
<1>4. e.result_len \in 0..(i + 1) /\ Len(s) = i + 1
  BY <1>3 DEF LastAt
<1>5. Rankable(params, Failed(e))
  <2>1. /\ Failed(e).tokens = s /\ Failed(e).result_len = e.result_len
        /\ Failed(e).seek_delta = e.seek_delta /\ Failed(e).failed
    BY <1>0 DEF Failed, Decoder
  <2>2. Yields(params, Failed(e))
    BY <1>0, <1>1, <1>3, <1>4, <2>1 DEF Yields
  <2>3. QED
    BY <2>1, <2>2 DEF Rankable
<1>6. ASSUME ~(NothingDecoded(e) /\ ~AudioEnds(e))
      PROVE  Rankable(params, Completed(e)) /\ Completed(e).completed
  <2> DEFINE all == NothingDecoded(e) \/ params.single_segment \/ params.no_timestamps
             f == Completed(e)
  <2>1. /\ f.tokens = s /\ f.completed /\ f.failed = e.failed
        /\ f.result_len = IF all THEN i + 1 ELSE e.result_len
        /\ f.seek_delta = IF Whole(params) THEN Chunk ELSE e.seek_delta
    BY <1>0 DEF Completed, Decoder, Whole
  <2>2. all => e.result_len = 0 \/ Whole(params)
    BY DEF NothingDecoded, Whole
  <2>3. ~all => e.result_len # 0
    BY DEF NothingDecoded
  <2> HIDE DEF f, all
  <2>4. f.result_len \in 1..(i + 1)
    BY <1>0, <1>4, <2>1, <2>3
  <2>5. \/ f.result_len = e.result_len
        \/ (e.result_len = 0 \/ Whole(params)) /\ f.result_len = Len(s)
    <3>1. CASE all
      BY <1>4, <2>1, <2>2, <3>1
    <3>2. CASE ~all
      BY <2>1, <3>2
    <3>3. QED
      BY <3>1, <3>2
  <2>6. \/ e.result_len # 0 /\ f.seek_delta = 2 * (s[e.result_len] - Beg)
        \/ (e.result_len = 0 \/ Whole(params)) /\ f.seek_delta = Chunk
    BY <1>3, <2>1
  <2>7. Yields(params, f)
    BY <1>0, <1>1, <1>3, <1>4, <2>1, <2>5, <2>6 DEF Yields
  <2>8. Rankable(params, f)
    BY <1>4, <2>1, <2>4, <2>7 DEF Rankable
  <2>9. QED
    BY <2>1, <2>8 DEF f
<1>7. CASE Ends(e)
  <2>1. CASE NothingDecoded(e) /\ ~AudioEnds(e)
    <3>1. Advance(d) = Failed(e)
      BY <1>2, <1>7, <2>1 DEF Advance
    <3>2. Failed(e).failed
      BY <1>0 DEF Failed, Decoder
    <3>3. QED
      BY <1>5, <3>1, <3>2
  <2>2. CASE ~(NothingDecoded(e) /\ ~AudioEnds(e))
    <3>1. Advance(d) = Completed(e)
      BY <1>2, <1>7, <2>2 DEF Advance
    <3>2. QED
      BY <1>6, <2>2, <3>1
  <2>3. QED
    BY <2>1, <2>2
<1>8. CASE ~Ends(e) /\ Repeats(e)
  <2>1. Advance(d) = Failed(e)
    BY <1>2, <1>8 DEF Advance
  <2>2. Failed(e).failed
    BY <1>0 DEF Failed, Decoder
  <2>3. QED
    BY <1>5, <2>1, <2>2
<1>9. CASE ~Ends(e) /\ ~Repeats(e)
  <2>1. Advance(d) = e
    BY <1>2, <1>9 DEF Advance
  <2>2. t # Eot
    <3>1. FromEnd(e, 0) = t
      BY <1>0, <1>4 DEF FromEnd
    <3>2. QED
      BY <1>9, <3>1 DEF Ends
  <2>3. \A k \in 1..(i + 1) : s[k] # Eot
    <3>1. \A k \in 1..(i + 1) : k \in 1..i \/ k = i + 1
      BY <1>0
    <3>2. QED
      BY <1>1, <2>2, <3>1
  <2>4. Follows(params, e, i + 1)
    BY <1>0, <1>1, <1>3, <2>3 DEF Follows
  <2>5. i = n_max - 1 => e.result_len # 0
    BY <1>9 DEF Repeats
  <2>6. ~e.failed /\ ~e.completed
    BY <1>3
  <2>7. QED
    BY <2>1, <2>4, <2>5, <2>6
<1>10. QED
  BY <1>7, <1>8, <1>9

-----------------------------------------------------------------------------
(* Where the decoding is, step by step.                                    *)

LEMMA DecodersOfNow ==
    ASSUME Control
    PROVE  Decoders(params, it) \in 1..MaxDecoders
BY ParamFacts DEF Control

LEMMA FreshDecoders ==
    /\ FreshDecoder \in Decoder /\ ~FreshDecoder.failed /\ ~FreshDecoder.completed
    /\ FreshDecoder.tokens = <<>> /\ Len(FreshDecoder.tokens) = 0
    /\ FreshDecoder.result_len = 0 /\ FreshDecoder.has_ts = FALSE
    /\ FreshDecoder.seek_delta = Chunk
BY WindowFacts DEF FreshDecoder, Decoder

LEMMA ControlInit == Init => Control
<1> SUFFICES ASSUME Init PROVE Control
  OBVIOUS
<1>1. Len(<<>>) = 0
  OBVIOUS
<1>2. decoders \in [Ids -> Decoder]
  BY FreshDecoders DEF Init, Ids
<1>3. QED
  BY <1>1, <1>2, WindowFacts DEF Init, Control, Phases, Busy

LEMMA ControlStart == ASSUME Control, StartTemperature PROVE Control'
<1>1. n_cur' = Decoders(params, it) /\ n_cur' \in 1..MaxDecoders
  BY DecodersOfNow DEF StartTemperature
<1>2. decoders' \in [Ids -> Decoder] /\ \A j \in Current' : decoders'[j] = FreshDecoder
  <2>1. decoders' = [j \in Ids |-> IF j < n_cur' THEN FreshDecoder ELSE decoders[j]]
    BY AliveFacts DEF StartTemperature, Reset
  <2>2. \A j \in Ids : decoders'[j] \in Decoder
    BY <2>1, FreshDecoders DEF Control
  <2>3. \A j \in Current' : j \in Ids /\ j < n_cur'
    BY <1>1, WindowFacts DEF Current, Ids
  <2>4. QED
    BY <2>1, <2>2, <2>3
<1>3. PICK n \in PromptLengths : prompt' = [k \in 1..n |-> -k]
  BY DEF StartTemperature
<1>4. Len(prompt') \in PromptLengths
  <2>1. n \in Nat
    BY DecodeAssumption, WindowFacts DEF DecodeAssumption
  <2>2. QED
    BY <1>3, <2>1
<1>5. kv_n_dec' \in 1..MaxDecoders /\ n_cur' <= kv_n_dec'
  BY <1>1 DEF StartTemperature, Control
<1>6. QED
  BY <1>1, <1>2, <1>3, <1>4, <1>5 DEF StartTemperature, Control, Phases, Busy, given

LEMMA ControlFail ==
    ASSUME Control, NEW code \in {-7, -8, -9}, Fail(code)
    PROVE  Control'
<1>1. UNCHANGED <<given, it, n_cur, prompt, kv, kv_n_dec, i, decoders, pick, turn, best>>
      /\ phase' = "error" /\ rc' = code
  BY DEF Fail
<1>2. QED
  BY <1>1 DEF Control, Phases, Busy, given

LEMMA ControlPrompt == ASSUME Control, DecodePrompt PROVE Control'
<1>1. /\ phase = "prompt" /\ phase' = "sample" /\ i' = 0
      /\ UNCHANGED <<given, it, n_cur, prompt, kv_n_dec, decoders, pick, turn, best, rc>>
  BY DEF DecodePrompt
<1>2. Alive' = Current /\ Current # {} /\ Current' = Current
  <2>1. \A j \in Current : ~decoders[j].failed /\ ~decoders[j].completed
    BY <1>1, FreshDecoders DEF Control
  <2>2. 0 \in Current
    BY DEF Control, Current
  <2>3. Alive' = Alive /\ Current' = Current
    BY <1>1, AliveStays
  <2>4. QED
    BY <2>1, <2>2, <2>3 DEF Alive, Running
<1>3. \A j \in Alive' : Len(decoders'[j].tokens) = i'
  BY <1>1, <1>2, FreshDecoders DEF Control
<1>4. i' \in 0..n_max /\ i' < n_max
  BY <1>1, WindowFacts
<1>5. QED
  BY <1>1, <1>2, <1>3, <1>4 DEF Control, Phases, Busy, given

LEMMA ControlSample == ASSUME Control, SampleGreedy \/ SampleBeam PROVE Control'
<1>1. PICK parent, token : Sampling(parent, token)
  BY Samples
<1>2. /\ decoders' \in [Ids -> Decoder] /\ Alive' = Alive /\ Current' = Current
      /\ \A j \in Alive : Len(decoders'[j].tokens) = i + 1
  BY <1>1, SamplingFacts
<1>3. phase = "sample" /\ phase' \in {"copy", "update"}
      /\ UNCHANGED <<given, it, n_cur, prompt, kv, kv_n_dec, i, best, rc>>
  BY DEF SampleGreedy, SampleBeam
<1>4. turn' \in Ids /\ (phase' = "copy" => turn' \in Alive)
  <2>1. Alive # {}
    BY <1>3 DEF Control, Busy
  <2>2. (turn' = turn /\ phase' = "update") \/ turn' = FirstAlive
    BY DEF SampleGreedy, SampleBeam
  <2>3. QED
    BY <2>1, <2>2, AliveFacts DEF Control
<1>5. QED
  BY <1>2, <1>3, <1>4 DEF Control, Phases, Busy, given

LEMMA ControlCopy == ASSUME Control, CopyParent \/ MoveToOwn PROVE Control'
<1>1. PICK loop \in {"copy", "move"}, after \in {"move", "update"} :
         Turn(loop, after)
  BY DEF CopyParent, MoveToOwn
<1>2. /\ phase \in {"copy", "move"}
      /\ UNCHANGED <<given, it, n_cur, prompt, kv_n_dec, i, decoders, pick, best, rc>>
  BY DEF CopyParent, MoveToOwn
<1>3. Alive' = Alive /\ Current' = Current
  BY <1>2, AliveStays
<1>4. turn' \in Alive /\ turn' \in Ids /\ phase' \in {"copy", "move", "update"}
  <2>1. turn \in Alive
    BY <1>2 DEF Control
  <2>2. turn' \in Alive /\ phase' \in {loop, after}
    BY <1>1, <2>1, TurnFacts
  <2>3. QED
    BY <2>2, AliveFacts
<1>5. QED
  BY <1>2, <1>3, <1>4 DEF Control, Phases, Busy, given

LEMMA ControlUpdate == ASSUME Control, Update PROVE Control'
<1>1. /\ decoders' \in [Ids -> Decoder] /\ Current' = Current /\ Alive' \subseteq Alive
      /\ \A j \in Alive : Len(decoders'[j].tokens) = i + 1
      /\ phase' = IF Alive' = {} THEN "rank" ELSE "decode"
  BY UpdateFacts
<1>2. phase = "update"
      /\ UNCHANGED <<given, it, n_cur, prompt, kv, kv_n_dec, i, pick, turn, best, rc>>
  BY DEF Update
<1>3. QED
  BY <1>1, <1>2 DEF Control, Phases, Busy, given

LEMMA ControlDecode == ASSUME Control, DecodeNext PROVE Control'
<1>1. /\ phase = "decode" /\ i' = i + 1 /\ i \in Nat /\ i < n_max /\ n_max \in Nat
      /\ phase' = IF i' = n_max THEN "rank" ELSE "sample"
      /\ UNCHANGED <<given, it, n_cur, prompt, kv_n_dec, decoders, pick, turn, best, rc>>
  BY WindowFacts DEF DecodeNext, Control, Busy
<1>2. Alive' = Alive /\ Current' = Current
  BY <1>1, AliveStays
<1>3. i' \in 0..n_max /\ (phase' = "sample" => i' < n_max) /\ phase' \in {"rank", "sample"}
  BY <1>1
<1>4. QED
  BY <1>1, <1>2, <1>3 DEF Control, Phases, Busy, given

-----------------------------------------------------------------------------
(* Ranking: what is kept of a decoder is something it yields.              *)

LEMMA FailedYields ==
    ASSUME NEW d \in Decoder
    PROVE  /\ Failed(d) \in Decoder /\ Failed(d).tokens = d.tokens
           /\ Failed(d).result_len = d.result_len
           /\ Yields(params, d) => Yields(params, Failed(d))
<1>1. /\ Failed(d) \in Decoder /\ Failed(d).tokens = d.tokens
      /\ Failed(d).result_len = d.result_len /\ Failed(d).seek_delta = d.seek_delta
  BY DEF Failed, Decoder
<1>2. QED
  BY <1>1 DEF Yields

LEMMA ObeysPrefix ==
    ASSUME NEW s \in Seq(Token), Obeys(params, s), NEW n \in 1..Len(s)
    PROVE  /\ SubSeq(s, 1, n) \in Seq(Token) /\ Len(SubSeq(s, 1, n)) = n
           /\ \A k \in 1..n : SubSeq(s, 1, n)[k] = s[k]
           /\ Obeys(params, SubSeq(s, 1, n))
<1> DEFINE u == SubSeq(s, 1, n)
<1>1. u \in Seq(Token) /\ Len(u) = n /\ \A k \in 1..n : u[k] = s[k]
  BY SubSeqProperties
<1>2. Len(s) \in Nat /\ Len(s) <= n_max /\ n_max \in Nat
      /\ \A k \in 1..Len(s) : Rule(params, s, k) /\ (s[k] = Eot => k = Len(s))
  BY WindowFacts DEF Obeys
<1> HIDE DEF u
<1>3. ASSUME NEW k \in 1..n
      PROVE  Rule(params, u, k) /\ (u[k] = Eot => k = n)
  <2>1. k \in Nat /\ k >= 1 /\ k \in 1..Len(s) /\ \A m \in 1..k : u[m] = s[m]
    BY <1>1, <1>2
  <2>2. Rule(params, u, k)
    BY <1>2, <2>1, RuleOfPrefix
  <2>3. u[k] = Eot => k = Len(s)
    BY <1>2, <2>1
  <2>4. QED
    BY <1>2, <2>2, <2>3
<1>4. n <= n_max
  BY <1>2
<1>5. Obeys(params, u)
  BY <1>1, <1>3, <1>4 DEF Obeys
<1>6. QED
  BY <1>1, <1>5 DEF u

LEMMA TruncatedYields ==
    ASSUME NEW d \in Decoder, Rankable(params, d), ~d.failed
    PROVE  Truncated(d) \in Decoder /\ Yields(params, Truncated(d))
<1> DEFINE s == d.tokens
           n == d.result_len
           u == SubSeq(s, 1, n)
           f == Truncated(d)
<1>1. s \in Seq(Token) /\ n \in 1..Len(s) /\ Obeys(params, s) /\ Len(s) \in Nat /\ n \in Nat
  BY DEF Rankable, Yields, Decoder
<1>2. u \in Seq(Token) /\ Len(u) = n /\ (\A k \in 1..n : u[k] = s[k]) /\ Obeys(params, u)
  BY <1>1, ObeysPrefix
<1>3. f \in Decoder /\ f.tokens = u /\ f.result_len = n /\ f.seek_delta = d.seek_delta
  BY <1>2 DEF Truncated, Decoder
<1>4. PICK last \in 0..Len(s) :
         /\ LastAt(s, last, Len(s))
         /\ \/ n = last
            \/ (last = 0 \/ Whole(params)) /\ n = Len(s)
         /\ \/ last # 0 /\ d.seek_delta = 2 * (s[last] - Beg)
            \/ (last = 0 \/ Whole(params)) /\ d.seek_delta = Chunk
  BY DEF Rankable, Yields
<1> HIDE DEF u, n, f
<1>5. last \in 0..n
  BY <1>1, <1>4
<1>6. LastAt(u, last, n)
  <2>1. \A k \in (last + 1)..n : k \in (last + 1)..Len(s) /\ k \in 1..n
    BY <1>1, <1>5
  <2>2. last # 0 => u[last] = s[last]
    BY <1>2, <1>5
  <2>3. QED
    BY <1>2, <1>4, <1>5, <2>1, <2>2 DEF LastAt
<1>7. last # 0 => u[last] = s[last]
  BY <1>2, <1>5
<1>8. Yields(params, f)
  BY <1>1, <1>2, <1>3, <1>4, <1>5, <1>6, <1>7 DEF Yields
<1>9. QED
  BY <1>3, <1>8 DEF f

LEMMA RankedYields ==
    ASSUME Control, Sequences, phase = "rank", NEW low, decoders' = Ranked(low)
    PROVE  /\ decoders' \in [Ids -> Decoder]
           /\ \A j \in Current : Yields(params, decoders'[j])
           /\ \A j \in Ids \ Current : decoders'[j] = decoders[j]
<1>1. decoders' = [j \in Ids |->
         IF j \notin Current \/ decoders[j].failed THEN decoders[j]
         ELSE IF j \in low THEN Failed(Truncated(decoders[j]))
         ELSE Truncated(decoders[j])]
  BY AliveFacts DEF Ranked
<1>2. ASSUME NEW j \in Current
      PROVE  decoders'[j] \in Decoder /\ Yields(params, decoders'[j])
  <2>1. j \in Ids /\ decoders[j] \in Decoder /\ Rankable(params, decoders[j])
    BY AliveFacts DEF Control, Sequences
  <2>2. CASE decoders[j].failed
    BY <1>1, <2>1, <2>2 DEF Rankable
  <2>3. CASE ~decoders[j].failed
    <3>1. Truncated(decoders[j]) \in Decoder /\ Yields(params, Truncated(decoders[j]))
      BY <2>1, <2>3, TruncatedYields
    <3>2. /\ Failed(Truncated(decoders[j])) \in Decoder
          /\ Yields(params, Failed(Truncated(decoders[j])))
      BY <3>1, FailedYields
    <3>3. QED
      BY <1>1, <2>1, <2>3, <3>1, <3>2
  <2>4. QED
    BY <2>2, <2>3
<1>3. \A j \in Ids \ Current : decoders'[j] = decoders[j]
  BY <1>1
<1>4. \A j \in Ids : decoders'[j] \in Decoder
  BY <1>2, <1>3 DEF Control
<1>5. QED
  BY <1>1, <1>2, <1>3, <1>4

LEMMA RankFacts ==
    ASSUME Rank
    PROVE  /\ phase = "rank" /\ phase' \in {"done", "temperature"}
           /\ UNCHANGED <<given, n_cur, prompt, kv, kv_n_dec, i, pick, turn, rc>>
           /\ \E low : /\ decoders' = Ranked(low)
                       /\ best' = best \/ (best' \in Scored(low) /\ best' \in Current)
           /\ \/ phase' = "done" /\ it' = it
              \/ phase' = "temperature" /\ it # Temperatures - 1 /\ it' = it + 1
<1>1. PICK low \in SUBSET {j \in Current : ~decoders[j].failed
                              /\ decoders[j].result_len > entropy_len} :
         /\ decoders' = Ranked(low)
         /\ IF Scored(low) = {} THEN best' = best ELSE best' \in Scored(low)
  BY DEF Rank
<1>2. Scored(low) \subseteq Current
  BY DEF Scored
<1>3. QED
  BY <1>1, <1>2 DEF Rank, IsLastTemperature

LEMMA ControlRank == ASSUME Control, Sequences, Rank PROVE Control'
<1>1. PICK low : /\ decoders' = Ranked(low)
                 /\ best' = best \/ (best' \in Scored(low) /\ best' \in Current)
  BY RankFacts
<1>2. /\ phase = "rank" /\ phase' \in {"done", "temperature"}
      /\ UNCHANGED <<given, n_cur, prompt, kv, kv_n_dec, i, pick, turn, rc>>
  BY RankFacts
<1>3. decoders' \in [Ids -> Decoder]
  BY <1>1, <1>2, RankedYields
<1>4. best' \in Ids
  BY <1>1, AliveFacts DEF Control
<1>5. it' \in 0..(Temperatures - 1) /\ (phase' = "done" => it' = it)
  <2>1. it \in 0..(Temperatures - 1)
    BY DEF Control
  <2>2. QED
    BY <1>2, <2>1, WindowFacts, RankFacts
<1>6. phase' # "temperature" => n_cur' = Decoders(params', it')
  BY <1>2, <1>5 DEF Control, given
<1>7. QED
  BY <1>2, <1>3, <1>4, <1>5, <1>6 DEF Control, Phases, Busy, given

LEMMA ControlNext == ASSUME Control, Sequences, Next PROVE Control'
<1>1. CASE StartTemperature
  BY <1>1, ControlStart
<1>2. CASE RegrowFails
  BY <1>2, ControlFail DEF RegrowFails
<1>3. CASE DecodePrompt
  BY <1>3, ControlPrompt
<1>4. CASE PromptFails
  BY <1>4, ControlFail DEF PromptFails
<1>5. CASE SampleGreedy \/ SampleBeam
  BY <1>5, ControlSample
<1>6. CASE CopyParent \/ MoveToOwn
  BY <1>6, ControlCopy
<1>7. CASE Update
  BY <1>7, ControlUpdate
<1>8. CASE DecodeNext
  BY <1>8, ControlDecode
<1>9. CASE DecodeFails
  BY <1>9, ControlFail DEF DecodeFails
<1>10. CASE Rank
  BY <1>10, ControlRank
<1>11. CASE Ended
  <2>1. UNCHANGED vars
    BY <1>11 DEF Ended
  <2>2. QED
    BY <2>1 DEF Control, vars, Alive, Running, Current
<1>12. QED
  BY <1>1, <1>2, <1>3, <1>4, <1>5, <1>6, <1>7, <1>8, <1>9, <1>10, <1>11 DEF Next

-----------------------------------------------------------------------------
(* What the decoders hold, step by step.                                   *)

LEMMA SequencesPrompt == ASSUME Control, DecodePrompt PROVE Sequences'
<1>1. /\ phase = "prompt" /\ phase' = "sample" /\ i' = 0
      /\ n_cur' = n_cur /\ decoders' = decoders /\ params' = params
  BY DEF DecodePrompt, given
<1>2. Alive' = Alive /\ Current' = Current
  BY <1>1, AliveStays
<1>3. \A j \in Current : decoders[j] = FreshDecoder
  BY <1>1 DEF Control
<1>4. Alive = Current
  BY <1>3, FreshDecoders DEF Alive, Running
<1>5. Follows(params, FreshDecoder, 0)
  <2>1. Len(<<>>) = 0 /\ n_max \in Nat
    BY WindowFacts
  <2>2. Obeys(params, <<>>)
    BY <2>1 DEF Obeys
  <2>3. LastAt(<<>>, 0, 0)
    BY DEF LastAt
  <2>4. QED
    BY <2>2, <2>3, FreshDecoders DEF Follows
<1>6. QED
  BY <1>1, <1>2, <1>3, <1>4, <1>5 DEF Sequences, Busy

LEMMA SequencesSample ==
    ASSUME Control, Sequences, SampleGreedy \/ SampleBeam
    PROVE  Sequences'
<1>1. PICK parent, token : Sampling(parent, token)
  BY Samples
<1>2. /\ phase = "sample" /\ phase' \in {"copy", "update"} /\ i' = i /\ params' = params
      /\ i < n_max
  BY DEF SampleGreedy, SampleBeam, given, Control, Busy
<1>3. Alive' = Alive /\ Current' = Current
  BY <1>1, SamplingFacts
<1>4. ASSUME NEW j \in Alive
      PROVE  Follows(params, decoders'[j], i)
  <2>1. /\ parent[j] \in Alive /\ decoders[parent[j]] \in Decoder
        /\ Len(decoders[parent[j]].tokens) = i
        /\ decoders'[j] = Push(decoders[parent[j]], token[j])
    BY <1>1, SamplingFacts
  <2>2. token[j] \in Allowed(decoders[parent[j]])
    BY <1>1 DEF Sampling
  <2>3. Follows(params, decoders[parent[j]], i)
    BY <1>2, <2>1 DEF Sequences
  <2>4. QED
    BY <1>2, <2>1, <2>2, <2>3, AllowedObeys
<1>5. \A j \in Current \ Alive : decoders'[j] = decoders[j]
  BY <1>1, SamplingFacts, AliveFacts
<1>6. QED
  BY <1>2, <1>3, <1>4, <1>5 DEF Sequences, Busy

LEMMA SequencesCopy ==
    ASSUME Control, Sequences, CopyParent \/ MoveToOwn
    PROVE  Sequences'
<1>1. PICK loop \in {"copy", "move"}, after \in {"move", "update"} : Turn(loop, after)
  BY DEF CopyParent, MoveToOwn
<1>2. /\ phase \in {"copy", "move"} /\ phase' \in {"copy", "move", "update"}
      /\ i' = i /\ params' = params /\ n_cur' = n_cur /\ decoders' = decoders
  BY <1>1 DEF CopyParent, MoveToOwn, given, Turn
<1>3. Alive' = Alive /\ Current' = Current
  BY <1>2, AliveStays
<1>4. QED
  BY <1>2, <1>3 DEF Sequences, Busy

LEMMA SequencesUpdate == ASSUME Control, Sequences, Update PROVE Sequences'
<1>1. phase = "update" /\ i' = i /\ params' = params
  BY DEF Update, given
<1>2. /\ Current' = Current /\ Alive' \subseteq Alive
      /\ phase' = IF Alive' = {} THEN "rank" ELSE "decode"
  BY UpdateFacts
<1>3. ASSUME NEW j \in Alive
      PROVE  \/ /\ ~decoders'[j].failed /\ ~decoders'[j].completed
                /\ Follows(params, decoders'[j], i + 1)
                /\ i = n_max - 1 => decoders'[j].result_len # 0
             \/ /\ decoders'[j].failed \/ decoders'[j].completed
                /\ Rankable(params, decoders'[j])
  <2>1. /\ decoders[j] \in Decoder /\ Len(decoders[j].tokens) = i + 1 /\ i < n_max
        /\ decoders'[j] = Advance(decoders[j])
    BY UpdateFacts
  <2>2. ~decoders[j].failed /\ ~decoders[j].completed
    BY DEF Alive, Running
  <2>3. Follows(params, decoders[j], i)
    BY <1>1 DEF Sequences
  <2>4. QED
    BY <2>1, <2>2, <2>3, AdvanceYields
<1>4. \A j \in Current \ Alive : decoders'[j] = decoders[j] /\ Rankable(params, decoders[j])
  BY <1>1, UpdateFacts, AliveFacts DEF Sequences, Busy
<1>5. Alive' = {j \in Current : ~decoders'[j].failed /\ ~decoders'[j].completed}
  BY <1>2 DEF Alive, Running
<1>6. \A j \in Current \ Alive' : Rankable(params, decoders'[j])
  BY <1>3, <1>4, <1>5, AliveFacts
<1>7. \A j \in Alive' : /\ Follows(params, decoders'[j], i + 1)
                        /\ i = n_max - 1 => decoders'[j].result_len # 0
  BY <1>2, <1>3, <1>5
<1>8. QED
  BY <1>1, <1>2, <1>6, <1>7 DEF Sequences, Busy

LEMMA SequencesDecode == ASSUME Control, Sequences, DecodeNext PROVE Sequences'
<1>1. /\ phase = "decode" /\ i' = i + 1 /\ i \in Nat /\ i < n_max /\ n_max \in Nat
      /\ phase' = IF i' = n_max THEN "rank" ELSE "sample"
      /\ params' = params /\ n_cur' = n_cur /\ decoders' = decoders
  BY WindowFacts DEF DecodeNext, Control, Busy, given
<1>2. Alive' = Alive /\ Current' = Current
  BY <1>1, AliveStays
<1>3. ASSUME NEW j \in Alive
      PROVE  /\ Follows(params, decoders[j], i + 1)
             /\ i + 1 = n_max => Rankable(params, decoders[j])
  <2>1. Follows(params, decoders[j], i + 1) /\ (i = n_max - 1 => decoders[j].result_len # 0)
    BY <1>1 DEF Sequences
  <2>2. Len(decoders[j].tokens) = i + 1
    BY <1>1 DEF Control
  <2>3. ASSUME i + 1 = n_max PROVE Rankable(params, decoders[j])
    <3> DEFINE d == decoders[j]
    <3>1. d.result_len # 0 /\ d.result_len \in 0..(i + 1)
      BY <1>1, <2>1, <2>3 DEF Follows, LastAt
    <3>2. d.seek_delta = 2 * (d.tokens[d.result_len] - Beg)
      BY <2>1, <3>1 DEF Follows
    <3>3. Yields(params, d)
      BY <1>1, <2>1, <2>2, <3>1, <3>2 DEF Follows, Yields
    <3>4. d.result_len \in 1..Len(d.tokens)
      BY <1>1, <2>2, <3>1
    <3>5. QED
      BY <3>3, <3>4 DEF Rankable
  <2>4. QED
    BY <2>1, <2>3
<1>4. \A j \in Current \ Alive : Rankable(params, decoders[j])
  BY <1>1 DEF Sequences, Busy
<1>5. CASE i + 1 = n_max
  <2>1. \A j \in Current : Rankable(params, decoders[j])
    BY <1>3, <1>4, <1>5
  <2>2. QED
    BY <1>1, <1>2, <1>5, <2>1 DEF Sequences, Busy
<1>6. CASE i + 1 # n_max
  BY <1>1, <1>2, <1>3, <1>4, <1>6 DEF Sequences, Busy
<1>7. QED
  BY <1>5, <1>6

LEMMA SequencesNext == ASSUME Control, Sequences, Next PROVE Sequences'
<1>1. CASE phase' \in {"temperature", "prompt", "done", "error"}
  BY <1>1 DEF Sequences, Busy
<1>2. CASE StartTemperature \/ RegrowFails \/ PromptFails \/ DecodeFails \/ Rank
  <2>1. phase' \in {"temperature", "prompt", "done", "error"}
    BY <1>2, RankFacts DEF StartTemperature, RegrowFails, PromptFails, DecodeFails, Fail
  <2>2. QED
    BY <1>1, <2>1
<1>3. CASE DecodePrompt
  BY <1>3, SequencesPrompt
<1>4. CASE SampleGreedy \/ SampleBeam
  BY <1>4, SequencesSample
<1>5. CASE CopyParent \/ MoveToOwn
  BY <1>5, SequencesCopy
<1>6. CASE Update
  BY <1>6, SequencesUpdate
<1>7. CASE DecodeNext
  BY <1>7, SequencesDecode
<1>8. CASE Ended
  <2>1. phase' \in {"temperature", "prompt", "done", "error"}
    BY <1>8 DEF Ended, vars
  <2>2. QED
    BY <1>1, <2>1
<1>9. QED
  BY <1>2, <1>3, <1>4, <1>5, <1>6, <1>7, <1>8 DEF Next

(* The best decoder yields: it is one that is being decoded, or it was     *)
(* ranked and is of no use to the current temperature.                     *)
LEMMA BestYieldsNext ==
    ASSUME Control, Sequences, BestYields, Next
    PROVE  BestYields'
<1>1. CASE StartTemperature
  <2>1. /\ phase = "temperature" /\ phase' = "prompt" /\ best' = best /\ params' = params
        /\ n_cur' \in 1..MaxDecoders
        /\ decoders' = [j \in Ids |-> IF j < n_cur' THEN FreshDecoder ELSE decoders[j]]
    BY <1>1, AliveFacts, DecodersOfNow DEF StartTemperature, Reset, given
  <2>2. best \in Ids
    BY DEF Control
  <2>3. best < n_cur' => best' \in Current'
    <3>1. best \in Nat /\ n_cur' \in Nat /\ Current' = 0..(n_cur' - 1)
      BY <2>1, <2>2, WindowFacts DEF Current, Ids
    <3>2. \A a, b \in Nat : a < b => a \in 0..(b - 1)
      OBVIOUS
    <3>3. QED
      BY <2>1, <3>1, <3>2
  <2>4. ~(best < n_cur') => best # 0 /\ decoders'[best] = decoders[best]
    BY <2>1, <2>2
  <2>5. QED
    BY <2>1, <2>3, <2>4 DEF BestYields, Busy
<1>2. CASE RegrowFails \/ PromptFails \/ DecodeFails
  BY <1>2 DEF RegrowFails, PromptFails, DecodeFails, Fail, BestYields, Busy
<1>3. CASE DecodePrompt \/ SampleGreedy \/ SampleBeam \/ CopyParent \/ MoveToOwn
           \/ Update \/ DecodeNext
  <2>1. /\ phase \in Busy \cup {"prompt"} /\ phase' \in Busy \cup {"rank"}
        /\ n_cur' = n_cur /\ best' = best /\ params' = params
    BY <1>3 DEF DecodePrompt, SampleGreedy, SampleBeam, CopyParent, MoveToOwn, Update,
                DecodeNext, Turn, Busy, given
  <2>2. \A j \in Ids \ Current : decoders'[j] = decoders[j]
    <3>1. CASE SampleGreedy \/ SampleBeam
      BY <3>1, Samples, SamplingFacts, AliveFacts
    <3>2. CASE Update
      BY <3>2, UpdateFacts, AliveFacts
    <3>3. CASE DecodePrompt \/ CopyParent \/ MoveToOwn \/ DecodeNext
      BY <3>3 DEF DecodePrompt, CopyParent, MoveToOwn, DecodeNext
    <3>4. QED
      BY <1>3, <3>1, <3>2, <3>3
  <2>3. Current' = Current
    BY <2>1 DEF Current
  <2>4. best \in Ids
    BY DEF Control
  <2>5. QED
    BY <2>1, <2>2, <2>3, <2>4 DEF BestYields, Busy
<1>4. CASE Rank
  <2>1. PICK low : /\ decoders' = Ranked(low)
                   /\ best' = best \/ (best' \in Scored(low) /\ best' \in Current)
    BY <1>4, RankFacts
  <2>2. phase = "rank" /\ phase' \in {"done", "temperature"} /\ params' = params
    BY <1>4, RankFacts DEF given
  <2>3. /\ \A j \in Current : Yields(params, decoders'[j])
        /\ \A j \in Ids \ Current : decoders'[j] = decoders[j]
    BY <2>1, <2>2, RankedYields
  <2>4. best \in Ids /\ (best \in Current \/ Yields(params, decoders[best]))
    BY <2>2 DEF Control, BestYields, Busy
  <2>5. Yields(params, decoders'[best'])
    BY <2>1, <2>3, <2>4
  <2>6. QED
    BY <2>2, <2>5 DEF BestYields, Busy
<1>5. CASE Ended
  BY <1>5 DEF Ended, vars, BestYields, Busy, Current
<1>6. QED
  BY <1>1, <1>2, <1>3, <1>4, <1>5 DEF Next

(* The control of the decoding, what each decoder holds and what the best  *)
(* one yields, for every vocabulary and whatever is sampled.               *)
THEOREM DecodeInvariant == Spec => []DecodeInv
<1>1. Init => DecodeInv
  <2>1. Init => Sequences /\ BestYields
    BY DEF Init, Sequences, BestYields, Busy
  <2>2. QED
    BY <2>1, ControlInit DEF DecodeInv
<1>2. DecodeInv /\ [Next]_vars => DecodeInv'
  <2> SUFFICES ASSUME DecodeInv, [Next]_vars PROVE DecodeInv'
    OBVIOUS
  <2>1. CASE Next
    BY <2>1, ControlNext, SequencesNext, BestYieldsNext DEF DecodeInv
  <2>2. CASE UNCHANGED vars
    <3>1. Control'
      BY <2>2 DEF DecodeInv, Control, vars, Alive, Running, Current
    <3>2. Sequences' /\ BestYields'
      BY <2>2 DEF DecodeInv, Sequences, BestYields, vars, Alive, Running, Current
    <3>3. QED
      BY <3>1, <3>2 DEF DecodeInv
  <2>3. QED
    BY <2>1, <2>2
<1>3. QED
  BY <1>1, <1>2, PTL DEF Spec

-----------------------------------------------------------------------------
(* What the invariant says of the ranking and of the result.               *)

(* A decoder that did not fail is ranked by a non-empty result, no longer  *)
(* than its sequence: the sums over its tokens are not divided by zero.     *)
THEOREM RankedByResult == Spec => []RankedResult
<1>1. DecodeInv => RankedResult
  BY DEF DecodeInv, Sequences, Rankable, RankedResult
<1>2. QED
  BY <1>1, DecodeInvariant, PTL

LEMMA LastStampIs ==
    ASSUME NEW s \in Seq(Token), NEW last \in 0..Len(s), LastAt(s, last, Len(s))
    PROVE  LastStamp(s) = last
<1>1. /\ Len(s) \in Nat /\ DOMAIN s = 1..Len(s) /\ Beg \in Int
      /\ \A k \in 1..Len(s) : s[k] \in Int
  <2>1. Token \subseteq Int
    BY WindowFacts
  <2>2. QED
    BY <2>1, WindowFacts
<1>2. \A k \in Stamps(s) : k \in 1..Len(s) /\ s[k] > Beg /\ k <= last
  <2>1. ASSUME NEW k \in Stamps(s) PROVE k \in 1..Len(s) /\ s[k] > Beg /\ k <= last
    <3>1. k \in 1..Len(s) /\ s[k] > Beg
      BY <1>1 DEF Stamps
    <3>2. k > last => k \in (last + 1)..Len(s)
      BY <1>1, <3>1
    <3>3. k > last => s[k] <= Beg
      BY <3>2 DEF LastAt
    <3>4. QED
      BY <1>1, <3>1, <3>3
  <2>2. QED
    BY <2>1
<1>3. CASE last = 0
  <2>1. Stamps(s) = {}
    BY <1>2, <1>3
  <2>2. QED
    BY <1>3, <2>1 DEF LastStamp
<1>4. CASE last # 0
  <2>1. last \in Stamps(s)
    BY <1>1, <1>4 DEF LastAt, Stamps
  <2>2. \A l \in Stamps(s) : l <= last
    BY <1>2
  <2>3. \A k \in Stamps(s) : (\A l \in Stamps(s) : l <= k) => k = last
    BY <1>2, <2>1
  <2> DEFINE m == CHOOSE k \in Stamps(s) : \A l \in Stamps(s) : l <= k
  <2>4. m \in Stamps(s) /\ \A l \in Stamps(s) : l <= m
    BY <2>1, <2>2
  <2>5. m = last
    BY <2>3, <2>4
  <2>6. LastStamp(s) = m
    BY <2>1 DEF LastStamp
  <2>7. QED
    BY <2>5, <2>6
<1>5. QED
  BY <1>3, <1>4

LEMMA YieldsIsOutcome ==
    ASSUME NEW d \in Decoder, NEW p, Yields(p, d)
    PROVE  IsOutcome([tokens |-> d.tokens, result_len |-> d.result_len,
                      seek_delta |-> d.seek_delta], p)
<1> DEFINE s == d.tokens
<1>1. s \in Seq(Token) /\ Len(s) \in Nat /\ DOMAIN s = 1..Len(s) /\ Len(s) >= 1
  BY DEF Decoder, Yields
<1>2. PICK last \in 0..Len(s) :
         /\ LastAt(s, last, Len(s))
         /\ \/ d.result_len = last
            \/ (last = 0 \/ Whole(p)) /\ d.result_len = Len(s)
         /\ \/ last # 0 /\ d.seek_delta = 2 * (s[last] - Beg)
            \/ (last = 0 \/ Whole(p)) /\ d.seek_delta = Chunk
  BY DEF Yields
<1>3. LastStamp(s) = last
  BY <1>1, <1>2, LastStampIs
<1>4. Sampled(s, p)
  <2>1. Len(s) <= n_max /\ \A k \in 1..Len(s) : Rule(p, s, k) /\ (s[k] = Eot => k = Len(s))
    BY DEF Yields, Obeys
  <2>2. Len(s) \in 1..n_max
    BY <1>1, <2>1, WindowFacts
  <2>3. s[1] # Eot /\ s[1] <= Beg + max_initial_ts
    <3>1. 1 \in 1..Len(s)
      BY <1>1
    <3>2. QED
      BY <2>1, <3>1 DEF Rule
  <2>4. ASSUME NEW k \in 1..Len(s)
        PROVE  /\ s[k] = Eot => k = Len(s)
               /\ s[k] >= Beg => ~p.no_timestamps
               /\ \A l \in 1..Len(s) : l < k /\ s[l] >= Beg /\ s[k] >= Beg => s[l] <= s[k]
               /\ k > 1 /\ s[k - 1] >= Beg =>
                     IF k = 2 \/ s[k - 2] >= Beg THEN s[k] < Beg ELSE s[k] >= Eot
    <3>1. Rule(p, s, k) /\ (s[k] = Eot => k = Len(s))
      BY <2>1
    <3>2. \A l \in 1..Len(s) : l < k => l \in 1..(k - 1)
      BY <1>1
    <3>3. QED
      BY <3>1, <3>2 DEF Rule
  <2>5. QED
    BY <1>1, <2>2, <2>3, <2>4 DEF Sampled
<1>5. QED
  BY <1>2, <1>3, <1>4 DEF IsOutcome, Whole

(* What the window yields at the end is an outcome the loop over the       *)
(* windows is made for, which is all FullSeek assumes of it.               *)
THEOREM OutcomeYielded == Spec => []YieldsOutcome
<1>1. DecodeInv => YieldsOutcome
  <2> SUFFICES ASSUME DecodeInv, phase = "done"
               PROVE  IsOutcome([tokens |-> decoders[best].tokens,
                                 result_len |-> decoders[best].result_len,
                                 seek_delta |-> decoders[best].seek_delta], params)
    BY DEF YieldsOutcome
  <2>1. decoders[best] \in Decoder
    BY DEF DecodeInv, Control
  <2>2. Yields(params, decoders[best])
    BY DEF DecodeInv, BestYields
  <2>3. QED
    BY <2>1, <2>2, YieldsIsOutcome
<1>2. QED
  BY <1>1, DecodeInvariant, PTL

-----------------------------------------------------------------------------
(* Later temperatures have no fewer decoders than the first.               *)
NeverFewer == \A p \in Params : p.beam => p.beam_size <= p.best_of

BestWithin ==
    /\ phase = "temperature" => best < Decoders(params, it)
    /\ phase \notin {"temperature", "error"} => best < n_cur

LEMMA DecodersGrow ==
    ASSUME NeverFewer, NEW p \in Params, NEW n \in Nat
    PROVE  Decoders(p, n) <= Decoders(p, n + 1)
<1>1. p.best_of \in Int /\ p.beam_size \in Int /\ p.beam \in BOOLEAN
  BY ParamFacts
<1>2. p.beam => p.beam_size <= p.best_of
  BY DEF NeverFewer
<1>3. n + 1 # 0
  OBVIOUS
<1>4. QED
  BY <1>1, <1>2, <1>3 DEF Decoders, AtLeastOne

(* The window yields a decoder of the temperature that was tried last, if  *)
(* beam search has no more beams than best_of; greedy decoding, the one    *)
(* the Android application uses, always does.                               *)
THEOREM BestOfLastTemperature ==
    ASSUME NeverFewer
    PROVE  Spec => []BestIsCurrent
<1>1. Init => BestWithin
  <2> SUFFICES ASSUME Init PROVE BestWithin
    OBVIOUS
  <2>1. Decoders(params, it) \in 1..MaxDecoders
    BY ControlInit, DecodersOfNow
  <2>2. QED
    BY <2>1 DEF Init, BestWithin
<1>2. DecodeInv /\ BestWithin /\ [Next]_vars => BestWithin'
  <2> SUFFICES ASSUME DecodeInv, BestWithin, [Next]_vars PROVE BestWithin'
    OBVIOUS
  <2>0. Control
    BY DEF DecodeInv
  <2>1. CASE StartTemperature
    BY <2>1 DEF StartTemperature, BestWithin, given
  <2>2. CASE RegrowFails \/ PromptFails \/ DecodeFails
    BY <2>2 DEF RegrowFails, PromptFails, DecodeFails, Fail, BestWithin
  <2>3. CASE DecodePrompt \/ SampleGreedy \/ SampleBeam \/ CopyParent \/ MoveToOwn
             \/ Update \/ DecodeNext
    <3>1. /\ phase \notin {"temperature", "error"} /\ phase' # "temperature"
          /\ n_cur' = n_cur /\ best' = best
      BY <2>3 DEF DecodePrompt, SampleGreedy, SampleBeam, CopyParent, MoveToOwn, Update,
                  DecodeNext, Turn
    <3>2. QED
      BY <3>1 DEF BestWithin
  <2>4. CASE Rank
    <3>1. /\ phase = "rank" /\ n_cur' = n_cur /\ params' = params
          /\ best' = best \/ best' \in Current
          /\ \/ phase' = "done"
             \/ phase' = "temperature" /\ it' = it + 1
      BY <2>4, RankFacts DEF given
    <3>2. /\ n_cur \in Nat /\ n_cur = Decoders(params, it) /\ it \in Nat /\ params \in Params
          /\ best \in Nat
      BY <2>0, <3>1, WindowFacts DEF Control, Ids
    <3>3. best' < n_cur /\ best' \in Nat
      BY <3>1, <3>2 DEF BestWithin, Current
    <3>4. Decoders(params, it + 1) \in Nat /\ n_cur <= Decoders(params, it + 1)
      BY <3>2, DecodersGrow, ParamFacts
    <3>5. best' < Decoders(params, it + 1)
      BY <3>2, <3>3, <3>4
    <3>6. QED
      BY <3>1, <3>3, <3>5 DEF BestWithin
  <2>5. CASE Ended \/ UNCHANGED vars
    BY <2>5 DEF Ended, vars, BestWithin
  <2>6. QED
    BY <2>1, <2>2, <2>3, <2>4, <2>5 DEF Next
<1>3. DecodeInv /\ BestWithin => BestIsCurrent
  BY WindowFacts DEF DecodeInv, Control, BestWithin, BestIsCurrent, Current, Ids
<1>4. QED
  BY <1>1, <1>2, <1>3, DecodeInvariant, PTL DEF Spec

-----------------------------------------------------------------------------
(* The order of the decoding: temperature, part, token, step, decoder.     *)
Forward ==
    \/ it' > it
    \/ it' = it /\ Part' > Part
    \/ it' = it /\ Part' = Part /\ i' > i
    \/ it' = it /\ Part' = Part /\ i' = i /\ TokenStep' > TokenStep
    \/ it' = it /\ Part' = Part /\ i' = i /\ TokenStep' = TokenStep /\ turn' > turn

(* Every step of the decoding takes it further, so that the fallback to    *)
(* the next temperature, the token loop and the loops over the beams end.  *)
THEOREM DecodingAdvances == Spec => ClockAdvances
<1>1. DecodeInv /\ [Next]_vars => [Forward]_vars
  <2> SUFFICES ASSUME DecodeInv, Next PROVE Forward \/ UNCHANGED vars
    OBVIOUS
  <2>0. Control
    BY DEF DecodeInv
  <2>1. CASE StartTemperature \/ DecodePrompt
    BY <2>1 DEF StartTemperature, DecodePrompt, Forward, Part
  <2>2. CASE RegrowFails \/ PromptFails \/ DecodeFails
    BY <2>2 DEF RegrowFails, PromptFails, DecodeFails, Fail, Forward, Part
  <2>3. CASE SampleGreedy \/ SampleBeam \/ Update
    BY <2>3 DEF SampleGreedy, SampleBeam, Update, Forward, Part, TokenStep
  <2>4. CASE CopyParent
    <3>1. phase = "copy" /\ it' = it /\ i' = i /\ Turn("copy", "move") /\ turn \in Alive
      BY <2>0, <2>4 DEF CopyParent, Control
    <3>2. phase' = "move" \/ (phase' = "copy" /\ turn' > turn)
      BY <2>0, <3>1, TurnFacts
    <3>3. QED
      BY <3>1, <3>2 DEF Forward, Part, TokenStep
  <2>5. CASE MoveToOwn
    <3>1. phase = "move" /\ it' = it /\ i' = i /\ Turn("move", "update") /\ turn \in Alive
      BY <2>0, <2>5 DEF MoveToOwn, Control
    <3>2. phase' = "update" \/ (phase' = "move" /\ turn' > turn)
      BY <2>0, <3>1, TurnFacts
    <3>3. QED
      BY <3>1, <3>2 DEF Forward, Part, TokenStep
  <2>6. CASE DecodeNext
    <3>1. /\ phase = "decode" /\ phase' \in {"rank", "sample"} /\ it' = it /\ i' = i + 1
          /\ i \in Nat
      BY <2>0, <2>6 DEF DecodeNext, Control
    <3>2. i' > i
      BY <3>1
    <3>3. QED
      BY <3>1, <3>2 DEF Forward, Part
  <2>7. CASE Rank
    <3>1. /\ phase = "rank" /\ it \in Nat
          /\ (phase' = "done" /\ it' = it) \/ it' = it + 1
      BY <2>0, <2>7, RankFacts DEF Control
    <3>2. QED
      BY <3>1 DEF Forward, Part
  <2>8. CASE Ended
    BY <2>8 DEF Ended
  <2>9. QED
    BY <2>1, <2>2, <2>3, <2>4, <2>5, <2>6, <2>7, <2>8 DEF Next
<1>2. Spec => [][Forward]_vars
  BY <1>1, DecodeInvariant, PTL DEF Spec
<1>3. QED
  BY <1>2 DEF ClockAdvances, Forward

-----------------------------------------------------------------------------
(***************************************************************************)
(* For any number of decoders and any schedule of their beams: the decoders*)
(* that share the self-attention KV cache never see each other's text, no  *)
(* token is written beyond the context, and there is always a slot.        *)
(*                                                                         *)
(* Every sequence is described by the text it holds: which cells have each *)
(* of its positions, and what they were computed from.                     *)
(***************************************************************************)

Temp(j) == MaxDecoders + j

(* The cells of a sequence. *)
Mine(c, s) == {k \in Used(c) : s \in c.cells[k].seq_id}

(* The first n tokens of the prompt and the sequence that follows it.      *)
Text(start, tokens, n) ==
    [k \in 1..n |-> IF k <= Len(start) THEN start[k] ELSE tokens[k - Len(start)]]

(* Their history: the positions up to n and the tokens there.              *)
Past(text, n) == {<<p, text[p + 1]>> : p \in 0..(n - 1)}

(* The cells of sequence s hold the first n positions of the text, each    *)
(* once, and each was computed from the ones before it.                    *)
Holds(c, s, text, n) ==
    /\ \A k \in Mine(c, s) : /\ c.cells[k].pos \in 0..(n - 1)
                             /\ c.cells[k].token = text[c.cells[k].pos + 1]
                             /\ c.cells[k].seen = Past(text, c.cells[k].pos + 1)
    /\ \A k, l \in Mine(c, s) : c.cells[k].pos = c.cells[l].pos => k = l
    /\ \A p \in 0..(n - 1) : \E k \in Mine(c, s) : c.cells[k].pos = p

Cells == [pos    : Positions,
          token  : Token \cup PromptTokens,
          seq_id : (SUBSET SeqIds) \ {{}},
          seen   : SUBSET (Positions \X (Token \cup PromptTokens))]

Cached(c) ==
    /\ c \in [size : {c.size}, head : {c.head}, cells : {c.cells}]
    /\ c.size \in Nat /\ c.head \in 0..(c.size - 1)
    /\ Used(c) \subseteq 0..(c.size - 1)
    /\ \A k \in Used(c) : c.cells[k] \in Cells

CacheTyped == Cached(kv) /\ kv.size = CacheSize(kv_n_dec)

(* The sequence that holds the text of decoder j, less the token sampled   *)
(* last.                                                                   *)
Texts ==
    /\ DOMAIN pick = Ids
    /\ phase \in {"sample", "update", "decode"} => \A j \in Alive :
          Holds(kv, j, Text(prompt, decoders[j].tokens, n_past), n_past)
    /\ phase = "copy" => \A j \in Alive :
          /\ pick[j].parent \in Alive
          /\ Holds(kv, pick[j].parent, Text(prompt, decoders[j].tokens, n_past), n_past)
          /\ j < turn =>
                Holds(kv, Temp(j), Text(prompt, decoders[j].tokens, n_past), n_past)
    /\ phase = "move" => \A j \in Alive :
          Holds(kv, IF j < turn THEN j ELSE Temp(j),
                Text(prompt, decoders[j].tokens, n_past), n_past)

Temporary ==
    phase \in Busy \cup {"prompt", "rank"} => \A j \in Ids :
        Mine(kv, Temp(j)) # {} =>
           j \in Alive /\ IF phase = "copy" THEN j < turn ELSE phase = "move" /\ j >= turn

(* No cell is in use beyond those the batches of this temperature took.    *)
Reach == Len(prompt) + n_cur * i

Extent ==
    /\ phase = "prompt" => kv.head = 0 /\ Used(kv) = {}
    /\ phase \in Busy => kv.head <= Reach /\ \A k \in Used(kv) : k < Reach

CacheInv == CacheTyped /\ Texts /\ Temporary /\ Extent

-----------------------------------------------------------------------------
(* The operations of the cache.                                            *)

Alike(a, b) == a.pos = b.pos /\ a.token = b.token /\ a.seen = b.seen

(* A sequence whose cells are those of another holds the same.             *)
LEMMA HoldsAlike ==
    ASSUME NEW c, NEW e, NEW s, NEW t, NEW text, NEW n,
           Mine(e, t) = Mine(c, s),
           \A k \in Mine(c, s) : Alike(e.cells[k], c.cells[k]),
           Holds(c, s, text, n)
    PROVE  Holds(e, t, text, n)
<1>1. \A k \in Mine(c, s) : /\ e.cells[k].pos = c.cells[k].pos
                            /\ e.cells[k].token = c.cells[k].token
                            /\ e.cells[k].seen = c.cells[k].seen
  BY DEF Alike
<1>2. \A k \in Mine(e, t) : /\ e.cells[k].pos \in 0..(n - 1)
                            /\ e.cells[k].token = text[e.cells[k].pos + 1]
                            /\ e.cells[k].seen = Past(text, e.cells[k].pos + 1)
  BY <1>1 DEF Holds
<1>3. \A k, l \in Mine(e, t) : e.cells[k].pos = e.cells[l].pos => k = l
  BY <1>1 DEF Holds
<1>4. \A p \in 0..(n - 1) : \E k \in Mine(e, t) : e.cells[k].pos = p
  BY <1>1 DEF Holds
<1>5. QED
  BY <1>2, <1>3, <1>4 DEF Holds

LEMMA EmptyCacheFacts ==
    ASSUME NEW size \in Nat, size >= 1
    PROVE  /\ Cached(EmptyCache(size)) /\ EmptyCache(size).size = size
           /\ Used(EmptyCache(size)) = {}
           /\ \A s : Mine(EmptyCache(size), s) = {}
<1>1. Used(EmptyCache(size)) = {}
  BY DEF EmptyCache, Used
<1>2. QED
  BY <1>1 DEF EmptyCache, Cached, Mine

LEMMA CacheExcept ==
    ASSUME NEW c, c \in [size : {c.size}, head : {c.head}, cells : {c.cells}],
           NEW head, NEW cells
    PROVE  LET e == [c EXCEPT !.head = head, !.cells = cells]
           IN  /\ e \in [size : {e.size}, head : {e.head}, cells : {e.cells}]
               /\ e.size = c.size /\ e.head = head /\ e.cells = cells
OBVIOUS

(* What each of them does to the cells and to their sequences.             *)
Copied(c, e, src, dsts) ==
    /\ Cached(e) /\ e.size = c.size /\ Used(e) = Used(c)
    /\ e.head \in {0, c.head}
    /\ \A k \in Used(c) : Alike(e.cells[k], c.cells[k])
    /\ \A s : Mine(e, s) = Mine(c, s) \cup (IF s \in dsts THEN Mine(c, src)
                                            ELSE {})

Removed(c, e, s) ==
    /\ Cached(e) /\ e.size = c.size /\ Used(e) \subseteq Used(c)
    /\ e.head = c.head \/ e.head \in Used(c)
    /\ \A k \in Used(e) : Alike(e.cells[k], c.cells[k])
    /\ Mine(e, s) = {}
    /\ \A t : t # s => Mine(e, t) = Mine(c, t)

Placed(c, e, h, n, batch) ==
    /\ Cached(e) /\ e.size = c.size /\ e.head = h
    /\ Used(e) = Used(c) \cup h..(h + n - 1)
    /\ \A k \in h..(h + n - 1) : k \notin Used(c) /\ e.cells[k] = batch[k - h + 1]
    /\ \A k \in Used(c) : e.cells[k] = c.cells[k]

LEMMA SeqCpFacts ==
    ASSUME NEW c, Cached(c), NEW src, NEW dsts, dsts \subseteq SeqIds,
           NEW e, e = SeqCp(c, src, dsts)
    PROVE  Copied(c, e, src, dsts)
<1>1. /\ e \in [size : {e.size}, head : {e.head}, cells : {e.cells}]
      /\ e.size = c.size /\ e.head = IF dsts = {} THEN c.head ELSE 0
      /\ e.cells = [k \in Used(c) |->
                      IF src \in c.cells[k].seq_id
                      THEN [c.cells[k] EXCEPT !.seq_id = @ \cup dsts]
                      ELSE c.cells[k]]
  BY CacheExcept DEF Cached, SeqCp
<1>2. Used(e) = Used(c)
  BY <1>1 DEF Used
<1>3. ASSUME NEW k \in Used(c)
      PROVE  /\ e.cells[k] \in Cells /\ Alike(e.cells[k], c.cells[k])
             /\ e.cells[k].seq_id = IF src \in c.cells[k].seq_id
                                    THEN c.cells[k].seq_id \cup dsts
                                    ELSE c.cells[k].seq_id
  <2>1. c.cells[k] \in Cells
    BY DEF Cached
  <2>2. CASE src \in c.cells[k].seq_id
    <3>1. e.cells[k] = [c.cells[k] EXCEPT !.seq_id = @ \cup dsts]
      BY <1>1, <2>2
    <3>2. c.cells[k].seq_id \cup dsts \in (SUBSET SeqIds) \ {{}}
      BY <2>1 DEF Cells
    <3>3. QED
      BY <2>1, <2>2, <3>1, <3>2 DEF Cells, Alike
  <2>3. CASE src \notin c.cells[k].seq_id
    BY <1>1, <2>1, <2>3 DEF Alike
  <2>4. QED
    BY <2>2, <2>3
<1>4. \A s : Mine(e, s) = Mine(c, s) \cup (IF s \in dsts THEN Mine(c, src) ELSE {})
  <2>1. ASSUME NEW s
        PROVE  Mine(e, s) = Mine(c, s) \cup (IF s \in dsts THEN Mine(c, src) ELSE {})
    <3>1. CASE s \in dsts
      BY <1>2, <1>3, <3>1 DEF Mine
    <3>2. CASE s \notin dsts
      BY <1>2, <1>3, <3>2 DEF Mine
    <3>3. QED
      BY <3>1, <3>2
  <2>2. QED
    BY <2>1
<1>5. e.head \in 0..(c.size - 1) /\ e.head \in {0, c.head}
  BY <1>1 DEF Cached
<1>6. Cached(e)
  BY <1>1, <1>2, <1>3, <1>5 DEF Cached
<1>7. QED
  BY <1>1, <1>2, <1>3, <1>4, <1>5, <1>6 DEF Copied

LEMMA SeqRmFacts ==
    ASSUME NEW c, Cached(c), NEW s, NEW e, e = SeqRm(c, s)
    PROVE  Removed(c, e, s)
<1> DEFINE freed == {k \in Used(c) : c.cells[k].seq_id = {s}}
<1>1. /\ e \in [size : {e.size}, head : {e.head}, cells : {e.cells}]
      /\ e.size = c.size
      /\ e.head = IF freed = {} THEN c.head
                  ELSE CHOOSE k \in freed : \A l \in freed : k <= l
      /\ e.cells = [k \in Used(c) \ freed |-> [c.cells[k] EXCEPT !.seq_id = @ \ {s}]]
  BY CacheExcept DEF Cached, SeqRm
<1>2. freed \subseteq Used(c) /\ Used(c) \subseteq Nat
  BY DEF Cached
<1>3. freed # {} => (CHOOSE k \in freed : \A l \in freed : k <= l) \in freed
  BY <1>2, Smallest
<1>4. e.head = c.head \/ e.head \in Used(c)
  BY <1>1, <1>2, <1>3
<1>5. Used(e) = Used(c) \ freed
  BY <1>1 DEF Used
<1>6. ASSUME NEW k \in Used(e)
      PROVE  /\ e.cells[k] \in Cells /\ Alike(e.cells[k], c.cells[k])
             /\ e.cells[k].seq_id = c.cells[k].seq_id \ {s}
  <2>1. k \in Used(c) /\ c.cells[k] \in Cells /\ c.cells[k].seq_id # {s}
    BY <1>5 DEF Cached
  <2>2. e.cells[k] = [c.cells[k] EXCEPT !.seq_id = @ \ {s}]
    BY <1>1, <1>5
  <2>3. c.cells[k].seq_id \ {s} \in (SUBSET SeqIds) \ {{}}
    BY <2>1 DEF Cells
  <2>4. QED
    BY <2>1, <2>2, <2>3 DEF Cells, Alike
<1>7. Mine(e, s) = {}
  BY <1>6 DEF Mine
<1>8. ASSUME NEW t, t # s PROVE Mine(e, t) = Mine(c, t)
  BY <1>5, <1>6, <1>8 DEF Mine
<1>9. e.head \in 0..(c.size - 1)
  BY <1>4 DEF Cached
<1>10. Cached(e)
  BY <1>1, <1>5, <1>6, <1>9 DEF Cached
<1>11. QED
  BY <1>1, <1>4, <1>5, <1>6, <1>7, <1>8, <1>10 DEF Removed

LEMMA PlaceFacts ==
    ASSUME NEW c, Cached(c), NEW n \in Nat, n >= 1, NEW batch, Len(batch) = n,
           \A b \in 1..n : batch[b] \in Cells,
           NEW h \in 0..c.size, IsSlot(c, n, h), NEW e, e = Place(c, h, batch)
    PROVE  Placed(c, e, h, n, batch)
<1>1. /\ e \in [size : {e.size}, head : {e.head}, cells : {e.cells}]
      /\ e.size = c.size /\ e.head = h
      /\ e.cells = [k \in Used(c) \cup h..(h + n - 1) |->
                      IF k \in Used(c) THEN c.cells[k] ELSE batch[k - h + 1]]
  BY CacheExcept DEF Cached, Place
<1>2. h + n <= c.size /\ \A k \in h..(h + n - 1) : k \notin Used(c)
  BY DEF IsSlot, Fits
<1>3. c.size \in Nat /\ Used(c) \subseteq 0..(c.size - 1)
      /\ \A k \in Used(c) : c.cells[k] \in Cells
  BY DEF Cached
<1>4. Used(e) = Used(c) \cup h..(h + n - 1)
  BY <1>1 DEF Used
<1>5. \A k \in h..(h + n - 1) : k \notin Used(c) /\ e.cells[k] = batch[k - h + 1]
  BY <1>1, <1>2
<1>6. \A k \in Used(c) : e.cells[k] = c.cells[k]
  BY <1>1
<1>7. \A k \in h..(h + n - 1) : k - h + 1 \in 1..n /\ k \in 0..(c.size - 1)
  BY <1>2, <1>3
<1>8. \A k \in Used(e) : e.cells[k] \in Cells
  BY <1>3, <1>4, <1>5, <1>6, <1>7
<1>9. Used(e) \subseteq 0..(c.size - 1)
  BY <1>3, <1>4, <1>7
<1>10. h \in 0..(c.size - 1)
  BY <1>2, <1>3
<1>11. Cached(e)
  BY <1>1, <1>3, <1>8, <1>9, <1>10 DEF Cached
<1>12. QED
  BY <1>1, <1>4, <1>5, <1>6, <1>11 DEF Placed

(* All cells from some index on are free: there is a slot, no further.     *)
LEMMA SlotWithin ==
    ASSUME NEW c, Cached(c), NEW n \in Nat, n >= 1, NEW r \in Nat,
           \A k \in Used(c) : k < r, r + n <= c.size
    PROVE  /\ ~NoSlot(c, n)
           /\ \A h \in 0..c.size : c.head <= r /\ IsSlot(c, n, h) => h <= r
<1>1. c.size \in Nat /\ c.head \in Nat
  BY DEF Cached
<1>2. Fits(c, r, n)
  <2>1. \A k \in r..(r + n - 1) : ~(k < r)
    BY <1>1
  <2>2. QED
    BY <2>1 DEF Fits
<1>3. r \in 0..c.size
  BY <1>1
<1>4. ASSUME NEW h \in 0..c.size, c.head <= r, IsSlot(c, n, h)
      PROVE  h <= r
  <2>1. CASE h >= c.head /\ \A g \in c.head..(h - 1) : ~Fits(c, g, n)
    <3>1. h > r => r \in c.head..(h - 1)
      BY <1>1, <1>4
    <3>2. QED
      BY <1>1, <1>2, <2>1, <3>1
  <2>2. CASE h < c.head
    BY <1>1, <1>4, <2>2
  <2>3. QED
    BY <1>4, <2>1, <2>2 DEF IsSlot
<1>5. QED
  BY <1>2, <1>3, <1>4 DEF NoSlot

-----------------------------------------------------------------------------
(* The sizes: the context and the cache.                                   *)

LEMMA ContextFacts ==
    /\ n_text_ctx \in Nat /\ n_text_ctx \div 2 \in Nat /\ n_max = n_text_ctx \div 2 - 4
    /\ 2 * (n_text_ctx \div 2) <= n_text_ctx /\ n_max >= 1 /\ n_max \in Nat
    /\ KvPad \in Nat /\ KvPad >= 1
    /\ PromptLengths \subseteq 1..(n_text_ctx \div 2 + 4)
BY WindowFacts, DecodeAssumption DEF n_max, DecodeAssumption

LEMMA Products ==
    /\ \A a, b \in Nat : a * b \in Nat
    /\ \A m, n, k \in Nat : m <= n => m * k <= n * k
<1>1. \A a, b \in Nat : a * b \in Nat
  OBVIOUS
<1>2. ASSUME NEW m \in Nat, NEW n \in Nat, NEW k \in Nat, m <= n
      PROVE  m * k <= n * k
  <2>1. PICK d \in Nat : n = m + d
    <3>1. n - m \in Nat /\ n = m + (n - m)
      BY <1>2
    <3>2. QED
      BY <3>1
  <2>2. n * k = m * k + d * k
    BY <2>1
  <2>3. m * k \in Nat /\ d * k \in Nat
    BY <1>1, <2>1
  <2>4. QED
    BY <2>2, <2>3
<1>3. QED
  BY <1>1, <1>2

LEMMA Quotients ==
    ASSUME NEW a \in Nat, NEW b \in Nat, b >= 1
    PROVE  /\ a \div b \in Nat
           /\ (a \div b) * b <= a /\ a < (a \div b) * b + b
OBVIOUS

LEMMA PaddedFacts == Padded(n_text_ctx) \in Nat /\ Padded(n_text_ctx) >= n_text_ctx
<1> DEFINE a == n_text_ctx + KvPad - 1
           d == a \div KvPad
<1>1. a \in Nat
  BY ContextFacts
<1>2. d \in Nat /\ d * KvPad \in Nat /\ a < d * KvPad + KvPad
  BY <1>1, ContextFacts, Quotients, Products
<1>3. Padded(n_text_ctx) = d * KvPad
  BY DEF Padded
<1> HIDE DEF d
<1>4. QED
  BY <1>1, <1>2, <1>3, ContextFacts

LEMMA SizeFacts ==
    ASSUME NEW n \in Nat
    PROVE  /\ CacheSize(n) \in Nat
           /\ CacheSize(n) >= n_text_ctx /\ CacheSize(n) >= 1
           /\ n > 1 => CacheSize(n) >= (n + 2) * n_text_ctx
<1>1. Padded(n_text_ctx) \in Nat /\ Padded(n_text_ctx) >= n_text_ctx /\ n_text_ctx \in Nat
      /\ n_text_ctx >= 1
  BY PaddedFacts, ContextFacts
<1> DEFINE P == Padded(n_text_ctx)
<1> HIDE DEF P
<1>2. CASE n > 1
  <2>1. CacheSize(n) = P * (n + 2)
    BY <1>2 DEF CacheSize, P
  <2>2. P * (n + 2) = (n + 2) * P /\ P * (n + 2) \in Nat /\ n_text_ctx * (n + 2) <= P * (n + 2)
    BY <1>1, Products DEF P
  <2>3. 1 * n_text_ctx <= (n + 2) * n_text_ctx
    BY <1>1, Products
  <2>4. n_text_ctx * (n + 2) = (n + 2) * n_text_ctx
    BY <1>1
  <2>5. QED
    BY <1>1, <2>1, <2>2, <2>3, <2>4
<1>3. CASE ~(n > 1)
  <2>1. CacheSize(n) = P * 1
    BY <1>3 DEF CacheSize, P
  <2>2. QED
    BY <1>1, <1>3, <2>1 DEF P
<1>4. QED
  BY <1>2, <1>3

(* What the prompt and the decoders may write fits into the cache, even if *)
(* no cell is ever freed.                                                  *)
LEMMA Room ==
    ASSUME NEW start \in Nat, start <= n_text_ctx \div 2 + 4,
           NEW n \in Nat, NEW m \in Nat, m >= 1, m <= n, NEW k \in Nat, k < n_max
    PROVE  /\ start + m * k + m <= CacheSize(n)
           /\ start + k < n_text_ctx /\ start <= n_text_ctx
<1> DEFINE q == n_text_ctx \div 2
<1>1. q \in Nat /\ 2 * q <= n_text_ctx /\ n_text_ctx \in Nat /\ k + 5 <= q /\ start <= q + 4
  BY ContextFacts
<1> HIDE DEF q
<1>2. start + k < n_text_ctx /\ start <= n_text_ctx
  BY <1>1
<1>3. CASE n > 1
  <2>1. CacheSize(n) \in Nat /\ CacheSize(n) >= (n + 2) * n_text_ctx
    BY <1>3, SizeFacts
  <2>2. m * k + m = m * (k + 1)
    OBVIOUS
  <2>3. (k + 1) * m <= n_text_ctx * m
    BY <1>1, Products
  <2>4. m * n_text_ctx <= n * n_text_ctx
    BY <1>1, Products
  <2>5. (n + 2) * n_text_ctx = n * n_text_ctx + 2 * n_text_ctx
    BY <1>1
  <2>6. m * (k + 1) = (k + 1) * m /\ n_text_ctx * m = m * n_text_ctx
    BY <1>1
  <2>7. /\ m * (k + 1) \in Nat /\ m * n_text_ctx \in Nat /\ n * n_text_ctx \in Nat
        /\ (n + 2) * n_text_ctx \in Nat
    BY <1>1, Products
  <2>8. m * (k + 1) <= n * n_text_ctx
    BY <2>3, <2>4, <2>6, <2>7
  <2>9. start + m * (k + 1) <= n * n_text_ctx + 2 * n_text_ctx
    BY <1>1, <1>2, <2>7, <2>8
  <2>10. start + m * k + m = start + m * (k + 1)
    OBVIOUS
  <2>11. QED
    BY <1>1, <1>2, <2>1, <2>5, <2>7, <2>9, <2>10
<1>4. CASE ~(n > 1)
  <2>1. n = 1 /\ m = 1 /\ m * k = k
    BY <1>4
  <2>2. CacheSize(n) \in Nat /\ CacheSize(n) >= n_text_ctx
    BY SizeFacts
  <2>3. QED
    BY <1>1, <1>2, <2>1, <2>2
<1>5. QED
  BY <1>3, <1>4

-----------------------------------------------------------------------------
(* Texts and what a sequence of the cache holds of them.                   *)

LEMMA PastOfPrefix ==
    ASSUME NEW text, NEW longer, NEW n \in Nat, \A k \in 1..n : longer[k] = text[k]
    PROVE  /\ Past(longer, n) = Past(text, n)
           /\ \A m \in 0..n : Past(longer, m) = Past(text, m)
           /\ Past(longer, n + 1) = Past(text, n) \cup {<<n, longer[n + 1]>>}
<1>1. \A m \in 0..n : \A p \in 0..(m - 1) : longer[p + 1] = text[p + 1]
  OBVIOUS
<1>2. \A m \in 0..n : Past(longer, m) = Past(text, m)
  BY <1>1 DEF Past
<1>3. 0..((n + 1) - 1) = 0..(n - 1) \cup {n}
  OBVIOUS
<1>4. Past(longer, n + 1) = Past(longer, n) \cup {<<n, longer[n + 1]>>}
  BY <1>3 DEF Past
<1>5. n \in 0..n
  OBVIOUS
<1>6. QED
  BY <1>2, <1>4, <1>5

(* One more cell with the next position, computed from all before it.      *)
LEMMA HoldsMore ==
    ASSUME NEW c, NEW e, NEW s, NEW n \in Nat, NEW text, NEW longer, NEW x,
           Holds(c, s, text, n), \A k \in 1..n : longer[k] = text[k],
           Mine(e, s) = Mine(c, s) \cup {x}, x \notin Mine(c, s),
           \A k \in Mine(c, s) : e.cells[k] = c.cells[k],
           e.cells[x].pos = n, e.cells[x].token = longer[n + 1],
           e.cells[x].seen = Past(longer, n + 1)
    PROVE  Holds(e, s, longer, n + 1)
<1>1. ASSUME NEW k \in Mine(c, s)
      PROVE  /\ e.cells[k].pos = c.cells[k].pos /\ c.cells[k].pos \in 0..(n - 1)
             /\ e.cells[k].token = longer[e.cells[k].pos + 1]
             /\ e.cells[k].seen = Past(longer, e.cells[k].pos + 1)
  <2>1. /\ c.cells[k].pos \in 0..(n - 1)
        /\ c.cells[k].token = text[c.cells[k].pos + 1]
        /\ c.cells[k].seen = Past(text, c.cells[k].pos + 1)
        /\ e.cells[k] = c.cells[k]
    BY DEF Holds
  <2>2. c.cells[k].pos + 1 \in 1..n /\ c.cells[k].pos + 1 \in 0..n
    BY <2>1
  <2>3. longer[c.cells[k].pos + 1] = text[c.cells[k].pos + 1]
        /\ Past(longer, c.cells[k].pos + 1) = Past(text, c.cells[k].pos + 1)
    BY <2>2, PastOfPrefix
  <2>4. QED
    BY <2>1, <2>3
<1>2. \A k \in Mine(e, s) : /\ e.cells[k].pos \in 0..((n + 1) - 1)
                            /\ e.cells[k].token = longer[e.cells[k].pos + 1]
                            /\ e.cells[k].seen = Past(longer, e.cells[k].pos + 1)
  <2>1. ASSUME NEW k \in Mine(c, s) PROVE e.cells[k].pos \in 0..((n + 1) - 1)
    BY <1>1
  <2>2. n \in 0..((n + 1) - 1)
    OBVIOUS
  <2>3. QED
    BY <1>1, <2>1, <2>2
<1>3. \A k \in Mine(c, s) : e.cells[k].pos # e.cells[x].pos
  <2>1. ASSUME NEW k \in Mine(c, s) PROVE e.cells[k].pos # n
    BY <1>1
  <2>2. QED
    BY <2>1
<1>4. \A k, l \in Mine(e, s) : e.cells[k].pos = e.cells[l].pos => k = l
  BY <1>1, <1>3 DEF Holds
<1>5. \A p \in 0..((n + 1) - 1) : \E k \in Mine(e, s) : e.cells[k].pos = p
  <2>1. ASSUME NEW p \in 0..((n + 1) - 1) PROVE \E k \in Mine(e, s) : e.cells[k].pos = p
    <3>1. p \in 0..(n - 1) \/ p = n
      OBVIOUS
    <3>2. CASE p \in 0..(n - 1)
      BY <1>1, <3>2 DEF Holds
    <3>3. CASE p = n
      BY <3>3
    <3>4. QED
      BY <3>1, <3>2, <3>3
  <2>2. QED
    BY <2>1
<1>6. QED
  BY <1>2, <1>4, <1>5 DEF Holds

(* A decoder attends to its text and to nothing else.                      *)
LEMMA HoldsContext ==
    ASSUME NEW c, NEW s, NEW n \in Nat, NEW text, Holds(c, s, text, n)
    PROVE  /\ Attended(c, s, n) = Mine(c, s)
           /\ Context(c, s, n) = Past(text, n)
           /\ Cardinality(Attended(c, s, n)) = n
<1>1. \A k \in Mine(c, s) : /\ c.cells[k].pos \in 0..(n - 1)
                            /\ c.cells[k].token = text[c.cells[k].pos + 1]
  BY DEF Holds
<1>2. Attended(c, s, n) = Mine(c, s)
  <2>1. \A k \in Mine(c, s) : c.cells[k].pos <= n
    BY <1>1
  <2>2. QED
    BY <2>1 DEF Attended, Mine
<1>3. Context(c, s, n) = Past(text, n)
  <2>1. Context(c, s, n) = {<<c.cells[k].pos, c.cells[k].token>> : k \in Mine(c, s)}
    BY <1>2 DEF Context
  <2>2. ASSUME NEW k \in Mine(c, s)
        PROVE  <<c.cells[k].pos, c.cells[k].token>> \in Past(text, n)
    BY <1>1 DEF Past
  <2>3. ASSUME NEW p \in 0..(n - 1)
        PROVE  \E k \in Mine(c, s) : <<p, text[p + 1]>> = <<c.cells[k].pos, c.cells[k].token>>
    <3>1. PICK k \in Mine(c, s) : c.cells[k].pos = p
      BY DEF Holds
    <3>2. QED
      BY <1>1, <3>1
  <2>4. QED
    BY <2>1, <2>2, <2>3 DEF Past
<1>4. Cardinality(Mine(c, s)) = n
  <2> DEFINE f == [p \in 0..(n - 1) |-> CHOOSE k \in Mine(c, s) : c.cells[k].pos = p]
  <2>1. \A p \in 0..(n - 1) : f[p] \in Mine(c, s) /\ c.cells[f[p]].pos = p
    BY DEF Holds
  <2>2. f \in [0..(n - 1) -> Mine(c, s)]
    BY <2>1
  <2>3. DOMAIN f = 0..(n - 1)
    OBVIOUS
  <2> HIDE DEF f
  <2>4. \A p, q \in 0..(n - 1) : f[p] = f[q] => p = q
    BY <2>1
  <2>5. \A k \in Mine(c, s) : \E p \in 0..(n - 1) : f[p] = k
    BY <1>1, <2>1 DEF Holds
  <2>6. f \in Bijection(0..(n - 1), Mine(c, s))
    BY <2>2, <2>3, <2>4, <2>5 DEF Bijection, Injection, Surjection, IsInjective
  <2>7. IsFiniteSet(0..(n - 1)) /\ Cardinality(0..(n - 1)) = n
    <3>1. IsFiniteSet(0..(n - 1))
          /\ Cardinality(0..(n - 1)) = IF 0 > n - 1 THEN 0 ELSE (n - 1) - 0 + 1
      BY FS_Interval
    <3>2. (IF 0 > n - 1 THEN 0 ELSE (n - 1) - 0 + 1) = n
      OBVIOUS
    <3>3. QED
      BY <3>1, <3>2
  <2>8. QED
    BY <2>6, <2>7, FS_Bijection DEF ExistsBijection
<1>5. QED
  BY <1>2, <1>3, <1>4

(* The rows of a batch are those of the running decoders, in their order.  *)
LEMMA BatchFacts ==
    ASSUME Control, Alive # {}
    PROVE  LET m == Cardinality(Alive)
           IN  /\ m \in Nat /\ m >= 1 /\ m <= n_cur /\ Len(Batch) = m
               /\ \A j \in Alive : InBatch(j) \in 1..m /\ Batch[InBatch(j)] = Row(j)
               /\ \A j, k \in Alive : InBatch(j) = InBatch(k) => j = k
               /\ \A b \in 1..m : \E j \in Alive : InBatch(j) = b
<1> DEFINE m == Cardinality(Alive)
           Upto(j) == {k \in Alive : k <= j}
<1>1. n_cur \in Nat /\ Alive \subseteq Current /\ Alive \subseteq Nat
  BY AliveFacts
<1>2. IsFiniteSet(Current) /\ Cardinality(Current) = n_cur
  <2>1. n_cur >= 1
    BY DEF Control
  <2>2. /\ IsFiniteSet(0..(n_cur - 1))
        /\ Cardinality(0..(n_cur - 1)) = IF 0 > n_cur - 1 THEN 0 ELSE (n_cur - 1) - 0 + 1
    BY <1>1, FS_Interval
  <2>3. (IF 0 > n_cur - 1 THEN 0 ELSE (n_cur - 1) - 0 + 1) = n_cur
    BY <1>1, <2>1
  <2>4. QED
    BY <2>2, <2>3 DEF Current
<1>3. IsFiniteSet(Alive) /\ m \in Nat /\ m <= n_cur
  BY <1>1, <1>2, FS_Subset, FS_CardinalityType
<1>4. ASSUME NEW T \in SUBSET Alive
      PROVE  /\ IsFiniteSet(T) /\ Cardinality(T) \in Nat /\ Cardinality(T) <= m
             /\ T # {} => Cardinality(T) # 0
  BY <1>3, FS_Subset, FS_CardinalityType, FS_EmptySet
<1>5. m >= 1
  BY <1>3, <1>4
<1>6. ASSUME NEW j \in Alive
      PROVE  InBatch(j) \in 1..m
  <2>1. Upto(j) \in SUBSET Alive /\ j \in Upto(j)
    BY <1>1
  <2>2. InBatch(j) = Cardinality(Upto(j))
    BY DEF InBatch
  <2>3. QED
    BY <1>3, <1>4, <2>1, <2>2
<1>7. ASSUME NEW j \in Alive, NEW k \in Alive, j < k
      PROVE  InBatch(j) # InBatch(k)
  <2>1. Upto(j) \in SUBSET Upto(k) /\ k \in Upto(k) /\ k \notin Upto(j)
    <3>1. j \in Nat /\ k \in Nat /\ \A l \in Alive : l \in Nat
      BY <1>1
    <3>2. (\A l \in Alive : l <= j => l <= k) /\ k <= k /\ ~(k <= j)
      BY <1>7, <3>1
    <3>3. QED
      BY <3>2
  <2>2. IsFiniteSet(Upto(k))
    BY <1>4
  <2>3. Cardinality(Upto(k)) # Cardinality(Upto(j))
    BY <2>1, <2>2, FS_Subset
  <2>4. QED
    BY <2>3 DEF InBatch
<1>8. \A j, k \in Alive : InBatch(j) = InBatch(k) => j = k
  <2>1. \A j, k \in Alive : j = k \/ j < k \/ k < j
    BY <1>1
  <2>2. QED
    BY <1>7, <2>1
<1>9. \A b \in 1..m : \E j \in Alive : InBatch(j) = b
  <2> DEFINE f == [j \in Alive |-> InBatch(j)]
  <2>1. f \in [Alive -> 1..m] /\ DOMAIN f = Alive /\ \A j \in Alive : f[j] = InBatch(j)
    BY <1>6
  <2> HIDE DEF f
  <2>2. f \in Injection(Alive, 1..m)
    BY <1>8, <2>1 DEF Injection, IsInjective
  <2>3. IsFiniteSet(1..m) /\ Cardinality(1..m) = m
    <3>1. IsFiniteSet(1..m) /\ Cardinality(1..m) = IF 1 > m THEN 0 ELSE m - 1 + 1
      BY <1>3, FS_Interval
    <3>2. (IF 1 > m THEN 0 ELSE m - 1 + 1) = m
      BY <1>3, <1>5
    <3>3. QED
      BY <3>1, <3>2
  <2>4. f \in Surjection(Alive, 1..m)
    BY <2>2, <2>3, FS_Injection
  <2>5. QED
    BY <2>1, <2>4 DEF Surjection
<1>10. Len(Batch) = m
  BY <1>3 DEF Batch
<1>11. ASSUME NEW j \in Alive PROVE Batch[InBatch(j)] = Row(j)
  <2>1. (CHOOSE k \in Alive : InBatch(k) = InBatch(j)) = j
    BY <1>8
  <2>2. QED
    BY <1>6, <2>1 DEF Batch
<1>12. QED
  BY <1>3, <1>5, <1>6, <1>8, <1>9, <1>10, <1>11

-----------------------------------------------------------------------------
(* The cache, step by step.                                                *)

LEMMA PromptFacts ==
    ASSUME Control, phase \in Busy \cup {"prompt"}
    PROVE  /\ Len(prompt) \in Nat /\ Len(prompt) >= 1
           /\ Len(prompt) <= n_text_ctx \div 2 + 4 /\ Len(prompt) <= n_text_ctx
           /\ DOMAIN prompt = 1..Len(prompt) /\ prompt \in Seq(PromptTokens)
           /\ \A k \in 1..Len(prompt) : prompt[k] \in PromptTokens
           /\ kv_n_dec \in Nat /\ n_cur \in Nat /\ 1 <= n_cur /\ n_cur <= kv_n_dec
           /\ i \in Nat /\ i <= n_max
<1>1. PICK n \in PromptLengths : prompt = [k \in 1..n |-> -k]
  BY DEF Control
<1>2. n \in Nat /\ n >= 1 /\ n <= n_text_ctx \div 2 + 4 /\ n <= n_text_ctx
  BY ContextFacts
<1>3. \A k \in 1..n : prompt[k] \in PromptTokens
  <2>1. \A k \in 1..n : k \in 1..n_text_ctx
    BY <1>2, ContextFacts
  <2>2. \A k \in 1..n : prompt[k] = -k
    BY <1>1
  <2>3. QED
    BY <2>1, <2>2 DEF PromptTokens
<1>4. prompt \in Seq(PromptTokens) /\ Len(prompt) = n /\ DOMAIN prompt = 1..n
  BY <1>1, <1>2, <1>3
<1>5. QED
  BY <1>2, <1>3, <1>4, ContextFacts DEF Control

LEMMA CacheInit == Init => CacheInv
<1> SUFFICES ASSUME Init PROVE CacheInv
  OBVIOUS
<1>1. phase = "temperature" /\ kv = EmptyCache(CacheSize(1)) /\ kv_n_dec = 1
  BY DEF Init
<1>2. CacheTyped
  BY <1>1, SizeFacts, EmptyCacheFacts DEF CacheTyped
<1>3. QED
  BY <1>1, <1>2 DEF CacheInv, Texts, Temporary, Extent, Busy, Init, Ids

LEMMA CacheStart ==
    ASSUME Control, CacheInv, StartTemperature
    PROVE  CacheInv'
<1> DEFINE size == IF kv_n_dec < n_cur' THEN CacheSize(n_cur') ELSE kv.size
<1>1. phase' = "prompt" /\ kv' = EmptyCache(size) /\ pick' = pick
      /\ kv_n_dec' = IF kv_n_dec < n_cur' THEN n_cur' ELSE kv_n_dec
  BY DEF StartTemperature
<1>2. n_cur' \in Nat /\ kv_n_dec \in Nat
  BY DecodersOfNow DEF StartTemperature, Control
<1>3. kv.size = CacheSize(kv_n_dec)
  BY DEF CacheInv, CacheTyped
<1>4. size \in Nat /\ size >= 1 /\ size = CacheSize(kv_n_dec')
  BY <1>1, <1>2, <1>3, SizeFacts
<1>5. Cached(kv') /\ kv'.size = size /\ Used(kv') = {} /\ \A s : Mine(kv', s) = {}
  BY <1>1, <1>4, EmptyCacheFacts
<1>6. kv'.head = 0
  BY <1>1 DEF EmptyCache
<1>7. QED
  BY <1>1, <1>4, <1>5, <1>6 DEF CacheInv, CacheTyped, Texts, Temporary, Extent, Busy

LEMMA CacheFail ==
    ASSUME CacheInv, NEW code, Fail(code)
    PROVE  CacheInv'
BY DEF Fail, CacheInv, CacheTyped, Texts, Temporary, Extent, Busy

(* The history of a text, and of its first b tokens.                       *)
LEMMA HistoryOfText ==
    ASSUME NEW n \in Nat, NEW w, DOMAIN w = 1..n, NEW text, \A k \in 1..n : text[k] = w[k]
    PROVE  /\ History(w) = Past(text, n)
           /\ \A b \in 1..n : UpTo(History(w), b - 1) = Past(text, b)
<1>1. History(w) = {<<k - 1, text[k]>> : k \in 1..n}
  BY DEF History
<1>2. ASSUME NEW b \in 0..n
      PROVE  {x \in History(w) : x[1] <= b - 1} = Past(text, b)
  <2>1. ASSUME NEW k \in 1..n, k - 1 <= b - 1
        PROVE  \E p \in 0..(b - 1) : <<k - 1, text[k]>> = <<p, text[p + 1]>>
    <3>1. k - 1 \in 0..(b - 1) /\ k = (k - 1) + 1
      BY <2>1
    <3>2. QED
      BY <3>1
  <2>2. ASSUME NEW p \in 0..(b - 1)
        PROVE  /\ p <= b - 1
               /\ \E k \in 1..n : <<k - 1, text[k]>> = <<p, text[p + 1]>>
    <3>1. p + 1 \in 1..n /\ p = (p + 1) - 1
      OBVIOUS
    <3>2. QED
      BY <3>1
  <2>3. ASSUME NEW x \in History(w), x[1] <= b - 1 PROVE x \in Past(text, b)
    <3>1. PICK k \in 1..n : x = <<k - 1, text[k]>> /\ x[1] <= b - 1
      BY <1>1, <2>3
    <3>2. PICK p \in 0..(b - 1) : <<k - 1, text[k]>> = <<p, text[p + 1]>>
      BY <2>1, <3>1
    <3>3. QED
      BY <3>1, <3>2 DEF Past
  <2>4. ASSUME NEW x \in Past(text, b) PROVE x \in History(w) /\ x[1] <= b - 1
    <3>1. PICK p \in 0..(b - 1) : x = <<p, text[p + 1]>>
      BY DEF Past
    <3>2. x \in History(w) /\ x[1] = p
      BY <1>1, <2>2, <3>1
    <3>3. QED
      BY <2>2, <3>2
  <2>5. QED
    BY <2>3, <2>4
<1>3. \A x \in History(w) : x[1] <= n - 1
  BY <1>1
<1>4. History(w) = Past(text, n)
  <2>1. n \in 0..n /\ {x \in History(w) : x[1] <= n - 1} = History(w)
    BY <1>3
  <2>2. QED
    BY <1>2, <2>1
<1>5. \A b \in 1..n : UpTo(History(w), b - 1) = Past(text, b)
  <2>1. \A b \in 1..n : b \in 0..n
    OBVIOUS
  <2>2. QED
    BY <1>2, <2>1 DEF UpTo
<1>6. QED
  BY <1>4, <1>5

(* The batch of the prompt.                                                *)
LEMMA PromptBatchFacts ==
    ASSUME Control, phase = "prompt"
    PROVE  /\ Len(PromptBatch) = Len(prompt)
           /\ \A b \in 1..Len(prompt) :
                 /\ PromptBatch[b] \in Cells
                 /\ PromptBatch[b].pos = b - 1 /\ PromptBatch[b].seq_id = {0}
                 /\ PromptBatch[b].token = Text(prompt, <<>>, Len(prompt))[b]
                 /\ PromptBatch[b].seen = Past(Text(prompt, <<>>, Len(prompt)), b)
<1> DEFINE L == Len(prompt)
           text == Text(prompt, <<>>, L)
<1>1. /\ L \in Nat /\ L <= n_text_ctx /\ DOMAIN prompt = 1..L /\ n_text_ctx \in Nat
      /\ \A k \in 1..L : prompt[k] \in PromptTokens
  BY PromptFacts, ContextFacts
<1>2. Len(PromptBatch) = L
  BY <1>1 DEF PromptBatch
<1>3. \A k \in 1..L : text[k] = prompt[k]
  BY <1>1 DEF Text
<1> HIDE DEF L, text
<1>4. ASSUME NEW b \in 1..L
      PROVE  /\ PromptBatch[b] \in Cells
             /\ PromptBatch[b].pos = b - 1 /\ PromptBatch[b].seq_id = {0}
             /\ PromptBatch[b].token = text[b]
             /\ PromptBatch[b].seen = Past(text, b)
  <2>1. PromptBatch[b] = [pos |-> b - 1, token |-> prompt[b], seq_id |-> {0},
                          seen |-> UpTo(History(prompt), b - 1)]
    BY DEF PromptBatch, Cell, L
  <2>2. UpTo(History(prompt), b - 1) = Past(text, b)
    BY <1>1, <1>3, HistoryOfText
  <2>3. Past(text, b) \subseteq Positions \X (Token \cup PromptTokens)
    <3>1. ASSUME NEW p \in 0..(b - 1)
          PROVE  p \in Positions /\ text[p + 1] \in PromptTokens
      <4>1. p + 1 \in 1..L /\ p \in 0..(n_text_ctx - 1)
        BY <1>1
      <4>2. QED
        BY <1>1, <1>3, <4>1 DEF Positions
    <3>2. QED
      BY <3>1 DEF Past
  <2>4. b - 1 \in Positions /\ prompt[b] \in Token \cup PromptTokens
    BY <1>1 DEF Positions
  <2>5. {0} \in (SUBSET SeqIds) \ {{}}
    BY WindowFacts DEF SeqIds
  <2>6. QED
    BY <1>3, <2>1, <2>2, <2>3, <2>4, <2>5 DEF Cells
<1>5. QED
  BY <1>2, <1>4 DEF L, text

LEMMA TextSame ==
    ASSUME NEW start, Len(start) \in Nat, NEW m \in Nat, NEW s, NEW u,
           \A k \in 1..m : u[k] = s[k]
    PROVE  Text(start, u, Len(start) + m) = Text(start, s, Len(start) + m)
<1> DEFINE L == Len(start)
<1>1. L \in Nat
  OBVIOUS
<1> HIDE DEF L
<1>2. \A k \in 1..(L + m) : ~(k <= L) => u[k - L] = s[k - L]
  <2>1. \A k \in 1..(L + m) : ~(k <= L) => k - L \in 1..m
    BY <1>1
  <2>2. QED
    BY <2>1
<1>3. QED
  BY <1>2 DEF Text, L

(* One text is another with one more token.                                *)
Lengthens(longer, text, n, t) ==
    (\A k \in 1..n : longer[k] = text[k]) /\ longer[n + 1] = t

LEMMA TextNext ==
    ASSUME NEW start, Len(start) \in Nat, NEW m \in Nat, NEW s, NEW n, n = Len(start) + m
    PROVE  Lengthens(Text(start, s, n + 1), Text(start, s, n), n, s[m + 1])
<1> DEFINE L == Len(start)
<1>1. L \in Nat
  OBVIOUS
<1> HIDE DEF L
<1>2. /\ \A k \in 1..(L + m) : k \in 1..(L + m + 1)
      /\ L + m + 1 \in 1..(L + m + 1) /\ ~(L + m + 1 <= L) /\ (L + m + 1) - L = m + 1
  BY <1>1
<1>3. \A k \in 1..(L + m) : Text(start, s, L + m + 1)[k] = Text(start, s, L + m)[k]
  BY <1>2 DEF Text, L
<1>4. Text(start, s, L + m + 1)[L + m + 1] = s[m + 1]
  BY <1>2 DEF Text, L
<1>5. QED
  BY <1>3, <1>4 DEF L, Lengthens

LEMMA CachePrompt ==
    ASSUME Control, CacheInv, DecodePrompt
    PROVE  CacheInv'
<1> DEFINE L == Len(prompt)
           text == Text(prompt, <<>>, L)
<1>1. /\ phase = "prompt" /\ phase' = "sample" /\ i' = 0
      /\ UNCHANGED <<given, it, n_cur, prompt, kv_n_dec, decoders, pick, turn, best, rc>>
  BY DEF DecodePrompt
<1>2. PICK h \in 0..kv.size : /\ IsSlot(kv, L, h)
                              /\ kv' = SeqCp(Place(kv, h, PromptBatch), 0, 1..(n_cur - 1))
  BY DEF DecodePrompt
<1> DEFINE e == Place(kv, h, PromptBatch)
<1>3. /\ L \in Nat /\ L >= 1 /\ L <= n_text_ctx \div 2 + 4 /\ n_cur \in Nat /\ 1 <= n_cur
      /\ kv_n_dec \in Nat /\ n_cur <= kv_n_dec
  BY <1>1, PromptFacts
<1>4. Cached(kv) /\ kv.size = CacheSize(kv_n_dec) /\ kv.head = 0 /\ Used(kv) = {}
  BY <1>1 DEF CacheInv, CacheTyped, Extent
<1>5. h = 0
  <2>1. L <= CacheSize(kv_n_dec)
    <3> HIDE DEF L
    <3>0. 0 \in Nat /\ 0 < n_max
      BY ContextFacts
    <3>1. L + n_cur * 0 + n_cur <= CacheSize(kv_n_dec)
      BY ONLY <1>3, <3>0, Room
    <3>2. CacheSize(kv_n_dec) \in Nat
      BY <1>3, SizeFacts
    <3>3. QED
      BY <1>3, <3>1, <3>2
  <2>2. kv.head <= 0 /\ 0 + L <= kv.size
    BY <1>3, <1>4, <2>1
  <2>3. h <= 0
    BY <1>2, <1>3, <1>4, <2>2, SlotWithin
  <2>4. QED
    BY <1>4, <2>3 DEF Cached
<1>6. /\ Len(PromptBatch) = L
      /\ \A b \in 1..L : /\ PromptBatch[b] \in Cells
                         /\ PromptBatch[b].pos = b - 1 /\ PromptBatch[b].seq_id = {0}
                         /\ PromptBatch[b].token = text[b]
                         /\ PromptBatch[b].seen = Past(text, b)
  BY <1>1, PromptBatchFacts
<1>7. /\ Cached(e) /\ e.size = kv.size /\ e.head = 0 /\ Used(e) = 0..(L - 1)
      /\ \A k \in 0..(L - 1) : e.cells[k] = PromptBatch[k + 1]
  <2>1. /\ Cached(e) /\ e.size = kv.size /\ e.head = h
        /\ Used(e) = Used(kv) \cup h..(h + L - 1)
        /\ \A k \in h..(h + L - 1) : k \notin Used(kv) /\ e.cells[k] = PromptBatch[k - h + 1]
    <3> HIDE DEF L, text
    <3>1. h \in 0..kv.size
      OBVIOUS
    <3>2. \A b \in 1..L : PromptBatch[b] \in Cells
      BY <1>6
    <3>3. e = Place(kv, h, PromptBatch)
      OBVIOUS
    <3> HIDE DEF e
    <3>4. Placed(kv, e, h, L, PromptBatch)
      BY ONLY <1>2, <1>3, <1>4, <1>6, <3>1, <3>2, <3>3, PlaceFacts
    <3>5. QED
      BY <3>4 DEF Placed
  <2> HIDE DEF e
  <2>2. 0 + L - 1 = L - 1 /\ \A k \in 0..(L - 1) : k - 0 + 1 = k + 1
    BY <1>3
  <2>3. QED
    BY <1>4, <1>5, <2>1, <2>2
<1> HIDE DEF e
<1>8. \A k \in 0..(L - 1) :
         /\ e.cells[k].pos = k /\ e.cells[k].token = text[k + 1]
         /\ e.cells[k].seen = Past(text, k + 1) /\ e.cells[k].seq_id = {0}
  <2>1. \A k \in 0..(L - 1) : k + 1 \in 1..L /\ (k + 1) - 1 = k
    BY <1>3
  <2>2. QED
    BY <1>6, <1>7, <2>1
<1>9. Mine(e, 0) = 0..(L - 1) /\ \A s : s # 0 => Mine(e, s) = {}
  BY <1>7, <1>8 DEF Mine
<1>10. Holds(e, 0, text, L)
  BY <1>8, <1>9 DEF Holds
<1>11. 1..(n_cur - 1) \subseteq SeqIds /\ \A j \in Ids : Temp(j) # 0 /\ Temp(j) \notin 1..(n_cur - 1)
  <2>1. n_cur <= MaxDecoders /\ MaxDecoders \in Nat /\ MaxDecoders >= 1
    BY WindowFacts DEF Control
  <2>2. QED
    BY <1>3, <2>1 DEF SeqIds, Temp, Ids
<1>12. /\ Cached(kv') /\ kv'.size = e.size /\ Used(kv') = Used(e) /\ kv'.head \in {0, e.head}
       /\ \A k \in Used(e) : Alike(kv'.cells[k], e.cells[k])
       /\ \A s : Mine(kv', s) = Mine(e, s) \cup (IF s \in 1..(n_cur - 1) THEN Mine(e, 0)
                                                 ELSE {})
  <2>1. kv' = SeqCp(e, 0, 1..(n_cur - 1))
    BY <1>2 DEF e
  <2>2. Cached(e) /\ 1..(n_cur - 1) \subseteq SeqIds
    BY <1>7, <1>11
  <2>3. Copied(e, kv', 0, 1..(n_cur - 1))
    BY ONLY <2>1, <2>2, SeqCpFacts
  <2>4. QED
    BY <2>3 DEF Copied
<1>13. CacheTyped'
  BY <1>1, <1>4, <1>7, <1>12 DEF CacheTyped
<1>14. Temporary'
  BY <1>1, <1>9, <1>11, <1>12 DEF Temporary, Busy
<1>15. Extent'
  <2>1. Reach' = L
    <3>1. Reach' = L + n_cur * 0
      BY <1>1 DEF Reach
    <3>2. QED
      BY <1>3, <3>1
  <2>2. kv'.head <= L /\ \A k \in Used(kv') : k < L
    BY <1>3, <1>7, <1>12
  <2>3. QED
    BY <1>1, <2>1, <2>2 DEF Extent
<1>16. Texts'
  <2>1. ASSUME NEW j \in Alive'
        PROVE  Holds(kv', j, text, L) /\ decoders'[j].tokens = <<>>
    <3>1. j \in Current /\ decoders'[j] = FreshDecoder
      BY <1>1 DEF Control, Alive, Running, Current
    <3>2. j = 0 \/ j \in 1..(n_cur - 1)
      BY <1>3, <3>1 DEF Current
    <3>3. Mine(kv', j) = Mine(e, 0)
      BY <1>9, <1>12, <3>2
    <3>4. \A k \in Mine(e, 0) : Alike(kv'.cells[k], e.cells[k])
      BY <1>7, <1>9, <1>12
    <3>5. Holds(kv', j, text, L)
      BY <1>10, <3>3, <3>4, HoldsAlike
    <3>6. QED
      BY <3>1, <3>5, FreshDecoders
  <2>2. n_past' = L
    <3>1. n_past' = L + 0
      BY <1>1 DEF n_past
    <3>2. QED
      BY <1>3, <3>1
  <2>3. DOMAIN pick' = Ids
    BY <1>1 DEF CacheInv, Texts
  <2>4. QED
    BY <1>1, <2>1, <2>2, <2>3 DEF Texts
<1>17. QED
  BY <1>13, <1>14, <1>15, <1>16 DEF CacheInv

LEMMA CacheSample ==
    ASSUME Control, CacheInv, SampleGreedy \/ SampleBeam
    PROVE  CacheInv'
<1>1. /\ phase = "sample" /\ phase' \in {"copy", "update"} /\ kv' = kv /\ kv_n_dec' = kv_n_dec
      /\ prompt' = prompt /\ i' = i /\ n_cur' = n_cur /\ i \in Nat /\ Len(prompt) \in Nat
  <2>1. phase = "sample"
    BY DEF SampleGreedy, SampleBeam
  <2>2. QED
    BY <2>1, PromptFacts DEF SampleGreedy, SampleBeam, Busy
<1>2. Texts' /\ Alive' = Alive
  <2>1. CASE SampleGreedy
    <3>1. PICK token \in [Alive -> Token] :
             /\ \A j \in Alive : token[j] \in Allowed(decoders[j])
             /\ decoders' = [j \in DOMAIN decoders |->
                                IF j \in Alive THEN Push(decoders[j], token[j])
                                               ELSE decoders[j]]
      BY <2>1 DEF SampleGreedy
    <3> DEFINE own == [j \in Alive |-> j]
    <3>2. \A j \in Alive : own[j] = j
      OBVIOUS
    <3> HIDE DEF own
    <3>3. Sampling(own, token)
      BY <2>1, <3>1, <3>2 DEF SampleGreedy, Sampling
    <3>4. /\ Alive' = Alive
          /\ \A j \in Alive : /\ decoders[j] \in Decoder /\ token[j] \in Token
                              /\ Len(decoders[j].tokens) = i
                              /\ decoders'[j] = Push(decoders[j], token[j])
      BY <3>2, <3>3, SamplingFacts
    <3>5. ASSUME NEW j \in Alive
          PROVE  Holds(kv', j, Text(prompt, decoders'[j].tokens, n_past), n_past)
      <4>1. Text(prompt, decoders'[j].tokens, n_past) = Text(prompt, decoders[j].tokens, n_past)
        <5>1. i < n_max
          BY <1>1 DEF Control, Busy
        <5>2. \A k \in 1..i : decoders'[j].tokens[k] = decoders[j].tokens[k]
          BY <1>1, <3>4, <5>1, PushFacts
        <5>3. QED
          BY <1>1, <5>2, TextSame DEF n_past
      <4>2. QED
        BY <1>1, <4>1 DEF CacheInv, Texts
    <3>6. n_past' = n_past /\ phase' = "update" /\ DOMAIN pick' = Ids
      BY <1>1, <2>1 DEF n_past, SampleGreedy, CacheInv, Texts
    <3>7. QED
      BY <1>1, <3>4, <3>5, <3>6 DEF Texts
  <2>2. CASE SampleBeam
    <3>1. PICK p \in [Alive -> [parent : Alive, token : Token]] :
             /\ Selection(p)
             /\ pick' = [j \in DOMAIN pick |-> IF j \in Alive THEN p[j] ELSE NoPick]
             /\ decoders' = [j \in DOMAIN decoders |->
                                IF j \in Alive THEN Candidate(p[j]) ELSE decoders[j]]
      BY <2>2 DEF SampleBeam
    <3> DEFINE parent == [j \in Alive |-> p[j].parent]
               token  == [j \in Alive |-> p[j].token]
    <3>2. \A j \in Alive : parent[j] = p[j].parent /\ token[j] = p[j].token
      OBVIOUS
    <3>3. \A j \in Alive : p[j].parent \in Alive
                           /\ p[j].token \in Allowed(decoders[p[j].parent])
      BY <3>1 DEF Selection
    <3> HIDE DEF parent, token
    <3>4. Sampling(parent, token)
      BY <2>2, <3>1, <3>2, <3>3 DEF SampleBeam, Sampling, Candidate
    <3>5. /\ Alive' = Alive
          /\ \A j \in Alive :
                /\ p[j].parent \in Alive /\ decoders[p[j].parent] \in Decoder
                /\ token[j] \in Token /\ Len(decoders[p[j].parent].tokens) = i
                /\ decoders'[j] = Push(decoders[p[j].parent], token[j])
      BY <3>2, <3>4, SamplingFacts
    <3>6. ASSUME NEW j \in Alive
          PROVE  /\ pick'[j].parent \in Alive
                 /\ Holds(kv', pick'[j].parent, Text(prompt, decoders'[j].tokens, n_past),
                          n_past)
      <4>1. pick'[j] = p[j]
        BY <3>1, AliveFacts DEF CacheInv, Texts
      <4> DEFINE d == decoders[p[j].parent]
      <4>2. Text(prompt, decoders'[j].tokens, n_past) = Text(prompt, d.tokens, n_past)
        <5>1. i < n_max
          BY <1>1 DEF Control, Busy
        <5>2. \A k \in 1..i : decoders'[j].tokens[k] = d.tokens[k]
          BY <1>1, <3>5, <5>1, PushFacts
        <5>3. QED
          BY <1>1, <5>2, TextSame DEF n_past
      <4>3. QED
        BY <1>1, <3>5, <4>1, <4>2 DEF CacheInv, Texts
    <3>7. /\ n_past' = n_past /\ phase' = "copy" /\ turn' = FirstAlive
          /\ DOMAIN pick' = Ids
      BY <1>1, <2>2, <3>1 DEF n_past, SampleBeam, CacheInv, Texts
    <3>8. \A j \in Alive : ~(j < turn')
      <4>1. \A j \in Alive : turn' <= j /\ turn' \in Nat /\ j \in Nat
        BY <3>7, AliveFacts
      <4>2. QED
        BY <4>1
    <3>9. QED
      BY <1>1, <3>5, <3>6, <3>7, <3>8 DEF Texts
  <2>3. QED
    BY <2>1, <2>2
<1>3. CacheTyped'
  BY <1>1 DEF CacheInv, CacheTyped
<1>4. Temporary'
  <2>1. \A j \in Ids : Mine(kv, Temp(j)) = {}
    BY <1>1 DEF CacheInv, Temporary, Busy
  <2>2. QED
    BY <1>1, <2>1 DEF Temporary
<1>5. Extent'
  BY <1>1 DEF CacheInv, Extent, Reach, Busy
<1>6. QED
  BY <1>2, <1>3, <1>4, <1>5 DEF CacheInv

LEMMA TempFacts ==
    ASSUME Control
    PROVE  /\ \A j \in Ids : Temp(j) \in SeqIds /\ j \in SeqIds /\ Temp(j) \notin Ids
           /\ \A j, k \in Ids : Temp(j) = Temp(k) => j = k
           /\ Reach \in Nat
<1>1. MaxDecoders \in Nat /\ MaxDecoders >= 1
  BY WindowFacts
<1>2. /\ \A j \in Ids : Temp(j) \in SeqIds /\ j \in SeqIds /\ Temp(j) \notin Ids
      /\ \A j, k \in Ids : Temp(j) = Temp(k) => j = k
  BY <1>1 DEF Ids, SeqIds, Temp
<1>3. Len(prompt) \in Nat /\ n_cur \in Nat /\ i \in Nat
  BY DecodeAssumption DEF Control, DecodeAssumption
<1>4. Reach \in Nat
  <2>1. n_cur * i \in Nat
    BY <1>3, Products
  <2>2. QED
    BY <1>3, <2>1 DEF Reach
<1>5. QED
  BY <1>2, <1>4

LEMMA CacheCopyParent ==
    ASSUME Control, CacheInv, CopyParent
    PROVE  CacheInv'
<1> DEFINE src == pick[turn].parent
           Held(c, s, j) == Holds(c, s, Text(prompt, decoders[j].tokens, n_past), n_past)
<1>1. /\ phase = "copy" /\ turn \in Alive /\ Turn("copy", "move")
      /\ kv' = SeqCp(kv, src, {Temp(turn)})
      /\ UNCHANGED <<given, it, n_cur, prompt, kv_n_dec, i, decoders, pick, best, rc>>
  BY DEF CopyParent, Temp, Control
<1>2. src \in Alive /\ src \in Ids /\ turn \in Ids /\ Alive \subseteq Ids /\ Ids \subseteq Nat
  BY <1>1, AliveFacts DEF CacheInv, Texts
<1>3. Copied(kv, kv', src, {Temp(turn)})
  <2>1. {Temp(turn)} \subseteq SeqIds
    BY <1>2, TempFacts
  <2>2. Cached(kv)
    BY DEF CacheInv, CacheTyped
  <2>3. QED
    BY ONLY <1>1, <2>1, <2>2, SeqCpFacts
<1>4. /\ Cached(kv') /\ kv'.size = kv.size /\ Used(kv') = Used(kv) /\ kv'.head \in {0, kv.head}
      /\ \A k \in Used(kv) : Alike(kv'.cells[k], kv.cells[k])
      /\ \A s : s # Temp(turn) => Mine(kv', s) = Mine(kv, s)
      /\ Mine(kv', Temp(turn)) = Mine(kv, src)
  <2>1. Mine(kv, Temp(turn)) = {}
    BY <1>1, <1>2 DEF CacheInv, Temporary, Busy
  <2>2. QED
    BY <1>3, <2>1 DEF Copied
<1>5. Alive' = Alive /\ n_past' = n_past
  BY <1>1, AliveStays DEF n_past
<1>6. /\ turn' \in Alive
      /\ \/ phase' = "move" /\ \A j \in Alive : j <= turn /\ turn' <= j
         \/ phase' = "copy" /\ turn' > turn /\ \A j \in Alive : j > turn => turn' <= j
  BY <1>1, TurnFacts DEF IsLastAlive
<1>7. ASSUME NEW s, NEW t, NEW j, Mine(kv', t) = Mine(kv, s), Held(kv, s, j)
      PROVE  Held(kv', t, j)
  <2>1. \A k \in Mine(kv, s) : Alike(kv'.cells[k], kv.cells[k])
    BY <1>4 DEF Mine
  <2>2. QED
    BY <1>7, <2>1, HoldsAlike
<1>8. ASSUME NEW j \in Alive
      PROVE  /\ pick[j].parent \in Alive /\ Held(kv', pick[j].parent, j)
             /\ j <= turn => Held(kv', Temp(j), j)
  <2>1. /\ pick[j].parent \in Alive /\ Held(kv, pick[j].parent, j)
        /\ j < turn => Held(kv, Temp(j), j)
    BY <1>1 DEF CacheInv, Texts
  <2>2. pick[j].parent # Temp(turn)
    BY <1>2, <2>1, TempFacts
  <2>3. CASE j = turn
    BY <1>4, <1>7, <2>1, <2>2, <2>3
  <2>4. CASE j # turn
    <3>1. Temp(j) # Temp(turn) /\ (j <= turn => j < turn)
      BY <1>2, <2>4, TempFacts
    <3>2. QED
      BY <1>4, <1>7, <2>1, <2>2, <3>1
  <2>5. QED
    BY <2>3, <2>4
<1>9. Texts'
  <2>1. DOMAIN pick' = Ids
    BY <1>1 DEF CacheInv, Texts
  <2>2. CASE phase' = "move"
    <3>1. \A j \in Alive : j <= turn /\ ~(j < turn')
      BY <1>2, <1>6, <2>2
    <3>2. QED
      BY <1>1, <1>5, <1>8, <2>1, <2>2, <3>1 DEF Texts
  <2>3. CASE phase' = "copy"
    <3>1. \A j \in Alive : j < turn' => j <= turn
      BY <1>2, <1>6, <2>3
    <3>2. QED
      BY <1>1, <1>5, <1>8, <2>1, <2>3, <3>1 DEF Texts
  <2>4. QED
    BY <1>6, <2>2, <2>3
<1>10. Temporary'
  <2>1. ASSUME NEW j \in Ids, Mine(kv', Temp(j)) # {}
        PROVE  j \in Alive /\ j <= turn
    <3>1. CASE j = turn
      BY <1>1, <1>2, <3>1
    <3>2. CASE j # turn
      <4>1. Mine(kv, Temp(j)) # {}
        BY <1>2, <1>4, <2>1, <3>2, TempFacts
      <4>2. j \in Alive /\ j < turn
        BY <1>1, <4>1 DEF CacheInv, Temporary, Busy
      <4>3. QED
        BY <1>2, <4>2
    <3>3. QED
      BY <3>1, <3>2
  <2>2. CASE phase' = "move"
    <3>1. \A j \in Alive : j >= turn'
      BY <1>2, <1>6, <2>2
    <3>2. QED
      BY <1>5, <2>1, <2>2, <3>1 DEF Temporary
  <2>3. CASE phase' = "copy"
    <3>1. \A j \in Alive : j <= turn => j < turn'
      BY <1>2, <1>6, <2>3
    <3>2. QED
      BY <1>5, <2>1, <2>3, <3>1 DEF Temporary
  <2>4. QED
    BY <1>6, <2>2, <2>3
<1>11. CacheTyped' /\ Extent'
  <2>1. Reach' = Reach /\ Reach \in Nat /\ phase' \in Busy /\ phase' # "prompt"
    BY <1>1, <1>6, TempFacts DEF Reach, Busy
  <2>2. kv.head <= Reach /\ \A k \in Used(kv) : k < Reach
    BY <1>1 DEF CacheInv, Extent, Busy
  <2>3. kv'.head <= Reach
    BY <1>4, <2>1, <2>2
  <2>4. QED
    BY <1>1, <1>4, <2>1, <2>2, <2>3 DEF CacheInv, CacheTyped, Extent
<1>12. QED
  BY <1>9, <1>10, <1>11 DEF CacheInv

LEMMA CacheMoveToOwn ==
    ASSUME Control, CacheInv, MoveToOwn
    PROVE  CacheInv'
<1> DEFINE tmp == Temp(turn)
           e1 == SeqRm(kv, turn)
           e2 == SeqCp(e1, tmp, {turn})
           Held(c, s, j) == Holds(c, s, Text(prompt, decoders[j].tokens, n_past), n_past)
<1>1. /\ phase = "move" /\ turn \in Alive /\ Turn("move", "update")
      /\ kv' = SeqRm(e2, tmp)
      /\ UNCHANGED <<given, it, n_cur, prompt, kv_n_dec, i, decoders, pick, best, rc>>
  BY DEF MoveToOwn, Temp, Control
<1>2. /\ turn \in Ids /\ Alive \subseteq Ids /\ Ids \subseteq Nat
      /\ tmp \in SeqIds /\ tmp # turn /\ {turn} \subseteq SeqIds
  BY <1>1, AliveFacts, TempFacts
<1>3. Removed(kv, e1, turn)
  BY SeqRmFacts DEF CacheInv, CacheTyped
<1>4. Copied(e1, e2, tmp, {turn})
  <2>1. Cached(e1)
    BY <1>3 DEF Removed
  <2> HIDE DEF e1, tmp
  <2>2. QED
    BY ONLY <1>2, <2>1, SeqCpFacts
<1>5. Removed(e2, kv', tmp)
  <2>1. Cached(e2)
    BY <1>4 DEF Copied
  <2> HIDE DEF e2, tmp
  <2>2. QED
    BY ONLY <1>1, <2>1, SeqRmFacts
<1> HIDE DEF e1, e2, tmp
<1>6. /\ Cached(kv') /\ kv'.size = kv.size /\ Used(kv') \subseteq Used(kv)
      /\ kv'.head \in {0, kv.head} \cup Used(kv)
  BY <1>3, <1>4, <1>5 DEF Removed, Copied
<1>7. /\ Mine(kv', turn) = Mine(kv, tmp) /\ Mine(kv', tmp) = {}
      /\ \A s : s # turn /\ s # tmp => Mine(kv', s) = Mine(kv, s)
  <2>1. Mine(e1, turn) = {} /\ \A s : s # turn => Mine(e1, s) = Mine(kv, s)
    BY <1>3 DEF Removed
  <2>2. /\ Mine(e2, turn) = Mine(e1, turn) \cup Mine(e1, tmp)
        /\ \A s : s # turn => Mine(e2, s) = Mine(e1, s)
    BY <1>4 DEF Copied
  <2>3. Mine(kv', tmp) = {} /\ \A s : s # tmp => Mine(kv', s) = Mine(e2, s)
    BY <1>5 DEF Removed
  <2>4. QED
    BY <1>2, <2>1, <2>2, <2>3
<1>8. \A k \in Used(kv') : Alike(kv'.cells[k], kv.cells[k])
  <2>1. \A k \in Used(kv') : k \in Used(e2) /\ k \in Used(e1)
    BY <1>4, <1>5 DEF Removed, Copied
  <2>2. \A k \in Used(kv') : /\ Alike(kv'.cells[k], e2.cells[k])
                             /\ Alike(e2.cells[k], e1.cells[k])
                             /\ Alike(e1.cells[k], kv.cells[k])
    BY <1>3, <1>4, <1>5, <2>1 DEF Removed, Copied
  <2>3. QED
    BY <2>2 DEF Alike
<1>9. ASSUME NEW s, NEW t, NEW j, Mine(kv', t) = Mine(kv, s), Held(kv, s, j)
      PROVE  Held(kv', t, j)
  <2>1. \A k \in Mine(kv, s) : k \in Used(kv')
    BY <1>9 DEF Mine
  <2>2. \A k \in Mine(kv, s) : Alike(kv'.cells[k], kv.cells[k])
    BY <1>8, <2>1
  <2>3. QED
    BY <1>9, <2>2, HoldsAlike
<1>10. Alive' = Alive /\ n_past' = n_past
  BY <1>1, AliveStays DEF n_past
<1>11. /\ turn' \in Alive
       /\ \/ phase' = "update" /\ \A j \in Alive : j <= turn
          \/ phase' = "move" /\ turn' > turn /\ \A j \in Alive : j > turn => turn' <= j
  BY <1>1, TurnFacts DEF IsLastAlive
<1>12. ASSUME NEW j \in Alive
       PROVE  /\ j <= turn => Held(kv', j, j)
              /\ j > turn => Held(kv', Temp(j), j)
  <2>1. Held(kv, IF j < turn THEN j ELSE Temp(j), j)
    BY <1>1 DEF CacheInv, Texts
  <2>2. j \in Nat /\ turn \in Nat /\ j \in Ids
    BY <1>2
  <2>3. CASE j < turn
    <3>1. j # turn /\ j # tmp /\ ~(j > turn)
      BY <1>2, <2>2, <2>3, TempFacts DEF tmp
    <3>2. Held(kv', j, j)
      BY <1>7, <1>9, <2>1, <2>3, <3>1
    <3>3. QED
      BY <3>1, <3>2
  <2>4. CASE j = turn
    <3>1. Held(kv, tmp, j) /\ ~(j > turn)
      BY <2>1, <2>2, <2>4 DEF tmp
    <3>2. Held(kv', j, j)
      BY <1>7, <1>9, <2>4, <3>1
    <3>3. QED
      BY <3>1, <3>2
  <2>5. CASE j > turn
    <3>1. j # turn /\ ~(j < turn) /\ ~(j <= turn)
      BY <2>2, <2>5
    <3>2. Temp(j) # turn /\ Temp(j) # tmp
      BY <1>2, <2>2, <3>1, TempFacts DEF tmp
    <3>3. Held(kv', Temp(j), j)
      BY <1>7, <1>9, <2>1, <3>1, <3>2
    <3>4. QED
      BY <3>1, <3>3
  <2>6. QED
    BY <2>2, <2>3, <2>4, <2>5
<1>13. Texts'
  <2>1. DOMAIN pick' = Ids
    BY <1>1 DEF CacheInv, Texts
  <2>2. CASE phase' = "update"
    <3>1. \A j \in Alive : Held(kv', j, j)
      BY <1>11, <1>12, <2>2
    <3>2. QED
      BY <1>1, <1>10, <2>1, <2>2, <3>1 DEF Texts
  <2>3. CASE phase' = "move"
    <3>1. ASSUME NEW j \in Alive
          PROVE  Held(kv', IF j < turn' THEN j ELSE Temp(j), j)
      <4>1. j \in Nat /\ turn \in Nat /\ turn' \in Nat
        BY <1>2, <1>11
      <4>2. turn' > turn /\ (j > turn => turn' <= j)
        BY <1>11, <2>3
      <4>3. (j < turn' => j <= turn) /\ (~(j < turn') => j > turn)
        BY <4>1, <4>2
      <4>4. QED
        BY <1>12, <4>3
    <3>2. QED
      BY <1>1, <1>10, <2>1, <2>3, <3>1 DEF Texts
  <2>4. QED
    BY <1>11, <2>2, <2>3
<1>14. Temporary'
  <2>1. ASSUME NEW j \in Ids, Mine(kv', Temp(j)) # {}
        PROVE  j \in Alive /\ j > turn
    <3>1. j # turn
      BY <1>7, <2>1 DEF tmp
    <3>2. Temp(j) # tmp /\ Temp(j) # turn
      BY <1>2, <3>1, TempFacts DEF tmp
    <3>3. Mine(kv, Temp(j)) # {}
      BY <1>7, <2>1, <3>2
    <3>4. j \in Alive /\ j >= turn
      BY <1>1, <3>3 DEF CacheInv, Temporary, Busy
    <3>5. QED
      BY <1>2, <3>1, <3>4
  <2>2. CASE phase' = "update"
    <3>1. \A j \in Alive : ~(j > turn)
      BY <1>2, <1>11, <2>2
    <3>2. QED
      BY <2>1, <2>2, <3>1 DEF Temporary
  <2>3. CASE phase' = "move"
    <3>1. \A j \in Alive : j > turn => j >= turn'
      BY <1>2, <1>11, <2>3
    <3>2. QED
      BY <1>10, <2>1, <2>3, <3>1 DEF Temporary
  <2>4. QED
    BY <1>11, <2>2, <2>3
<1>15. CacheTyped' /\ Extent'
  <2>1. Reach' = Reach /\ Reach \in Nat /\ phase' \in Busy /\ phase' # "prompt"
    BY <1>1, <1>11, TempFacts DEF Reach, Busy
  <2>2. kv.head <= Reach /\ \A k \in Used(kv) : k < Reach /\ k \in Nat
    BY <1>1 DEF CacheInv, CacheTyped, Cached, Extent, Busy
  <2>3. kv'.head <= Reach
    BY <1>6, <2>1, <2>2
  <2>4. QED
    BY <1>1, <1>6, <2>1, <2>2, <2>3 DEF CacheInv, CacheTyped, Extent
<1>16. QED
  BY <1>13, <1>14, <1>15 DEF CacheInv

LEMMA CacheUpdate ==
    ASSUME Control, CacheInv, Update
    PROVE  CacheInv'
<1>1. /\ phase = "update" /\ phase' \in {"rank", "decode"}
      /\ UNCHANGED <<given, it, n_cur, prompt, kv, kv_n_dec, i, pick, turn, best, rc>>
  BY DEF Update
<1>2. /\ Alive' \subseteq Alive
      /\ \A j \in Alive : decoders'[j].tokens = decoders[j].tokens
  BY UpdateFacts
<1>3. Texts'
  BY <1>1, <1>2 DEF CacheInv, Texts, n_past
<1>4. Temporary'
  <2>1. \A j \in Ids : Mine(kv, Temp(j)) = {}
    BY <1>1 DEF CacheInv, Temporary, Busy
  <2>2. QED
    BY <1>1, <2>1 DEF Temporary
<1>5. CacheTyped' /\ Extent'
  BY <1>1 DEF CacheInv, CacheTyped, Extent, Reach, Busy
<1>6. QED
  BY <1>3, <1>4, <1>5 DEF CacheInv

(* The row of a running decoder extends its text by one position.          *)
LEMMA RowFacts ==
    ASSUME Control, CacheInv, phase = "decode", NEW j \in Alive
    PROVE  LET longer == Text(prompt, decoders[j].tokens, n_past + 1)
           IN  /\ Row(j) \in Cells /\ Row(j).pos = n_past /\ Row(j).seq_id = {j}
               /\ Row(j).token = longer[n_past + 1]
               /\ Row(j).seen = Past(longer, n_past + 1)
<1> DEFINE s == decoders[j].tokens
           text == Text(prompt, s, n_past)
           longer == Text(prompt, s, n_past + 1)
           token == FromEnd(decoders[j], 0)
           seen == Context(kv, j, n_past) \cup {<<n_past, token>>}
<1>1. /\ Len(prompt) \in Nat /\ i \in Nat /\ n_past \in Nat /\ i < n_max
      /\ n_past \in Positions
  <2>1. /\ Len(prompt) \in Nat /\ i \in Nat /\ Len(prompt) <= n_text_ctx \div 2 + 4
        /\ kv_n_dec \in Nat /\ n_cur \in Nat /\ n_cur >= 1 /\ n_cur <= kv_n_dec /\ i < n_max
    BY PromptFacts DEF Control, Busy
  <2>2. Len(prompt) + i < n_text_ctx
    BY ONLY <2>1, Room
  <2>3. QED
    BY <2>1, <2>2, ContextFacts DEF n_past, Positions
<1>2. /\ decoders[j] \in Decoder /\ Len(s) = i + 1 /\ j \in SeqIds
      /\ Holds(kv, j, text, n_past)
  BY AliveFacts, TempFacts DEF Control, CacheInv, Texts
<1>3. token = s[i + 1] /\ token \in Token
  BY <1>1, <1>2, AdvanceFacts
<1>4. Row(j) = [pos |-> n_past, token |-> token, seq_id |-> {j}, seen |-> seen]
  BY DEF Row, Cell
<1>5. seen = Past(longer, n_past + 1) /\ longer[n_past + 1] = token
  <2>1. /\ \A k \in 1..n_past : longer[k] = text[k]
        /\ longer[n_past + 1] = token
    <3>1. Len(prompt) \in Nat /\ i \in Nat /\ n_past = Len(prompt) + i
      BY <1>1 DEF n_past
    <3> HIDE DEF s, token
    <3>2. /\ \A k \in 1..n_past : longer[k] = text[k]
          /\ longer[n_past + 1] = s[i + 1]
      <4>1. Lengthens(longer, text, n_past, s[i + 1])
        BY ONLY <3>1, TextNext
      <4>2. QED
        BY <4>1 DEF Lengthens
    <3>3. QED
      BY <1>3, <3>2
  <2> HIDE DEF text, longer, token
  <2>2. Context(kv, j, n_past) = Past(text, n_past)
    <3>1. n_past \in Nat /\ Holds(kv, j, text, n_past)
      BY <1>1, <1>2
    <3>2. QED
      BY ONLY <3>1, HoldsContext
  <2>3. Past(longer, n_past + 1) = Past(text, n_past) \cup {<<n_past, longer[n_past + 1]>>}
    <3>1. n_past \in Nat /\ \A k \in 1..n_past : longer[k] = text[k]
      BY <1>1, <2>1
    <3>2. QED
      BY ONLY <3>1, PastOfPrefix
  <2>4. QED
    BY <2>1, <2>2, <2>3
<1>6. seen \subseteq Positions \X (Token \cup PromptTokens)
  <2>1. ASSUME NEW k \in Attended(kv, j, n_past)
        PROVE  kv.cells[k].pos \in Positions /\ kv.cells[k].token \in Token \cup PromptTokens
    <3>1. kv.cells[k] \in Cells
      BY DEF Attended, CacheInv, CacheTyped, Cached
    <3>2. QED
      BY <3>1 DEF Cells
  <2> HIDE DEF token
  <2>2. Context(kv, j, n_past) \subseteq Positions \X (Token \cup PromptTokens)
    BY <2>1 DEF Context
  <2>3. <<n_past, token>> \in Positions \X (Token \cup PromptTokens)
    BY <1>1, <1>3
  <2>4. QED
    BY <2>2, <2>3
<1>7. {j} \in (SUBSET SeqIds) \ {{}}
  BY <1>2
<1> HIDE DEF seen, longer, token
<1>8. Row(j) \in Cells
  BY <1>1, <1>3, <1>4, <1>6, <1>7 DEF Cells
<1>9. QED
  BY <1>4, <1>5, <1>8 DEF longer

LEMMA CacheDecode ==
    ASSUME Control, CacheInv, DecodeNext
    PROVE  CacheInv'
<1> DEFINE m == Cardinality(Alive)
           n == n_past
<1>1. /\ phase = "decode" /\ i' = i + 1 /\ Alive # {}
      /\ phase' = IF i' = n_max THEN "rank" ELSE "sample"
      /\ UNCHANGED <<given, it, n_cur, prompt, kv_n_dec, decoders, pick, turn, best, rc>>
  BY DEF DecodeNext, Control, Busy
<1>2. PICK h \in 0..kv.size : IsSlot(kv, m, h) /\ kv' = Place(kv, h, Batch)
  BY DEF DecodeNext
<1>3. /\ m \in Nat /\ m >= 1 /\ m <= n_cur /\ Len(Batch) = m
      /\ \A j \in Alive : InBatch(j) \in 1..m /\ Batch[InBatch(j)] = Row(j)
      /\ \A j, k \in Alive : InBatch(j) = InBatch(k) => j = k
      /\ \A b \in 1..m : \E j \in Alive : InBatch(j) = b
  BY <1>1, BatchFacts
<1> HIDE DEF m
<1>4. ASSUME NEW j \in Alive
      PROVE  /\ Row(j) \in Cells /\ Row(j).pos = n /\ Row(j).seq_id = {j}
             /\ Row(j).token = Text(prompt, decoders[j].tokens, n + 1)[n + 1]
             /\ Row(j).seen = Past(Text(prompt, decoders[j].tokens, n + 1), n + 1)
  BY <1>1, RowFacts
<1>5. /\ Cached(kv) /\ kv.size = CacheSize(kv_n_dec) /\ kv.head <= Reach
      /\ \A k \in Used(kv) : k < Reach
  BY <1>1 DEF CacheInv, CacheTyped, Extent, Busy
<1>6. /\ Len(prompt) \in Nat /\ i \in Nat /\ Len(prompt) <= n_text_ctx \div 2 + 4
      /\ kv_n_dec \in Nat /\ n_cur \in Nat /\ n_cur >= 1 /\ n_cur <= kv_n_dec /\ i < n_max
      /\ Reach \in Nat /\ n \in Nat
  BY <1>1, PromptFacts, TempFacts DEF Control, Busy, n_past
<1>7. Placed(kv, kv', h, m, Batch)
  <2>1. \A b \in 1..m : Batch[b] \in Cells
    BY <1>3, <1>4
  <2>2. h \in 0..kv.size
    OBVIOUS
  <2>3. QED
    BY ONLY <1>2, <1>3, <1>5, <2>1, <2>2, PlaceFacts
<1>8. h <= Reach /\ Reach + n_cur \in Nat
  <2>1. Reach + n_cur <= kv.size
    <3>1. Len(prompt) + n_cur * i + n_cur <= CacheSize(kv_n_dec)
      BY ONLY <1>6, Room
    <3>2. QED
      BY <1>5, <3>1 DEF Reach
  <2>2. kv.size \in Nat
    BY <1>5 DEF Cached
  <2>3. Reach + m <= kv.size
    BY <1>3, <1>6, <2>1, <2>2
  <2>4. h \in 0..kv.size
    OBVIOUS
  <2>5. h <= Reach
    BY ONLY <1>2, <1>3, <1>5, <1>6, <2>3, <2>4, SlotWithin
  <2>6. QED
    BY <1>6, <2>5
<1> DEFINE at(j) == h + InBatch(j) - 1
<1>9. /\ \A j \in Alive : /\ at(j) \in h..(h + m - 1) /\ kv'.cells[at(j)] = Row(j)
                          /\ at(j) \notin Used(kv)
      /\ \A k \in h..(h + m - 1) : \E j \in Alive : k = at(j)
  <2>1. \A k \in h..(h + m - 1) : k \notin Used(kv) /\ kv'.cells[k] = Batch[k - h + 1]
    BY <1>7 DEF Placed
  <2>2. h \in Nat
    BY <1>5 DEF Cached
  <2>3. \A b \in 1..m : h + b - 1 \in h..(h + m - 1) /\ (h + b - 1) - h + 1 = b
    BY <1>3, <2>2
  <2>4. \A k \in h..(h + m - 1) : k - h + 1 \in 1..m /\ k = h + (k - h + 1) - 1
    BY <1>3, <2>2
  <2>5. ASSUME NEW j \in Alive
        PROVE  /\ at(j) \in h..(h + m - 1) /\ kv'.cells[at(j)] = Row(j)
               /\ at(j) \notin Used(kv)
    BY <1>3, <2>1, <2>3
  <2>6. ASSUME NEW k \in h..(h + m - 1) PROVE \E j \in Alive : k = at(j)
    <3>1. PICK j \in Alive : InBatch(j) = k - h + 1
      BY <1>3, <2>4
    <3>2. QED
      BY <2>4, <3>1
  <2>7. QED
    BY <2>5, <2>6
<1> HIDE DEF at
<1>10. /\ Used(kv') = Used(kv) \cup h..(h + m - 1) /\ Cached(kv') /\ kv'.size = kv.size
       /\ kv'.head = h /\ \A k \in Used(kv) : kv'.cells[k] = kv.cells[k]
  BY <1>7 DEF Placed
<1>11. ASSUME NEW k \in h..(h + m - 1), NEW s
       PROVE  s \in kv'.cells[k].seq_id <=> s \in Alive /\ k = at(s)
  <2>1. PICK j \in Alive : k = at(j)
    BY <1>9
  <2>2. kv'.cells[k].seq_id = {j}
    BY <1>4, <1>9, <2>1
  <2>3. ASSUME s \in Alive, k = at(s) PROVE s = j
    <3>1. Row(s) = Row(j)
      BY <1>9, <2>1, <2>3
    <3>2. {s} = {j}
      BY <1>4, <2>3, <3>1
    <3>3. QED
      BY <3>2
  <2>4. QED
    BY <2>1, <2>2, <2>3
<1>12. /\ \A j \in Alive : Mine(kv', j) = Mine(kv, j) \cup {at(j)} /\ at(j) \notin Mine(kv, j)
       /\ \A s : s \notin Alive => Mine(kv', s) = Mine(kv, s)
  <2>1. ASSUME NEW j \in Alive
        PROVE  Mine(kv', j) = Mine(kv, j) \cup {at(j)} /\ at(j) \notin Mine(kv, j)
    BY <1>9, <1>10, <1>11 DEF Mine
  <2>2. ASSUME NEW s, s \notin Alive PROVE Mine(kv', s) = Mine(kv, s)
    BY <1>10, <1>11, <2>2 DEF Mine
  <2>3. QED
    BY <2>1, <2>2
<1>13. Alive' = Alive /\ n_past' = n + 1
  <2>1. Alive' = Alive
    BY <1>1, AliveStays
  <2>2. n_past' = Len(prompt) + (i + 1) /\ n = Len(prompt) + i
    BY <1>1 DEF n_past
  <2>3. QED
    BY <1>6, <2>1, <2>2
<1>14. ASSUME NEW j \in Alive
       PROVE  Holds(kv', j, Text(prompt, decoders[j].tokens, n + 1), n + 1)
  <2> DEFINE text == Text(prompt, decoders[j].tokens, n)
             longer == Text(prompt, decoders[j].tokens, n + 1)
             x == at(j)
  <2>1. Holds(kv, j, text, n)
    BY <1>1 DEF CacheInv, Texts
  <2>2. \A k \in 1..n : longer[k] = text[k]
    <3>1. Len(prompt) \in Nat /\ i \in Nat /\ n = Len(prompt) + i
      BY <1>6 DEF n_past
    <3> HIDE DEF n
    <3>2. Lengthens(longer, text, n, decoders[j].tokens[i + 1])
      BY ONLY <3>1, TextNext
    <3>3. QED
      BY <3>2 DEF Lengthens
  <2>3. /\ kv'.cells[x].pos = n /\ kv'.cells[x].token = longer[n + 1]
        /\ kv'.cells[x].seen = Past(longer, n + 1)
    BY <1>4, <1>9
  <2>4. \A k \in Mine(kv, j) : kv'.cells[k] = kv.cells[k]
    BY <1>10 DEF Mine
  <2>5. Mine(kv', j) = Mine(kv, j) \cup {x} /\ x \notin Mine(kv, j)
    BY <1>12
  <2> HIDE DEF text, longer, x, n
  <2>6. Holds(kv', j, longer, n + 1)
    BY ONLY <1>6, <2>1, <2>2, <2>3, <2>4, <2>5, HoldsMore
  <2>7. QED
    BY <2>6 DEF longer
<1>15. Texts'
  BY <1>1, <1>13, <1>14 DEF CacheInv, Texts
<1>16. Temporary'
  <2>1. \A j \in Ids : Mine(kv, Temp(j)) = {} /\ Temp(j) \notin Alive
    BY <1>1, TempFacts, AliveFacts DEF CacheInv, Temporary, Busy
  <2>2. \A j \in Ids : Mine(kv', Temp(j)) = {}
    BY <1>12, <2>1
  <2>3. QED
    BY <2>2 DEF Temporary
<1>17. CacheTyped' /\ Extent'
  <2>1. Reach' = Reach + n_cur
    <3>1. Reach' = Len(prompt) + n_cur * (i + 1) /\ Reach = Len(prompt) + n_cur * i
      BY <1>1 DEF Reach
    <3>2. n_cur * (i + 1) = n_cur * i + n_cur /\ n_cur * i \in Nat
      BY <1>6, Products
    <3>3. QED
      BY <1>6, <3>1, <3>2
  <2>2. \A k \in Used(kv') : k < Reach + n_cur
    <3>1. ASSUME NEW k \in Used(kv) PROVE k < Reach + n_cur
      <4>1. k \in Nat /\ k < Reach
        BY <1>5 DEF Cached
      <4>2. QED
        BY <1>6, <4>1
    <3>2. ASSUME NEW k \in h..(h + m - 1) PROVE k < Reach + n_cur
      <4>1. h \in Nat
        BY <1>5 DEF Cached
      <4>2. QED
        BY <1>3, <1>6, <1>8, <4>1
    <3>3. QED
      BY <1>10, <3>1, <3>2
  <2>3. kv'.head <= Reach + n_cur
    <3>1. h \in Nat
      BY <1>5 DEF Cached
    <3>2. QED
      BY <1>6, <1>8, <1>10, <3>1
  <2>4. phase' # "prompt"
    BY <1>1
  <2>5. QED
    BY <1>1, <1>5, <1>10, <2>1, <2>2, <2>3, <2>4 DEF CacheTyped, Extent
<1>18. QED
  BY <1>15, <1>16, <1>17 DEF CacheInv

LEMMA CacheNext ==
    ASSUME Control, CacheInv, Next
    PROVE  CacheInv'
<1>1. CASE StartTemperature
  BY <1>1, CacheStart
<1>2. CASE RegrowFails \/ PromptFails \/ DecodeFails
  BY <1>2, CacheFail DEF RegrowFails, PromptFails, DecodeFails
<1>3. CASE DecodePrompt
  BY <1>3, CachePrompt
<1>4. CASE SampleGreedy \/ SampleBeam
  BY <1>4, CacheSample
<1>5. CASE CopyParent
  BY <1>5, CacheCopyParent
<1>6. CASE MoveToOwn
  BY <1>6, CacheMoveToOwn
<1>7. CASE Update
  BY <1>7, CacheUpdate
<1>8. CASE DecodeNext
  BY <1>8, CacheDecode
<1>9. CASE Rank
  <2>1. /\ phase' \in {"done", "temperature"}
        /\ UNCHANGED <<given, n_cur, prompt, kv, kv_n_dec, i, pick, turn, rc>>
    BY <1>9, RankFacts
  <2>2. QED
    BY <2>1 DEF CacheInv, CacheTyped, Texts, Temporary, Extent, Busy
<1>10. CASE Ended
  BY <1>10 DEF Ended, vars, CacheInv, CacheTyped, Texts, Temporary, Extent, Busy, Alive,
               Running, Current, n_past, Reach
<1>11. QED
  BY <1>1, <1>2, <1>3, <1>4, <1>5, <1>6, <1>7, <1>8, <1>9, <1>10 DEF Next

(* What every sequence of the cache holds, for any number of decoders.     *)
THEOREM CacheInvariant == Spec => []CacheInv
<1>1. DecodeInv /\ CacheInv /\ [Next]_vars => CacheInv'
  <2> SUFFICES ASSUME DecodeInv, CacheInv, [Next]_vars PROVE CacheInv'
    OBVIOUS
  <2>1. CASE Next
    BY <2>1, CacheNext DEF DecodeInv
  <2>2. CASE UNCHANGED vars
    BY <2>2 DEF vars, CacheInv, CacheTyped, Texts, Temporary, Extent, Busy, Alive,
                Running, Current, n_past, Reach
  <2>3. QED
    BY <2>1, <2>2
<1>2. QED
  BY <1>1, CacheInit, DecodeInvariant, PTL DEF Spec

-----------------------------------------------------------------------------
(* What it says to a reader of the code.                                   *)

(* Every variable has its type; no token is ever given a position the      *)
(* model has no embedding for.                                             *)
THEOREM DecodeTypeCorrect == Spec => []TypeOK
<1>1. DecodeInv /\ CacheInv => TypeOK
  <2> SUFFICES ASSUME DecodeInv, CacheInv PROVE TypeOK
    OBVIOUS
  <2>1. /\ Cached(kv) /\ kv.size = CacheSize(kv_n_dec)
        /\ kv.head \in 0..(kv.size - 1) /\ Used(kv) \subseteq 0..(kv.size - 1)
    BY DEF CacheInv, CacheTyped, Cached
  <2>2. ASSUME NEW k \in Used(kv)
        PROVE  /\ kv.cells[k].pos \in Positions
               /\ kv.cells[k].token \in Token \cup PromptTokens
               /\ kv.cells[k].seq_id \in (SUBSET SeqIds) \ {{}}
               /\ kv.cells[k].seen \subseteq Positions \X (Token \cup PromptTokens)
    <3>1. kv.cells[k] \in Cells
      BY <2>1 DEF Cached
    <3>2. QED
      BY <3>1 DEF Cells
  <2>3. turn \in -1..(MaxDecoders - 1)
    BY WindowFacts DEF DecodeInv, Control, Ids
  <2>4. QED
    BY <2>1, <2>2, <2>3 DEF DecodeInv, Control, Phases, Ids, TypeOK
<1>2. QED
  BY <1>1, DecodeInvariant, CacheInvariant, PTL

(* The temporary sequences of the beam search hold nothing between steps.  *)
THEOREM TemporariesEmpty == Spec => []NoTemporarySequences
<1>1. DecodeInv /\ CacheInv => NoTemporarySequences
  <2> SUFFICES ASSUME DecodeInv, CacheInv, phase \in {"sample", "update", "decode", "rank"},
                      NEW k \in Used(kv), NEW s \in kv.cells[k].seq_id
               PROVE  s < MaxDecoders
    BY DEF NoTemporarySequences
  <2>1. s \in SeqIds
    BY DEF CacheInv, CacheTyped, Cached, Cells
  <2>2. ASSUME ~(s < MaxDecoders) PROVE FALSE
    <3> DEFINE j == s - MaxDecoders
    <3>1. j \in Ids /\ s = Temp(j)
      BY <2>1, <2>2, WindowFacts DEF SeqIds, Ids, Temp
    <3>2. Mine(kv, Temp(j)) = {}
      BY <3>1 DEF CacheInv, Temporary, Busy
    <3>3. k \in Mine(kv, s)
      BY DEF Mine
    <3>4. QED
      BY <3>1, <3>2, <3>3
  <2>3. QED
    BY <2>2
<1>2. QED
  BY <1>1, DecodeInvariant, CacheInvariant, PTL

(* Whatever is freed and copied, the cache has a slot for the next batch:  *)
(* no batch starts beyond the cells that were taken since it was cleared,  *)
(* and those fit even if none is ever reused.                              *)
THEOREM SlotIsFound == Spec => []SlotAlwaysFound
<1>1. DecodeInv /\ CacheInv => SlotAlwaysFound
  <2> SUFFICES ASSUME DecodeInv, CacheInv PROVE SlotAlwaysFound
    OBVIOUS
  <2>0. Control /\ Cached(kv) /\ kv.size = CacheSize(kv_n_dec) /\ kv.size \in Nat
    BY DEF DecodeInv, CacheInv, CacheTyped, Cached
  <2>1. ASSUME phase = "prompt" PROVE ~NoSlot(kv, Len(prompt))
    <3> DEFINE L == Len(prompt)
    <3>1. /\ L \in Nat /\ L >= 1 /\ L <= n_text_ctx \div 2 + 4 /\ 0 \in Nat /\ 0 < n_max
          /\ kv_n_dec \in Nat /\ n_cur \in Nat /\ n_cur >= 1 /\ n_cur <= kv_n_dec
      BY <2>0, <2>1, PromptFacts, ContextFacts
    <3>2. Used(kv) = {}
      BY <2>1 DEF CacheInv, Extent
    <3> HIDE DEF L
    <3>3. L + n_cur * 0 + n_cur <= CacheSize(kv_n_dec)
      BY ONLY <3>1, Room
    <3>4. 0 + L <= kv.size
      BY <2>0, <3>1, <3>3
    <3>5. \A k \in Used(kv) : k < 0
      BY <3>2
    <3>6. ~NoSlot(kv, L)
      BY ONLY <2>0, <3>1, <3>4, <3>5, SlotWithin
    <3>7. QED
      BY <3>6 DEF L
  <2>2. ASSUME phase = "decode" PROVE ~NoSlot(kv, Cardinality(Alive))
    <3> DEFINE m == Cardinality(Alive)
    <3>1. /\ Len(prompt) \in Nat /\ Len(prompt) <= n_text_ctx \div 2 + 4
          /\ kv_n_dec \in Nat /\ n_cur \in Nat /\ n_cur >= 1 /\ n_cur <= kv_n_dec
          /\ i \in Nat /\ i < n_max /\ Reach \in Nat
      BY <2>0, <2>2, PromptFacts, TempFacts DEF Control, Busy
    <3>2. m \in Nat /\ m >= 1 /\ m <= n_cur
      BY <2>0, <2>2, BatchFacts DEF Control, Busy
    <3> HIDE DEF m
    <3>3. Len(prompt) + n_cur * i + n_cur <= CacheSize(kv_n_dec)
      BY ONLY <3>1, Room
    <3>4. Reach + m <= kv.size
      <4>1. Reach + n_cur <= kv.size
        BY <2>0, <3>3 DEF Reach
      <4>2. QED
        BY <2>0, <3>1, <3>2, <4>1
    <3>5. \A k \in Used(kv) : k < Reach
      BY <2>2 DEF CacheInv, Extent, Busy
    <3>6. ~NoSlot(kv, m)
      BY ONLY <2>0, <3>1, <3>2, <3>4, <3>5, SlotWithin
    <3>7. QED
      BY <3>6 DEF m
  <2>3. QED
    BY <2>1, <2>2 DEF SlotAlwaysFound
<1>2. QED
  BY <1>1, DecodeInvariant, CacheInvariant, PTL

(* The text of which a decoder has the rows in the cache.                  *)
LEMMA WrittenFacts ==
    ASSUME DecodeInv, phase \in {"sample", "update"}, NEW j \in Alive
    PROVE  /\ n_past \in Nat /\ Len(Written(j)) = n_past /\ DOMAIN Written(j) = 1..n_past
           /\ \A k \in 1..n_past :
                 Text(prompt, decoders[j].tokens, n_past)[k] = Written(j)[k]
<1> DEFINE L == Len(prompt)
           s == decoders[j].tokens
           done == IF phase = "sample" THEN s ELSE SubSeq(s, 1, i)
           All == PromptTokens \cup Token
<1>1. /\ Control /\ L \in Nat /\ i \in Nat /\ prompt \in Seq(PromptTokens)
      /\ s \in Seq(Token) /\ Len(s) = IF phase = "sample" THEN i ELSE i + 1
  BY PromptFacts, AliveFacts DEF DecodeInv, Control, Busy, Decoder
<1>2. done \in Seq(Token) /\ Len(done) = i /\ \A k \in 1..i : done[k] = s[k]
  <2>1. CASE phase = "sample"
    BY <1>1, <2>1
  <2>2. CASE phase # "sample"
    <3>1. \A k \in 1..i : s[k] \in Token
      BY <1>1, <2>2
    <3>2. /\ SubSeq(s, 1, i) \in Seq(Token) /\ Len(SubSeq(s, 1, i)) = i
          /\ \A k \in 1..i : SubSeq(s, 1, i)[k] = s[k]
      BY <1>1, <3>1, SubSeqProperties
    <3>3. QED
      BY <2>2, <3>2
  <2>3. QED
    BY <2>1, <2>2
<1>3. Written(j) = prompt \o done /\ n_past = L + i
  BY DEF Written, n_past
<1>4. prompt \in Seq(All) /\ done \in Seq(All)
  BY <1>1, <1>2
<1> HIDE DEF done, All
<1>5. /\ prompt \o done \in Seq(All) /\ Len(prompt \o done) = L + i
      /\ \A k \in 1..(L + i) : (prompt \o done)[k] = IF k <= L THEN prompt[k] ELSE done[k - L]
  BY <1>2, <1>4, ConcatProperties
<1>6. ASSUME NEW k \in 1..(L + i)
      PROVE  (prompt \o done)[k] = IF k <= L THEN prompt[k] ELSE s[k - L]
  <2>1. ~(k <= L) => k - L \in 1..i
    BY <1>1
  <2>2. QED
    BY <1>2, <1>5, <2>1
<1>7. DOMAIN (prompt \o done) = 1..(L + i)
  BY <1>5
<1> HIDE DEF L, s
<1>8. \A k \in 1..(L + i) : Text(prompt, s, L + i)[k] = (prompt \o done)[k]
  BY <1>1, <1>6 DEF Text, L
<1>9. L + i \in Nat /\ Len(Written(j)) = L + i
  BY <1>1, <1>3, <1>5
<1>10. DOMAIN Written(j) = 1..(L + i)
  BY <1>3, <1>7
<1>11. \A k \in 1..(L + i) : Text(prompt, s, L + i)[k] = Written(j)[k]
  BY <1>3, <1>8
<1>12. /\ n_past \in Nat /\ Len(Written(j)) = n_past /\ DOMAIN Written(j) = 1..n_past
       /\ \A k \in 1..n_past : Text(prompt, s, n_past)[k] = Written(j)[k]
  BY ONLY <1>3, <1>9, <1>10, <1>11
<1>13. QED
  BY <1>12 DEF s

(* Before a token is sampled and after the beams have exchanged their      *)
(* caches, a running decoder attends to the prompt and its own sequence,   *)
(* each position once, through rows computed from just that text.          *)
THEOREM HistoriesApart == Spec => []OwnHistory
<1>1. DecodeInv /\ CacheInv => OwnHistory
  <2> SUFFICES ASSUME DecodeInv, CacheInv, phase \in {"sample", "update"}, NEW j \in Alive
               PROVE  /\ Cardinality(Attended(kv, j, n_past)) = Len(Written(j))
                      /\ Context(kv, j, n_past) = History(Written(j))
                      /\ \A k \in Attended(kv, j, n_past) :
                            kv.cells[k].seen = UpTo(History(Written(j)), kv.cells[k].pos)
    BY DEF OwnHistory
  <2> DEFINE text == Text(prompt, decoders[j].tokens, n_past)
             w == Written(j)
             n == n_past
  <2>1. /\ n \in Nat /\ Len(w) = n /\ DOMAIN w = 1..n
        /\ \A k \in 1..n : text[k] = w[k]
    BY WrittenFacts
  <2>2. Holds(kv, j, text, n)
    BY DEF CacheInv, Texts
  <2> HIDE DEF text, w, n
  <2>3. /\ Attended(kv, j, n) = Mine(kv, j) /\ Context(kv, j, n) = Past(text, n)
        /\ Cardinality(Attended(kv, j, n)) = n
    BY ONLY <2>1, <2>2, HoldsContext
  <2>4. /\ History(w) = Past(text, n)
        /\ \A b \in 1..n : UpTo(History(w), b - 1) = Past(text, b)
    BY ONLY <2>1, HistoryOfText
  <2>5. ASSUME NEW k \in Attended(kv, j, n)
        PROVE  kv.cells[k].seen = UpTo(History(w), kv.cells[k].pos)
    <3> DEFINE p == kv.cells[k].pos
    <3>1. p \in 0..(n - 1) /\ kv.cells[k].seen = Past(text, p + 1)
      BY <2>2, <2>3 DEF Holds
    <3>2. p + 1 \in 1..n /\ (p + 1) - 1 = p
      BY <2>1, <3>1
    <3>3. QED
      BY <2>4, <3>1, <3>2
  <2>6. QED
    BY <2>1, <2>3, <2>4, <2>5 DEF w, n
<1>2. QED
  BY <1>1, DecodeInvariant, CacheInvariant, PTL

=============================================================================
