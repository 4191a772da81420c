---------------------------- MODULE WindowDecode ----------------------------
(***************************************************************************)
(* How whisper_full_with_state decodes one 30 s window: the loop over the  *)
(* temperatures, and in it the token loop that advances up to              *)
(* WHISPER_MAX_DECODERS decoders over one shared self-attention KV cache,  *)
(* greedily or with beam search.                                           *)
(*                                                                         *)
(* What the network prefers is arbitrary; which tokens it may choose from  *)
(* is what whisper_process_logits leaves unsuppressed.                     *)
(*                                                                         *)
(* X_Fault stands beside X: a faulty variant of it, which no specification *)
(* uses; with it in place of X one of the properties below is violated.    *)
(***************************************************************************)
EXTENDS WindowOutcome, FiniteSets, KVCache

CONSTANTS
    Temperatures,     \* how many temperatures are tried
    KvPad,            \* the padding of the cache size (256)
    MaxDecoders,      \* WHISPER_MAX_DECODERS
    delta_min,        \* frames below which no audio is decoded (10)
    Remaining,        \* values of seek_end - seek
    PromptLengths,    \* values of prompt.size()
    entropy_len,      \* longest result exempt from the entropy check (32)
    Params            \* values of whisper_full_params, see below

(* The number of decoders at temperature number it (0 is temperature 0). *)
AtLeastOne(n) == IF n < 1 THEN 1 ELSE n

Decoders_FewerLater(p, it) ==
    AtLeastOne(IF it = 0 THEN p.best_of ELSE IF p.beam THEN p.beam_size ELSE 1)

Decoders(p, it) ==
    AtLeastOne(IF it = 0 THEN IF p.beam THEN p.beam_size ELSE 1 ELSE p.best_of)

Padded(n) == ((n + KvPad - 1) \div KvPad) * KvPad

CacheSize_NotScaled(n) == Padded(n_text_ctx)

CacheSize(n) == Padded(n_text_ctx) * (IF n > 1 THEN n + 2 ELSE 1)

ASSUME DecodeAssumption ==
    /\ Temperatures \in Nat \ {0}
    /\ KvPad \in Nat \ {0}
    /\ MaxDecoders \in Nat \ {0}
    /\ delta_min \in Nat
    /\ entropy_len \in Nat
    /\ Params \subseteq [beam : BOOLEAN, best_of : Int, beam_size : Int,
                         max_tokens : Nat, no_timestamps : BOOLEAN,
                         single_segment : BOOLEAN]
    /\ \A p \in Params : p.best_of <= MaxDecoders /\ p.beam_size <= MaxDecoders
    /\ Remaining \subseteq {r \in Nat : r > delta_min}
    /\ PromptLengths \subseteq 1..(n_text_ctx \div 2 + 4)

VARIABLES
    phase,        \* where the decoding is
    remaining,    \* seek_end - seek
    params,       \* the parameters (beam: the strategy is beam search;
                  \* max_tokens is 0 for no limit)
    it,           \* index of the temperature
    n_cur,        \* n_decoders_cur
    prompt,       \* the prompt tokens
    kv,           \* state->kv_self
    kv_n_dec,     \* state->kv_self_n_dec
    i,            \* index of the token being decoded
    decoders,     \* state->decoders
    pick,         \* beam search: the candidate each alive decoder takes
    turn,         \* the decoder a beam search loop has reached
    best,         \* best_decoder_id
    rc            \* the error the decoding returned, 0 for none

vars == <<phase, remaining, params, it, n_cur, prompt, kv, kv_n_dec, i, decoders,
          pick, turn, best, rc>>

given == <<remaining, params>>

FreshDecoder == [tokens |-> <<>>, result_len |-> 0, seek_delta |-> Chunk,
                 has_ts |-> FALSE, failed |-> FALSE, completed |-> FALSE]

Current == 0..(n_cur - 1)
Running(ds) == {j \in Current : ~ds[j].failed /\ ~ds[j].completed}
Alive   == Running(decoders)

NoPick == [parent |-> 0, token |-> 0]

(* The loops over the decoders visit only those still running. *)
NextAlive(j) == CHOOSE k \in Alive : k > j /\ \A l \in Alive : l > j => k <= l
FirstAlive   == NextAlive(-1)
IsLastAlive(j) == \A l \in Alive : l <= j

Init ==
    /\ phase = "temperature"
    /\ remaining \in Remaining /\ params \in Params
    /\ it = 0 /\ n_cur = 1 /\ prompt = <<>>
    /\ kv = EmptyCache(CacheSize(1)) /\ kv_n_dec = 1
    /\ i = 0
    /\ decoders = [j \in 0..(MaxDecoders - 1) |-> FreshDecoder]
    /\ pick = [j \in 0..(MaxDecoders - 1) |-> NoPick]
    /\ turn = 0 /\ best = 0 /\ rc = 0

-----------------------------------------------------------------------------
(* A new temperature: reset the decoders, rebuild the prompt (its length   *)
(* depends on the temperature), grow the cache if it is too small, clear   *)
(* it and decode the prompt for all decoders.                              *)

Reset(n) == [j \in DOMAIN decoders |-> IF j < n THEN FreshDecoder
                                                ELSE decoders[j]]

StartTemperature ==
    /\ phase = "temperature"
    /\ n_cur' = Decoders(params, it)
    /\ decoders' = Reset(n_cur')
    /\ \E n \in PromptLengths : prompt' = [k \in 1..n |-> -k]
    /\ kv' = EmptyCache(IF kv_n_dec < n_cur' THEN CacheSize(n_cur') ELSE kv.size)
    /\ kv_n_dec' = IF kv_n_dec < n_cur' THEN n_cur' ELSE kv_n_dec
    /\ phase' = "prompt"
    /\ UNCHANGED <<given, it, i, pick, turn, best, rc>>

Fail(code) ==
    /\ phase' = "error" /\ rc' = code
    /\ UNCHANGED <<given, it, n_cur, prompt, kv, kv_n_dec, i, decoders,
                   pick, turn, best>>

RegrowFails ==
    /\ phase = "temperature" /\ kv_n_dec < Decoders(params, it)
    /\ Fail(-7)

PromptBatch ==
    [k \in 1..Len(prompt) |->
        Cell(k - 1, prompt[k], {0}, UpTo(History(prompt), k - 1))]

DecodePrompt ==
    /\ phase = "prompt"
    /\ \E h \in 0..kv.size :
          /\ IsSlot(kv, Len(prompt), h)
          /\ kv' = SeqCp(Place(kv, h, PromptBatch), 0, 1..(n_cur - 1))
    /\ i' = 0 /\ phase' = "sample"
    /\ UNCHANGED <<given, it, n_cur, prompt, kv_n_dec, decoders, pick, turn,
                   best, rc>>

(* whisper_decode_internal fails for want of a slot, or in the computation. *)
PromptFails == phase = "prompt" /\ Fail(-8)

-----------------------------------------------------------------------------

IsTimestamp(t) == t > Beg
FromEnd(d, n)  == d.tokens[Len(d.tokens) - n]

(* whisper_process_logits: the tokens decoder d may choose next. *)

Allowed_AnyOrder(d) ==
    LET initial == d.tokens = <<>>
        last    == ~initial /\ FromEnd(d, 0) >= Beg
        penult  == Len(d.tokens) < 2 \/ FromEnd(d, 1) >= Beg
    IN  {t \in Token :
            /\ initial => t # Eot /\ t <= Beg + max_initial_ts
            /\ params.no_timestamps => t < Beg
            /\ last /\ penult => t < Beg
            /\ last /\ ~penult => t >= Eot}

Allowed(d) ==
    LET initial == d.tokens = <<>>
        last    == ~initial /\ FromEnd(d, 0) >= Beg
        penult  == Len(d.tokens) < 2 \/ FromEnd(d, 1) >= Beg
    IN  {t \in Token :
            /\ initial => t # Eot /\ t <= Beg + max_initial_ts
            /\ params.no_timestamps => t < Beg
            /\ last /\ penult => t < Beg
            /\ last /\ ~penult => t >= Eot
            /\ d.has_ts => t \notin Beg..(Beg + d.seek_delta \div 2 - 1)}

Push(d, t) == [d EXCEPT !.tokens = Append(@, t)]

SampleGreedy ==
    /\ phase = "sample" /\ ~params.beam
    /\ \E token \in [Alive -> Token] :
          /\ \A j \in Alive : token[j] \in Allowed(decoders[j])
          /\ decoders' = [j \in DOMAIN decoders |->
                             IF j \in Alive THEN Push(decoders[j], token[j])
                                            ELSE decoders[j]]
    /\ phase' = "update"
    /\ UNCHANGED <<given, it, n_cur, prompt, kv, kv_n_dec, i, pick, turn,
                   best, rc>>

(* Beam search: every alive decoder draws beam_size candidates, which are  *)
(* ordered by their log probability (any order); each alive decoder takes  *)
(* the next one, skipping equal sequences after the first token, and       *)
(* starting over when there are none left.                                 *)
Candidate(c) == Push(decoders[c.parent], c.token)

Selection(p) ==
    /\ \A j \in Alive : p[j].token \in Allowed(decoders[p[j].parent])
    /\ \A a \in Alive :
          Cardinality({p[j].token : j \in {k \in Alive : p[k].parent = a}})
              <= params.beam_size
    /\ \/ i = 0
       \/ \A j, k \in Alive :
             j # k => Candidate(p[j]).tokens # Candidate(p[k]).tokens
       \/ \E j, k \in Alive : j # k /\ decoders[j].tokens = decoders[k].tokens

SampleBeam ==
    /\ phase = "sample" /\ params.beam
    /\ \E p \in [Alive -> [parent : Alive, token : Token]] :
          /\ Selection(p)
          /\ pick' = [j \in DOMAIN pick |-> IF j \in Alive THEN p[j] ELSE NoPick]
          /\ decoders' = [j \in DOMAIN decoders |->
                             IF j \in Alive THEN Candidate(p[j])
                                            ELSE decoders[j]]
    /\ phase' = "copy" /\ turn' = FirstAlive
    /\ UNCHANGED <<given, it, n_cur, prompt, kv, kv_n_dec, i, best, rc>>

(* The end of one turn of a loop over the alive decoders. *)
Turn(loop, after) ==
    IF IsLastAlive(turn)
    THEN phase' = after /\ turn' = FirstAlive
    ELSE phase' = loop /\ turn' = NextAlive(turn)

(* The parent's cells are first shared with a temporary sequence ...       *)
CopyParent ==
    /\ phase = "copy"
    /\ kv' = SeqCp(kv, pick[turn].parent, {MaxDecoders + turn})
    /\ Turn("copy", "move")
    /\ UNCHANGED <<given, it, n_cur, prompt, kv_n_dec, i, decoders, pick,
                   best, rc>>

MoveToOwn_OverOwn ==
    /\ phase = "move"
    /\ kv' = SeqRm(SeqCp(kv, MaxDecoders + turn, {turn}), MaxDecoders + turn)
    /\ Turn("move", "update")
    /\ UNCHANGED <<given, it, n_cur, prompt, kv_n_dec, i, decoders, pick,
                   best, rc>>

MoveToOwn_KeepsTemporary ==
    /\ phase = "move"
    /\ kv' = SeqCp(SeqRm(kv, turn), MaxDecoders + turn, {turn})
    /\ Turn("move", "update")
    /\ UNCHANGED <<given, it, n_cur, prompt, kv_n_dec, i, decoders, pick,
                   best, rc>>

(* ... which then takes the place of the decoder's own.                    *)
MoveToOwn ==
    /\ phase = "move"
    /\ kv' = SeqRm(SeqCp(SeqRm(kv, turn), MaxDecoders + turn, {turn}),
                   MaxDecoders + turn)
    /\ Turn("move", "update")
    /\ UNCHANGED <<given, it, n_cur, prompt, kv_n_dec, i, decoders, pick,
                   best, rc>>

-----------------------------------------------------------------------------
(* The state of a decoder after token number i: the sliding window follows *)
(* the timestamps, the sequence completes or fails.                        *)

SlideWindow(d) ==
    LET t == FromEnd(d, 0)
    IN  IF IsTimestamp(t)
        THEN [d EXCEPT !.seek_delta = 2 * (t - Beg), !.result_len = i + 1,
                       !.has_ts = TRUE]
        ELSE d

GoesBack(d) ==
    LET t == FromEnd(d, 0)
    IN  IsTimestamp(t) /\ d.has_ts /\ d.seek_delta > 2 * (t - Beg)
        /\ d.result_len < i

AudioEnds(d) == d.seek_delta + delta_min >= remaining

Ends(d) == \/ FromEnd(d, 0) = Eot
           \/ params.max_tokens > 0 /\ i >= params.max_tokens
           \/ d.has_ts /\ AudioEnds(d)

NothingDecoded(d) == d.result_len = 0 /\ ~params.no_timestamps

Failed(d) == [d EXCEPT !.failed = TRUE]

Completed_KeepsLength(d) ==
    [d EXCEPT !.completed = TRUE,
              !.seek_delta = IF params.single_segment \/ params.no_timestamps THEN Chunk ELSE @]

Completed(d) ==
    [d EXCEPT
        !.completed  = TRUE,
        !.result_len = IF NothingDecoded(d) \/ params.single_segment \/ params.no_timestamps
                       THEN i + 1 ELSE @,
        !.seek_delta = IF params.single_segment \/ params.no_timestamps THEN Chunk ELSE @]

(* The last token of the loop without having passed half the window. *)
Repeats(d) == i = n_max - 1 /\ (d.result_len = 0 \/ d.seek_delta < Chunk \div 2)

Advance(d) ==
    IF GoesBack(d) THEN Failed(d)
    ELSE LET e == SlideWindow(d)
         IN  IF Ends(e)
             THEN IF NothingDecoded(e) /\ ~AudioEnds(e) THEN Failed(e)
                                                       ELSE Completed(e)
             ELSE IF Repeats(e) THEN Failed(e) ELSE e

Update ==
    /\ phase = "update"
    /\ decoders' = [j \in DOMAIN decoders |->
                       IF j \in Alive THEN Advance(decoders[j]) ELSE decoders[j]]
    /\ phase' = IF Running(decoders') = {} THEN "rank" ELSE "decode"
    /\ UNCHANGED <<given, it, n_cur, prompt, kv, kv_n_dec, i, pick, turn,
                   best, rc>>

(* The batch of the next decoding: the last token of each alive decoder,   *)
(* in the order of the decoders.                                           *)
n_past == Len(prompt) + i

Row(j) ==
    LET token == FromEnd(decoders[j], 0)
    IN  Cell(n_past, token, {j}, Context(kv, j, n_past) \cup {<<n_past, token>>})

InBatch(j) == Cardinality({k \in Alive : k <= j})

Batch == [n \in 1..Cardinality(Alive) |->
             Row(CHOOSE j \in Alive : InBatch(j) = n)]

(* The token loop decodes after its last token, too. *)
DecodeNext ==
    /\ phase = "decode"
    /\ \E h \in 0..kv.size :
          IsSlot(kv, Cardinality(Alive), h) /\ kv' = Place(kv, h, Batch)
    /\ i' = i + 1
    /\ phase' = IF i' = n_max THEN "rank" ELSE "sample"
    /\ UNCHANGED <<given, it, n_cur, prompt, kv_n_dec, decoders, pick, turn,
                   best, rc>>

DecodeFails == phase = "decode" /\ Fail(-9)

-----------------------------------------------------------------------------
(* Keep the result of each decoder that did not fail, fail the repetitive  *)
(* ones, choose the best (whose score is arbitrary) and fall back to the   *)
(* next temperature unless it is good enough.                              *)

Truncated(d) == [d EXCEPT !.tokens = SubSeq(@, 1, d.result_len)]

Ranked(low) ==
    [j \in DOMAIN decoders |->
        IF j \notin Current \/ decoders[j].failed THEN decoders[j]
        ELSE IF j \in low THEN Failed(Truncated(decoders[j]))
        ELSE Truncated(decoders[j])]

Scored(low) == {j \in Current \ low : ~decoders[j].failed
                                      /\ decoders[j].result_len > 0}

IsLastTemperature == it = Temperatures - 1

Rank_SameTemperature ==
    /\ phase = "rank"
    /\ decoders' = Ranked({})
    /\ IF Scored({}) = {} THEN best' = best ELSE best' \in Scored({})
    /\ phase' = IF decoders'[best'].failed THEN "temperature" ELSE "done"
    /\ UNCHANGED <<given, it, n_cur, prompt, kv, kv_n_dec, i, pick, turn, rc>>

Rank ==
    /\ phase = "rank"
    /\ \E low \in SUBSET {j \in Current : ~decoders[j].failed
                                /\ decoders[j].result_len > entropy_len} :
          /\ decoders' = Ranked(low)
          /\ IF Scored(low) = {} THEN best' = best ELSE best' \in Scored(low)
    /\ \/ /\ IsLastTemperature \/ ~decoders'[best'].failed
          /\ phase' = "done" /\ it' = it
       \/ /\ ~IsLastTemperature
          /\ phase' = "temperature" /\ it' = it + 1
    /\ UNCHANGED <<given, n_cur, prompt, kv, kv_n_dec, i, pick, turn, rc>>

(* The window is decoded; any other state without a next step would be a   *)
(* deadlock.                                                                *)
Ended == phase \in {"done", "error"} /\ UNCHANGED vars

-----------------------------------------------------------------------------
Next ==
    \/ StartTemperature \/ RegrowFails \/ DecodePrompt \/ PromptFails
    \/ SampleGreedy \/ SampleBeam \/ CopyParent \/ MoveToOwn
    \/ Update \/ DecodeNext \/ DecodeFails \/ Rank \/ Ended

Spec == Init /\ [][Next]_vars

-----------------------------------------------------------------------------
(* Properties *)

Decoder == [tokens : Seq(Token), result_len : 0..n_max, seek_delta : 0..Chunk,
            has_ts : BOOLEAN, failed : BOOLEAN, completed : BOOLEAN]

SeqIds == 0..(2 * MaxDecoders - 1)

PromptTokens == {-k : k \in 1..n_text_ctx}

Positions == 0..(n_text_ctx - 1)

(* Every variable has its type; among them, that no token is ever given a  *)
(* position the model has no embedding for (pos < n_text_ctx), and that no *)
(* cell is in use without belonging to a sequence.                         *)
TypeOK ==
    /\ phase \in {"temperature", "prompt", "sample", "copy", "move", "update",
                  "decode", "rank", "done", "error"}
    /\ remaining \in Remaining /\ params \in Params
    /\ it \in 0..(Temperatures - 1)
    /\ n_cur \in 1..MaxDecoders
    /\ Len(prompt) \in PromptLengths \cup {0}
    /\ kv.head \in 0..(kv.size - 1)
    /\ Used(kv) \subseteq 0..(kv.size - 1)
    /\ \A k \in Used(kv) :
          /\ kv.cells[k].pos \in Positions
          /\ kv.cells[k].token \in Token \cup PromptTokens
          /\ kv.cells[k].seq_id \in (SUBSET SeqIds) \ {{}}
          /\ kv.cells[k].seen \subseteq Positions \X (Token \cup PromptTokens)
    /\ kv.size = CacheSize(kv_n_dec) /\ kv_n_dec \in 1..MaxDecoders
    /\ i \in 0..n_max
    /\ decoders \in [0..(MaxDecoders - 1) -> Decoder]
    /\ turn \in -1..(MaxDecoders - 1)
    /\ best \in 0..(MaxDecoders - 1)
    /\ rc \in {0, -7, -8, -9}

(* The tokens whose K and V rows decoder j has in the cache: all but the    *)
(* one just sampled.                                                        *)
Written(j) == prompt \o (IF phase = "sample" THEN decoders[j].tokens
                         ELSE SubSeq(decoders[j].tokens, 1, i))

(* Before a token is sampled and after the beams have exchanged their      *)
(* caches, what each running decoder attends to is the prompt followed by  *)
(* its own sequence, and every K and V row it attends to was computed from *)
(* a prefix of exactly that text: sharing cells, swapping them between     *)
(* beams and freeing them never mixes the histories.                       *)
OwnHistory ==
    phase \in {"sample", "update"} => \A j \in Alive :
        /\ Cardinality(Attended(kv, j, n_past)) = Len(Written(j))
        /\ Context(kv, j, n_past) = History(Written(j))
        /\ \A k \in Attended(kv, j, n_past) :
              kv.cells[k].seen = UpTo(History(Written(j)), kv.cells[k].pos)

(* The temporary sequences of the beam search hold nothing between steps.  *)
NoTemporarySequences ==
    phase \in {"sample", "update", "decode", "rank"} =>
        \A k \in Used(kv) : \A s \in kv.cells[k].seq_id : s < MaxDecoders

(* The cache, overallocated for its fragmentation, always has room for the *)
(* next batch: decoding never fails for want of a slot.                    *)
SlotAlwaysFound ==
    /\ phase = "prompt" => ~NoSlot(kv, Len(prompt))
    /\ phase = "decode" => ~NoSlot(kv, Cardinality(Alive))

(* A decoder that did not fail is ranked by a non-empty result, no longer  *)
(* than what it decoded: its average is not taken over nothing.            *)
RankedResult ==
    phase = "rank" => \A j \in Current : ~decoders[j].failed =>
        decoders[j].result_len \in 1..Len(decoders[j].tokens)

(* The window yields what the loop over the windows relies on: tokens that  *)
(* keep the rules of the timestamps, a length and a seek_delta that fit     *)
(* them (positive, even when every decoder failed at every temperature).    *)
YieldsOutcome ==
    phase = "done" =>
        IsOutcome([tokens     |-> decoders[best].tokens,
                   result_len |-> decoders[best].result_len,
                   seek_delta |-> decoders[best].seek_delta], params)

(* The window yields a decoder of the temperature that was tried last.     *)
BestIsCurrent == phase = "done" => best \in Current

(* How far the decoding is: the temperature, the part of it, the token, the *)
(* step on that token, and the decoder a loop has reached.                  *)
Part == IF phase = "temperature" THEN 0
        ELSE IF phase = "prompt" THEN 1
        ELSE IF phase = "rank" THEN 3
        ELSE IF phase \in {"done", "error"} THEN 4
        ELSE 2

TokenStep == IF phase = "sample" THEN 0
             ELSE IF phase = "copy" THEN 1
             ELSE IF phase = "move" THEN 2
             ELSE IF phase = "update" THEN 3
             ELSE 4

(* Every step of the decoding takes it further, in the order of            *)
(* temperature, part, token, step and decoder.  Each of these is bounded   *)
(* and there is no deadlock, so the fallback, the token loop and the loops  *)
(* over the beams end in a result or an error, whatever is sampled.         *)
ClockAdvances == [][
    \/ it' > it
    \/ it' = it /\ Part' > Part
    \/ it' = it /\ Part' = Part /\ i' > i
    \/ it' = it /\ Part' = Part /\ i' = i /\ TokenStep' > TokenStep
    \/ it' = it /\ Part' = Part /\ i' = i /\ TokenStep' = TokenStep /\ turn' > turn
    ]_vars

=============================================================================
