------------------------------ MODULE FullSeek ------------------------------
(***************************************************************************)
(* The loop of whisper_full_with_state over the windows of the audio, for  *)
(* successive calls on one whisper_state: which text of the past goes into *)
(* the prompt of a window, how the tokens it yields become segments, and   *)
(* how far seek moves.                                                     *)
(*                                                                         *)
(* A window's decoding is one step, which yields any outcome that          *)
(* WindowDecode may yield.  Token k of the window decoded at seek, or of   *)
(* the initial prompt of a call, is known by where it comes from.          *)
(*                                                                         *)
(* X_Fault stands beside X: a faulty variant of it, which no specification *)
(* uses; with it in place of X one of the properties below is violated.    *)
(***************************************************************************)
EXTENDS WindowOutcome, FiniteSets

CONSTANTS
    Dtw,              \* ctx->params.dtw_token_timestamps
    delta_min,        \* frames below which no audio is decoded (10)
    ShortRest,        \* frames below which the past is forgotten (500)
    NInit,            \* prompt_init.size(), up to 4 markers
    Spans,            \* the ranges [from, to] of frames calls are given
    Params,           \* values of whisper_full_params, see below
    MaxCalls          \* bound on the number of calls

Least(m, n) == IF m < n THEN m ELSE n
Most(m, n)  == IF m > n THEN m ELSE n

(* The timestamp the sampler notes beside a first token that is none:      *)
(* the likeliest of those it might have been; with all of them suppressed, *)
(* whisper_sample_token leaves 0, which is not a timestamp.                *)
Tid(tokens, p) ==
    IF tokens[1] >= Beg THEN {tokens[1]}
    ELSE IF ~p.no_timestamps THEN Beg..Least(Beg + max_initial_ts, Beg + NTimestamps)
    ELSE IF p.greedy THEN {0} ELSE {Beg}

(* What a window may yield under each of the parameters: the outcome of    *)
(* its decoding, the tid of its first token, and whether it is no speech.  *)
Outcomes == [p \in Params |->
    {o \in [tokens : UNION {[1..n -> Token] : n \in 1..n_max},
            result_len : 0..n_max, seek_delta : 1..Chunk,
            tid : Token, no_speech : BOOLEAN] :
        IsOutcome(o, p) /\ o.tid \in Tid(o.tokens, p)}]

ASSUME SeekAssumption ==
    /\ Dtw \in BOOLEAN
    /\ delta_min \in Nat \ {0} /\ ShortRest \in Nat
    /\ NInit \in 1..4
    /\ Spans \subseteq [from : Nat, to : Nat]
    /\ Params \subseteq [no_context : BOOLEAN, carry_initial_prompt : BOOLEAN,
                         n_max_text_ctx : Int, prompt_n_tokens : Nat,
                         no_timestamps : BOOLEAN, single_segment : BOOLEAN,
                         greedy : BOOLEAN]
    /\ MaxCalls \in Nat

VARIABLES
    phase,            \* where the call is; "idle" between calls
    calls,            \* number of the current or last call
    params,           \* its parameters
    span,             \* its seek_start and seek_end
    seek,             \* start of the window
    prompt_past0,     \* the carried initial prompt
    prompt_past1,     \* the rolling context
    prompt,           \* the prompt of the window
    outcome,          \* best_decoder of the window
    result_all,       \* the segments
    announced         \* number of calls of new_segment_callback

past == <<prompt_past0, prompt_past1>>
vars == <<phase, calls, params, span, seek, past, prompt, outcome, result_all,
          announced>>

LastN(s, n) == SubSeq(s, Len(s) - n + 1, Len(s))

Piece(source, call, at, k) == [from |-> source, call |-> call, at |-> at, k |-> k]

Prev  == Piece("prev", 0, 0, 0)                    \* whisper_token_prev
Marks == [k \in 1..NInit |-> Piece("init", 0, 0, k)]   \* prompt_init

Initial == [k \in 1..params.prompt_n_tokens |-> Piece("initial", calls, 0, k)]

NoOutcome == [tokens |-> <<>>]

Init ==
    /\ phase = "idle" /\ calls = 0
    /\ params \in Params /\ span \in Spans /\ seek = 0
    /\ prompt_past0 = <<>> /\ prompt_past1 = <<>>
    /\ prompt = <<>> /\ outcome = NoOutcome
    /\ result_all = <<>> /\ announced = 0

-----------------------------------------------------------------------------
(* The call begins by clearing the results.  It returns early when the     *)
(* spectrogram or the language fails (-2, -3), only the language is asked  *)
(* for (0), the audio is too short (0) or there are too many decoders (-4).*)
Call ==
    /\ phase = "idle" /\ calls < MaxCalls
    /\ calls' = calls + 1
    /\ params' \in Params /\ span' \in Spans /\ seek' = span'.from
    /\ result_all' = <<>> /\ announced' = 0
    /\ \/ phase' = "idle"
       \/ span'.to >= span'.from + delta_min /\ phase' = "prepare"
    /\ UNCHANGED <<past, prompt, outcome>>

Return ==
    /\ phase' = "idle" /\ prompt' = <<>> /\ outcome' = NoOutcome
    /\ UNCHANGED <<calls, params, span, seek, past, result_all, announced>>

max_prompt_ctx == Least(params.n_max_text_ctx, n_text_ctx \div 2)

Kept(context) == IF params.no_context THEN <<>> ELSE context

Prepare_PromptLast ==
    /\ phase = "prepare"
    /\ prompt_past0' = Kept(prompt_past0)
    /\ prompt_past1' = Kept(prompt_past1) \o Initial
    /\ phase' = "loop"
    /\ UNCHANGED <<calls, params, span, seek, prompt, outcome, result_all,
                   announced>>

Prepare_KeepsContext ==
    /\ phase = "prepare"
    /\ prompt_past0' = prompt_past0
    /\ prompt_past1' = Initial \o prompt_past1
    /\ phase' = "loop"
    /\ UNCHANGED <<calls, params, span, seek, prompt, outcome, result_all,
                   announced>>

(* The initial prompt is kept aside when it is to be carried, unless one   *)
(* is there already, and otherwise put before the rolling context; then an *)
(* audio_ctx that is too large returns -5.                                 *)
Prepare ==
    /\ phase = "prepare"
    /\ LET carry == params.carry_initial_prompt
           kept0 == Kept(prompt_past0)
       IN  /\ prompt_past0' =
                 IF carry /\ kept0 = <<>>
                 THEN LastN(Initial, Least(params.prompt_n_tokens,
                                           Most(1, max_prompt_ctx - 1)))
                 ELSE kept0
           /\ prompt_past1' =
                 IF carry THEN Kept(prompt_past1)
                          ELSE Initial \o Kept(prompt_past1)
    /\ phase' \in {"loop", "idle"}
    /\ UNCHANGED <<calls, params, span, seek, prompt, outcome, result_all,
                   announced>>

-----------------------------------------------------------------------------
AtEnd_Exactly == seek + delta_min = span.to

AtEnd == seek + delta_min >= span.to

(* The loop ends with the audio, when encoder_begin_callback says so, or    *)
(* when the encoder fails (-6).                                            *)
Finish == phase = "loop" /\ Return

(* The encoder runs; shortly before the end the past is then forgotten.    *)
Encode ==
    /\ phase = "loop" /\ ~AtEnd
    /\ IF seek > span.from /\ seek + ShortRest >= span.to
       THEN prompt_past0' = <<>> /\ prompt_past1' = <<>>
       ELSE UNCHANGED past
    /\ phase' = "decode"
    /\ UNCHANGED <<calls, params, span, seek, prompt, outcome, result_all,
                   announced>>

PromptOfPast_NoMarker ==
    LET n_take0 == IF params.carry_initial_prompt THEN Len(prompt_past0) ELSE 0
        n_take1 == Least(max_prompt_ctx - n_take0, Len(prompt_past1))
    IN  IF params.n_max_text_ctx > 0 /\ (n_take0 > 0 \/ prompt_past1 # <<>>)
        THEN <<Prev>> \o LastN(prompt_past0, n_take0)
                      \o LastN(prompt_past1, Most(0, n_take1))
        ELSE <<>>

(* The past that goes into the prompt, when the temperature is below       *)
(* WHISPER_HISTORY_CONDITIONING_TEMP_CUTOFF.  (n_take1 may be negative,    *)
(* and the range it gives to vector::insert then ends before it begins:    *)
(* undefined, but the libc++ of the Android build inserts nothing.)        *)
PromptOfPast ==
    LET n_take0 == IF params.carry_initial_prompt THEN Len(prompt_past0) ELSE 0
        n_take1 == Least(max_prompt_ctx - n_take0 - 1, Len(prompt_past1))
    IN  IF params.n_max_text_ctx > 0 /\ (n_take0 > 0 \/ prompt_past1 # <<>>)
        THEN <<Prev>> \o LastN(prompt_past0, n_take0)
                      \o LastN(prompt_past1, Most(0, n_take1))
        ELSE <<>>

(* The temperatures are tried; the prompt is that of the last one tried.   *)
Decode ==
    /\ phase = "decode"
    /\ prompt' \in {PromptOfPast \o Marks, Marks}
    /\ outcome' \in Outcomes[params]
    /\ phase' = "emit"
    /\ UNCHANGED <<calls, params, span, seek, past, result_all, announced>>

(* The prompt or a token cannot be decoded (-8, -9). *)
Fails == phase = "decode" /\ Return

(* There is no memory for a wider cache (-7): the state itself is freed.   *)
OutOfMemory ==
    /\ phase = "decode" /\ phase' = "freed"
    /\ UNCHANGED <<calls, params, span, seek, past, prompt, outcome, result_all,
                   announced>>

-----------------------------------------------------------------------------
(* The segments of a window: its text is cut at the first of each run of   *)
(* timestamps, and a piece without text is dropped.                        *)

Cuts(s) == IF params.single_segment THEN {}
           ELSE {k \in Stamps(s) : k > 1 => s[k - 1] <= Beg}

(* A piece is known by where it ends: at a cut, or behind the last token.  *)
Ends(s) == Cuts(s) \cup {Len(s) + 1}

CutBefore(s, end) ==
    LET earlier == {k \in Cuts(s) : k < end}
    IN  IF earlier = {} THEN 0 ELSE CHOOSE k \in earlier : \A l \in earlier : l <= k

IsText(t) == t < Eot

(* The text of a sequence of tokens: those of them that are text. *)
TextOf == [s \in UNION {[1..n -> Token] : n \in 0..n_max} |->
    LET upto[n \in 0..Len(s)] ==
            IF n = 0 THEN <<>>
            ELSE IF IsText(s[n]) THEN Append(upto[n - 1], s[n]) ELSE upto[n - 1]
    IN  upto[Len(s)]]

PieceText(s, end) == TextOf[SubSeq(s, CutBefore(s, end) + 1, Least(end, Len(s)))]

TimeOf(t) == seek + 2 * (t - Beg)

Segment_ToChunkEnd(o, end) ==
    LET s     == o.tokens
        after == CutBefore(s, end)
    IN  [t0   |-> IF after = 0 THEN TimeOf(o.tid) ELSE TimeOf(s[after]),
         t1   |-> IF end > Len(s) THEN seek + Chunk ELSE TimeOf(s[end]),
         text |-> PieceText(s, end)]

Segment_SkipsOne(o, end) ==
    LET s     == o.tokens
        after == CutBefore(s, end)
    IN  [t0   |-> IF after = 0 THEN TimeOf(o.tid) ELSE TimeOf(s[after]),
         t1   |-> IF end > Len(s) THEN seek + o.seek_delta ELSE TimeOf(s[end]),
         text |-> TextOf[SubSeq(s, after + 2, Least(end, Len(s)))]]

Segment(o, end) ==
    LET s     == o.tokens
        after == CutBefore(s, end)
    IN  [t0   |-> IF after = 0 THEN TimeOf(o.tid) ELSE TimeOf(s[after]),
         t1   |-> IF end > Len(s) THEN seek + o.seek_delta ELSE TimeOf(s[end]),
         text |-> PieceText(s, end)]

(* The nth of a set of numbers, in their order. *)
Nth(S, n) == CHOOSE k \in S : Cardinality({l \in S : l <= k}) = n

Segments(o) ==
    LET spoken == {end \in Ends(o.tokens) : PieceText(o.tokens, end) # <<>>}
    IN  IF o.no_speech THEN <<>>
        ELSE [n \in 1..Cardinality(spoken) |-> Segment(o, Nth(spoken, n))]

(* The rolling context: what the prompt took of it, unless an initial      *)
(* prompt is carried, and the tokens of the window.                        *)
Said == IF outcome.no_speech THEN <<>>
        ELSE [k \in 1..outcome.result_len |-> Piece("decoded", calls, seek, k)]

PastAfter ==
    (IF ~params.carry_initial_prompt /\ prompt[1] = Prev
     THEN SubSeq(prompt, 2, Len(prompt) - NInit) ELSE <<>>) \o Said

(* new_segment_callback runs for every segment as it is added; with DTW    *)
(* after the window, for the indices from that of its first segment up to, *)
(* but not including, the number of its segments.                          *)
Announced(new) ==
    IF Dtw THEN Most(0, new - Len(result_all)) ELSE new

SingleTimestampEnding(s) ==
    Len(s) > 1 /\ s[Len(s) - 1] < Beg /\ s[Len(s)] > Beg

SeekDelta_OnlyText ==
    IF TextOf[outcome.tokens] = <<>> THEN 0 ELSE outcome.seek_delta

SeekDelta ==
    IF SingleTimestampEnding(outcome.tokens) THEN Least(span.to - seek, Chunk)
    ELSE outcome.seek_delta

Emit ==
    /\ phase = "emit"
    /\ prompt_past1' = PastAfter
    /\ LET new == Segments(outcome)
       IN  /\ result_all' = result_all \o new
           /\ announced' = announced + Announced(Len(new))
    /\ seek' = seek + SeekDelta
    /\ prompt' = <<>> /\ outcome' = NoOutcome
    /\ phase' = "loop"
    /\ UNCHANGED <<calls, params, span, prompt_past0>>

-----------------------------------------------------------------------------
Next == \/ Call \/ Prepare \/ Finish \/ Encode \/ Decode \/ Fails \/ OutOfMemory
        \/ Emit

Spec     == Init /\ [][Next]_vars
(* One thread runs the call to its end; nothing obliges it to call again.  *)
FairSpec == Spec /\ WF_vars(phase # "idle" /\ Next)

-----------------------------------------------------------------------------
(* Properties *)

Pieces ==
    {Prev} \cup {Marks[k] : k \in DOMAIN Marks}
    \cup [from : {"initial"}, call : 1..MaxCalls, at : {0}, k : Nat \ {0}]
    \cup [from : {"decoded"}, call : 1..MaxCalls, at : Nat, k : 1..n_max]

(* Every variable has its type. *)
TypeOK ==
    /\ phase \in {"idle", "prepare", "loop", "decode", "emit", "freed"}
    /\ calls \in 0..MaxCalls /\ params \in Params /\ span \in Spans
    /\ seek \in Nat
    /\ phase # "idle" => seek <= span.to + Chunk
    /\ \A s \in {prompt_past0, prompt_past1, prompt} :
          \A k \in DOMAIN s : s[k] \in Pieces
    /\ phase = "emit" => prompt # <<>> /\ Sampled(outcome.tokens, params)
    /\ \A k \in DOMAIN result_all : result_all[k].text # <<>>
    /\ announced \in 0..Len(result_all)

(* The prompt leaves room for a window's tokens: together they fit the     *)
(* positions of the model, however the contexts of earlier windows and     *)
(* calls, the initial prompt and their limits come together (what          *)
(* WindowDecode assumes of its prompt).                                    *)
PromptFits ==
    phase = "emit" => Len(prompt) <= n_text_ctx \div 2 + NInit

(* With no_context, the default, nothing of an earlier call finds its way  *)
(* into a prompt, neither its text nor its initial prompt.                 *)
OwnContext ==
    phase = "emit" /\ params.no_context =>
        \A k \in DOMAIN prompt :
            prompt[k].from \in {"initial", "decoded"} => prompt[k].call = calls

Kind(p) == CASE p.from = "prev"    -> 0
             [] p.from = "initial" -> 1
             [] p.from = "decoded" -> 2
             [] p.from = "init"    -> 3

Earlier(p, q) ==
    IF Kind(p) # Kind(q) THEN Kind(p) < Kind(q)
    ELSE \/ p.call < q.call
         \/ p.call > q.call /\ p.from = "initial"
         \/ p.call = q.call /\ p.at < q.at
         \/ p.call = q.call /\ p.at = q.at /\ p.k < q.k

(* A prompt is the marker of the past, the initial prompts, the text in    *)
(* the order in which it was spoken, and the markers of the task: nothing  *)
(* stands twice or in another order ("prepended to any existing text       *)
(* context from a previous call", whisper.h:525).                          *)
PromptInOrder ==
    phase = "emit" => \A a, b \in DOMAIN prompt :
        a < b => Earlier(prompt[a], prompt[b])

(* Segments begin within the audio that was asked for and one ends before  *)
(* the next begins, also across windows ("the start and end time of the    *)
(* specified segment", whisper.h:639).                                     *)
SegmentsInOrder ==
    /\ \A k \in DOMAIN result_all : result_all[k].t0 >= span.from
    /\ \A k, l \in DOMAIN result_all :
          k < l => result_all[k].t1 <= result_all[l].t0

Joined(segments) ==
    LET upto[n \in 0..Len(segments)] ==
            IF n = 0 THEN <<>> ELSE upto[n - 1] \o segments[n].text
    IN  upto[Len(segments)]

(* The segments a window adds hold its text, all of it, once and in order, *)
(* wherever timestamps cut it.                                             *)
TextKept == [][
    phase = "emit" /\ ~outcome.no_speech =>
        Joined(result_all') = Joined(result_all) \o TextOf[outcome.tokens]]_vars

(* Every segment is announced ("Called on every newly generated text       *)
(* segment", whisper.h:461).                                               *)
EverySegmentAnnounced == announced = Len(result_all)

(* A call ends, whatever its windows yield: each of them moves seek, and   *)
(* none moves it without end.                                              *)
EveryCallEnds == phase # "idle" ~> phase \in {"idle", "freed"}

=============================================================================
