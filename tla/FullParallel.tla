---------------------------- MODULE FullParallel ----------------------------
(***************************************************************************)
(* whisper_full and whisper_full_parallel around whisper_full_with_state:  *)
(* voice activity detection takes the speech out of the audio, the audio   *)
(* is split among threads with a state each, their results are put         *)
(* together, and the getters map the times back to the original audio.     *)
(*                                                                         *)
(* The seek loop of a thread (FullSeek) yields some segments of time, each *)
(* ending no earlier than the one before, and succeeds or fails.           *)
(*                                                                         *)
(* X_Fault stands beside X: a faulty variant of it, which no specification *)
(* uses; with it in place of X one of the properties below is violated.    *)
(***************************************************************************)
EXTENDS VadMapping

CONSTANTS
    Calls,         \* what may be asked for: parameters and length of the audio
    Lengths,       \* what may lie between two times a thread finds
    no_tid,        \* what t0 falls short of where no timestamp was noted
    MaxSegments,   \* bound on the segments of a thread
    MaxCalls,      \* bound on the number of calls
    delta_min,     \* centiseconds below which nothing is decoded (10)
    folds          \* whether the build divides before it multiplies

(* The value of an int expression x / d whose x is a product.  When the    *)
(* product leaves the range of an int, which is undefined, the build has   *)
(* either made 100 * y / 16000 an y / 160 and 16000 * y / 1000 a 16 * y,   *)
(* or it divides what is left of the product in two's complement.          *)
Fits(x) == folds \/ x \in 0..IntMax

Wrapped(x) == ((x + IntMax + 1) % (2 * (IntMax + 1))) - (IntMax + 1)

Quotient(x, d) ==
    LET w == Wrapped(x)
    IN  IF Fits(x) THEN x \div d ELSE IF w >= 0 THEN w \div d ELSE -((-w) \div d)

OffsetSamples(ms) == Quotient(SampleRate * ms, 1000)

(* vad_params matter with vad only.  Neither the audio nor, with vad, the  *)
(* speech in it ends before the offset.                                    *)
ASSUME ParallelAssumption ==
    /\ Calls \subseteq [vad : BOOLEAN, vad_params : VadParams, no_timestamps : BOOLEAN,
                        n_processors : Nat \ {0}, offset_ms : Nat, n_samples : Nat]
    /\ \A c \in Calls : /\ OffsetSamples(c.offset_ms) \in 0..c.n_samples
                        /\ c.vad => c.offset_ms = 0
    /\ Lengths \subseteq Nat /\ no_tid \in Nat /\ folds \in BOOLEAN
    /\ MaxSegments \in Nat /\ MaxCalls \in Nat /\ delta_min \in Nat

VARIABLES
    stage,         \* where the call is
    calls,         \* number of the current or last call
    params,        \* what it was called with
    probs,         \* vctx->probs
    scan,          \* the variables of the loop over them
    segments,      \* vad_segments
    has_vad,       \* ctx->state->has_vad_segments
    table,         \* ctx->state->vad_mapping_table
    n_samples,     \* length of the audio that is transcribed
    states,        \* the threads' whisper_state, number 0 being ctx->state
    result_all,    \* ctx->state->result_all, as the call leaves it
    ret            \* what the call returned

vars == <<stage, calls, params, probs, scan, segments, has_vad, table, n_samples,
          states, result_all, ret>>

detection == <<probs, scan>>
mapping   == <<has_vad, table>>

n_chunks == (params.n_samples + n_window - 1) \div n_window
audio_length == n_chunks * n_window

Processors == 0..(params.n_processors - 1)

NoState == [status |-> "none", result |-> <<>>]
NoStates == [i \in Processors |-> NoState]

Init ==
    /\ stage = "idle" /\ calls = 0 /\ params \in Calls
    /\ probs = <<>> /\ scan = NoSpeech /\ segments = <<>>
    /\ has_vad = FALSE /\ table = {}
    /\ n_samples = 0 /\ states = NoStates /\ result_all = <<>> /\ ret = 0

-----------------------------------------------------------------------------
(* whisper_vad begins by clearing the table. *)
Call ==
    /\ stage = "idle" /\ calls < MaxCalls
    /\ calls' = calls + 1 /\ params' \in Calls
    /\ IF params'.vad
       THEN stage' = "detect" /\ has_vad' = FALSE /\ table' = {}
       ELSE stage' = "start" /\ UNCHANGED mapping
    /\ n_samples' = params'.n_samples
    /\ states' = [i \in Processors' |-> NoState]
    /\ UNCHANGED <<detection, segments, result_all, ret>>

Return(rc) ==
    /\ stage' = "idle" /\ ret' = rc
    /\ UNCHANGED <<calls, params, detection, segments, n_samples, states>>

(* The VAD context cannot be made, or its graph not be allocated. *)
VadFails ==
    /\ stage = "detect" /\ probs = <<>>
    /\ Return(-1) /\ UNCHANGED <<mapping, result_all>>

(* Any probability may come next; when computing the graph fails, those    *)
(* that were there before are taken for the windows that are left.         *)
DetectWindow ==
    /\ stage = "detect" /\ Len(probs) < n_chunks
    /\ \E level \in Level :
          /\ probs' = Append(probs, level)
          /\ scan' = Scan(scan, params.vad_params, level, n_window * Len(probs))
    /\ UNCHANGED <<stage, calls, params, segments, mapping, n_samples, states,
                   result_all, ret>>

FindSegments ==
    /\ stage = "detect" /\ Len(probs) = n_chunks
    /\ segments' = SegmentsOf(scan, params.vad_params, audio_length)
    /\ stage' = "segmented"
    /\ UNCHANGED <<calls, params, detection, mapping, n_samples, states,
                   result_all, ret>>

(* The probabilities are not read again before they are set anew.          *)
ForgetProbs == probs' = <<>> /\ scan' = NoSpeech

(* Without speech nothing is transcribed.  whisper_full clears the results *)
(* then, whisper_full_parallel leaves those of the call before.            *)
NoSpeechFound ==
    /\ stage = "segmented" /\ segments = <<>>
    /\ ForgetProbs
    /\ stage' = "idle" /\ ret' = 0
    /\ result_all' = IF params.n_processors = 1 THEN <<>> ELSE result_all
    /\ UNCHANGED <<calls, params, segments, mapping, n_samples, states>>

Room == RoomNeeded(segments, params.vad_params, params.n_samples)

CopySpeech ==
    /\ stage = "segmented" /\ segments # <<>>
    /\ ForgetProbs
    /\ has_vad' = TRUE
    /\ table' = Table(segments, params.vad_params, params.n_samples)
    /\ n_samples' = Room
    /\ stage' = "start"
    /\ UNCHANGED <<calls, params, segments, states, result_all, ret>>

(* There is no memory for the copy. *)
CopyFails ==
    /\ stage = "segmented" /\ segments # <<>>
    /\ ForgetProbs
    /\ has_vad' = TRUE /\ table' = {}
    /\ stage' = "idle" /\ ret' = -1
    /\ UNCHANGED <<calls, params, segments, n_samples, states, result_all>>

-----------------------------------------------------------------------------
(* The audio is split: the calling thread takes everything up to the end   *)
(* of its share, the others a share each, the last one what is left.       *)

offset_samples == OffsetSamples(params.offset_ms)

n_samples_per_processor == (n_samples - offset_samples) \div params.n_processors

ChunkStart(i) == IF i = 0 THEN 0 ELSE offset_samples + i * n_samples_per_processor

ChunkLength_EqualShares(i) ==
    IF i = 0 THEN offset_samples + n_samples_per_processor
             ELSE n_samples_per_processor

ChunkLength(i) ==
    IF i = 0 /\ params.n_processors > 1 THEN offset_samples + n_samples_per_processor
    ELSE IF i = params.n_processors - 1 THEN n_samples - ChunkStart(i)
    ELSE n_samples_per_processor

(* The times of a thread but the first start from 0; these are added.      *)
offset_t == params.offset_ms \div 10

TimeOffset(i) ==
    IF i = 0 THEN 0
    ELSE Quotient(100 * (i * n_samples_per_processor), SampleRate) + offset_t

(* seek_start and seek_end of a thread: the latter is the length of its    *)
(* spectrogram, of frames of 25 ms every 10 ms.                            *)
frame_step == SampleRate \div 100
frame_size == SampleRate \div 40

SeekStart(i) == IF i = 0 THEN offset_t ELSE 0

SeekEnd(i) ==
    IF ChunkLength(i) = 0 THEN 0
    ELSE 1 + (ChunkLength(i) + frame_size \div 2 - frame_size) \div frame_step

(* Whether a thread decodes anything.  Without samples the calling thread  *)
(* decodes the spectrogram of an earlier call, if there is one.            *)
HasWindow(i) ==
    \/ SeekStart(i) + delta_min < SeekEnd(i)
    \/ i = 0 /\ ChunkLength(i) = 0 /\ calls > 1

NotStarted == {i \in Processors \ {0} : states[i].status = "none"}

SetState(i, status, result) ==
    states' = [states EXCEPT ![i] = [status |-> status, result |-> result]]

others == <<calls, params, detection, segments, mapping, n_samples, result_all, ret>>

(* The threads are started in order, the calling thread goes on last ...   *)
Start(i) ==
    /\ stage = "start" /\ states[i].status = "none"
    /\ \A j \in NotStarted : i <= j
    /\ i = 0 => NotStarted = {}
    /\ SetState(i, "running", <<>>)
    /\ UNCHANGED <<stage, others>>

(* ... but whether there was memory for a thread's state is not checked:   *)
(* it uses a null pointer.                                                 *)
NoMemory(i) ==
    /\ stage = "start" /\ i \in NotStarted /\ \A j \in NotStarted : i <= j
    /\ SetState(i, "null", <<>>) /\ stage' = "crashed"
    /\ UNCHANGED others

(* A thread finds a segment.  It begins and ends no earlier than the one   *)
(* before it ended, but what it takes for its beginning may be after its   *)
(* end, and, where no timestamp is noted, anything.  Both may be after the *)
(* thread's share: a timestamp is anything in the 30 s of the window.      *)
Reached(i) == IF states[i].result = <<>> THEN SeekStart(i)
              ELSE Last(states[i].result).t1

Beginnings(i) ==
    {Reached(i) + d : d \in Lengths}
    \cup (IF params.no_timestamps THEN {Reached(i) + d - no_tid : d \in Lengths} ELSE {})

FindSegment(i) ==
    /\ states[i].status = "running" /\ HasWindow(i)
    /\ Len(states[i].result) < MaxSegments
    /\ \E t0 \in Beginnings(i), d \in Lengths :
          SetState(i, "running",
                   Append(states[i].result,
                          [thread |-> i, number |-> Len(states[i].result) + 1,
                           t0 |-> t0, t1 |-> Reached(i) + d]))
    /\ UNCHANGED <<stage, others>>

(* A thread succeeds, or fails with the segments it has found so far.      *)
Finish(i) ==
    /\ states[i].status = "running"
    /\ \E status \in {"succeeded", "failed"} :
          SetState(i, status, states[i].result)
    /\ UNCHANGED <<stage, others>>

Running == {i \in Processors : states[i].status \in {"none", "running"}}

(* The calling thread waits for all of them and appends their results to   *)
(* its own; no segment of theirs begins before the last one so far ends.   *)
EndOf(s) == s.t1 + TimeOffset(s.thread)

Corrected_OwnStart(results, found, k) ==
    [found[k] EXCEPT !.t0 = @ + TimeOffset(found[k].thread), !.t1 = EndOf(found[k])]

Corrected(results, found, k) ==
    LET t0   == found[k].t0 + TimeOffset(found[k].thread)
        back == IF k > 1 THEN EndOf(found[k - 1]) ELSE Last(results).t1
    IN  [found[k] EXCEPT !.t0 = IF k = 1 /\ results = <<>> THEN t0 ELSE Larger(t0, back),
                         !.t1 = EndOf(found[k])]

Appended(results, found) ==
    results \o [k \in DOMAIN found |-> Corrected(results, found, k)]

AllResults ==
    LET upto[i \in Processors] ==
            IF i = 0 THEN states[0].result ELSE Appended(upto[i - 1], states[i].result)
    IN  upto[params.n_processors - 1]

Combine_NoJoin ==
    /\ stage = "start" /\ 0 \notin Running /\ NotStarted = {}
    /\ result_all' = AllResults
    /\ stage' = "idle"
    /\ ret' = IF states[0].status = "succeeded" THEN 0 ELSE -6
    /\ UNCHANGED <<calls, params, detection, segments, mapping, n_samples, states>>

(* What the other threads returned is lost.  Their states are freed.       *)
Combine ==
    /\ stage = "start" /\ Running = {}
    /\ result_all' = AllResults
    /\ stage' = "idle"
    /\ ret' = IF states[0].status = "succeeded" THEN 0 ELSE -6
    /\ UNCHANGED <<calls, params, detection, segments, mapping, n_samples, states>>

-----------------------------------------------------------------------------
Next ==
    \/ Call \/ VadFails \/ DetectWindow \/ FindSegments
    \/ NoSpeechFound \/ CopySpeech \/ CopyFails
    \/ \E i \in Processors :
          Start(i) \/ NoMemory(i) \/ FindSegment(i) \/ Finish(i)
    \/ Combine

Spec == Init /\ [][Next]_vars

-----------------------------------------------------------------------------
(* The getters of a segment's times. *)

MapsTimes == has_vad /\ table # {}

min_duration == 10

segment_t0(k) == IF MapsTimes THEN Original(table, result_all[k].t0)
                 ELSE result_all[k].t0

segment_t1(k) ==
    IF MapsTimes
    THEN Larger(Original(table, result_all[k].t1), segment_t0(k) + min_duration)
    ELSE result_all[k].t1

-----------------------------------------------------------------------------
(* Properties *)

Status == {"none", "running", "succeeded", "failed", "null"}

(* Types, and: the speech that is copied fits in the audio made for it.    *)
TypeOK ==
    /\ stage \in {"idle", "detect", "segmented", "start", "crashed"}
    /\ params \in Calls
    /\ Len(probs) <= n_chunks
    /\ ret \in {0, -1, -6}
    /\ \A i \in Processors : states[i].status \in Status
    /\ stage = "start" /\ params.vad =>
          Offsets(segments, params.vad_params, params.n_samples)[Len(segments) + 1]
              \in 0..n_samples

(* Of windows of speech in a row the detection loses none but those in the *)
(* last min_speech_duration_ms of the row and the one before, whatever     *)
(* pauses and cuts of segments that got too long there are around them.    *)
IsSpeech(i, j) == \A k \in i..j : probs[k] = "speech"

Covered(k) == \E s \in ToSet(segments) :
    /\ cs_to_samples(s.start) <= (k - 1) * n_window + SampleRate \div 100
    /\ cs_to_samples(s.end) + SampleRate \div 100 >= k * n_window

SpeechKept == stage = "segmented" => \A i, j \in DOMAIN probs :
    /\ IsSpeech(i, j)
    /\ (j - i) * n_window > min_speech_samples(params.vad_params)
    => Covered(i)

(* Padding never makes segments overlap, nor leave the audio. *)
SegmentsApart == stage = "segmented" => \A i \in DOMAIN segments :
    /\ segments[i].start < segments[i].end
    /\ segments[i].end <= samples_to_cs(audio_length)
    /\ i < Len(segments) => segments[i].end <= segments[i + 1].start

Copied == stage = "start" /\ params.vad

(* Points of the table with the same time are the same, so it is all one   *)
(* which of them the unstable sort puts first and unique keeps; a later    *)
(* time is mapped to a later one.                                          *)
TimesMonotone == Copied =>
    /\ TableConsistent(table)
    /\ table # {} => \A t \in 0..(samples_to_cs(n_samples) - 1) :
                        Original(table, t) <= Original(table, t + 1)

(* The time a segment of speech is mapped to is no further from where its  *)
(* samples were copied from than the overlap, or, where the last window    *)
(* of the audio is incomplete, than that window, up to rounding.           *)
TimesFaithful == Copied => \A i \in DOMAIN segments :
    LET p      == params.vad_params
        offset == Offsets(segments, p, params.n_samples)[i]
        length == SegmentLength(segments, p, i, params.n_samples)
        from   == samples_to_cs(offset)
    IN  length > 0 => \A t \in from..samples_to_cs(offset + length) :
            LET late == segments[i].start + (t - from) - Original(table, t)
            IN  late \in (-samples_to_cs(n_window) - 1)..(p.samples_overlap_ms \div 10 + 1)

(* The shares of the threads tile the audio behind the offset.  What is    *)
(* added to a thread's times is where its share starts, to less than 20    *)
(* ms, unless the products in it leave an int.                             *)
ChunksTile == stage = "start" =>
    /\ \A i \in Processors : i + 1 \in Processors =>
          ChunkStart(i) + ChunkLength(i) = ChunkStart(i + 1)
    /\ ChunkStart(params.n_processors - 1) + ChunkLength(params.n_processors - 1)
          = n_samples
    /\ \A i \in Processors \ {0} :
          Fits(SampleRate * params.offset_ms) /\ Fits(100 * (i * n_samples_per_processor)) =>
          100 * ChunkStart(i) - TimeOffset(i) * SampleRate \in 0..(2 * SampleRate - 1)

(* When the call returns, the results are those of all threads, in the     *)
(* order of the audio, whenever the threads finished.                      *)
Transcribed == stage = "idle" /\ \A i \in Processors : states[i].status # "none"

Name(s) == <<s.thread, s.number>>

NothingLost == Transcribed =>
    [k \in DOMAIN result_all |-> Name(result_all[k])] =
    FlattenSeq([n \in 1..params.n_processors |->
        [k \in DOMAIN states[n - 1].result |-> <<n - 1, k>>]])

(* "make sure that segments are not overlapping": a segment that a later   *)
(* thread has found begins when all before it have ended, whatever their   *)
(* times were, and the correction of its t0 does not put it behind its t1, *)
(* as long as no thread's segments last beyond the end of the first        *)
(* segment of a later thread.  The same holds for what the calling thread  *)
(* has found, where timestamps are noted.                                  *)
Overlong == \E i, j \in Processors :
    /\ i < j /\ states[i].result # <<>> /\ states[j].result # <<>>
    /\ EndOf(Last(states[i].result)) > EndOf(Head(states[j].result))

Stamped(s) == s.thread = 0 => ~params.no_timestamps

AsFound(s) == states[s.thread].result[s.number]

SegmentsInOrder == Transcribed /\ ~Overlong => \A l \in DOMAIN result_all :
    LET s == result_all[l]
    IN  /\ Stamped(s) => \A k \in 1..(l - 1) : result_all[k].t1 <= s.t0
        /\ AsFound(s).t0 <= AsFound(s).t1 => s.t0 <= s.t1

(* The getters: "If VAD wasn't used, return the original timestamp".       *)
NoVadNoMapping == Transcribed /\ ~params.vad => \A k \in DOMAIN result_all :
    segment_t0(k) = result_all[k].t0 /\ segment_t1(k) = result_all[k].t1

=============================================================================
