--------------------------- MODULE VoiceActivity ---------------------------
(***************************************************************************)
(* whisper_vad_segments_from_probs: from the probability of speech in each *)
(* window of n_window samples to the segments of the audio that are        *)
(* transcribed.                                                            *)
(*                                                                         *)
(* A probability is "speech" (at least the threshold), "silence" (below    *)
(* the lower one) or "between".  Positions are numbers of samples.         *)
(*                                                                         *)
(* X_Fault stands beside X: a faulty variant of it, which no specification *)
(* uses; with it in place of X a property of FullParallel is violated.     *)
(***************************************************************************)
EXTENDS Integers, Sequences, SequencesExt

CONSTANTS
    SampleRate,   \* WHISPER_SAMPLE_RATE
    n_window,     \* samples per probability
    IntMax        \* INT_MAX

ASSUME VadAssumption ==
    /\ SampleRate \in Nat /\ SampleRate > 0 /\ SampleRate % 100 = 0
    /\ n_window \in Nat \ {0} /\ IntMax \in Nat

Level == {"speech", "between", "silence"}

(* whisper_vad_params; max_speech_s is the integral part of the duration,  *)
(* and the threshold is in the levels.                                     *)
VadParams == [min_speech_ms : Nat, min_silence_ms : Nat, max_speech_s : Nat,
              speech_pad_ms : Nat, samples_overlap_ms : Nat]

Smaller(a, b) == IF a < b THEN a ELSE b
Larger(a, b)  == IF a > b THEN a ELSE b

Samples(ms) == (SampleRate * ms) \div 1000

min_speech_samples(p)  == Samples(p.min_speech_ms)
min_silence_samples(p) == Samples(p.min_silence_ms)
speech_pad_samples(p)  == Samples(p.speech_pad_ms)

(* Less than a second, or than the margins, means no limit. *)
max_speech_samples(p) ==
    LET n == SampleRate * p.max_speech_s - n_window - 2 * speech_pad_samples(p)
    IN  IF n < 0 THEN IntMax \div 2 ELSE n

min_silence_samples_at_max_speech == Samples(98)
max_merge_gap_samples == Samples(200)

(* Time conversion; a centisecond is the unit of all times. *)
cs_to_samples(cs) == cs * (SampleRate \div 100)
samples_to_cs(n)  == (2 * 100 * n + SampleRate) \div (2 * SampleRate)

-----------------------------------------------------------------------------
(* The loop over the probabilities.  Its local variables; 0 stands for no  *)
(* temp_end and no prev_end.                                               *)

NoSpeech == [is_speech |-> FALSE, temp_end |-> 0, prev_end |-> 0,
             next_start |-> 0, start |-> 0, has_speech |-> FALSE,
             speeches |-> <<>>]

Found(s, end) == [s EXCEPT !.speeches = Append(@, [start |-> s.start, end |-> end])]
Forget(s) == [s EXCEPT !.temp_end = 0, !.prev_end = 0, !.next_start = 0]
Stop(s)   == [Forget(s) EXCEPT !.is_speech = FALSE, !.has_speech = FALSE]

(* Speech goes on after a pause. *)
Resume(s, level, at) ==
    IF level # "speech" \/ s.temp_end = 0 THEN s
    ELSE [s EXCEPT !.temp_end = 0,
                   !.next_start = IF @ < s.prev_end THEN at ELSE @]

(* A segment that got too long ends at its last longer pause ...           *)
CutAtPause_DropsRest(s) == Stop(Found(s, s.prev_end))

CutAtPause(s) ==
    IF s.next_start < s.prev_end
    THEN Stop(Found(s, s.prev_end))     \* the pause is not over
    ELSE Forget([Found(s, s.prev_end) EXCEPT !.start = s.next_start,
                                             !.has_speech = TRUE])

(* ... and one in a pause ends when the pause is long enough; a segment    *)
(* that is too short is dropped.                                           *)
Pause(s, p, at) ==
    LET t == [s EXCEPT !.temp_end = IF @ = 0 THEN at ELSE @]
        u == IF at - t.temp_end > min_silence_samples_at_max_speech
             THEN [t EXCEPT !.prev_end = t.temp_end] ELSE t
    IN  IF at - u.temp_end < min_silence_samples(p) THEN u
        ELSE IF u.temp_end - u.start > min_speech_samples(p)
             THEN Stop(Found(u, u.temp_end)) ELSE Stop(u)

PauseIfSilent(s, p, level, at) ==
    IF level = "silence" /\ s.is_speech THEN Pause(s, p, at) ELSE s

(* One turn of the loop, for the window that starts at sample number at.   *)
Scan(was, p, level, at) ==
    LET s == Resume(was, level, at) IN
    IF level = "speech" /\ ~s.is_speech
        THEN [s EXCEPT !.is_speech = TRUE, !.has_speech = TRUE, !.start = at]
    ELSE IF s.is_speech /\ at - s.start > max_speech_samples(p)
        THEN IF s.prev_end = 0 THEN Stop(Found(s, at))
             ELSE PauseIfSilent(CutAtPause(s), p, level, at)
    ELSE PauseIfSilent(s, p, level, at)

-----------------------------------------------------------------------------
(* After the loop, for audio of length samples. *)

Ended(s, p, length) ==
    IF s.has_speech /\ length - s.start > min_speech_samples(p)
    THEN Found(s, length).speeches ELSE s.speeches

Join(found, s) ==
    IF found # <<>> /\ s.start - Last(found).end < max_merge_gap_samples
    THEN [found EXCEPT ![Len(found)].end = s.end] ELSE Append(found, s)

Merged(speeches) ==
    LET upto[i \in 0..Len(speeches)] ==
            IF i = 0 THEN <<>> ELSE Join(upto[i - 1], speeches[i])
    IN  upto[Len(speeches)]

LongEnough(speeches, p) ==
    LET upto[i \in 0..Len(speeches)] ==
            IF i = 0 THEN <<>>
            ELSE IF speeches[i].end - speeches[i].start >= min_speech_samples(p)
            THEN Append(upto[i - 1], speeches[i]) ELSE upto[i - 1]
    IN  upto[Len(speeches)]

(* Each segment gets some silence on either side: speech_pad_samples, or   *)
(* half of what there is between two that are close.                       *)
Before(at, n) == IF at > n THEN at - n ELSE 0

Gap(speeches, i) == speeches[i + 1].start - speeches[i].end

Padding_Always(speeches, p, i) == speech_pad_samples(p)

Padding(speeches, p, i) ==
    IF i \in 1..(Len(speeches) - 1) /\ Gap(speeches, i) < 2 * speech_pad_samples(p)
    THEN Gap(speeches, i) \div 2 ELSE speech_pad_samples(p)

Padded(speeches, p, length) ==
    [i \in DOMAIN speeches |->
        [start |-> Before(speeches[i].start, Padding(speeches, p, i - 1)),
         end   |-> Smaller(speeches[i].end + Padding(speeches, p, i), length)]]

InCentiseconds(speeches) ==
    [i \in DOMAIN speeches |-> [start |-> samples_to_cs(speeches[i].start),
                                end   |-> samples_to_cs(speeches[i].end)]]

SegmentsOf(s, p, length) ==
    InCentiseconds(Padded(LongEnough(Merged(Ended(s, p, length)), p), p, length))

=============================================================================
