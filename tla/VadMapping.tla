----------------------------- MODULE VadMapping -----------------------------
(***************************************************************************)
(* What whisper_vad does with the segments of speech: it copies them, with *)
(* some overlap, into a shorter audio, separated by silence, and keeps a   *)
(* table from times in that audio to times in the original one; the        *)
(* getters of a segment's times look them up there.                        *)
(***************************************************************************)
EXTENDS VoiceActivity, FiniteSets, FiniteSetsExt

Point(processed, original) == [processed |-> processed, original |-> original]

silence_samples == Samples(100)

(* Segment i of the audio of n samples, in samples; its end includes the   *)
(* overlap, except for the last segment's.                                 *)
SegmentStart(segments, i, n) == Smaller(cs_to_samples(segments[i].start), n - 1)

SegmentEnd(segments, p, i, n) ==
    Smaller(cs_to_samples(segments[i].end)
                + (IF i < Len(segments) THEN Samples(p.samples_overlap_ms) ELSE 0),
            n - 1)

SegmentLength(segments, p, i, n) == SegmentEnd(segments, p, i, n) - SegmentStart(segments, i, n)

(* The samples the shorter audio has room for. *)
RoomNeeded_NoSilence(segments, p, n) ==
    LET room[i \in 0..Len(segments)] ==
            IF i = 0 THEN 0
            ELSE room[i - 1] + SegmentEnd(segments, p, i, n) - cs_to_samples(segments[i].start)
    IN  room[Len(segments)]

RoomNeeded(segments, p, n) ==
    LET room[i \in 0..Len(segments)] ==
            IF i = 0 THEN (Len(segments) - 1) * silence_samples
            ELSE room[i - 1] + SegmentEnd(segments, p, i, n) - cs_to_samples(segments[i].start)
    IN  room[Len(segments)]

(* Where segment i is copied to: offset[i], where offset[Len + 1] is the   *)
(* end of what is written.  An empty segment is left out.                  *)
Silence(segments, i) == IF i < Len(segments) THEN silence_samples ELSE 0

Offsets(segments, p, n) ==
    LET offset[i \in 1..(Len(segments) + 1)] ==
            IF i = 1 THEN 0
            ELSE offset[i - 1] +
                 IF SegmentLength(segments, p, i - 1, n) > 0
                 THEN SegmentLength(segments, p, i - 1, n) + Silence(segments, i - 1)
                 ELSE 0
    IN  offset

(* The table: the ends of a segment, a point every 20 cs in one of more    *)
(* than a second, and the ends of the silence behind it.                   *)
min_segment_length == 100
point_interval == 20

Between(first, last) ==
    IF last.processed - first.processed <= min_segment_length THEN {}
    ELSE LET vad_total  == last.processed - first.processed
             orig_total == last.original - first.original
             num_points == vad_total \div point_interval - 1
         IN  {Point(first.processed + j * point_interval,
                    first.original + (j * point_interval * orig_total) \div vad_total) :
                 j \in {k \in 1..num_points : k * point_interval < vad_total}}

SegmentPoints(segments, p, i, n) ==
    LET offset == Offsets(segments, p, n)[i]
        first == Point(samples_to_cs(offset), segments[i].start)
        last  == Point(samples_to_cs(offset + SegmentLength(segments, p, i, n)),
                       segments[i].end)
    IN  {first, last} \cup Between(first, last)

SilencePoints_OwnEnd(segments, p, i, n) ==
    LET from == Offsets(segments, p, n)[i] + SegmentLength(segments, p, i, n)
    IN  {Point(samples_to_cs(from), segments[i].end),
         Point(samples_to_cs(from + silence_samples), segments[i].end)}

SilencePoints(segments, p, i, n) ==
    LET from == Offsets(segments, p, n)[i] + SegmentLength(segments, p, i, n)
    IN  {Point(samples_to_cs(from), segments[i].end),
         Point(samples_to_cs(from + silence_samples), segments[i + 1].start)}

Table(segments, p, n) ==
    UNION {SegmentPoints(segments, p, i, n) \cup
           (IF i < Len(segments) THEN SilencePoints(segments, p, i, n) ELSE {}) :
              i \in {k \in DOMAIN segments : SegmentLength(segments, p, k, n) > 0}}

-----------------------------------------------------------------------------
(* map_processed_to_original_time.  Of points with one processed time the  *)
(* table keeps one; TableConsistent says that they are equal.              *)

TableConsistent(table) ==
    \A a, b \in table : a.processed = b.processed => a.original = b.original

First(table) == CHOOSE a \in table : \A b \in table : a.processed <= b.processed
Final(table) == CHOOSE a \in table : \A b \in table : a.processed >= b.processed

Original_NoInterpolation(table, t) ==
    IF t <= First(table).processed THEN First(table).original
    ELSE IF t >= Final(table).processed THEN Final(table).original
    ELSE First({a \in table : a.processed >= t}).original

Original(table, t) ==
    IF t <= First(table).processed THEN First(table).original
    ELSE IF t >= Final(table).processed THEN Final(table).original
    ELSE LET upper == First({a \in table : a.processed >= t})
             lower == Final({a \in table : a.processed < t})
         IN  IF upper.processed = t THEN upper.original
             ELSE lower.original
                  + ((t - lower.processed) * (upper.original - lower.original))
                        \div (upper.processed - lower.processed)

=============================================================================
