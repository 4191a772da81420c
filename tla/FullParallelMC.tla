--------------------------- MODULE FullParallelMC ---------------------------
(* Small instances of FullParallel: a sample rate of 200, windows of 160   *)
(* ms, so that ten of them hold several segments, and audio of a second,   *)
(* or a little more, split among up to three threads.  An int ends at      *)
(* 45000, which the products for 910 samples and for 455 ms exceed.        *)
EXTENDS FullParallel

Vad(pad, overlap, max, min) ==
    [min_speech_ms |-> min, min_silence_ms |-> 300, max_speech_s |-> max,
     speech_pad_ms |-> pad, samples_overlap_ms |-> overlap]

Detect(vad_params, n) ==
    [vad |-> TRUE, vad_params |-> vad_params, n_processors |-> 1,
     no_timestamps |-> FALSE, offset_ms |-> 0, n_samples |-> n]

Split(n_processors, offset, n) ==
    [vad |-> FALSE, vad_params |-> Vad(30, 100, 0, 250),
     n_processors |-> n_processors, no_timestamps |-> FALSE,
     offset_ms |-> offset, n_samples |-> n]

Unstamped(call) == [call EXCEPT !.no_timestamps = TRUE]

SplitSpeech(n_processors, n) ==
    [vad |-> TRUE, vad_params |-> Vad(30, 100, 0, 250),
     n_processors |-> n_processors, no_timestamps |-> FALSE,
     offset_ms |-> 0, n_samples |-> n]

MCCalls == {Detect(Vad(30, 100, 1, 250), 350), Detect(Vad(250, 100, 0, 250), 289),
            Detect(Vad(30, 300, 1, 100), 280), SplitSpeech(2, 128),
            Split(1, 0, 203), Split(2, 0, 203), Split(3, 0, 203), Split(2, 205, 203),
            Unstamped(Split(2, 0, 203)), Split(2, 0, 910), Split(2, 455, 203)}

MCVadThenNot == {Detect(Vad(30, 100, 0, 250), 128), Split(1, 0, 203)}

=============================================================================
