--------------------------- MODULE WindowDecodeMC ---------------------------
(* Small instances of WindowDecode: two or three decoders, two             *)
(* temperatures, two or three tokens per window over a vocabulary of one   *)
(* text token and two timestamps.                                          *)
EXTENDS WindowDecode

Greedy(best_of, max, no_ts, single) ==
    [beam |-> FALSE, best_of |-> best_of, beam_size |-> 2,
     max_tokens |-> max, no_timestamps |-> no_ts, single_segment |-> single]

BeamSearch(beam_size, best_of, max) ==
    [beam |-> TRUE, best_of |-> best_of, beam_size |-> beam_size,
     max_tokens |-> max, no_timestamps |-> FALSE, single_segment |-> FALSE]

MCParams == {Greedy(2, 0, FALSE, FALSE), Greedy(2, 1, FALSE, TRUE),
             Greedy(2, 0, TRUE, FALSE), BeamSearch(2, 2, 0)}

(* Fewer decoders at the temperatures that follow than at the first. *)
MCFewer == {BeamSearch(2, 1, 0)}

=============================================================================
