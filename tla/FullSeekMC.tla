----------------------------- MODULE FullSeekMC -----------------------------
(* Small instances of FullSeek: two calls over audio of up to three        *)
(* windows, windows of three tokens over one text token and two            *)
(* timestamps.                                                             *)
EXTENDS FullSeek

Range(from, to) == [from |-> from, to |-> to]

MCSpans == {Range(1, 6)}

Parameters(fresh, carry, max, n) ==
    [no_context |-> fresh, carry_initial_prompt |-> carry,
     n_max_text_ctx |-> max, prompt_n_tokens |-> n,
     no_timestamps |-> FALSE, single_segment |-> FALSE, greedy |-> TRUE]

NoTimestamps(p) == [p EXCEPT !.no_timestamps = TRUE]

MCParams ==
    {Parameters(TRUE, FALSE, 100, 2), Parameters(FALSE, FALSE, 100, 2),
     Parameters(FALSE, TRUE, 100, 8), Parameters(FALSE, TRUE, 3, 1),
     [NoTimestamps(Parameters(FALSE, FALSE, 0, 0)) EXCEPT !.greedy = FALSE],
     [Parameters(TRUE, TRUE, 4, 2) EXCEPT !.single_segment = TRUE]}

MCDefault == {Parameters(TRUE, FALSE, 100, 0)}

MCNoTimestamps == {NoTimestamps(Parameters(TRUE, FALSE, 100, 0))}

=============================================================================
