--------------------------- MODULE WindowOutcome ---------------------------
(***************************************************************************)
(* The tokens of the model's vocabulary and what the decoding of a window  *)
(* promises to the loop over the windows: WindowDecode is checked to yield *)
(* only such outcomes, FullSeek takes every one of them.                   *)
(*                                                                         *)
(* Tokens are numbers in the order of the vocabulary: text tokens, then    *)
(* Eot, then Beg (timestamp 0) and the timestamps above it.                *)
(***************************************************************************)
EXTENDS Integers, Sequences

CONSTANTS
    n_text_ctx,       \* hparams.n_text_ctx
    NText,            \* number of text tokens
    NTimestamps,      \* timestamps above Beg: a window is 2 * NTimestamps long
    max_initial_ts    \* largest timestamp a window may open with

Eot   == NText
Beg   == NText + 1
Token == 0..(Beg + NTimestamps)
Chunk == 2 * NTimestamps            \* 100*WHISPER_CHUNK_SIZE

n_max_NoMargin == n_text_ctx \div 2 - 3

n_max == n_text_ctx \div 2 - 4

ASSUME OutcomeAssumption ==
    /\ n_text_ctx \in Nat /\ n_max >= 1
    /\ NText \in Nat \ {0} /\ NTimestamps \in Nat \ {0}
    /\ max_initial_ts \in Nat

-----------------------------------------------------------------------------
Stamps(s) == {k \in DOMAIN s : s[k] > Beg}

(* The position of the last timestamp above Beg, 0 when there is none.     *)
LastStamp(s) ==
    IF Stamps(s) = {} THEN 0
    ELSE CHOOSE k \in Stamps(s) : \A l \in Stamps(s) : l <= k

(* The sequences the token rules leave: nothing follows Eot, timestamps    *)
(* never decrease, at most two stand in a row, and one that follows text   *)
(* is paired with another or ends the sequence.                            *)
Sampled(s, p) ==
    /\ Len(s) \in 1..n_max
    /\ s[1] # Eot /\ s[1] <= Beg + max_initial_ts
    /\ \A k \in DOMAIN s :
          /\ s[k] = Eot => k = Len(s)
          /\ s[k] >= Beg => ~p.no_timestamps
          /\ \A l \in DOMAIN s : l < k /\ s[l] >= Beg /\ s[k] >= Beg => s[l] <= s[k]
          /\ k > 1 /\ s[k - 1] >= Beg =>
                IF k = 2 \/ s[k - 2] >= Beg THEN s[k] < Beg ELSE s[k] >= Eot

(* What best_decoder holds after the temperatures: the tokens, how many of *)
(* them count, and how far the window moves.                               *)
IsOutcome(o, p) ==
    LET last  == LastStamp(o.tokens)
        whole == p.single_segment \/ p.no_timestamps
    IN  /\ Sampled(o.tokens, p)
        /\ \/ o.result_len = last
           \/ (last = 0 \/ whole) /\ o.result_len = Len(o.tokens)
        /\ \/ last # 0 /\ o.seek_delta = 2 * (o.tokens[last] - Beg)
           \/ (last = 0 \/ whole) /\ o.seek_delta = Chunk

=============================================================================
