------------------------------- MODULE KVCache -------------------------------
(***************************************************************************)
(* The self-attention KV cache (struct whisper_kv_cache) as a value, and   *)
(* its operations as operators on it.                                      *)
(*                                                                         *)
(* A cache is [size, head, cells].  cells is a partial function: its       *)
(* domain is the set of cells in use (pos >= 0); a cell holds its position,*)
(* its token, the sequences that share it and, in place of its K and V     *)
(* rows, what they were computed from: the positions and tokens the cell   *)
(* could attend to, its own among them.                                    *)
(***************************************************************************)
EXTENDS Integers, Sequences, FiniteSets

Cell(pos, token, seq_id, seen) ==
    [pos |-> pos, token |-> token, seq_id |-> seq_id, seen |-> seen]

(* A text as the set of its positions and tokens. *)
History(text) == {<<k - 1, text[k]>> : k \in DOMAIN text}

UpTo(history, p) == {x \in history : x[1] <= p}

Used(c) == DOMAIN c.cells

(* whisper_kv_cache_init and whisper_kv_cache_clear *)
EmptyCache(size) == [size |-> size, head |-> 0, cells |-> <<>>]

-----------------------------------------------------------------------------
(* whisper_kv_cache_find_slot: the first window of n free cells at or      *)
(* after head, or else the first one before it.                            *)

Fits(c, h, n) ==
    /\ h + n <= c.size
    /\ \A k \in h..(h + n - 1) : k \notin Used(c)

IsSlot(c, n, h) ==
    /\ Fits(c, h, n)
    /\ \/ /\ h >= c.head
          /\ \A g \in c.head..(h - 1) : ~Fits(c, g, n)
       \/ /\ h < c.head
          /\ \A g \in c.head..c.size : ~Fits(c, g, n)
          /\ \A g \in 0..(h - 1) : ~Fits(c, g, n)

NoSlot(c, n) == \A h \in 0..c.size : ~Fits(c, h, n)

(* The batch (a sequence of cells) is written at h, where head stays. *)
Place(c, h, batch) ==
    [c EXCEPT !.head = h,
              !.cells = [k \in Used(c) \cup h..(h + Len(batch) - 1) |->
                            IF k \in Used(c) THEN c.cells[k]
                                             ELSE batch[k - h + 1]]]

-----------------------------------------------------------------------------
(* whisper_kv_cache_seq_rm over all positions: a cell nobody uses any more *)
(* is freed, and head moves to the first one freed.                        *)
SeqRm(c, s) ==
    LET freed == {k \in Used(c) : c.cells[k].seq_id = {s}}
    IN  [c EXCEPT
            !.head = IF freed = {} THEN c.head
                     ELSE CHOOSE k \in freed : \A l \in freed : k <= l,
            !.cells = [k \in Used(c) \ freed |->
                          [c.cells[k] EXCEPT !.seq_id = @ \ {s}]]]

(* whisper_kv_cache_seq_cp over all positions, from one sequence to each   *)
(* sequence of a set.                                                      *)
SeqCp(c, src, dsts) ==
    [c EXCEPT
        !.head = IF dsts = {} THEN c.head ELSE 0,
        !.cells = [k \in Used(c) |->
                      IF src \in c.cells[k].seq_id
                      THEN [c.cells[k] EXCEPT !.seq_id = @ \cup dsts]
                      ELSE c.cells[k]]]

-----------------------------------------------------------------------------
(* The KQ mask of whisper_decode_internal: the cells sequence s may attend *)
(* to at position p, and what they stand for.                              *)

Attended(c, s, p) ==
    {k \in Used(c) : s \in c.cells[k].seq_id /\ c.cells[k].pos <= p}

Context(c, s, p) ==
    {<<c.cells[k].pos, c.cells[k].token>> : k \in Attended(c, s, p)}

=============================================================================
