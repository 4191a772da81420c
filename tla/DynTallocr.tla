----------------------------- MODULE DynTallocr -----------------------------
(***************************************************************************)
(* ggml_dyn_tallocr, the allocator that ggml-alloc plans a graph's memory  *)
(* with.  It hands out addresses only: an address is a chunk (a backend    *)
(* buffer to be) and an offset in it.  Each chunk keeps its free blocks    *)
(* sorted by offset, the last one standing for the memory the chunk may    *)
(* still grow into, and max_size, the end of the highest byte handed out.  *)
(*                                                                         *)
(* X_Fault stands beside X: a faulty variant of it, which no specification *)
(* uses; with it in place of X a property of GraphAlloc is violated.       *)
(***************************************************************************)
EXTENDS Integers, Sequences, SequencesExt

CONSTANTS
    alignment,        \* every size is rounded up to a multiple of it
    max_chunk_size,   \* what the backend allocates in one buffer
    MaxChunks,        \* GGML_VBUFFER_MAX_CHUNKS
    Endless           \* SIZE_MAX/2, the size of the last chunk

ASSUME TallocrAssumption ==
    /\ alignment \in Nat \ {0} /\ MaxChunks \in Nat \ {0}
    /\ max_chunk_size \in Nat /\ Endless \in Nat
    /\ max_chunk_size > 0 /\ max_chunk_size <= Endless

Aligned(size) == ((size + alignment - 1) \div alignment) * alignment

Block(offset, size) == [offset |-> offset, size |-> size]
End(block) == block.offset + block.size

(* A tallocr is the sequence of its chunks; after a reset it has none. *)
NoChunks == <<>>

(* ggml_dyn_tallocr_insert_block: behind the blocks that lie below it.     *)
(* GGML_ASSERT(n_free_blocks < MAX_FREE_BLOCKS), 256, is not repeated      *)
(* here: MemoryAccounted of GraphAlloc bounds the blocks of a chunk.       *)
InsertPos(free, block) ==
    CHOOSE i \in 1..(Len(free) + 1) :
        /\ \A k \in 1..(i - 1) : free[k].offset < block.offset
        /\ i <= Len(free) => free[i].offset >= block.offset

InsertBlock(free, block) == InsertAt(free, InsertPos(free, block), block)

(* ggml_dyn_tallocr_new_chunk for an allocation of min_size. *)
NewChunk(chunks, min_size) ==
    LET limit == IF min_size > max_chunk_size THEN min_size ELSE max_chunk_size
        size  == IF Len(chunks) = MaxChunks - 1 THEN Endless ELSE limit
    IN  Append(chunks, [free |-> <<Block(0, size)>>, max_size |-> 0])

-----------------------------------------------------------------------------
(* ggml_dyn_tallocr_alloc *)

(* The blocks before the last of a chunk that are large enough. *)
Fitting(chunks, size) ==
    {p \in UNION {{c} \X (1..(Len(chunks[c].free) - 1)) : c \in DOMAIN chunks} :
        chunks[p[1]].free[p[2]].size >= size}

(* Among them the code takes, in the last chunk that has one, the smallest *)
(* (the later of two equal ones).                                          *)
BestFit(chunks, size) ==
    CHOOSE p \in Fitting(chunks, size) : \A q \in Fitting(chunks, size) :
        LET sp == chunks[p[1]].free[p[2]].size
            sq == chunks[q[1]].free[q[2]].size
        IN  \/ q[1] < p[1]
            \/ q[1] = p[1] /\ sp < sq
            \/ q[1] = p[1] /\ sp = sq /\ q[2] <= p[2]

(* Otherwise it takes the last block of the chunk that has to grow least,  *)
(* or, of those that need not grow, of the one that wastes least.          *)
Growing(chunks, size) ==
    {c \in DOMAIN chunks :
        Len(chunks[c].free) > 0 /\ Last(chunks[c].free).size >= size}

ReuseFactor(chunks, c, size) ==
    chunks[c].max_size - Last(chunks[c].free).offset - size

BestGrowth(chunks, size) ==
    LET better(c, d) ==     \* the loop prefers c to d
            LET rc == ReuseFactor(chunks, c, size)
                rd == ReuseFactor(chunks, d, size)
            IN  \/ rd < 0 /\ rc > rd
                \/ rc >= 0 /\ rc < rd
    IN  CHOOSE c \in Growing(chunks, size) : \A d \in Growing(chunks, size) :
            \/ better(c, d)
            \/ ~better(d, c) /\ c <= d

(* Where an allocation goes: the tallocr, with a new chunk if it needs one, *)
(* the chunk and the block.                                                *)
Place(chunks, size) ==
    IF Fitting(chunks, size) # {} THEN
        [chunks |-> chunks, chunk |-> BestFit(chunks, size)[1],
         block |-> BestFit(chunks, size)[2]]
    ELSE IF Growing(chunks, size) # {} THEN
        [chunks |-> chunks, chunk |-> BestGrowth(chunks, size),
         block |-> Len(chunks[BestGrowth(chunks, size)].free)]
    ELSE [chunks |-> NewChunk(chunks, size), chunk |-> Len(chunks) + 1,
          block |-> 1]

Taken(free, i, size) ==
    IF free[i].size = size THEN RemoveAt(free, i)
    ELSE [free EXCEPT ![i] = Block(@.offset + size, @.size - size)]

(* The address and the tallocr after the allocation. *)
Alloc(chunks, bytes) ==
    LET size   == Aligned(bytes)
        place  == Place(chunks, size)
        chunk  == place.chunks[place.chunk]
        offset == chunk.free[place.block].offset
        grown  == IF offset + size > chunk.max_size THEN offset + size
                                                    ELSE chunk.max_size
    IN  [addr   |-> [chunk |-> place.chunk, offset |-> offset],
         chunks |-> [place.chunks EXCEPT ![place.chunk] =
                        [free |-> Taken(chunk.free, place.block, size),
                         max_size |-> grown]]]

-----------------------------------------------------------------------------
(* ggml_dyn_tallocr_free_bytes *)

(* The first block the freed memory touches, at either end. *)
Touching(free, block) ==
    {i \in DOMAIN free : End(free[i]) = block.offset \/ End(block) = free[i].offset}

FirstTouching(free, block) ==
    CHOOSE i \in Touching(free, block) : \A k \in Touching(free, block) : i <= k

(* Two neighbours that meet become one block. *)
MergeAt(free, i) ==
    IF i >= 1 /\ i < Len(free) /\ End(free[i]) = free[i + 1].offset
    THEN RemoveAt([free EXCEPT ![i].size = @ + free[i + 1].size], i + 1)
    ELSE free

Freed_NoSecondMerge(free, block) ==
    IF Touching(free, block) = {} THEN InsertBlock(free, block)
    ELSE LET i == FirstTouching(free, block) IN
         IF End(free[i]) = block.offset
         THEN [free EXCEPT ![i].size = @ + block.size]
         ELSE [free EXCEPT ![i] = Block(block.offset, @.size + block.size)]

Freed(free, block) ==
    IF Touching(free, block) = {} THEN InsertBlock(free, block)
    ELSE LET i == FirstTouching(free, block) IN
         IF End(free[i]) = block.offset
         THEN MergeAt([free EXCEPT ![i].size = @ + block.size], i)
         ELSE MergeAt([free EXCEPT ![i] = Block(block.offset,
                                               @.size + block.size)], i - 1)

FreeBytes(chunks, addr, bytes) ==
    [chunks EXCEPT ![addr.chunk].free =
        Freed(@, Block(addr.offset, Aligned(bytes)))]

-----------------------------------------------------------------------------
(* What a tallocr's free list must look like: sorted, without empty blocks *)
(* and without two that touch.                                             *)
Coalesced(free) ==
    /\ \A i \in DOMAIN free : free[i].size > 0
    /\ \A i \in 1..(Len(free) - 1) : End(free[i]) < free[i + 1].offset

=============================================================================
