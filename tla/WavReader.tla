------------------------------ MODULE WavReader ------------------------------
(***************************************************************************)
(* read_wav: what the wrapper makes of the contents of a file.             *)
(*                                                                         *)
(* A file is a header and a sequence of chunks; a chunk has an id, the     *)
(* size its header says and the number of bytes that are stored before the *)
(* next header.  (RIFF pads a chunk of odd size with a byte.)  The samples *)
(* of the data chunk are an audio; making them mono floats of 16 kHz does  *)
(* not change which one.                                                   *)
(*                                                                         *)
(* X_Fault stands beside X: a faulty variant of it, which no specification *)
(* uses; with it in place of X a property of WhisperSession is violated.   *)
(***************************************************************************)
EXTENDS Integers, Sequences

CONSTANTS
    Audios,        \* contents of WAV files and sample arrays
    NoAudio,       \* no samples
    Files          \* the files that transcribe(File) is given

Chunk == [id : {"fmt ", "data", "other"}, size : Nat, stored : Nat]

IsData(c) == c.id = "data"

(* The samples have 16 bits: bits_per_sample is 0 without a fmt chunk      *)
(* before the data, and the number of samples divided by zero.             *)
ASSUME FileAssumption ==
    /\ NoAudio \notin Audios
    /\ \A f \in Files :
        /\ f.chunks \in Seq(Chunk)
        /\ f.exists \in BOOLEAN /\ f.named_wav \in BOOLEAN /\ f.riff \in BOOLEAN
        /\ \A k \in DOMAIN f.chunks :
              /\ f.chunks[k].id = "fmt " => f.chunks[k].size >= 16
              /\ IsData(f.chunks[k]) => \E i \in 1..(k - 1) : f.chunks[i].id = "fmt "
        /\ f.audio \in Audios \cup {NoAudio}

(* Where the header of chunk k is. *)
header_size == 8

Start(f, k) ==
    LET behind[i \in 0..Len(f.chunks)] ==
            IF i = 0 THEN 12
            ELSE behind[i - 1] + header_size + f.chunks[i].stored
    IN behind[k - 1]

(* After its fields the rest of a fmt chunk is skipped. *)
Skipped_OnlyFields(c) == IF c.id = "fmt " THEN 16 ELSE c.size

Skipped(c) == IF c.id = "fmt " THEN 16 + (c.size - 16) ELSE c.size

(* The loop over the chunks.  At a position that is no header it finds no  *)
(* id it knows, and letters of one as a part of the size, which takes it   *)
(* beyond the header it missed; it is taken to find none again.            *)
Begin == [pos |-> 12, data |-> 0]

Visit(f, s, k) ==
    IF s.data # 0 \/ s.pos # Start(f, k) THEN s
    ELSE IF IsData(f.chunks[k]) THEN [s EXCEPT !.data = k]
    ELSE [s EXCEPT !.pos = @ + header_size + Skipped(f.chunks[k])]

Walk(f) ==
    LET walk[k \in 0..Len(f.chunks)] ==
            IF k = 0 THEN Begin ELSE Visit(f, walk[k - 1], k)
    IN walk[Len(f.chunks)]

ReadWav(f) == IF f.riff /\ Walk(f).data # 0 THEN f.audio ELSE NoAudio

(* Files as they should be: chunks padded to an even number of bytes.      *)
WellFormed(f) ==
    /\ f.exists /\ f.named_wav /\ f.riff
    /\ \A k \in DOMAIN f.chunks :
          f.chunks[k].stored = f.chunks[k].size + (f.chunks[k].size % 2)
    /\ \E k \in DOMAIN f.chunks : IsData(f.chunks[k])

(* No chunk of odd size stands before the data. *)
EvenBeforeData(f) == \E k \in DOMAIN f.chunks :
    /\ IsData(f.chunks[k])
    /\ \A i \in 1..(k - 1) : f.chunks[i].size % 2 = 0

=============================================================================
