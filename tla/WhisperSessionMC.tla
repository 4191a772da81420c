-------------------------- MODULE WhisperSessionMC --------------------------
(* Applications over audios that are too short, one window and two windows *)
(* long; those that let calls overlap transcribe the one-window audio.     *)
EXTENDS WhisperSession

CONSTANTS short, one, two

Riff(chunks, a) == [exists |-> TRUE, named_wav |-> TRUE, riff |-> TRUE,
                    chunks |-> chunks, audio |-> a]
Fmt(size)    == [id |-> "fmt ", size |-> size, stored |-> size]
Other(size)  == [id |-> "other", size |-> size, stored |-> size + (size % 2)]
Data         == [id |-> "data", size |-> 4, stored |-> 4]

Plain    == Riff(<<Fmt(16), Data>>, one)
NotRiff  == [Plain EXCEPT !.riff = FALSE]
MCFiles  == {Plain, NotRiff, [Plain EXCEPT !.exists = FALSE],
             [Plain EXCEPT !.named_wav = FALSE],
             Riff(<<Other(2), Fmt(18), Other(4), Data, Other(3)>>, two),
             Riff(<<Fmt(16), Other(3), Data>>, one),      \* an odd size
             Riff(<<Fmt(16)>>, NoAudio)}

MCAudios  == {short, one, two}
MCWindows == [a \in MCAudios |->
                 IF a = short THEN 0 ELSE IF a = one THEN 1 ELSE 2]

(* As the library's README shows it: one call at a time, closed at the end. *)
Documented == [audios |-> MCAudios, files |-> MCFiles, max_in_flight |-> 1,
               close_last |-> TRUE, alloc_may_fail |-> FALSE]
Overlapping  == [Documented EXCEPT !.audios = {one}, !.files = {Plain, NotRiff},
                                        !.max_in_flight = 2]
Unrestricted == [Overlapping EXCEPT !.files = {},
                                        !.close_last = FALSE, !.alloc_may_fail = TRUE]
LowMemory    == [Documented EXCEPT !.alloc_may_fail = TRUE]

MCApps         == {Documented, Overlapping, Unrestricted}
MCDocumented   == {Documented}
MCLowMemory    == {LowMemory}

=============================================================================
