--------------------------- MODULE WhisperSession ---------------------------
(***************************************************************************)
(* The life of one WhisperContext: the Kotlin object, the JNI entry points *)
(* it calls and the native whisper_context / whisper_state behind them.    *)
(* Each job is one call of the Kotlin API made by some coroutine.  A call  *)
(* runs on a thread of Dispatchers.IO, nothing in the wrapper serialises   *)
(* the calls, and between two native steps any other call may run.         *)
(*                                                                         *)
(* Audio is abstracted to its identity and its number of 30 s windows; the *)
(* text of an audio is the sequence <<audio, 1>> .. <<audio, n>> of the    *)
(* segments its windows produce (what the network outputs is a function of *)
(* the window).  The steps inside one window are the subject of            *)
(* WindowDecode; here a window is encoded and then decoded, it succeeds,   *)
(* fails, or runs out of memory.                                           *)
(*                                                                         *)
(* Two calls that overlap work on one whisper_state.  What one of them     *)
(* frees while another is using it is modelled for the text that is being  *)
(* copied out of result_all and for the KV cache kv_self (`stale').        *)
(*                                                                         *)
(* X_Fault stands beside X: a faulty variant of it, which no specification *)
(* uses; with it in place of X one of the properties below is violated.    *)
(***************************************************************************)
EXTENDS WavReader, FiniteSets

CONSTANTS
    Jobs,          \* the coroutines that use the context
    Windows,       \* Windows[a]: windows in audio a, 0 for less than 100 ms
    MaxWindows,    \* bound on the windows of an uninitialised spectrogram
    NoFile,        \* of a call that is not given a file
    Apps           \* the applications to consider: the arrays and files
                   \* each transcribes, how many calls it lets overlap, whether it closes
                   \* only once and after its last call, and whether memory
                   \* is so tight that growing the KV cache may fail

Uninit == "uninit"             \* whisper_mel before the first computation

ASSUME SessionAssumption ==
    /\ Windows \in [Audios -> Nat]
    /\ MaxWindows \in Nat
    /\ Apps \subseteq [audios : SUBSET Audios, files : SUBSET Files,
                       max_in_flight : Nat,
                       close_last : BOOLEAN, alloc_may_fail : BOOLEAN]
    /\ Uninit \notin Audios \cup {NoAudio}
    /\ NoFile \notin Files
    /\ \A f \in Files : ReadWav(f) \in Audios \cup {NoAudio}

VARIABLES
    app,           \* the application; it does not change
    contextPtr,    \* WhisperContext.contextPtr: "unset", "null" or "ptr"
    context,       \* the whisper_context: "none", "alive" or "freed"
    state,         \* the whisper_state ctx->state points to, likewise
    mel,           \* state->mel: the audio it was computed from
    encoded,       \* the audio and window state->kv_cross was computed from
    result_all,    \* state->result_all
    wide_kv,       \* kv_self was regrown for several decoders
    stale,         \* calls that are using memory which another call freed
    fault,         \* memory errors met so far
    closes,        \* calls of close() made so far: 0, 1 or 2 (2 and more)
    pc,            \* where each call is
    file,          \* the file each call was given
    audio,         \* the samples each call was given or has read
    seek,          \* windows done by the running whisper_full of each call
    seek_end,      \* windows it decided to do
    n_segments,    \* segments getTranscriptionText of each call has counted
    copied,        \* those it has copied
    reply,         \* what the last call of each job returned
    overlapped     \* history: jobs whose last transcription was in native
                   \* code, from clear() to its last read, with another

vars == <<app, contextPtr, context, state, mel, encoded, result_all, wide_kv,
          stale, fault, closes, pc, file, audio, seek, seek_end, n_segments,
          copied, reply, overlapped>>

objects == <<contextPtr, context, state>>
native == <<objects, mel, encoded, result_all, wide_kv, stale, fault>>
locals == <<seek, seek_end, n_segments, copied>>
argument == <<file, audio>>
call   == <<argument, locals, reply>>
client == <<app, closes, overlapped>>

(* The segments of the first n windows of an audio, and its whole text. *)
FirstWindows(a, n) == [w \in 1..n |-> <<a, w>>]
Text(a) == FirstWindows(a, Windows[a])

NoReply  == [kind |-> "none"]
Error(e) == [kind |-> "error", why |-> e]
Answer(t) == [kind |-> "text", text |-> t]

Busy == {j \in Jobs : pc[j] # "idle"}

(* Calls that work on the shared state: between result_all.clear() and the *)
(* last segment that is read.                                              *)
Inside == {j \in Jobs : pc[j] \in
               {"mel", "length", "window", "decode", "text", "segment", "append"}}

(* Calls that hold a pointer to the text of a segment, and calls that      *)
(* compute with kv_self.                                                   *)
Copying  == {j \in Jobs : pc[j] = "append"}
Decoding == {j \in Jobs : pc[j] = "decode"}

Init ==
    /\ app \in Apps
    /\ contextPtr = "unset" /\ context = "none" /\ state = "none"
    /\ mel = Uninit /\ encoded = <<Uninit, 0>> /\ result_all = <<>>
    /\ wide_kv = FALSE /\ stale = {} /\ fault = {} /\ closes = 0
    /\ pc = [j \in Jobs |-> "idle"]
    /\ file = [j \in Jobs |-> NoFile]
    /\ audio = [j \in Jobs |-> NoAudio]
    /\ seek = [j \in Jobs |-> 0]
    /\ seek_end = [j \in Jobs |-> 0]
    /\ n_segments = [j \in Jobs |-> 0]
    /\ copied = [j \in Jobs |-> <<>>]
    /\ reply = [j \in Jobs |-> NoReply]
    /\ overlapped = {}

(* The native objects are used after they were freed: from here on the     *)
(* program has no defined behaviour and the model stops.                   *)
Dangling == context = "freed" \/ state = "freed"
Stopped  == fault \cap {"use_after_free", "double_free"} # {}

TouchFreed(j) ==
    /\ fault' = fault \cup {"use_after_free"}
    /\ UNCHANGED <<objects, mel, encoded, result_all, wide_kv, stale,
                   client, pc, call>>

Go(j, l) == pc' = [pc EXCEPT ![j] = l]

(* The call ends, and its locals with it. *)
Return(j, r) ==
    /\ Go(j, "idle")
    /\ reply' = [reply EXCEPT ![j] = r]
    /\ seek' = [seek EXCEPT ![j] = 0]
    /\ seek_end' = [seek_end EXCEPT ![j] = 0]
    /\ n_segments' = [n_segments EXCEPT ![j] = 0]
    /\ copied' = [copied EXCEPT ![j] = <<>>]

(* Some of the calls in users were using the memory that is now freed. *)
Freed(users) == \E hit \in SUBSET users : stale' = stale \cup hit

-----------------------------------------------------------------------------
(* The constructor: initContext and the null check after it. *)

InitContext ==
    /\ contextPtr = "unset"
    /\ \/ /\ contextPtr' = "ptr" /\ context' = "alive" /\ state' = "alive"
       \/ /\ contextPtr' = "null" /\ UNCHANGED <<context, state>>
       \/ /\ contextPtr' = "null" /\ context' = "freed" /\ UNCHANGED state
    /\ UNCHANGED <<mel, encoded, result_all, wide_kv, stale, fault, client,
                   pc, call>>

(* A coroutine calls one of the three methods of a constructed object. *)
MayCall(j) ==
    /\ contextPtr = "ptr" /\ ~Stopped
    /\ pc[j] = "idle"
    /\ Cardinality(Busy) < app.max_in_flight
    /\ app.close_last => closes = 0

CallTranscribeFile(j) ==
    /\ MayCall(j)
    /\ \E f \in app.files : file' = [file EXCEPT ![j] = f]
    /\ audio' = [audio EXCEPT ![j] = NoAudio]
    /\ Go(j, "check")
    /\ reply' = [reply EXCEPT ![j] = NoReply]
    /\ UNCHANGED <<native, client, locals>>

CallTranscribeData(j) ==
    /\ MayCall(j)
    /\ \E a \in app.audios \cup {NoAudio} : audio' = [audio EXCEPT ![j] = a]
    /\ file' = [file EXCEPT ![j] = NoFile]
    /\ Go(j, "clear")
    /\ reply' = [reply EXCEPT ![j] = NoReply]
    /\ UNCHANGED <<native, client, locals>>

CallClose(j) ==
    /\ MayCall(j)
    /\ app.close_last => Busy = {}
    /\ closes' = IF closes < 2 THEN closes + 1 ELSE 2
    /\ Go(j, "close")
    /\ reply' = [reply EXCEPT ![j] = NoReply]
    /\ UNCHANGED <<app, overlapped, native, argument, locals>>

-----------------------------------------------------------------------------
(* WhisperContext.transcribe(File) up to the native transcription. *)

CheckFile(j) ==
    /\ pc[j] = "check" /\ ~Stopped
    /\ \/ ~file[j].exists /\ Return(j, Error("missing"))
       \/ file[j].exists /\ ~file[j].named_wav /\ Return(j, Error("not_wav"))
       \/ /\ file[j].exists /\ file[j].named_wav
          /\ Go(j, "read")
          /\ UNCHANGED <<locals, reply>>
    /\ UNCHANGED <<native, client, argument>>

(* readWavFile turns every failure of read_wav into an empty array, so the *)
(* "?: throw" after it is never taken.                                     *)
ReadWavFile(j) ==
    /\ pc[j] = "read" /\ ~Stopped
    /\ audio' = [audio EXCEPT ![j] = ReadWav(file[j])]
    /\ Go(j, "clear")
    /\ UNCHANGED <<native, client, file, locals, reply>>

-----------------------------------------------------------------------------
(* whisper_full *)

(* The calls inside and this one overlap; alone, it begins anew. *)
Overlaps(j) == overlapped' = IF Inside = {} THEN overlapped \ {j}
                             ELSE overlapped \cup Inside \cup {j}

ClearResults_Keeps(j) ==
    /\ pc[j] = "clear" /\ ~Stopped
    /\ IF Dangling THEN TouchFreed(j)
       ELSE /\ Go(j, "mel")
            /\ Overlaps(j)
            /\ UNCHANGED <<native, app, closes, call>>

(* clear() destroys the texts, also one that another call is copying. *)
ClearResults(j) ==
    /\ pc[j] = "clear" /\ ~Stopped
    /\ IF Dangling THEN TouchFreed(j)
       ELSE /\ result_all' = <<>>
            /\ stale' = stale \cup Copying
            /\ Go(j, "mel")
            /\ Overlaps(j)
            /\ UNCHANGED <<objects, mel, encoded, wide_kv, fault, app, closes,
                           call>>

(* The spectrogram is computed only for a non-empty array; without samples *)
(* state->mel keeps what the previous call left there.                     *)
PcmToMel(j) ==
    /\ pc[j] = "mel" /\ ~Stopped
    /\ IF Dangling THEN TouchFreed(j)
       ELSE /\ mel' = IF audio[j] = NoAudio THEN mel ELSE audio[j]
            /\ Go(j, "length")
            /\ UNCHANGED <<objects, encoded, result_all, wide_kv, stale, fault,
                           client, call>>

MelLength_OneLess == IF mel = Uninit THEN 0..MaxWindows ELSE {Windows[mel] - 1}

MelLength == IF mel = Uninit THEN 0..MaxWindows ELSE {Windows[mel]}

(* seek_end is read from state->mel, not from the argument. *)
ReadLength(j) ==
    /\ pc[j] = "length" /\ ~Stopped
    /\ IF Dangling THEN TouchFreed(j)
       ELSE /\ \E n \in MelLength :
                 /\ seek_end' = [seek_end EXCEPT ![j] = n]
                 /\ Go(j, IF n = 0 THEN "text" ELSE "window")
            /\ seek' = [seek EXCEPT ![j] = 0]
            /\ fault' = IF mel = Uninit THEN fault \cup {"uninitialised"}
                                        ELSE fault
            /\ UNCHANGED <<objects, mel, encoded, result_all, wide_kv, stale,
                           client, argument, n_segments, copied, reply>>

(* One turn of the main loop: whisper_encode_internal computes kv_cross    *)
(* from the window, or fails (-6).                                         *)
Encode(j) ==
    /\ pc[j] = "window" /\ ~Stopped
    /\ IF Dangling THEN TouchFreed(j)
       ELSE \/ /\ encoded' = <<mel, seek[j] + 1>>
               /\ Go(j, "decode")
               /\ UNCHANGED <<objects, mel, result_all, wide_kv, stale, fault,
                              client, call>>
            \/ /\ Return(j, Error("-6"))
               /\ UNCHANGED <<native, client, argument>>

(* A fallback needs several decoders, and frees kv_self for a wider one;   *)
(* another call may be computing with it.                                  *)
Regrow(j) ==
    /\ ~wide_kv
    /\ wide_kv' = TRUE
    /\ Freed(Decoding \ {j})
    /\ UNCHANGED <<objects, mel, encoded, result_all, fault, client, pc, call>>

(* The window is decoded and its segment appended to result_all, which may *)
(* move the segments that are in it.                                       *)
WindowDone(j) ==
    /\ result_all' = Append(result_all, encoded)
    /\ Freed(Copying)
    /\ seek' = [seek EXCEPT ![j] = @ + 1]
    /\ Go(j, IF seek[j] + 1 = seek_end[j] THEN "text" ELSE "window")
    /\ UNCHANGED <<objects, mel, encoded, wide_kv, fault, client, argument,
                   seek_end, n_segments, copied, reply>>

WindowFails_Frees(j) ==
    /\ state' = "freed"
    /\ \E rc \in {"-8", "-9"} : Return(j, Error(rc))
    /\ UNCHANGED <<contextPtr, context, mel, encoded, result_all, wide_kv,
                   stale, fault, client, argument>>

(* -8 and -9: the decoder failed. *)
WindowFails(j) ==
    /\ \E rc \in {"-8", "-9"} : Return(j, Error(rc))
    /\ UNCHANGED <<native, client, argument>>

(* -7: the wider KV cache cannot be allocated; whisper_full frees the      *)
(* state, and ctx->state still points to it.                               *)
WindowOutOfMemory(j) ==
    /\ app.alloc_may_fail /\ ~wide_kv
    /\ state' = "freed"
    /\ Return(j, Error("-7"))
    /\ UNCHANGED <<contextPtr, context, mel, encoded, result_all, wide_kv,
                   stale, fault, client, argument>>

Decode(j) ==
    /\ pc[j] = "decode" /\ ~Stopped
    /\ IF Dangling \/ j \in stale THEN TouchFreed(j)
       ELSE WindowDone(j) \/ WindowFails(j) \/ Regrow(j) \/ WindowOutOfMemory(j)

-----------------------------------------------------------------------------
(* getTranscriptionText.  The number of segments is read once; then, one   *)
(* segment after the other, a pointer to its text is obtained and the text *)
(* behind it copied.  Another call may replace the results between any two *)
(* of these steps.                                                         *)


CountSegments(j) ==
    /\ pc[j] = "text" /\ ~Stopped
    /\ IF Dangling THEN TouchFreed(j)
       ELSE \/ /\ result_all = <<>>
               /\ Return(j, Answer(<<>>))
               /\ UNCHANGED <<native, client, argument>>
            \/ /\ result_all # <<>>
               /\ n_segments' = [n_segments EXCEPT ![j] = Len(result_all)]
               /\ Go(j, "segment")
               /\ UNCHANGED <<native, client, argument, seek, seek_end, copied,
                              reply>>

(* whisper_full_get_segment_text: the index is not checked. *)
GetSegmentText(j) ==
    /\ pc[j] = "segment" /\ ~Stopped
    /\ IF Dangling \/ Len(copied[j]) >= Len(result_all) THEN TouchFreed(j)
       ELSE /\ Go(j, "append")
            /\ UNCHANGED <<native, client, call>>

AppendText(j) ==
    /\ pc[j] = "append" /\ ~Stopped
    /\ IF Dangling \/ j \in stale THEN TouchFreed(j)
       ELSE LET text == Append(copied[j], result_all[Len(copied[j]) + 1])
            IN  \/ /\ Len(text) = n_segments[j]
                   /\ Return(j, Answer(text))
                   /\ UNCHANGED <<native, client, argument>>
                \/ /\ Len(text) # n_segments[j]
                   /\ copied' = [copied EXCEPT ![j] = text]
                   /\ Go(j, "segment")
                   /\ UNCHANGED <<native, client, argument, seek, seek_end,
                                  n_segments, reply>>

(* close(): contextPtr is a val and is never zeroed, so every call of      *)
(* close() reaches whisper_free, which frees the state before the context. *)
Close(j) ==
    /\ pc[j] = "close" /\ ~Stopped
    /\ context' = "freed" /\ state' = "freed"
    /\ fault' = IF context = "freed" THEN fault \cup {"use_after_free"}
                ELSE IF state = "freed" THEN fault \cup {"double_free"}
                ELSE fault
    /\ Return(j, NoReply)
    /\ UNCHANGED <<contextPtr, mel, encoded, result_all, wide_kv, stale,
                   client, argument>>

-----------------------------------------------------------------------------
Step(j) ==
    \/ CheckFile(j) \/ ReadWavFile(j)
    \/ ClearResults(j) \/ PcmToMel(j) \/ ReadLength(j)
    \/ Encode(j) \/ Decode(j)
    \/ CountSegments(j) \/ GetSegmentText(j) \/ AppendText(j) \/ Close(j)

Call(j) == CallTranscribeFile(j) \/ CallTranscribeData(j) \/ CallClose(j)

Next == InitContext \/ \E j \in Jobs : Call(j) \/ Step(j)

Spec == Init /\ [][Next]_vars

(* A call that was started is run to its end by its thread. *)
FairSpec == Spec /\ \A j \in Jobs : WF_vars(Step(j))

-----------------------------------------------------------------------------
(* Properties *)

Segments == Seq((Audios \cup {Uninit}) \X Nat)

Replies == {NoReply}
    \cup [kind : {"text"}, text : Segments]
    \cup [kind : {"error"}, why : {"missing", "not_wav", "-6", "-7", "-8", "-9"}]

Places == {"idle", "check", "read", "clear", "mel", "length", "window", "decode",
           "text", "segment", "append", "close"}

TypeOK ==
    /\ app \in Apps
    /\ contextPtr \in {"unset", "null", "ptr"}
    /\ context \in {"none", "alive", "freed"}
    /\ state \in {"none", "alive", "freed"}
    /\ mel \in Audios \cup {Uninit}
    /\ encoded \in (Audios \cup {Uninit}) \X Nat
    /\ result_all \in Segments
    /\ wide_kv \in BOOLEAN
    /\ stale \subseteq Jobs
    /\ fault \subseteq {"use_after_free", "double_free", "uninitialised"}
    /\ closes \in 0..2
    /\ pc \in [Jobs -> Places]
    /\ file \in [Jobs -> Files \cup {NoFile}]
    /\ audio \in [Jobs -> Audios \cup {NoAudio}]
    /\ seek \in [Jobs -> Nat] /\ seek_end \in [Jobs -> Nat]
    /\ n_segments \in [Jobs -> Nat] /\ copied \in [Jobs -> Segments]
    /\ reply \in [Jobs -> Replies]
    /\ overlapped \subseteq Jobs

Answered(j) == reply[j].kind = "text"

(* The text a call returns for a readable audio is the whole text of that  *)
(* audio, in order, with nothing left over from an earlier call, failed or *)
(* overlapped, if no other transcription was in native code between its    *)
(* clear() and the last segment it read: the results, the spectrogram and  *)
(* the seek range live in the shared state, each whisper_full rebuilds     *)
(* them, and getTranscriptionText is a second call that reads them.        *)
OwnText == \A j \in Jobs \ overlapped :
    Answered(j) /\ audio[j] \in Audios => reply[j].text = Text(audio[j])

(* End to end: a well-formed WAV file, whatever chunks it has around its   *)
(* samples and however long its fmt chunk is, is transcribed as the speech *)
(* it holds, as long as no chunk of odd size stands before the data (the   *)
(* loop does not skip the byte such a chunk is padded with).               *)
WavFilesTranscribed == \A j \in Jobs \ overlapped :
    (/\ Answered(j) /\ file[j] # NoFile
     /\ WellFormed(file[j]) /\ EvenBeforeData(file[j])
     /\ file[j].audio # NoAudio)
        => reply[j].text = Text(file[j].audio)

(* An application that closes the context once, after its last call, never *)
(* reaches freed memory and releases nothing twice, whatever its calls     *)
(* fail at and however they overlap outside of native code, as long as the *)
(* wide KV cache can be allocated and no two transcriptions were in native *)
(* code at once (whisper.h: "Not thread safe for same context").           *)
NoUseAfterFree ==
    app.close_last /\ ~app.alloc_may_fail /\ overlapped = {} => ~Stopped

(* The same when memory is tight: whisper_full reports an error, and the   *)
(* context can still be closed (whisper.h: "Frees all allocated memory").  *)
MemoryErrorIsHarmless == app.close_last => ~Stopped


(* A call never returns speech of another audio than the one it was given  *)
(* (WhisperContext.kt: "@return Transcribed text").                        *)
NoForeignText == \A j \in Jobs : Answered(j) =>
    \A i \in DOMAIN reply[j].text :
        reply[j].text[i][1] \in Audios => reply[j].text[i][1] = audio[j]

=============================================================================
