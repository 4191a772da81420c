----------------------- MODULE WhisperSession_proofs -----------------------
(***************************************************************************)
(* Proofs about WhisperSession, for every set of coroutines, audios and    *)
(* files and for every number of overlapping calls: its types, memory that *)
(* is not used after it is freed, and whose text a call returns, for the   *)
(* samples or the file it is given.                                        *)
(***************************************************************************)
EXTENDS WhisperSession, FiniteSetTheorems, SequenceTheorems, WellFoundedInduction,
        NaturalsInduction, TLAPS

(* The values a call may leave in results and replies. *)
LEMMA SegmentTypes ==
    /\ <<>> \in Segments
    /\ \A s \in Segments, a \in Audios \cup {Uninit}, w \in Nat :
          Append(s, <<a, w>>) \in Segments
<1>1. <<>> \in Segments
  BY DEF Segments
<1>2. ASSUME NEW s \in Segments, NEW a \in Audios \cup {Uninit},
             NEW w \in Nat
      PROVE  Append(s, <<a, w>>) \in Segments
  <2> DEFINE S == (Audios \cup {Uninit}) \X Nat
  <2>1. <<a, w>> \in S
    OBVIOUS
  <2>2. s \in Seq(S)
    BY DEF Segments
  <2> HIDE DEF S
  <2>3. Append(s, <<a, w>>) \in Seq(S)
    BY <2>1, <2>2
  <2> QED BY <2>3 DEF S, Segments
<1> QED BY <1>1, <1>2

LEMMA ReplyTypes ==
    /\ NoReply \in Replies
    /\ \A t \in Segments : Answer(t) \in Replies
    /\ \A e \in {"missing", "not_wav", "-6", "-7", "-8", "-9"} :
          Error(e) \in Replies
BY DEF Replies, NoReply, Answer, Error

(* A call that is about to read its file has one; no call that runs has an *)
(* answer yet.                                                             *)
Checked == \A j \in Jobs :
    /\ pc[j] \in {"check", "read"} => file[j] \in Files
    /\ pc[j] # "idle" => ~Answered(j)

(* The pointer a call holds is to a segment there is, unless it is stale. *)
Pointed == \A j \in Jobs :
    pc[j] = "append" /\ j \notin stale => Len(copied[j]) < Len(result_all)

TypeInv == TypeOK /\ Checked /\ Pointed

(* What a step of one call leaves alone. *)
SameCall(k) ==
    /\ pc'[k] = pc[k] /\ file'[k] = file[k] /\ audio'[k] = audio[k]
    /\ seek'[k] = seek[k] /\ seek_end'[k] = seek_end[k]
    /\ n_segments'[k] = n_segments[k] /\ copied'[k] = copied[k]
    /\ reply'[k] = reply[k]

Local(j) ==
    /\ UNCHANGED <<app, closes, file>> /\ ~Stopped
    /\ pc[j] # "idle"
    /\ audio' = audio \/ ReadWavFile(j)
    /\ \A k \in Jobs \ {j} : SameCall(k)

LEMMA ReturnLocal ==
    ASSUME TypeOK, NEW j \in Jobs, NEW r, Return(j, r), UNCHANGED argument
    PROVE  \A k \in Jobs \ {j} : SameCall(k)
BY DEF Return, Go, SameCall, argument, TypeOK

LEMMA TouchLocal ==
    ASSUME TypeOK, NEW j \in Jobs, TouchFreed(j)
    PROVE  /\ \A k \in Jobs : SameCall(k)
           /\ UNCHANGED <<app, closes, file, audio>>
BY DEF TouchFreed, SameCall, call, client, argument, locals

LEMMA StepLocal ==
    ASSUME TypeOK, NEW j \in Jobs, Step(j)
    PROVE  Local(j)
<1>1. ASSUME TouchFreed(j), ~Stopped, pc[j] # "idle" PROVE Local(j)
  BY <1>1, TouchLocal DEF Local
<1>2. ASSUME NEW r, Return(j, r), UNCHANGED argument, ~Stopped, pc[j] # "idle",
             UNCHANGED <<app, closes>>
      PROVE  Local(j)
  BY <1>2, ReturnLocal DEF Local, argument
<1>3. CASE CheckFile(j)
  <2>1. CASE \E r : Return(j, r)
    BY <1>2, <1>3, <2>1 DEF CheckFile, client
  <2>2. CASE Go(j, "read") /\ UNCHANGED <<locals, reply>>
    BY <1>3, <2>2 DEF CheckFile, Go, Local, SameCall, client, locals, argument, TypeOK
  <2>3. QED
    BY <1>3, <2>1, <2>2 DEF CheckFile
<1>4. CASE ReadWavFile(j)
  BY <1>4 DEF ReadWavFile, Go, Local, SameCall, client, locals, TypeOK
<1>5. CASE ClearResults(j)
  BY <1>1, <1>5 DEF ClearResults, Go, Local, SameCall, call, locals, argument, TypeOK
<1>6. CASE PcmToMel(j)
  BY <1>1, <1>6
     DEF PcmToMel, Go, Local, SameCall, client, call, locals, argument, TypeOK
<1>7. CASE ReadLength(j)
  BY <1>1, <1>7
     DEF ReadLength, Go, Local, SameCall, client, argument, TypeOK
<1>8. CASE Encode(j)
  <2>1. CASE Return(j, Error("-6")) /\ UNCHANGED <<native, client, argument>>
    BY <1>2, <1>8, <2>1 DEF Encode, client
  <2>2. QED
    BY <1>1, <1>8, <2>1
       DEF Encode, Go, Local, SameCall, client, call, locals, argument, TypeOK
<1>9. CASE Decode(j)
  <2>0. pc[j] # "idle" /\ ~Stopped
    BY <1>9 DEF Decode
  <2>1. CASE WindowDone(j)
    BY <2>0, <2>1 DEF WindowDone, Go, Local, SameCall, client, argument, TypeOK
  <2>2. CASE WindowFails(j) \/ WindowOutOfMemory(j)
    BY <1>2, <2>0, <2>2 DEF WindowFails, WindowOutOfMemory, client
  <2>3. CASE Regrow(j)
    BY <2>0, <2>3 DEF Regrow, Local, SameCall, client, call, locals, argument
  <2>4. QED
    BY <1>1, <1>9, <2>0, <2>1, <2>2, <2>3 DEF Decode
<1>10. CASE CountSegments(j)
  <2>1. CASE Return(j, Answer(<<>>)) /\ UNCHANGED <<native, client, argument>>
    BY <1>2, <1>10, <2>1 DEF CountSegments, client
  <2>2. QED
    BY <1>1, <1>10, <2>1
       DEF CountSegments, Go, Local, SameCall, client, argument, TypeOK
<1>11. CASE GetSegmentText(j)
  BY <1>1, <1>11
     DEF GetSegmentText, Go, Local, SameCall, client, call, locals, argument, TypeOK
<1>12. CASE AppendText(j)
  <2> DEFINE text == Append(copied[j], result_all[Len(copied[j]) + 1])
  <2>1. CASE Return(j, Answer(text)) /\ UNCHANGED <<native, client, argument>>
    BY <1>2, <1>12, <2>1 DEF AppendText, client
  <2>2. QED
    BY <1>1, <1>12, <2>1
       DEF AppendText, Go, Local, SameCall, client, argument, TypeOK
<1>13. CASE Close(j)
  <2>1. pc[j] # "idle" /\ ~Stopped /\ Return(j, NoReply) /\ UNCHANGED argument
        /\ UNCHANGED <<app, closes>>
    BY <1>13 DEF Close, client
  <2>2. QED
    BY <1>2, <2>1
<1>14. QED
  BY <1>3, <1>4, <1>5, <1>6, <1>7, <1>8, <1>9, <1>10, <1>11, <1>12, <1>13 DEF Step

LEMMA StepReply ==
    ASSUME TypeOK, NEW j \in Jobs, Step(j)
    PROVE  pc'[j] = "idle" \/ reply' = reply
<1>0. pc \in [Jobs -> Places]
  BY DEF TypeOK
<1>1. ASSUME NEW r, Return(j, r) PROVE pc'[j] = "idle"
  BY <1>0, <1>1 DEF Return, Go
<1>2. CASE TouchFreed(j)
  BY <1>2 DEF TouchFreed, call
<1>3. CASE CheckFile(j) \/ ReadWavFile(j) \/ Close(j)
  BY <1>1, <1>3 DEF CheckFile, ReadWavFile, Close
<1>4. CASE ClearResults(j) \/ PcmToMel(j) \/ ReadLength(j) \/ Encode(j)
  BY <1>1, <1>2, <1>4 DEF ClearResults, PcmToMel, ReadLength, Encode, call
<1>5. CASE Decode(j)
  BY <1>1, <1>2, <1>5
     DEF Decode, WindowDone, WindowFails, WindowOutOfMemory, Regrow, call
<1>6. CASE CountSegments(j) \/ GetSegmentText(j) \/ AppendText(j)
  BY <1>1, <1>2, <1>6 DEF CountSegments, GetSegmentText, AppendText, call
<1>7. QED
  BY <1>3, <1>4, <1>5, <1>6 DEF Step

(* The types of a call's locals, and of everything else. *)
CallTypes ==
    /\ pc \in [Jobs -> Places]
    /\ seek \in [Jobs -> Nat] /\ seek_end \in [Jobs -> Nat]
    /\ n_segments \in [Jobs -> Nat] /\ copied \in [Jobs -> Segments]
    /\ reply \in [Jobs -> Replies]

LEMMA ReturnTypes ==
    ASSUME CallTypes, NEW j \in Jobs, NEW r \in Replies, Return(j, r)
    PROVE  CallTypes' /\ pc'[j] = "idle"
<1>1. pc' \in [Jobs -> Places] /\ pc'[j] = "idle"
  BY DEF Return, Go, CallTypes, Places
<1>2. seek' \in [Jobs -> Nat] /\ seek_end' \in [Jobs -> Nat] /\ n_segments' \in [Jobs -> Nat]
  BY DEF Return, CallTypes
<1>3. copied' \in [Jobs -> Segments] /\ reply' \in [Jobs -> Replies]
  BY SegmentTypes DEF Return, CallTypes
<1>4. QED
  BY <1>1, <1>2, <1>3 DEF CallTypes

LEMMA GoTypes ==
    ASSUME pc \in [Jobs -> Places], NEW j \in Jobs, NEW l \in Places, Go(j, l)
    PROVE  pc' \in [Jobs -> Places] /\ pc'[j] = l
BY DEF Go

SharedTypes ==
    /\ contextPtr \in {"unset", "null", "ptr"}
    /\ context \in {"none", "alive", "freed"}
    /\ state \in {"none", "alive", "freed"}
    /\ mel \in Audios \cup {Uninit}
    /\ encoded \in (Audios \cup {Uninit}) \X Nat
    /\ result_all \in Segments
    /\ wide_kv \in BOOLEAN
    /\ stale \subseteq Jobs
    /\ fault \subseteq {"use_after_free", "double_free", "uninitialised"}

LEMMA TypesAre ==
    TypeOK <=> /\ app \in Apps /\ closes \in 0..2 /\ overlapped \subseteq Jobs
               /\ file \in [Jobs -> Files \cup {NoFile}]
               /\ audio \in [Jobs -> Audios \cup {NoAudio}]
               /\ CallTypes /\ SharedTypes
BY DEF TypeOK, CallTypes, SharedTypes

(* What a step does to the pointers of other calls and to its own. *)
Pointers(j) ==
    /\ \/ stale \subseteq stale' /\ Len(result_all) <= Len(result_all')
       \/ Copying \subseteq stale'
    /\ pc'[j] = "append" => \/ Len(copied'[j]) < Len(result_all')
                            \/ UNCHANGED <<pc, stale, copied, result_all>>

Typed(j) ==
    /\ CallTypes' /\ SharedTypes' /\ overlapped' \subseteq Jobs
    /\ Pointers(j)
    /\ pc'[j] \in {"check", "read"} =>
          pc[j] \in {"check", "read"} /\ UNCHANGED file

LEMMA StepTyped ==
    ASSUME TypeInv, NEW j \in Jobs, Step(j)
    PROVE  Typed(j)
<1>0. /\ TypeOK /\ Checked /\ Pointed /\ CallTypes /\ SharedTypes
      /\ overlapped \subseteq Jobs /\ audio \in [Jobs -> Audios \cup {NoAudio}]
  BY TypesAre DEF TypeInv
<1>00. Len(result_all) \in Nat /\ Len(copied[j]) \in Nat
  BY <1>0 DEF SharedTypes, CallTypes, Segments
<1>1. ASSUME TouchFreed(j), pc[j] \notin {"check", "read"} PROVE Typed(j)
  <2>1. SharedTypes'
    BY <1>0, <1>1 DEF TouchFreed, SharedTypes, objects
  <2>2. UNCHANGED <<pc, copied, result_all, stale, overlapped>> /\ CallTypes'
    BY <1>0, <1>1 DEF TouchFreed, client, call, locals, CallTypes
  <2>3. QED
    BY <1>0, <1>00, <1>1, <2>1, <2>2 DEF Typed, Pointers
<1>2. ASSUME NEW r \in Replies, Return(j, r), SharedTypes', overlapped' = overlapped,
             stale' = stale, result_all' = result_all
      PROVE  Typed(j)
  <2>1. CallTypes' /\ pc'[j] = "idle"
    BY <1>0, <1>2, ReturnTypes
  <2>2. QED
    BY <1>0, <1>00, <1>2, <2>1 DEF Typed, Pointers
<1>3. CASE CheckFile(j)
  <2>1. SharedTypes' /\ UNCHANGED <<file, overlapped, stale, result_all>>
    BY <1>0, <1>3 DEF CheckFile, native, client, argument, objects, SharedTypes
  <2>2. ASSUME NEW e \in {"missing", "not_wav"}, Return(j, Error(e)) PROVE Typed(j)
    <3>1. Error(e) \in Replies
      BY <2>2, ReplyTypes
    <3>2. QED
      BY <1>2, <2>1, <2>2, <3>1
  <2>3. CASE Go(j, "read") /\ UNCHANGED <<locals, reply>>
    <3>1. pc' \in [Jobs -> Places] /\ pc'[j] = "read"
      BY <1>0, <2>3, GoTypes DEF CallTypes, Places
    <3>2. pc[j] = "check"
      BY <1>3 DEF CheckFile
    <3>3. CallTypes'
      BY <1>0, <2>3, <3>1 DEF CallTypes, locals
    <3>4. QED
      BY <1>0, <1>00, <2>1, <2>3, <3>1, <3>2, <3>3 DEF Typed, Pointers
  <2>4. QED
    BY <1>3, <2>2, <2>3 DEF CheckFile
<1>4. CASE ReadWavFile(j)
  <2>1. SharedTypes' /\ UNCHANGED <<overlapped, stale, result_all>>
    BY <1>0, <1>4 DEF ReadWavFile, native, client, objects, SharedTypes
  <2>2. pc' \in [Jobs -> Places] /\ pc'[j] = "clear"
    BY <1>0, <1>4, GoTypes DEF ReadWavFile, CallTypes, Places
  <2>3. CallTypes'
    BY <1>0, <1>4, <2>2 DEF ReadWavFile, CallTypes, locals
  <2>4. QED
    BY <1>0, <1>00, <2>1, <2>2, <2>3 DEF Typed, Pointers
<1>5. CASE ClearResults(j) /\ Go(j, "mel")
  <2>1. pc' \in [Jobs -> Places] /\ pc'[j] = "mel"
    BY <1>0, <1>5, GoTypes DEF CallTypes, Places
  <2>2. CASE TouchFreed(j)
    BY <1>1, <1>5, <2>2 DEF ClearResults
  <2>3. CASE ~TouchFreed(j)
    <3>1. /\ result_all' = <<>> /\ stale' = stale \cup Copying /\ Overlaps(j)
          /\ UNCHANGED <<objects, mel, encoded, wide_kv, fault, app, closes, call>>
      BY <1>5, <2>3 DEF ClearResults
    <3>2. SharedTypes'
      BY <1>0, <3>1, SegmentTypes DEF SharedTypes, objects, Copying
    <3>3. overlapped' \subseteq Jobs
      BY <1>0, <3>1 DEF Overlaps, Inside
    <3>4. CallTypes'
      BY <1>0, <2>1, <3>1 DEF CallTypes, call, locals
    <3>5. QED
      BY <2>1, <3>1, <3>2, <3>3, <3>4 DEF Typed, Pointers
  <2>4. QED
    BY <2>2, <2>3
<1>6. CASE PcmToMel(j) /\ Go(j, "length") /\ ~TouchFreed(j)
  <2>1. pc' \in [Jobs -> Places] /\ pc'[j] = "length"
    BY <1>0, <1>6, GoTypes DEF CallTypes, Places
  <2>2. /\ mel' = IF audio[j] = NoAudio THEN mel ELSE audio[j]
        /\ UNCHANGED <<objects, encoded, result_all, wide_kv, stale, fault,
                       client, call>>
    BY <1>6 DEF PcmToMel
  <2>3. mel' \in Audios \cup {Uninit}
    BY <1>0, <2>2 DEF SharedTypes
  <2>4. SharedTypes' /\ overlapped' = overlapped
    BY <1>0, <2>2, <2>3 DEF SharedTypes, objects, client
  <2>5. CallTypes'
    BY <1>0, <2>1, <2>2 DEF CallTypes, call, locals
  <2>6. QED
    BY <1>0, <1>00, <2>1, <2>2, <2>4, <2>5 DEF Typed, Pointers
<1>7. CASE ReadLength(j) /\ ~TouchFreed(j)
  <2>1. PICK n \in MelLength :
            /\ seek_end' = [seek_end EXCEPT ![j] = n]
            /\ Go(j, IF n = 0 THEN "text" ELSE "window")
    BY <1>7 DEF ReadLength
  <2>2. /\ seek' = [seek EXCEPT ![j] = 0]
        /\ fault' = fault \/ fault' = fault \cup {"uninitialised"}
        /\ UNCHANGED <<objects, mel, encoded, result_all, wide_kv, stale,
                       client, argument, n_segments, copied, reply>>
    BY <1>7 DEF ReadLength
  <2>3. MelLength \subseteq Nat
    BY <1>0, SessionAssumption DEF MelLength, SharedTypes
  <2>4. pc' \in [Jobs -> Places] /\ pc'[j] \in {"text", "window"}
    BY <1>0, <2>1, GoTypes DEF CallTypes, Places
  <2>5. seek_end' \in [Jobs -> Nat] /\ seek' \in [Jobs -> Nat]
    BY <1>0, <2>1, <2>2, <2>3 DEF CallTypes
  <2>6. CallTypes'
    BY <1>0, <2>2, <2>4, <2>5 DEF CallTypes
  <2>7. fault' \subseteq {"use_after_free", "double_free", "uninitialised"}
    BY <1>0, <2>2 DEF SharedTypes
  <2>8. SharedTypes' /\ overlapped' = overlapped
    BY <1>0, <2>2, <2>7 DEF SharedTypes, objects, client
  <2>9. QED
    BY <1>0, <1>00, <2>2, <2>4, <2>6, <2>8 DEF Typed, Pointers
<1>8. CASE Encode(j) /\ ~TouchFreed(j)
  <2>1. CASE Return(j, Error("-6")) /\ UNCHANGED <<native, client, argument>>
    <3>1. SharedTypes' /\ UNCHANGED <<overlapped, stale, result_all>>
      BY <1>0, <2>1 DEF native, client, objects, SharedTypes
    <3>2. Error("-6") \in Replies
      BY ReplyTypes
    <3>3. QED
      BY <1>2, <2>1, <3>1, <3>2
  <2>2. CASE /\ encoded' = <<mel, seek[j] + 1>>
             /\ Go(j, "decode")
             /\ UNCHANGED <<objects, mel, result_all, wide_kv, stale, fault,
                            client, call>>
    <3>1. pc' \in [Jobs -> Places] /\ pc'[j] = "decode"
      BY <1>0, <2>2, GoTypes DEF CallTypes, Places
    <3>2. CallTypes'
      BY <1>0, <2>2, <3>1 DEF CallTypes, call, locals
    <3>3. seek[j] + 1 \in Nat /\ mel \in Audios \cup {Uninit}
      BY <1>0 DEF CallTypes, SharedTypes
    <3>4. encoded' \in (Audios \cup {Uninit}) \X Nat
      BY <2>2, <3>3
    <3>5. SharedTypes' /\ overlapped' = overlapped
      BY <1>0, <2>2, <3>4 DEF SharedTypes, objects, client
    <3>6. QED
      BY <1>0, <1>00, <2>2, <3>1, <3>2, <3>5 DEF Typed, Pointers
  <2>3. QED
    BY <1>8, <2>1, <2>2 DEF Encode
<1>9. CASE WindowDone(j)
  <2>1. pc' \in [Jobs -> Places] /\ pc'[j] \in {"text", "window"}
    BY <1>0, <1>9, GoTypes DEF WindowDone, CallTypes, Places
  <2>2. /\ seek' = [seek EXCEPT ![j] = @ + 1] /\ result_all' = Append(result_all, encoded)
        /\ stale \subseteq stale' /\ stale' \subseteq stale \cup Copying
        /\ UNCHANGED <<objects, mel, encoded, wide_kv, fault, client, seek_end,
                       n_segments, copied, reply>>
    BY <1>9 DEF WindowDone, Freed
  <2>3. seek' \in [Jobs -> Nat]
    BY <1>0, <2>2 DEF CallTypes
  <2>4. CallTypes'
    BY <1>0, <2>1, <2>2, <2>3 DEF CallTypes
  <2>5. Append(result_all, encoded) \in Segments
        /\ Len(Append(result_all, encoded)) = Len(result_all) + 1
    BY <1>0 DEF SharedTypes, Segments
  <2>6. stale' \subseteq Jobs
    BY <1>0, <2>2 DEF SharedTypes, Copying
  <2>7. SharedTypes' /\ overlapped' = overlapped
    BY <1>0, <2>2, <2>5, <2>6 DEF SharedTypes, objects, client
  <2>8. QED
    BY <1>0, <1>00, <2>1, <2>2, <2>4, <2>5, <2>7 DEF Typed, Pointers
<1>10. CASE WindowFails(j) \/ WindowOutOfMemory(j)
  <2>1. PICK rc \in {"-7", "-8", "-9"} : Return(j, Error(rc))
    BY <1>10 DEF WindowFails, WindowOutOfMemory
  <2>2. Error(rc) \in Replies
    BY <2>1, ReplyTypes
  <2>3. SharedTypes' /\ UNCHANGED <<overlapped, stale, result_all>>
    <3>1. CASE WindowFails(j)
      BY <1>0, <3>1 DEF WindowFails, native, client, objects, SharedTypes
    <3>2. CASE WindowOutOfMemory(j)
      BY <1>0, <3>2 DEF WindowOutOfMemory, client, SharedTypes
    <3>3. QED
      BY <1>10, <3>1, <3>2
  <2>4. QED
    BY <1>2, <2>1, <2>2, <2>3
<1>11. CASE Regrow(j) /\ pc[j] = "decode"
  <2>1. /\ wide_kv' = TRUE /\ stale \subseteq stale' /\ stale' \subseteq stale \cup Decoding
        /\ UNCHANGED <<objects, mel, encoded, result_all, fault, client, pc, call>>
    BY <1>11 DEF Regrow, Freed
  <2>2. stale' \subseteq Jobs
    BY <1>0, <2>1 DEF SharedTypes, Decoding
  <2>3. SharedTypes' /\ overlapped' = overlapped
    BY <1>0, <2>1, <2>2 DEF SharedTypes, objects, client
  <2>4. CallTypes'
    BY <1>0, <2>1 DEF CallTypes, call, locals
  <2>5. QED
    BY <1>0, <1>00, <1>11, <2>1, <2>3, <2>4 DEF Typed, Pointers
<1>12. CASE CountSegments(j) /\ ~TouchFreed(j)
  <2>0. SharedTypes' /\ UNCHANGED <<overlapped, stale, result_all>>
    BY <1>0, <1>12 DEF CountSegments, native, client, objects, SharedTypes
  <2>1. CASE Return(j, Answer(<<>>))
    <3>1. Answer(<<>>) \in Replies
      BY SegmentTypes, ReplyTypes
    <3>2. QED
      BY <1>2, <2>0, <2>1, <3>1
  <2>2. CASE /\ n_segments' = [n_segments EXCEPT ![j] = Len(result_all)]
             /\ Go(j, "segment")
             /\ UNCHANGED <<native, client, argument, seek, seek_end, copied, reply>>
    <3>1. pc' \in [Jobs -> Places] /\ pc'[j] = "segment"
      BY <1>0, <2>2, GoTypes DEF CallTypes, Places
    <3>2. n_segments' \in [Jobs -> Nat]
      BY <1>0, <1>00, <2>2 DEF CallTypes
    <3>3. CallTypes'
      BY <1>0, <2>2, <3>1, <3>2 DEF CallTypes
    <3>4. QED
      BY <1>0, <1>00, <2>0, <3>1, <3>3 DEF Typed, Pointers
  <2>3. QED
    BY <1>12, <2>1, <2>2 DEF CountSegments
<1>13. CASE GetSegmentText(j) /\ ~TouchFreed(j)
  <2>1. /\ Len(copied[j]) < Len(result_all) /\ Go(j, "append")
        /\ UNCHANGED <<native, client, call>>
    BY <1>00, <1>13 DEF GetSegmentText
  <2>2. SharedTypes' /\ UNCHANGED <<overlapped, stale, result_all, copied>>
    BY <1>0, <2>1 DEF native, client, call, locals, objects, SharedTypes
  <2>3. pc' \in [Jobs -> Places] /\ pc'[j] = "append"
    BY <1>0, <2>1, GoTypes DEF CallTypes, Places
  <2>4. CallTypes'
    BY <1>0, <2>1, <2>3 DEF CallTypes, call, locals
  <2>5. QED
    BY <1>0, <1>00, <2>1, <2>2, <2>3, <2>4 DEF Typed, Pointers
<1>14. CASE AppendText(j) /\ ~TouchFreed(j)
  <2> DEFINE text == Append(copied[j], result_all[Len(copied[j]) + 1])
  <2>0. SharedTypes' /\ UNCHANGED <<overlapped, stale, result_all>>
    BY <1>0, <1>14 DEF AppendText, native, client, objects, SharedTypes
  <2>1. Len(copied[j]) < Len(result_all)
    BY <1>0, <1>14 DEF AppendText, Pointed
  <2>2. text \in Segments
    <3> DEFINE S == (Audios \cup {Uninit}) \X Nat
    <3>1. result_all \in Seq(S) /\ copied[j] \in Seq(S)
      BY <1>0 DEF SharedTypes, CallTypes, Segments
    <3>2. Len(copied[j]) + 1 \in 1..Len(result_all)
      BY <1>00, <2>1
    <3> HIDE DEF S
    <3>3. result_all[Len(copied[j]) + 1] \in S
      BY <3>1, <3>2
    <3>4. text \in Seq(S)
      BY <3>1, <3>3
    <3>5. QED
      BY <3>4 DEF S, Segments
  <2>3. CASE Return(j, Answer(text))
    <3>1. Answer(text) \in Replies
      BY <2>2, ReplyTypes
    <3>2. QED
      BY <1>2, <2>0, <2>3, <3>1
  <2>4. CASE /\ copied' = [copied EXCEPT ![j] = text]
             /\ Go(j, "segment")
             /\ UNCHANGED <<native, client, argument, seek, seek_end, n_segments, reply>>
    <3>1. pc' \in [Jobs -> Places] /\ pc'[j] = "segment"
      BY <1>0, <2>4, GoTypes DEF CallTypes, Places
    <3>2. copied' \in [Jobs -> Segments]
      BY <1>0, <2>2, <2>4 DEF CallTypes
    <3>3. CallTypes'
      BY <1>0, <2>4, <3>1, <3>2 DEF CallTypes
    <3>4. QED
      BY <1>0, <1>00, <2>0, <3>1, <3>3 DEF Typed, Pointers
  <2>5. QED
    BY <1>14, <2>3, <2>4 DEF AppendText
<1>15. CASE Close(j)
  <2>1. Return(j, NoReply) /\ UNCHANGED <<overlapped, stale, result_all>>
    BY <1>15 DEF Close, client
  <2>2. SharedTypes'
    BY <1>0, <1>15 DEF Close, SharedTypes
  <2>3. QED
    BY <1>2, <2>1, <2>2, ReplyTypes
<1>16. QED
  <2>1. CASE TouchFreed(j) /\ pc[j] \notin {"check", "read"}
    BY <1>1, <2>1
  <2>2. CASE ~TouchFreed(j)
    BY <1>3, <1>4, <1>5, <1>6, <1>7, <1>8, <1>9, <1>10, <1>11, <1>12, <1>13, <1>14,
       <1>15, <2>2
       DEF Step, ClearResults, PcmToMel, Decode
  <2>3. CASE pc[j] \in {"check", "read"}
    BY <1>3, <1>4, <2>3
       DEF Step, ClearResults, PcmToMel, ReadLength, Encode, Decode, CountSegments,
           GetSegmentText, AppendText, Close
  <2>4. QED
    BY <2>1, <2>2, <2>3

LEMMA StepTypeInv ==
    ASSUME TypeInv, NEW j \in Jobs, Step(j)
    PROVE  TypeInv'
<1>0. TypeOK /\ Checked /\ Pointed /\ CallTypes /\ SharedTypes
  BY TypesAre DEF TypeInv
<1>1. Local(j) /\ Typed(j)
  BY <1>0, StepLocal, StepTyped
<1>2. audio' \in [Jobs -> Audios \cup {NoAudio}]
  <2>1. CASE audio' = audio
    BY <1>0, <2>1 DEF TypeOK
  <2>2. CASE ReadWavFile(j)
    <3>1. ReadWav(file[j]) \in Audios \cup {NoAudio}
      BY <1>0, <2>2, SessionAssumption DEF ReadWavFile, Checked
    <3>2. QED
      BY <1>0, <2>2, <3>1 DEF ReadWavFile, TypeOK
  <2>3. QED
    BY <1>1, <2>1, <2>2 DEF Local
<1>3. TypeOK'
  <2>1. /\ app \in Apps /\ closes \in 0..2 /\ file \in [Jobs -> Files \cup {NoFile}]
        /\ UNCHANGED <<app, closes, file>> /\ CallTypes' /\ SharedTypes'
        /\ overlapped' \subseteq Jobs
    BY <1>0, <1>1 DEF TypeOK, Local, Typed
  <2>2. QED
    BY <1>2, <2>1 DEF TypeOK, CallTypes, SharedTypes
<1>4. Checked'
  <2>1. pc'[j] \in {"check", "read"} => file'[j] \in Files
    BY <1>0, <1>1 DEF Typed, Checked
  <2>2. pc'[j] # "idle" => ~Answered(j)'
    BY <1>0, <1>1, StepReply DEF Local, Checked, Answered
  <2>3. QED
    BY <1>0, <1>1, <2>1, <2>2 DEF Local, SameCall, Checked, Answered
<1>5. Pointed'
  <2> SUFFICES ASSUME NEW k \in Jobs, pc'[k] = "append", k \notin stale'
               PROVE  Len(copied'[k]) < Len(result_all')
    BY DEF Pointed
  <2>0. Len(copied'[k]) \in Nat /\ Len(result_all) \in Nat /\ Len(result_all') \in Nat
    <3>1. copied'[k] \in Segments /\ result_all \in Segments /\ result_all' \in Segments
      BY <1>0, <1>1 DEF Typed, CallTypes, SharedTypes
    <3>2. \A s \in Segments : Len(s) \in Nat
      BY DEF Segments
    <3>3. QED
      BY <3>1, <3>2
  <2>1. CASE k = j
    BY <1>0, <1>1, <2>1 DEF Typed, Pointers, Pointed
  <2>2. CASE k # j
    <3>1. pc[k] = "append" /\ copied'[k] = copied[k]
      BY <1>1, <2>2 DEF Local, SameCall
    <3>2. stale \subseteq stale' /\ Len(result_all) <= Len(result_all')
      BY <1>1, <3>1 DEF Typed, Pointers, Copying
    <3>3. Len(copied[k]) < Len(result_all)
      BY <1>0, <3>1, <3>2 DEF Pointed
    <3>4. QED
      BY <2>0, <3>1, <3>2, <3>3
  <2>3. QED
    BY <2>1, <2>2
<1>6. QED
  BY <1>3, <1>4, <1>5 DEF TypeInv

(* The beginning of a call. *)
Begins(j) ==
    /\ contextPtr = "ptr" /\ ~Stopped /\ pc[j] = "idle"
    /\ Cardinality(Busy) < app.max_in_flight
    /\ \E l \in {"check", "clear", "close"} : Go(j, l)
    /\ reply' = [reply EXCEPT ![j] = NoReply]
    /\ UNCHANGED <<app, overlapped, native, locals>>

LEMMA CallBegins ==
    ASSUME NEW j \in Jobs, Call(j)
    PROVE  Begins(j)
BY DEF Call, CallTranscribeFile, CallTranscribeData, CallClose, MayCall, Begins, client

LEMMA CallTypeInv ==
    ASSUME TypeInv, NEW j \in Jobs, Call(j)
    PROVE  TypeInv'
<1>0. TypeOK /\ Checked /\ Pointed /\ CallTypes /\ SharedTypes
  BY TypesAre DEF TypeInv
<1>1. Begins(j)
  BY CallBegins
<1>2. /\ pc' \in [Jobs -> Places] /\ pc'[j] \in {"check", "clear", "close"}
      /\ \A k \in Jobs \ {j} : pc'[k] = pc[k]
  BY <1>0, <1>1 DEF Begins, Go, CallTypes, Places
<1>3. reply' \in [Jobs -> Replies] /\ ~Answered(j)'
      /\ \A k \in Jobs \ {j} : reply'[k] = reply[k]
  BY <1>0, <1>1, ReplyTypes DEF Begins, CallTypes, Answered, NoReply
<1>4. CallTypes'
  BY <1>0, <1>1, <1>2, <1>3 DEF CallTypes, Begins, locals
<1>5. SharedTypes' /\ UNCHANGED <<app, overlapped, stale, result_all, copied>>
  BY <1>0, <1>1 DEF Begins, native, objects, locals, SharedTypes
<1>6. /\ file' \in [Jobs -> Files \cup {NoFile}]
      /\ audio' \in [Jobs -> Audios \cup {NoAudio}] /\ closes' \in 0..2
      /\ pc'[j] = "check" => file'[j] \in Files
      /\ \A k \in Jobs \ {j} : file'[k] = file[k]
  <2>0. app \in Apps /\ app.audios \subseteq Audios /\ app.files \subseteq Files
        /\ closes \in 0..2 /\ file \in [Jobs -> Files \cup {NoFile}]
        /\ audio \in [Jobs -> Audios \cup {NoAudio}]
    BY <1>0, SessionAssumption DEF TypeOK
  <2>1. CASE CallTranscribeFile(j)
    BY <2>0, <2>1 DEF CallTranscribeFile, client
  <2>2. CASE CallTranscribeData(j)
    BY <1>0, <2>0, <2>2 DEF CallTranscribeData, client, Go, CallTypes
  <2>3. CASE CallClose(j)
    BY <1>0, <2>0, <2>3 DEF CallClose, argument, Go, CallTypes
  <2>4. QED
    BY <2>1, <2>2, <2>3 DEF Call
<1>7. TypeOK'
  <2>1. app' \in Apps /\ overlapped' \subseteq Jobs
    BY <1>0, <1>5 DEF TypeOK
  <2>2. QED
    BY <1>4, <1>5, <1>6, <2>1 DEF TypeOK, CallTypes, SharedTypes
<1>8. Checked'
  <2>1. /\ pc'[j] \in {"check", "read"} => file'[j] \in Files
        /\ ~Answered(j)'
    BY <1>2, <1>3, <1>6
  <2>2. QED
    BY <1>0, <1>2, <1>3, <1>6, <2>1 DEF Checked, Answered
<1>9. Pointed'
  BY <1>0, <1>2, <1>5 DEF Pointed
<1>10. QED
  BY <1>7, <1>8, <1>9 DEF TypeInv

LEMMA InitTypeInv ==
    ASSUME Init
    PROVE  TypeInv
<1>1. CallTypes
  <2>1. pc \in [Jobs -> Places]
    BY DEF Init, Places
  <2>2. seek \in [Jobs -> Nat] /\ seek_end \in [Jobs -> Nat] /\ n_segments \in [Jobs -> Nat]
    BY DEF Init
  <2>3. copied \in [Jobs -> Segments] /\ reply \in [Jobs -> Replies]
    BY SegmentTypes, ReplyTypes DEF Init
  <2>4. QED
    BY <2>1, <2>2, <2>3 DEF CallTypes
<1>2. SharedTypes
  <2>1. encoded \in (Audios \cup {Uninit}) \X Nat /\ result_all \in Segments
    BY SegmentTypes DEF Init
  <2>2. wide_kv \in BOOLEAN
    BY DEF Init
  <2>3. QED
    BY <2>1, <2>2 DEF Init, SharedTypes
<1>3. file \in [Jobs -> Files \cup {NoFile}] /\ audio \in [Jobs -> Audios \cup {NoAudio}]
  BY DEF Init
<1>4. app \in Apps /\ closes \in 0..2 /\ overlapped \subseteq Jobs
  BY DEF Init
<1>5. Checked /\ Pointed
  BY DEF Init, Checked, Pointed, Answered, NoReply
<1>6. QED
  BY <1>1, <1>2, <1>3, <1>4, <1>5, TypesAre DEF TypeInv

LEMMA TypeInvInductive ==
    /\ Init => TypeInv
    /\ TypeInv /\ [Next]_vars => TypeInv'
<1>1. Init => TypeInv
  BY InitTypeInv
<1>2. TypeInv /\ [Next]_vars => TypeInv'
  <2> SUFFICES ASSUME TypeInv, [Next]_vars PROVE TypeInv'
    OBVIOUS
  <2>1. CASE InitContext
    <3>1. UNCHANGED <<mel, encoded, result_all, wide_kv, stale, fault, client, pc, call>>
          /\ contextPtr' \in {"ptr", "null"}
          /\ context' \in {context, "alive", "freed"} /\ state' \in {state, "alive"}
      BY <2>1 DEF InitContext
    <3>2. TypeOK'
      BY <3>1 DEF TypeInv, TypeOK, client, call, argument, locals
    <3>3. QED
      BY <3>1, <3>2
         DEF TypeInv, Checked, Pointed, Answered, client, call, argument, locals
  <2>2. CASE UNCHANGED vars
    BY <2>2 DEF vars, TypeInv, TypeOK, Checked, Pointed, Answered
  <2>3. QED
    BY <2>1, <2>2, CallTypeInv, StepTypeInv DEF Next
<1>3. QED
  BY <1>1, <1>2

(* Every variable keeps its type, however the calls interleave. *)
THEOREM TypeCorrect == Spec => []TypeOK
<1>1. Init => TypeInv
  BY TypeInvInductive
<1>2. TypeInv /\ [Next]_vars => TypeInv'
  BY TypeInvInductive
<1>3. TypeInv => TypeOK
  BY DEF TypeInv
<1> QED BY <1>1, <1>2, <1>3, PTL DEF Spec

-----------------------------------------------------------------------------
(* Calls that no other transcription overlaps.                             *)

(* Such a call is alone inside native code, counted the segments there are *)
(* and has not copied them all; only memory of other calls is stale.       *)
Alone(j) ==
    /\ j \in Inside => Inside = {j}
    /\ pc[j] \in {"segment", "append"} =>
          n_segments[j] = Len(result_all) /\ Len(copied[j]) < n_segments[j]

AloneInv ==
    /\ TypeInv
    /\ stale \subseteq overlapped /\ stale \subseteq Copying \cup Decoding
    /\ \A j \in Jobs : pc[j] \notin {"segment", "append"} => copied[j] = <<>>
    /\ \A j \in Jobs \ overlapped : Alone(j)

(* A step outside of native code, or that meets freed memory, leaves what  *)
(* is shared alone, but for clear(), which counts as an overlap.           *)
Shared == <<mel, encoded, result_all, wide_kv, stale>>

LEMMA OutsideStep ==
    ASSUME TypeOK, NEW j \in Jobs, Step(j), j \notin Inside
    PROVE  \/ UNCHANGED <<Shared, overlapped>> /\ j \notin Inside'
           \/ ClearResults(j) /\ ~TouchFreed(j)
<1>1. pc[j] \in {"check", "read", "clear", "close"}
  BY DEF Inside, Step, CheckFile, ReadWavFile, ClearResults, PcmToMel, ReadLength,
         Encode, Decode, CountSegments, GetSegmentText, AppendText, Close
<1>2. CASE CheckFile(j)
  BY <1>2 DEF CheckFile, Return, Go, Shared, native, client, TypeOK, Inside
<1>3. CASE ReadWavFile(j)
  BY <1>3 DEF ReadWavFile, Go, Shared, native, client, TypeOK, Inside
<1>4. CASE Close(j)
  BY <1>4 DEF Close, Return, Go, Shared, client, TypeOK, Inside
<1>5. CASE TouchFreed(j)
  BY <1>5 DEF TouchFreed, Shared, client, Inside
<1>6. QED
  BY <1>1, <1>2, <1>3, <1>4, <1>5
     DEF Step, PcmToMel, ReadLength, Encode, Decode, CountSegments, GetSegmentText,
         AppendText

LEMMA InsideStep ==
    ASSUME AloneInv, NEW j \in Jobs, Step(j), j \in Inside
    PROVE  /\ overlapped' = overlapped /\ stale \subseteq stale'
           /\ stale' \subseteq stale \cup ((Copying \cup Decoding) \ {j})
           /\ j \in stale => TouchFreed(j)
           /\ pc'[j] \notin {"segment", "append"} => copied'[j] = <<>>
           /\ j \notin overlapped /\ pc'[j] \in {"segment", "append"} =>
                 n_segments'[j] = Len(result_all') /\ Len(copied'[j]) < n_segments'[j]
<1>0. /\ TypeOK /\ pc \in [Jobs -> Places]
      /\ pc[j] \in {"mel", "length", "window", "decode", "text", "segment", "append"}
      /\ stale \subseteq Copying \cup Decoding
      /\ pc[j] \notin {"segment", "append"} => copied[j] = <<>>
      /\ j \notin overlapped /\ pc[j] \in {"segment", "append"} =>
            n_segments[j] = Len(result_all) /\ Len(copied[j]) < n_segments[j]
      /\ copied \in [Jobs -> Segments] /\ n_segments \in [Jobs -> Nat]
  BY DEF AloneInv, Alone, TypeInv, TypeOK, Inside
<1>1. CASE TouchFreed(j)
  <2>1. UNCHANGED <<overlapped, stale, pc, copied, n_segments, result_all>>
    BY <1>1 DEF TouchFreed, client, call, locals
  <2>2. QED
    BY <1>0, <1>1, <2>1
<1>2. CASE j \in stale
  <2>1. TouchFreed(j)
    BY <1>0, <1>2 DEF Copying, Decoding, Step, CheckFile, ReadWavFile, ClearResults,
                      PcmToMel, ReadLength, Encode, Decode, CountSegments,
                      GetSegmentText, AppendText, Close
  <2>2. QED
    BY <1>1, <2>1
<1>3. ASSUME j \notin stale, overlapped' = overlapped, stale' = stale,
             pc'[j] \notin {"segment", "append"},
             copied'[j] = <<>>
      PROVE  /\ overlapped' = overlapped /\ stale \subseteq stale'
             /\ stale' \subseteq stale \cup ((Copying \cup Decoding) \ {j})
             /\ j \in stale => TouchFreed(j)
             /\ pc'[j] \notin {"segment", "append"} => copied'[j] = <<>>
             /\ j \notin overlapped /\ pc'[j] \in {"segment", "append"} =>
                   n_segments'[j] = Len(result_all') /\ Len(copied'[j]) < n_segments'[j]
  BY <1>3
<1>4. ASSUME NEW r, Return(j, r), UNCHANGED native, UNCHANGED client
      PROVE  /\ overlapped' = overlapped /\ stale' = stale
             /\ pc'[j] \notin {"segment", "append"} /\ copied'[j] = <<>>
  BY <1>0, <1>4 DEF Return, Go, native, client
<1>5. CASE j \notin stale /\ ~TouchFreed(j) /\ (PcmToMel(j) \/ ReadLength(j))
  <2>1. /\ overlapped' = overlapped /\ stale' = stale /\ copied' = copied
        /\ pc'[j] \in {"length", "text", "window"} /\ pc[j] \in {"mel", "length"}
    BY <1>0, <1>5 DEF PcmToMel, ReadLength, Go, client, call, locals
  <2>2. QED
    BY <1>0, <1>3, <1>5, <2>1
<1>6. CASE j \notin stale /\ ~TouchFreed(j) /\ Encode(j)
  <2>1. /\ overlapped' = overlapped /\ stale' = stale
        /\ pc'[j] \notin {"segment", "append"} /\ copied'[j] = <<>>
    BY <1>0, <1>4, <1>6 DEF Encode, Go, client, call, locals
  <2>2. QED
    BY <1>3, <1>6, <2>1
<1>7. CASE j \notin stale /\ pc[j] = "decode" /\ WindowDone(j)
  <2>1. /\ overlapped' = overlapped /\ stale \subseteq stale'
        /\ stale' \subseteq stale \cup Copying /\ copied' = copied
        /\ pc'[j] \in {"text", "window"}
    BY <1>0, <1>7 DEF WindowDone, Freed, Go, client
  <2>2. j \notin Copying
    BY <1>7 DEF Copying
  <2>3. QED
    BY <1>0, <1>7, <2>1, <2>2
<1>8. CASE j \notin stale /\ (WindowFails(j) \/ WindowOutOfMemory(j))
  <2>1. /\ overlapped' = overlapped /\ stale' = stale
        /\ pc'[j] \notin {"segment", "append"} /\ copied'[j] = <<>>
    BY <1>0, <1>8 DEF WindowFails, WindowOutOfMemory, Return, Go, native, client
  <2>2. QED
    BY <1>3, <1>8, <2>1
<1>9. CASE j \notin stale /\ pc[j] = "decode" /\ Regrow(j)
  <2>1. /\ overlapped' = overlapped /\ stale \subseteq stale'
        /\ stale' \subseteq stale \cup (Decoding \ {j}) /\ copied' = copied /\ pc' = pc
    BY <1>9 DEF Regrow, Freed, client, call, locals
  <2>2. QED
    BY <1>0, <1>9, <2>1
<1>10. CASE j \notin stale /\ ~TouchFreed(j) /\ CountSegments(j)
  <2>1. CASE Return(j, Answer(<<>>)) /\ UNCHANGED <<native, client>>
    <3>1. /\ overlapped' = overlapped /\ stale' = stale
          /\ pc'[j] \notin {"segment", "append"} /\ copied'[j] = <<>>
      BY <1>4, <2>1
    <3>2. QED
      BY <1>3, <1>10, <3>1
  <2>2. CASE /\ result_all # <<>>
             /\ n_segments' = [n_segments EXCEPT ![j] = Len(result_all)]
             /\ Go(j, "segment")
             /\ UNCHANGED <<native, client, copied>>
    <3>1. copied'[j] = <<>>
      BY <1>0, <1>10, <2>2 DEF CountSegments
    <3>2. result_all \in Segments /\ Len(result_all) > 0
      <4>1. result_all \in Segments
        BY <1>0 DEF TypeOK
      <4>2. QED
        BY <2>2, <4>1 DEF Segments
    <3>3. /\ n_segments'[j] = Len(result_all) /\ result_all' = result_all
          /\ pc'[j] = "segment" /\ overlapped' = overlapped /\ stale' = stale
      BY <1>0, <2>2 DEF Go, native, client
    <3>4. Len(copied'[j]) = 0
      BY <3>1
    <3>5. QED
      BY <1>10, <3>2, <3>3, <3>4
  <2>3. QED
    BY <1>10, <2>1, <2>2 DEF CountSegments
<1>11. CASE j \notin stale /\ ~TouchFreed(j) /\ GetSegmentText(j)
  <2>1. /\ overlapped' = overlapped /\ stale' = stale /\ copied' = copied
        /\ n_segments' = n_segments /\ result_all' = result_all
        /\ pc[j] = "segment" /\ pc'[j] = "append"
    BY <1>0, <1>11 DEF GetSegmentText, Go, native, client, call, locals
  <2>2. QED
    BY <1>0, <1>11, <2>1
<1>12. CASE j \notin stale /\ ~TouchFreed(j) /\ AppendText(j)
  <2> DEFINE text == Append(copied[j], result_all[Len(copied[j]) + 1])
  <2>1. CASE Return(j, Answer(text)) /\ UNCHANGED <<native, client>>
    <3>1. /\ overlapped' = overlapped /\ stale' = stale
          /\ pc'[j] \notin {"segment", "append"} /\ copied'[j] = <<>>
      BY <1>4, <2>1
    <3>2. QED
      BY <1>3, <1>12, <3>1
  <2>2. CASE /\ Len(text) # n_segments[j]
             /\ copied' = [copied EXCEPT ![j] = text]
             /\ Go(j, "segment")
             /\ UNCHANGED <<native, client, n_segments>>
    <3>1. /\ copied'[j] = text /\ n_segments' = n_segments /\ pc'[j] = "segment"
          /\ result_all' = result_all /\ overlapped' = overlapped /\ stale' = stale
      BY <1>0, <2>2 DEF Go, native, client
    <3>2. Len(text) = Len(copied[j]) + 1 /\ Len(copied[j]) \in Nat
      <4>1. copied[j] \in Segments
        BY <1>0
      <4>2. \A s \in Segments : \A x : Len(Append(s, x)) = Len(s) + 1 /\ Len(s) \in Nat
        BY DEF Segments
      <4>3. QED
        BY <4>1, <4>2
    <3>3. n_segments[j] \in Nat /\ pc[j] = "append"
      BY <1>0, <1>12 DEF AppendText
    <3> HIDE DEF text
    <3>4. QED
      BY <1>0, <1>12, <2>2, <3>1, <3>2, <3>3
  <2>3. QED
    BY <1>12, <2>1, <2>2 DEF AppendText
<1>13. QED
  BY <1>0, <1>1, <1>2, <1>5, <1>6, <1>7, <1>8, <1>9, <1>10, <1>11, <1>12
     DEF Step, CheckFile, ReadWavFile, ClearResults, Decode, Close

LEMMA AloneStep ==
    ASSUME AloneInv, NEW j \in Jobs, Step(j)
    PROVE  AloneInv'
<1>0. /\ TypeInv /\ TypeOK /\ stale \subseteq overlapped /\ stale \subseteq Copying \cup Decoding
      /\ \A k \in Jobs : pc[k] \notin {"segment", "append"} => copied[k] = <<>>
      /\ \A k \in Jobs \ overlapped : Alone(k)
  BY DEF AloneInv, TypeInv
<1>1. TypeInv' /\ \A k \in Jobs \ {j} : SameCall(k)
  BY <1>0, StepTypeInv, StepLocal DEF Local
<1>2. Inside' \ {j} = Inside \ {j}
  BY <1>1 DEF Inside, SameCall
<1>3. /\ (Copying \cup Decoding)' \ {j} = (Copying \cup Decoding) \ {j}
      /\ Copying \cup Decoding \subseteq Inside
  BY <1>1 DEF Copying, Decoding, Inside, SameCall
<1>4. CASE j \in Inside
  <2>1. /\ overlapped' = overlapped /\ stale \subseteq stale'
        /\ stale' \subseteq stale \cup ((Copying \cup Decoding) \ {j})
        /\ j \in stale => TouchFreed(j)
        /\ pc'[j] \notin {"segment", "append"} => copied'[j] = <<>>
        /\ j \notin overlapped /\ pc'[j] \in {"segment", "append"} =>
              n_segments'[j] = Len(result_all') /\ Len(copied'[j]) < n_segments'[j]
    BY <1>4, InsideStep
  <2>2. stale' \subseteq overlapped'
    <3> SUFFICES ASSUME NEW k \in stale', k \notin stale PROVE k \in overlapped
      BY <1>0, <2>1
    <3>1. k \in Inside /\ k # j /\ k \in Jobs
      BY <1>3, <2>1 DEF Copying, Decoding
    <3>2. QED
      BY <1>0, <1>4, <3>1 DEF Alone
  <2>3. stale' \subseteq (Copying \cup Decoding)'
    <3>1. ASSUME j \in stale' PROVE j \in (Copying \cup Decoding)'
      <4>1. j \in stale
        BY <2>1, <3>1
      <4>2. pc' = pc
        BY <2>1, <4>1 DEF TouchFreed
      <4>3. QED
        BY <1>0, <4>1, <4>2 DEF Copying, Decoding
    <3>2. QED
      BY <1>0, <1>3, <2>1, <3>1
  <2>4. \A k \in Jobs : pc'[k] \notin {"segment", "append"} => copied'[k] = <<>>
    BY <1>0, <1>1, <2>1 DEF SameCall
  <2>5. ASSUME NEW k \in Jobs \ overlapped PROVE Alone(k)'
    <3>1. CASE k = j
      <4>1. Inside = {j}
        BY <1>0, <1>4, <2>5, <3>1 DEF Alone
      <4>2. Inside' \subseteq {j}
        BY <1>2, <4>1
      <4>3. QED
        BY <2>1, <2>5, <3>1, <4>2 DEF Alone
    <3>2. CASE k # j
      <4>1. k \notin Inside
        BY <1>0, <1>4, <2>5, <3>2 DEF Alone
      <4>2. k \notin Inside'
        BY <1>2, <3>2, <4>1
      <4>3. QED
        BY <2>5, <4>2 DEF Alone, Inside
    <3>3. QED
      BY <3>1, <3>2
  <2>6. QED
    BY <1>1, <2>1, <2>2, <2>3, <2>4, <2>5 DEF AloneInv
<1>5. CASE j \notin Inside /\ UNCHANGED <<Shared, overlapped>> /\ j \notin Inside'
  <2>1. Inside' = Inside /\ UNCHANGED <<stale, result_all, overlapped>>
    BY <1>2, <1>5 DEF Shared
  <2>2. stale' \subseteq overlapped' /\ stale' \subseteq (Copying \cup Decoding)'
    BY <1>0, <1>3, <1>5, <2>1
  <2>3. pc'[j] \notin {"segment", "append"}
    BY <1>5 DEF Inside
  <2>4. copied'[j] = <<>>
    <3>1. pc[j] \notin {"segment", "append"}
      BY <1>5 DEF Inside
    <3>2. copied[j] = <<>> /\ copied \in [Jobs -> Segments]
      BY <1>0, <3>1 DEF TypeOK
    <3>3. CASE UNCHANGED copied
      BY <3>2, <3>3
    <3>4. CASE \E r : Return(j, r)
      BY <3>2, <3>4 DEF Return
    <3>5. QED
      BY <1>5, <3>3, <3>4
         DEF Inside, Step, CheckFile, ReadWavFile, ClearResults, PcmToMel, ReadLength,
             Encode, Decode, CountSegments, GetSegmentText, AppendText, Close,
             TouchFreed, call, locals
  <2>5. \A k \in Jobs : pc'[k] \notin {"segment", "append"} => copied'[k] = <<>>
    BY <1>0, <1>1, <2>4 DEF SameCall
  <2>6. ASSUME NEW k \in Jobs \ overlapped PROVE Alone(k)'
    <3>1. CASE k = j
      BY <1>5, <2>3, <3>1 DEF Alone
    <3>2. CASE k # j
      BY <1>0, <1>1, <2>1, <2>6, <3>2 DEF Alone, SameCall
    <3>3. QED
      BY <3>1, <3>2
  <2>7. QED
    BY <1>1, <2>1, <2>2, <2>5, <2>6 DEF AloneInv
<1>6. CASE ClearResults(j) /\ ~TouchFreed(j)
  <2>1. /\ pc[j] = "clear" /\ stale' = stale \cup Copying /\ Overlaps(j)
        /\ pc'[j] = "mel" /\ UNCHANGED call
    BY <1>0, <1>6 DEF ClearResults, Go, TypeOK
  <2>2. UNCHANGED copied /\ j \notin Inside
    BY <2>1 DEF call, locals, Inside
  <2>3. j \notin stale' /\ stale' \subseteq (Copying \cup Decoding)'
    BY <1>0, <1>3, <2>1, <2>2
  <2>4. stale' \subseteq overlapped'
    BY <1>0, <1>3, <2>1, <2>3 DEF Overlaps
  <2>5. \A k \in Jobs : pc'[k] \notin {"segment", "append"} => copied'[k] = <<>>
    BY <1>0, <1>1, <2>1, <2>2 DEF SameCall
  <2>6. ASSUME NEW k \in Jobs, k \notin overlapped' PROVE Alone(k)'
    <3>1. CASE k = j
      <4>1. Inside = {}
        BY <2>1, <2>6, <3>1 DEF Overlaps
      <4>2. Inside' \subseteq {j}
        BY <1>2, <4>1
      <4>3. QED
        BY <2>1, <3>1, <4>2 DEF Alone
    <3>2. CASE k # j
      <4>1. k \notin Inside
        BY <2>1, <2>6 DEF Overlaps
      <4>2. k \notin Inside'
        BY <1>2, <3>2, <4>1
      <4>3. QED
        BY <2>6, <4>2 DEF Alone, Inside
    <3>3. QED
      BY <3>1, <3>2
  <2>7. QED
    BY <1>1, <2>3, <2>4, <2>5, <2>6 DEF AloneInv
<1>7. QED
  BY <1>0, <1>4, <1>5, <1>6, OutsideStep

LEMMA AloneInvInductive ==
    /\ Init => AloneInv
    /\ AloneInv /\ [Next]_vars => AloneInv'
<1>1. Init => AloneInv
  <2>1. Init => stale = {} /\ Inside = {}
    BY DEF Init, Inside
  <2>2. QED
    BY <2>1, TypeInvInductive DEF Init, AloneInv, Alone, Inside
<1>2. ASSUME AloneInv, NEW j \in Jobs, Call(j) PROVE AloneInv'
  <2>1. Begins(j) /\ TypeInv' /\ pc \in [Jobs -> Places]
    BY <1>2, CallBegins, CallTypeInv DEF AloneInv, TypeInv, TypeOK
  <2>2. /\ pc[j] = "idle" /\ pc'[j] \in {"check", "clear", "close"}
        /\ \A k \in Jobs \ {j} : pc'[k] = pc[k]
        /\ UNCHANGED <<overlapped, stale, result_all, n_segments, copied>>
    BY <2>1 DEF Begins, Go, native, locals
  <2>3. Inside' = Inside /\ (Copying \cup Decoding)' = Copying \cup Decoding
    BY <2>2 DEF Inside, Copying, Decoding
  <2>4. QED
    BY <1>2, <2>1, <2>2, <2>3 DEF AloneInv, Alone
<1>3. ASSUME AloneInv, InitContext \/ UNCHANGED vars PROVE AloneInv'
  <2>1. TypeInv'
    BY <1>3, TypeInvInductive DEF AloneInv, Next
  <2>2. UNCHANGED <<overlapped, stale, result_all, pc, n_segments, copied>>
    BY <1>3 DEF InitContext, vars, client, call, locals
  <2>3. QED
    BY <1>3, <2>1, <2>2 DEF AloneInv, Alone, Inside, Copying, Decoding
<1>4. QED
  BY <1>1, <1>2, <1>3, AloneStep DEF Next

-----------------------------------------------------------------------------
(* Memory safety of the documented use. *)

(* The objects live until the only close(), which no other call overlaps. *)
ReleasedLast ==
    /\ contextPtr # "ptr" => \A j \in Jobs : pc[j] = "idle"
    /\ contextPtr = "ptr" /\ closes = 0 => context = "alive" /\ state = "alive"
    /\ closes = 0 => \A j \in Jobs : pc[j] # "close"
    /\ closes # 0 => \A j \in Jobs : pc[j] \in {"idle", "close"}
    /\ \A j \in Jobs : pc[j] = "close" =>
          /\ context = "alive" /\ state = "alive"
          /\ \A k \in Jobs \ {j} : pc[k] = "idle"

Disciplined == app.close_last /\ ~app.alloc_may_fail

SafeInv ==
    /\ AloneInv
    /\ Disciplined => ReleasedLast /\ (overlapped = {} => ~Stopped)

(* A step meets freed memory only if the objects are gone, or if another   *)
(* transcription has been in native code meanwhile.                        *)
LEMMA TouchesNothing ==
    ASSUME Disciplined, AloneInv, ~Dangling, ~Stopped, NEW j \in Jobs, Step(j),
           pc[j] # "close"
    PROVE  /\ UNCHANGED objects /\ pc'[j] # "close"
           /\ overlapped' = {} => ~Stopped'
<1> USE DEF Disciplined, objects
<1>0. /\ TypeOK /\ stale \subseteq overlapped
      /\ j \notin overlapped /\ pc[j] = "segment" => Len(copied[j]) < Len(result_all)
      /\ Len(copied[j]) \in Nat /\ Len(result_all) \in Nat
  <2>1. TypeOK /\ copied[j] \in Segments /\ result_all \in Segments
    BY DEF AloneInv, TypeInv, TypeOK
  <2>2. \A s \in Segments : Len(s) \in Nat
    BY DEF Segments
  <2>3. QED
    BY <2>1, <2>2 DEF AloneInv, Alone
<1>1. ASSUME UNCHANGED fault \/ fault' = fault \cup {"uninitialised"} PROVE ~Stopped'
  BY <1>1 DEF Stopped
<1>2. CASE CheckFile(j)
  BY <1>0, <1>1, <1>2 DEF CheckFile, Return, Go, native, TypeOK
<1>3. CASE ReadWavFile(j)
  BY <1>0, <1>1, <1>3 DEF ReadWavFile, Go, native, TypeOK
<1>4. CASE ClearResults(j)
  BY <1>0, <1>1, <1>4 DEF ClearResults, Go, TypeOK
<1>5. CASE PcmToMel(j)
  BY <1>0, <1>1, <1>5 DEF PcmToMel, Go, TypeOK
<1>6. CASE ReadLength(j)
  BY <1>0, <1>1, <1>6 DEF ReadLength, Go, TypeOK
<1>7. CASE Encode(j)
  BY <1>0, <1>1, <1>7 DEF Encode, Return, Go, native, TypeOK
<1>8. CASE TouchFreed(j) /\ j \in overlapped
  BY <1>8 DEF TouchFreed, client
<1>9. CASE Decode(j)
  <2>1. CASE j \in stale
    BY <1>0, <1>8, <1>9, <2>1 DEF Decode
  <2>2. CASE WindowDone(j)
    BY <1>0, <1>1, <2>2 DEF WindowDone, Go, TypeOK
  <2>3. CASE WindowFails(j)
    BY <1>0, <1>1, <2>3 DEF WindowFails, Return, Go, native, TypeOK
  <2>4. CASE Regrow(j)
    BY <1>0, <1>1, <2>4 DEF Regrow
  <2>5. ~WindowOutOfMemory(j)
    BY DEF WindowOutOfMemory
  <2>6. QED
    BY <1>9, <2>1, <2>2, <2>3, <2>4, <2>5 DEF Decode
<1>10. CASE CountSegments(j)
  BY <1>0, <1>1, <1>10 DEF CountSegments, Return, Go, native, TypeOK
<1>11. CASE GetSegmentText(j)
  <2>1. CASE j \in overlapped /\ Len(copied[j]) >= Len(result_all)
    BY <1>8, <1>11, <2>1 DEF GetSegmentText
  <2>2. CASE ~(Len(copied[j]) >= Len(result_all))
    BY <1>0, <1>1, <1>11, <2>2 DEF GetSegmentText, Go, native, TypeOK
  <2>3. QED
    BY <1>0, <1>11, <2>1, <2>2 DEF GetSegmentText
<1>12. CASE AppendText(j)
  <2>1. CASE j \in stale
    BY <1>0, <1>8, <1>12, <2>1 DEF AppendText
  <2>2. CASE j \notin stale
    BY <1>0, <1>1, <1>12, <2>2 DEF AppendText, Return, Go, native, TypeOK
  <2>3. QED
    BY <2>1, <2>2
<1>13. QED
  BY <1>2, <1>3, <1>4, <1>5, <1>6, <1>7, <1>9, <1>10, <1>11, <1>12 DEF Step, Close

LEMMA ReleasedLastStep ==
    ASSUME Disciplined, SafeInv, [Next]_vars
    PROVE  ReleasedLast' /\ (overlapped' = {} => ~Stopped')
<1>0. /\ TypeOK /\ ReleasedLast /\ (overlapped = {} => ~Stopped)
      /\ app.close_last /\ ~app.alloc_may_fail /\ pc \in [Jobs -> Places]
  BY DEF SafeInv, AloneInv, TypeInv, TypeOK, Disciplined
<1>1. CASE InitContext
  BY <1>0, <1>1 DEF InitContext, client, call, ReleasedLast, Stopped
<1>2. ASSUME NEW j \in Jobs,
             CallTranscribeFile(j) \/ CallTranscribeData(j)
      PROVE  ReleasedLast' /\ (overlapped' = {} => ~Stopped')
  <2>1. /\ pc' = [pc EXCEPT ![j] = "check"] \/ pc' = [pc EXCEPT ![j] = "clear"]
        /\ contextPtr = "ptr" /\ closes = 0
        /\ UNCHANGED <<contextPtr, context, state, fault, closes, overlapped>>
    BY <1>0, <1>2
       DEF CallTranscribeFile, CallTranscribeData, MayCall, native, objects, client, Go
  <2>2. QED
    BY <1>0, <2>1 DEF ReleasedLast, Stopped
<1>3. ASSUME NEW j \in Jobs, CallClose(j)
      PROVE  ReleasedLast' /\ (overlapped' = {} => ~Stopped')
  <2>1. /\ contextPtr = "ptr" /\ closes = 0 /\ closes' = 1
        /\ \A k \in Jobs : pc[k] = "idle"
        /\ pc' = [pc EXCEPT ![j] = "close"]
        /\ UNCHANGED <<contextPtr, context, state, fault, overlapped>>
    BY <1>0, <1>3 DEF CallClose, MayCall, native, objects, Busy, Go
  <2>2. QED
    BY <1>0, <2>1 DEF ReleasedLast, Stopped
<1>4. ASSUME NEW j \in Jobs, Step(j), pc[j] # "close"
      PROVE  ReleasedLast' /\ (overlapped' = {} => ~Stopped')
  <2>1. Local(j)
    BY <1>0, <1>4, StepLocal
  <2>2. /\ closes = 0 /\ context = "alive" /\ state = "alive" /\ ~Stopped
        /\ pc[j] # "idle" /\ contextPtr = "ptr" /\ UNCHANGED closes
    BY <1>0, <1>4, <2>1 DEF ReleasedLast, Local
  <2>3. ~Dangling /\ AloneInv
    BY <2>2 DEF Dangling, SafeInv
  <2>4. UNCHANGED objects /\ pc'[j] # "close" /\ (overlapped' = {} => ~Stopped')
    BY <1>4, <2>2, <2>3, TouchesNothing
  <2>5. \A k \in Jobs : pc'[k] # "close"
    BY <1>0, <2>1, <2>2, <2>4 DEF ReleasedLast, Local, SameCall
  <2>6. ReleasedLast'
    BY <2>2, <2>4, <2>5 DEF ReleasedLast, objects
  <2>7. QED
    BY <2>4, <2>6
<1>5. ASSUME NEW j \in Jobs, Step(j), pc[j] = "close"
      PROVE  ReleasedLast' /\ (overlapped' = {} => ~Stopped')
  <2>1. Close(j)
    BY <1>5 DEF Step, CheckFile, ReadWavFile, ClearResults, PcmToMel, ReadLength,
                Encode, Decode, CountSegments, GetSegmentText, AppendText
  <2>2. /\ context = "alive" /\ state = "alive" /\ closes # 0
        /\ \A k \in Jobs \ {j} : pc[k] = "idle"
    BY <1>0, <1>5 DEF ReleasedLast
  <2>3. /\ pc' = [pc EXCEPT ![j] = "idle"] /\ fault' = fault
        /\ closes' = closes /\ ~Stopped
    BY <2>1, <2>2 DEF Close, Return, Go, client
  <2>4. QED
    BY <1>0, <2>2, <2>3 DEF ReleasedLast, Stopped
<1>6. CASE UNCHANGED vars
  BY <1>0, <1>6 DEF vars, ReleasedLast, Stopped
<1>7. QED
  BY <1>1, <1>2, <1>3, <1>4, <1>5, <1>6 DEF Next, Call

LEMMA SafeInvInductive ==
    /\ Init => SafeInv
    /\ SafeInv /\ [Next]_vars => SafeInv'
<1>1. Init => SafeInv
  BY AloneInvInductive DEF Init, SafeInv, ReleasedLast, Stopped
<1>2. SafeInv /\ [Next]_vars => SafeInv'
  <2> SUFFICES ASSUME SafeInv, [Next]_vars PROVE SafeInv'
    OBVIOUS
  <2>1. app' = app
    <3>1. ASSUME NEW j \in Jobs, Step(j) PROVE app' = app
      BY <3>1, StepLocal DEF Local, SafeInv, AloneInv, TypeInv
    <3>2. ASSUME NEW j \in Jobs, Call(j) PROVE app' = app
      BY <3>2, CallBegins DEF Begins
    <3>3. QED
      BY <3>1, <3>2 DEF Next, InitContext, client, vars
  <2>2. QED
    BY <2>1, AloneInvInductive, ReleasedLastStep DEF SafeInv, Disciplined
<1>3. QED
  BY <1>1, <1>2

(* An application that closes the context once, after its last call, never *)
(* reaches freed memory as long as the wide KV cache can be allocated and  *)
(* no two of its transcriptions have been in native code at once: whatever *)
(* fails, freeContext is the only release of the objects, and the texts    *)
(* and the cache are replaced by the one call that uses them.              *)
THEOREM MemorySafe == Spec => []NoUseAfterFree
<1>1. SafeInv => NoUseAfterFree
  BY DEF SafeInv, NoUseAfterFree, Disciplined
<1>2. QED
  BY <1>1, SafeInvInductive, PTL DEF Spec

-----------------------------------------------------------------------------
(* The text of a call that nothing overlapped. *)

LEMMA FirstWindowsGrow ==
    ASSUME NEW a, NEW n \in Nat
    PROVE  /\ FirstWindows(a, 0) = <<>> /\ Len(FirstWindows(a, n)) = n
           /\ Append(FirstWindows(a, n), <<a, n + 1>>) = FirstWindows(a, n + 1)
<1>1. FirstWindows(a, 0) = <<>>
  BY DEF FirstWindows
<1> DEFINE s == FirstWindows(a, n)
           t == FirstWindows(a, n + 1)
<1>2. s \in Seq({<<a, w>> : w \in Nat}) /\ Len(s) = n
  BY DEF FirstWindows
<1>3. t \in Seq({<<a, w>> : w \in Nat}) /\ Len(t) = n + 1
  BY DEF FirstWindows
<1>4. \A i \in 1..n : s[i] = t[i]
  BY DEF FirstWindows
<1>5. t[n + 1] = <<a, n + 1>>
  BY DEF FirstWindows
<1> HIDE DEF s, t
<1>6. Append(s, <<a, n + 1>>) = t
  BY <1>2, <1>3, <1>4, <1>5
<1> QED BY <1>1, <1>2, <1>6 DEF s, t

(* What the shared state holds while a call with a readable audio is alone *)
(* in native code, and how far the call has read the text.                 *)
Rebuilt(j) ==
    /\ pc[j] = "mel" => result_all = <<>>
    /\ pc[j] = "length" => result_all = <<>> /\ mel = audio[j]
    /\ pc[j] \in {"window", "decode"} =>
          /\ mel = audio[j]
          /\ seek_end[j] = Windows[audio[j]] /\ seek[j] < seek_end[j]
          /\ result_all = FirstWindows(audio[j], seek[j])
    /\ pc[j] = "decode" => encoded = <<audio[j], seek[j] + 1>>
    /\ pc[j] \in {"text", "segment", "append"} => result_all = Text(audio[j])
    /\ pc[j] \in {"segment", "append"} =>
          copied[j] = FirstWindows(audio[j], Len(copied[j]))
    /\ Answered(j) => reply[j].text = Text(audio[j])

OwnInv ==
    /\ AloneInv
    /\ \A j \in Jobs \ overlapped : audio[j] \in Audios => Rebuilt(j)

LEMMA RebuiltCall ==
    ASSUME OwnInv, NEW j \in Jobs, Call(j), NEW k \in Jobs \ overlapped'
    PROVE  (audio[k] \in Audios => Rebuilt(k))'
<1>0. TypeOK
  BY DEF OwnInv, AloneInv, TypeInv
<1>1. /\ Begins(j) /\ UNCHANGED <<overlapped, Shared, seek, seek_end, copied>>
      /\ pc'[j] \in {"check", "clear", "close"} /\ ~Answered(j)'
      /\ \A i \in Jobs \ {j} : pc'[i] = pc[i] /\ reply'[i] = reply[i]
  BY <1>0, CallBegins DEF Begins, Go, native, locals, Shared, Answered, NoReply, TypeOK
<1>2. \A i \in Jobs \ {j} : audio'[i] = audio[i]
  BY <1>0 DEF Call, CallTranscribeFile, CallTranscribeData, CallClose, argument, TypeOK
<1>3. CASE k = j
  BY <1>1, <1>3 DEF Rebuilt
<1>4. CASE k # j
  BY <1>1, <1>2, <1>4 DEF OwnInv, Rebuilt, Answered, Shared
<1>5. QED
  BY <1>3, <1>4

(* A step of another call disturbs no call that nothing overlaps. *)
LEMMA RebuiltOther ==
    ASSUME OwnInv, NEW j \in Jobs, Step(j), NEW k \in Jobs \ overlapped', k # j
    PROVE  (audio[k] \in Audios => Rebuilt(k))'
<1>0. TypeOK /\ SameCall(k)
  BY StepLocal DEF OwnInv, AloneInv, TypeInv, Local
<1>1. CASE k \notin Inside /\ k \notin overlapped
  <2>1. k \notin Inside' /\ (audio[k] \in Audios => Rebuilt(k))
    BY <1>0, <1>1 DEF Inside, SameCall, OwnInv
  <2>2. QED
    BY <1>0, <2>1 DEF Rebuilt, SameCall, Inside, Answered
<1>2. CASE ClearResults(j) /\ ~TouchFreed(j)
  <2>1. k \notin Inside /\ k \notin overlapped
    BY <1>2 DEF ClearResults, Overlaps
  <2>2. QED
    BY <1>1, <2>1
<1>3. CASE UNCHANGED <<Shared, overlapped>>
  BY <1>0, <1>3 DEF OwnInv, Rebuilt, SameCall, Answered, Shared
<1>4. CASE j \in Inside
  <2>1. overlapped' = overlapped
    BY <1>4, InsideStep DEF OwnInv
  <2>2. k \notin Inside
    BY <1>4, <2>1 DEF OwnInv, AloneInv, Alone
  <2>3. QED
    BY <1>1, <2>1, <2>2
<1>5. QED
  BY <1>0, <1>2, <1>3, <1>4, OutsideStep

(* A native step of a call that nothing overlaps advances its stage. *)
LEMMA RebuiltOwn ==
    ASSUME OwnInv, NEW j \in Jobs \ overlapped', Step(j)
    PROVE  (audio[j] \in Audios => Rebuilt(j))'
<1>0. /\ TypeOK /\ Checked /\ pc \in [Jobs -> Places] /\ reply \in [Jobs -> Replies]
      /\ copied \in [Jobs -> Segments]
      /\ \A k \in Jobs \ overlapped : Alone(k) /\ (audio[k] \in Audios => Rebuilt(k))
      /\ \A k \in Jobs : pc[k] \notin {"segment", "append"} => copied[k] = <<>>
  BY DEF OwnInv, AloneInv, TypeInv, TypeOK
<1>1. CASE ReadWavFile(j)
  <2>1. ~Answered(j) /\ pc'[j] = "clear" /\ reply' = reply
    BY <1>0, <1>1 DEF ReadWavFile, Go, Checked
  <2>2. QED
    BY <2>1 DEF Rebuilt, Answered
<1>2. CASE ClearResults(j) /\ ~TouchFreed(j)
  <2>1. /\ result_all' = <<>> /\ pc'[j] = "mel" /\ reply' = reply /\ pc[j] = "clear"
        /\ Inside = {}
    BY <1>0, <1>2 DEF ClearResults, Overlaps, Go, call
  <2>2. ~Answered(j)
    BY <1>0, <2>1 DEF Checked
  <2>3. QED
    BY <2>1, <2>2 DEF Rebuilt, Answered
<1>3. CASE UNCHANGED Shared /\ j \notin Inside /\ j \notin Inside' /\ ~ReadWavFile(j)
           /\ overlapped' = overlapped
  <2>1. UNCHANGED audio /\ (pc'[j] = "idle" => reply' = reply \/ ~Answered(j)')
    <3>1. CASE CheckFile(j)
      BY <1>0, <3>1 DEF CheckFile, Return, Go, argument, Answered, Error
    <3>2. CASE Close(j)
      BY <1>0, <3>2 DEF Close, Return, argument, Answered, NoReply
    <3>3. CASE TouchFreed(j)
      BY <3>3 DEF TouchFreed, call, argument
    <3>4. CASE ClearResults(j)
      BY <1>0, <1>3, <3>3, <3>4 DEF ClearResults, Go, Inside
    <3>5. QED
      BY <1>3, <3>1, <3>2, <3>3, <3>4
         DEF Step, Inside, PcmToMel, ReadLength, Encode, Decode, CountSegments,
             GetSegmentText, AppendText
  <2>2. Answered(j)' => reply'[j] = reply[j]
    BY <1>0, <2>1, StepReply
  <2>3. audio[j] \in Audios => Rebuilt(j)
    BY <1>0, <1>3
  <2>4. QED
    BY <1>3, <2>1, <2>2, <2>3 DEF Rebuilt, Answered, Inside
<1>4. CASE j \in Inside
  <2>0. /\ overlapped' = overlapped /\ j \notin stale
        /\ pc[j] \in {"mel", "length", "window", "decode", "text", "segment", "append"}
    BY <1>4, InsideStep DEF OwnInv, AloneInv, Inside
  <2>1. ~Answered(j) /\ UNCHANGED audio
    BY <1>0, <1>4, <2>0, StepLocal DEF Checked, Local, ReadWavFile, Inside
  <2> SUFFICES ASSUME audio[j] \in Audios PROVE Rebuilt(j)'
    BY <2>1
  <2>2. /\ Rebuilt(j) /\ Alone(j) /\ Windows[audio[j]] \in Nat /\ audio[j] # NoAudio
        /\ audio[j] # Uninit
    BY <1>0, <2>0, FileAssumption, SessionAssumption
  <2>3. CASE TouchFreed(j)
    BY <2>2, <2>3 DEF TouchFreed, call, argument, locals, Rebuilt, Answered
  <2>4. CASE PcmToMel(j) /\ ~TouchFreed(j)
    <3>1. /\ pc[j] = "mel" /\ pc'[j] = "length" /\ mel' = audio[j]
          /\ UNCHANGED <<result_all, reply>>
      BY <1>0, <2>2, <2>4 DEF PcmToMel, Go, call
    <3>2. QED
      BY <2>1, <2>2, <3>1 DEF Rebuilt, Answered
  <2>5. CASE ReadLength(j) /\ ~TouchFreed(j)
    <3>1. mel = audio[j] /\ result_all = <<>>
      BY <2>2, <2>5 DEF ReadLength, Rebuilt
    <3>2. MelLength = {Windows[audio[j]]}
      BY <3>1, <2>2 DEF MelLength
    <3>3. /\ seek_end'[j] = Windows[audio[j]] /\ seek'[j] = 0
          /\ pc'[j] = IF Windows[audio[j]] = 0 THEN "text" ELSE "window"
          /\ UNCHANGED <<mel, result_all, reply>>
      BY <1>0, <2>5, <3>2 DEF ReadLength, Go, TypeOK
    <3>4. result_all = FirstWindows(audio[j], 0)
      BY <3>1, FirstWindowsGrow
    <3>5. QED
      BY <2>1, <2>2, <3>1, <3>3, <3>4 DEF Rebuilt, Answered, Text
  <2>6. ASSUME NEW e, Return(j, Error(e)) PROVE Rebuilt(j)'
    <3>1. pc'[j] = "idle" /\ ~Answered(j)'
      BY <1>0, <2>6 DEF Return, Go, Answered, Error
    <3>2. QED
      BY <3>1 DEF Rebuilt
  <2>7. CASE Encode(j) /\ ~TouchFreed(j)
    <3>1. CASE /\ encoded' = <<mel, seek[j] + 1>> /\ Go(j, "decode")
               /\ UNCHANGED <<mel, result_all, call>>
      <4>1. pc[j] = "window" /\ pc'[j] = "decode"
        BY <1>0, <2>7, <3>1 DEF Encode, Go
      <4>2. QED
        BY <2>1, <2>2, <3>1, <4>1 DEF Rebuilt, Answered, call, locals
    <3>2. QED
      BY <2>6, <2>7, <3>1 DEF Encode
  <2>8. CASE pc[j] = "decode" /\ WindowDone(j)
    <3>1. /\ mel = audio[j] /\ seek[j] \in Nat
          /\ seek_end[j] = Windows[audio[j]] /\ seek[j] < seek_end[j]
          /\ result_all = FirstWindows(audio[j], seek[j])
          /\ encoded = <<audio[j], seek[j] + 1>>
      BY <1>0, <2>2, <2>8 DEF Rebuilt, TypeOK
    <3>2. /\ result_all' = FirstWindows(audio[j], seek[j] + 1)
          /\ seek'[j] = seek[j] + 1
          /\ pc'[j] = IF seek[j] + 1 = seek_end[j] THEN "text" ELSE "window"
          /\ UNCHANGED <<mel, seek_end, reply>>
      BY <1>0, <2>8, <3>1, FirstWindowsGrow DEF WindowDone, Go, TypeOK
    <3>3. QED
      BY <2>1, <2>2, <3>1, <3>2 DEF Rebuilt, Answered, Text
  <2>9. CASE WindowFails(j) \/ WindowOutOfMemory(j)
    BY <2>6, <2>9 DEF WindowFails, WindowOutOfMemory
  <2>10. CASE Regrow(j)
    BY <2>1, <2>2, <2>10 DEF Regrow, call, locals, Rebuilt, Answered
  <2>11. CASE CountSegments(j) /\ ~TouchFreed(j)
    <3>1. pc[j] = "text" /\ result_all = Text(audio[j]) /\ copied[j] = <<>>
      BY <1>0, <2>2, <2>11 DEF CountSegments, Rebuilt
    <3>2. CASE result_all = <<>> /\ Return(j, Answer(<<>>))
      <4>1. pc'[j] = "idle" /\ reply'[j].text = Text(audio[j])
        BY <1>0, <3>1, <3>2 DEF Return, Go, Answer
      <4>2. QED
        BY <2>1, <4>1 DEF Rebuilt
    <3>3. CASE Go(j, "segment") /\ UNCHANGED <<native, copied, reply>>
      <4>1. pc'[j] = "segment" /\ UNCHANGED <<result_all, copied, reply>>
        BY <1>0, <3>3 DEF Go, native
      <4>2. copied[j] = FirstWindows(audio[j], Len(copied[j]))
        BY <3>1, FirstWindowsGrow
      <4>3. QED
        BY <2>1, <3>1, <4>1, <4>2 DEF Rebuilt, Answered
    <3>4. QED
      BY <2>11, <3>2, <3>3 DEF CountSegments
  <2>12. CASE GetSegmentText(j) /\ ~TouchFreed(j)
    <3>1. /\ pc[j] = "segment" /\ pc'[j] = "append"
          /\ UNCHANGED <<result_all, copied, reply>>
      BY <1>0, <2>12 DEF GetSegmentText, Go, native, call, locals
    <3>2. QED
      BY <2>1, <2>2, <3>1 DEF Rebuilt, Answered
  <2>13. CASE AppendText(j) /\ ~TouchFreed(j)
    <3> DEFINE n == Len(copied[j])
               a == audio[j]
               text == Append(copied[j], result_all[n + 1])
    <3>1. /\ pc[j] = "append" /\ result_all = Text(a) /\ copied[j] = FirstWindows(a, n)
          /\ n_segments[j] = Len(result_all) /\ n < n_segments[j]
      BY <2>2, <2>13 DEF AppendText, Rebuilt, Alone
    <3>2. n \in Nat
      <4>1. copied[j] \in Segments
        BY <1>0
      <4>2. QED
        BY <4>1 DEF Segments
    <3>3. Len(result_all) = Windows[a]
      BY <2>2, <3>1, FirstWindowsGrow DEF Text
    <3>4. result_all[n + 1] = <<a, n + 1>>
      <4>1. n + 1 \in 1..Windows[a]
        BY <2>2, <3>1, <3>2, <3>3
      <4>2. QED
        BY <3>1, <4>1 DEF Text, FirstWindows
    <3>5. text = FirstWindows(a, n + 1) /\ Len(text) = n + 1
      BY <3>1, <3>2, <3>4, FirstWindowsGrow
    <3>6. CASE Len(text) = n_segments[j] /\ Return(j, Answer(text))
      <4>1. text = Text(a)
        BY <3>1, <3>3, <3>5, <3>6 DEF Text
      <4>2. pc'[j] = "idle" /\ reply'[j].text = text
        BY <1>0, <3>6 DEF Return, Go, Answer
      <4>3. QED
        BY <2>1, <4>1, <4>2 DEF Rebuilt
    <3>7. CASE /\ copied' = [copied EXCEPT ![j] = text]
               /\ Go(j, "segment") /\ UNCHANGED <<native, reply>>
      <4>1. pc'[j] = "segment" /\ copied'[j] = text /\ UNCHANGED <<result_all, reply>>
        BY <1>0, <3>7 DEF Go, native
      <4>2. text = FirstWindows(a, Len(text))
        BY <3>5
      <4> HIDE DEF text
      <4>3. QED
        BY <2>1, <3>1, <4>1, <4>2 DEF Rebuilt, Answered
    <3>8. QED
      BY <2>13, <3>6, <3>7 DEF AppendText
  <2>14. QED
    BY <2>0, <2>3, <2>4, <2>5, <2>7, <2>8, <2>9, <2>10, <2>11, <2>12, <2>13
       DEF Step, CheckFile, ReadWavFile, ClearResults, Decode, Close
<1>5. QED
  <2>1. CASE j \notin Inside /\ UNCHANGED <<Shared, overlapped>> /\ j \notin Inside'
    BY <1>1, <1>3, <2>1
  <2>2. QED
    BY <1>0, <1>2, <1>4, <2>1, OutsideStep

(* OwnInv is inductive. *)
LEMMA OwnInvInductive ==
    /\ Init => OwnInv
    /\ OwnInv /\ [Next]_vars => OwnInv'
<1>1. Init => OwnInv
  BY AloneInvInductive DEF Init, OwnInv, Rebuilt, Answered, NoReply
<1>2. OwnInv /\ [Next]_vars => OwnInv'
  <2> SUFFICES ASSUME OwnInv, [Next]_vars PROVE OwnInv'
    OBVIOUS
  <2>1. AloneInv'
    BY AloneInvInductive DEF OwnInv
  <2>2. ASSUME NEW j \in Jobs, Step(j) PROVE OwnInv'
    BY <2>1, <2>2, RebuiltOther, RebuiltOwn DEF OwnInv
  <2>3. ASSUME NEW j \in Jobs, Call(j) PROVE OwnInv'
    BY <2>1, <2>3, RebuiltCall DEF OwnInv
  <2>4. CASE InitContext \/ UNCHANGED vars
    <3>1. UNCHANGED <<overlapped, mel, encoded, result_all, pc, audio, seek, seek_end,
                      copied, reply>>
      BY <2>4 DEF InitContext, vars, client, call, argument, locals
    <3>2. QED
      BY <2>1, <3>1 DEF OwnInv, Rebuilt, Answered
  <2>5. QED
    BY <2>2, <2>3, <2>4 DEF Next
<1>3. QED
  BY <1>1, <1>2

(* A call returns the whole text of its own audio and nothing else if no   *)
(* other transcription was in native code between its clear() and its last *)
(* read, whatever calls failed, overlapped or were refused before it, and  *)
(* whatever others do outside: nothing an earlier call left in the shared  *)
(* state survives.                                                         *)
THEOREM OwnTextHolds == Spec => []OwnText
<1>1. OwnInv => OwnText
  BY DEF OwnInv, OwnText, Rebuilt
<1>2. QED
  BY <1>1, OwnInvInductive, PTL DEF Spec

-----------------------------------------------------------------------------
(* Numbers, and recursion over them. *)
LEMMA Smallest ==
    ASSUME NEW S, S \subseteq Nat, S # {}
    PROVE  \E x \in S : \A y \in S : x <= y
<1>1. PICK x \in S : \A y \in S : ~(<<y, x>> \in OpToRel(<, Nat))
  BY NatLessThanWellFounded, WFMin
<1>2. \A y \in S : ~(y < x)
  BY <1>1 DEF OpToRel
<1>3. QED
  BY <1>2

(* A set of numbers that has 0 and with each number the next has them all, *)
(* up to a bound.                                                          *)
LEMMA Induction ==
    ASSUME NEW n \in Nat, NEW S, 0 \in S,
           \A m \in 0..(n - 1) : m \in S => m + 1 \in S
    PROVE  \A m \in 0..n : m \in S
<1> SUFFICES ASSUME NEW z \in 0..n, z \notin S PROVE FALSE
  OBVIOUS
<1> DEFINE W == {m \in 0..n : m \notin S}
<1>1. W \subseteq Nat /\ W # {}
  OBVIOUS
<1>2. PICK x \in W : \A y \in W : x <= y
  BY <1>1, Smallest
<1>3. x \in 0..n /\ x \notin S /\ x # 0
  OBVIOUS
<1>4. x - 1 \in 0..(n - 1) /\ x - 1 \in 0..n /\ ~(x <= x - 1) /\ (x - 1) + 1 = x
  BY <1>3
<1>5. x - 1 \in S
  BY <1>2, <1>4
<1>6. QED
  BY <1>3, <1>4, <1>5

(* What a recursive function yields when each of its steps stays in V.     *)
Follows(f, n, V, a, step) ==
    f \in [0..n -> V] /\ f[0] = a /\ \A i \in 1..n : f[i] = step[i][f[i - 1]]

LEMMA Recursion ==
    ASSUME NEW n \in Nat, NEW V, NEW a \in V, NEW step \in [1..n -> [V -> V]]
    PROVE  \E f : Follows(f, n, V, a, step)
<1> DEFINE Is(f, m) == /\ f \in [0..m -> V] /\ f[0] = a
                       /\ \A i \in 1..m : f[i] = step[i][f[i - 1]]
           S == {m \in 0..n : \E f : Is(f, m)}
<1>1. 0 \in S
  <2> DEFINE h == [i \in 0..0 |-> a]
  <2>1. h \in [0..0 -> V] /\ h[0] = a
    OBVIOUS
  <2>2. \A i \in 1..0 : FALSE
    OBVIOUS
  <2>3. Is(h, 0)
    BY <2>1, <2>2
  <2> HIDE DEF h, Is
  <2>4. QED
    BY <2>3
<1>2. ASSUME NEW m \in 0..(n - 1), m \in S PROVE m + 1 \in S
  <2>1. PICK f : Is(f, m)
    BY <1>2
  <2>2. m \in 0..m /\ m + 1 \in 1..n /\ m + 1 \in 0..n
    OBVIOUS
  <2>3. f[m] \in V /\ step[m + 1] \in [V -> V]
    BY <2>1, <2>2
  <2>4. step[m + 1][f[m]] \in V
    BY <2>3
  <2> DEFINE g == [i \in 0..(m + 1) |-> IF i <= m THEN f[i] ELSE step[m + 1][f[m]]]
  <2>5. g \in [0..(m + 1) -> V]
    <3>1. \A i \in 0..(m + 1) : i <= m => i \in 0..m
      OBVIOUS
    <3>2. QED
      BY <2>1, <2>4, <3>1
  <2>6. g[0] = a
    BY <2>1
  <2>7. ASSUME NEW i \in 1..(m + 1) PROVE g[i] = step[i][g[i - 1]]
    <3>1. i - 1 \in 0..(m + 1) /\ i \in 0..(m + 1) /\ i - 1 <= m
      OBVIOUS
    <3>2. g[i - 1] = f[i - 1]
      BY <3>1
    <3>3. CASE i <= m
      <4>1. g[i] = f[i] /\ i \in 1..m
        BY <3>1, <3>3
      <4>2. QED
        BY <2>1, <3>2, <4>1
    <3>4. CASE i = m + 1
      <4>1. g[i] = step[m + 1][f[m]] /\ i - 1 = m
        BY <3>1, <3>4
      <4>2. QED
        BY <3>2, <3>4, <4>1
    <3>5. QED
      BY <3>3, <3>4
  <2>8. Is(g, m + 1)
    BY <2>5, <2>6, <2>7
  <2>9. QED
    BY <2>2, <2>8
<1>3. \A m \in 0..n : m \in S
  <2> HIDE DEF S
  <2>1. \A m \in 0..(n - 1) : m \in S => m + 1 \in S
    BY <1>2
  <2>2. QED
    BY <1>1, <2>1, Induction
<1>4. n \in S
  BY <1>3
<1>5. QED
  BY <1>4 DEF Follows


-----------------------------------------------------------------------------
(* The loop of read_wav. *)
Visited == [pos : Nat, data : Nat]

(* All of a chunk is skipped, whatever its id. *)
LEMMA ChunkIs ==
    ASSUME NEW c \in Chunk
    PROVE  c.size \in Nat /\ c.stored \in Nat /\ Skipped(c) = c.size
<1> DEFINE ids == {"fmt ", "data", "other"}
<1>1. c \in [id : ids, size : Nat, stored : Nat]
  BY DEF Chunk
<1>2. c.size \in Nat /\ c.stored \in Nat
  <2> HIDE DEF ids
  <2>1. QED
    BY <1>1
<1>3. Skipped(c) = 16 + (c.size - 16) \/ Skipped(c) = c.size
  BY Zenon DEF Skipped
<1>4. QED
  BY <1>2, <1>3

LEMMA VisitTyped ==
    ASSUME NEW f, f.chunks \in Seq(Chunk), NEW k \in 1..Len(f.chunks),
           NEW s \in Visited
    PROVE  Visit(f, s, k) \in Visited
<1>1. f.chunks[k] \in Chunk
  BY ElementOfSeq
<1>3. Skipped(f.chunks[k]) \in Nat
  BY <1>1, ChunkIs
<1>4. s.pos \in Nat /\ s.data \in Nat /\ k \in Nat
  BY DEF Visited
<1>5. s.pos + header_size + Skipped(f.chunks[k]) \in Nat
  BY <1>3, <1>4 DEF header_size
<1> DEFINE n == s.pos + header_size + Skipped(f.chunks[k])
<1>6. [s EXCEPT !.data = k] \in Visited /\ [s EXCEPT !.pos = n] \in Visited
  <2> HIDE DEF n
  <2>1. n \in Nat
    BY <1>5 DEF n
  <2>2. QED
    BY <1>4, <2>1 DEF Visited
<1>7. QED
  BY <1>6 DEF Visit

(* Where the headers are, and what the loop has found after each chunk.    *)
Headers(f, at) ==
    /\ \A k \in 1..Len(f.chunks) : Start(f, k) = at[k - 1]
    /\ at[0] = 12 /\ \A i \in 0..Len(f.chunks) : at[i] \in Nat
    /\ \A i \in 1..Len(f.chunks) :
          at[i] = at[i - 1] + header_size + f.chunks[i].stored

Walked(f, w) ==
    /\ Walk(f) = w[Len(f.chunks)] /\ w[0] = Begin
    /\ \A k \in 0..Len(f.chunks) : w[k] \in Visited
    /\ \A k \in 1..Len(f.chunks) : w[k] = Visit(f, w[k - 1], k)

LEMMA HeadersAre ==
    ASSUME NEW f, f.chunks \in Seq(Chunk)
    PROVE  \E at : Headers(f, at)
<1> DEFINE N == Len(f.chunks)
           step == [i \in 1..N |-> [v \in Nat |-> v + header_size + f.chunks[i].stored]]
           Is(g) == g = [i \in 0..Len(f.chunks) |->
                          IF i = 0 THEN 12
                          ELSE g[i - 1] + header_size + f.chunks[i].stored]
<1>1. N \in Nat /\ 12 \in Nat
  OBVIOUS
<1>2. \A i \in 1..N : f.chunks[i].stored \in Nat
  <2> TAKE i \in 1..N
  <2>1. f.chunks[i] \in Chunk
    BY ElementOfSeq
  <2>2. QED
    BY <2>1, ChunkIs
<1>3. step \in [1..N -> [Nat -> Nat]]
  BY <1>2 DEF header_size
<1> DEFINE a == 12
<1>4. PICK g : Follows(g, N, Nat, a, step)
  <2> HIDE DEF N, step, a
  <2>0. a \in Nat
    BY DEF a
  <2>1. QED
    BY <1>1, <1>3, <2>0, Recursion
<1>5. g \in [0..N -> Nat] /\ g[0] = 12 /\ \A i \in 1..N : g[i] = step[i][g[i - 1]]
  BY <1>4 DEF Follows
<1>6. \A i \in 1..N : g[i] = g[i - 1] + header_size + f.chunks[i].stored
  <2> TAKE i \in 1..N
  <2>1. i - 1 \in 0..N
    BY <1>1
  <2>2. g[i - 1] \in Nat /\ g[i] = step[i][g[i - 1]]
    BY <1>5, <2>1
  <2>3. QED
    BY <2>2
<1>7. Is(g)
  <2>1. \A i \in 0..N : i # 0 => i \in 1..N
    BY <1>1
  <2>2. g = [i \in 0..N |-> g[i]]
    BY <1>5
  <2>3. QED
    BY <1>5, <1>6, <2>1, <2>2
<1>8. \A h : Is(h) => h = g
  <2> SUFFICES ASSUME NEW h, Is(h) PROVE h = g
    OBVIOUS
  <2> DEFINE S == {m \in 0..N : h[m] = g[m]}
  <2>1. 0 \in S
    BY <1>1, <1>5
  <2>2. ASSUME NEW m \in 0..(N - 1), m \in S PROVE m + 1 \in S
    <3>1. m + 1 \in 1..N /\ m + 1 \in 0..N /\ m + 1 # 0 /\ (m + 1) - 1 = m
      BY <1>1
    <3>2. h[m + 1] = h[m] + header_size + f.chunks[m + 1].stored
      BY <3>1
    <3>3. g[m + 1] = g[m] + header_size + f.chunks[m + 1].stored
      BY <1>6, <3>1
    <3>4. QED
      BY <2>2, <3>1, <3>2, <3>3
  <2>3. \A m \in 0..N : m \in S
    <3> HIDE DEF S, N
    <3>1. QED
      BY <1>1, <2>1, <2>2, Induction
  <2>4. DOMAIN h = 0..N /\ DOMAIN g = 0..N
    BY <1>5
  <2>5. h = [i \in 0..N |-> h[i]] /\ g = [i \in 0..N |-> g[i]]
    BY <1>5
  <2>6. QED
    BY <2>3, <2>5
<1>9. (CHOOSE h : Is(h)) = g
  <2> HIDE DEF Is
  <2>1. QED
    BY <1>7, <1>8
<1>10. \A k : Start(f, k) = (CHOOSE h : Is(h))[k - 1]
  BY DEF Start
<1>11. \A k \in 1..N : Start(f, k) = g[k - 1]
  BY <1>9, <1>10
<1>12. Headers(f, g)
  BY <1>5, <1>6, <1>11 DEF Headers
<1>13. QED
  BY <1>12

LEMMA WalkIs ==
    ASSUME NEW f \in Files
    PROVE  \E w : Walked(f, w)
<1>0. f.chunks \in Seq(Chunk)
  BY FileAssumption
<1> DEFINE N == Len(f.chunks)
           step == [k \in 1..N |-> [s \in Visited |-> Visit(f, s, k)]]
           Is(g) == g = [k \in 0..Len(f.chunks) |->
                          IF k = 0 THEN Begin ELSE Visit(f, g[k - 1], k)]
<1>1. N \in Nat /\ Begin \in Visited
  BY <1>0 DEF Begin, Visited
<1>2. \A k \in 1..N : \A s \in Visited : Visit(f, s, k) \in Visited
  BY <1>0, VisitTyped
<1>3. step \in [1..N -> [Visited -> Visited]]
  BY <1>2
<1>4. PICK g : Follows(g, N, Visited, Begin, step)
  <2> HIDE DEF N, step
  <2>1. QED
    BY <1>1, <1>3, Recursion
<1>5. g \in [0..N -> Visited] /\ g[0] = Begin /\ \A k \in 1..N : g[k] = step[k][g[k - 1]]
  BY <1>4 DEF Follows
<1>6. \A k \in 1..N : g[k] = Visit(f, g[k - 1], k)
  <2> TAKE k \in 1..N
  <2>1. k - 1 \in 0..N
    BY <1>1
  <2>2. g[k - 1] \in Visited /\ g[k] = step[k][g[k - 1]]
    BY <1>5, <2>1
  <2>3. QED
    BY <2>2
<1>7. Is(g)
  <2>1. \A k \in 0..N : k # 0 => k \in 1..N
    BY <1>1
  <2>2. g = [k \in 0..N |-> g[k]]
    BY <1>5
  <2>3. QED
    BY <1>5, <1>6, <2>1, <2>2
<1>8. Walk(f) = (CHOOSE h : Is(h))[N]
  BY DEF Walk
<1>9. PICK h : Is(h) /\ Walk(f) = h[N]
  <2> HIDE DEF Is
  <2>1. QED
    BY <1>7, <1>8
<1>10. h[0] = Begin /\ \A k \in 1..N : h[k] = Visit(f, h[k - 1], k)
  <2>1. 0 \in 0..N /\ \A k \in 1..N : k \in 0..N /\ k # 0
    BY <1>1
  <2>2. QED
    BY <1>9, <2>1
<1>11. \A m \in 0..N : h[m] \in Visited
  <2> DEFINE S == {m \in 0..N : h[m] \in Visited}
  <2>1. 0 \in S
    BY <1>1, <1>10
  <2>2. ASSUME NEW m \in 0..(N - 1), m \in S PROVE m + 1 \in S
    <3>1. m + 1 \in 1..N /\ m + 1 \in 0..N /\ (m + 1) - 1 = m
      BY <1>1
    <3>2. h[m + 1] = Visit(f, h[m], m + 1)
      BY <1>10, <3>1
    <3>3. QED
      BY <1>2, <2>2, <3>1, <3>2
  <2>3. \A m \in 0..N : m \in S
    <3> HIDE DEF S, N
    <3>1. QED
      BY <1>1, <2>1, <2>2, Induction
  <2>4. QED
    BY <2>3
<1>12. Walked(f, h)
  BY <1>9, <1>10, <1>11 DEF Walked
<1>13. QED
  BY <1>12

(* In a well-formed file the loop meets every header up to the data chunk  *)
(* as long as no pad byte stands in between, and stays at the data.        *)
LEMMA SamplesFound ==
    ASSUME NEW f \in Files, WellFormed(f), EvenBeforeData(f)
    PROVE  ReadWav(f) = f.audio
<1> DEFINE N == Len(f.chunks)
           D == {k \in 1..N : IsData(f.chunks[k])}
<1>0. /\ f.chunks \in Seq(Chunk) /\ N \in Nat /\ DOMAIN f.chunks = 1..N
      /\ \A k \in 1..N : f.chunks[k] \in Chunk /\ f.chunks[k].size \in Nat
                         /\ f.chunks[k].stored \in Nat
  <2>1. f.chunks \in Seq(Chunk)
    BY FileAssumption
  <2>2. \A k \in 1..N : f.chunks[k] \in Chunk
    BY <2>1, ElementOfSeq
  <2>3. QED
    BY <2>1, <2>2, ChunkIs
<1>1. PICK d \in D : \A i \in 1..(d - 1) : f.chunks[i].size % 2 = 0
  BY <1>0 DEF EvenBeforeData
<1>2. PICK e \in D : \A k \in D : e <= k
  <2>1. D \subseteq Nat /\ D # {}
    BY <1>0, <1>1
  <2> HIDE DEF D
  <2>2. QED
    BY <2>1, Smallest
<1>3. e \in 1..N /\ e <= d /\ IsData(f.chunks[e])
  BY <1>0, <1>1, <1>2
<1>4. \A i \in 1..(e - 1) :
         /\ i \in 1..N /\ ~IsData(f.chunks[i])
         /\ f.chunks[i].stored = f.chunks[i].size
  <2> TAKE i \in 1..(e - 1)
  <2>1. i \in 1..N /\ i \in 1..(d - 1) /\ ~(e <= i)
    BY <1>0, <1>1, <1>3
  <2>2. ~IsData(f.chunks[i])
    BY <1>2, <2>1
  <2>3. f.chunks[i].size % 2 = 0 /\ f.chunks[i].size \in Nat
    BY <1>0, <1>1, <2>1
  <2>4. f.chunks[i].stored = f.chunks[i].size + (f.chunks[i].size % 2)
    BY <1>0, <2>1 DEF WellFormed
  <2>5. QED
    BY <2>1, <2>2, <2>3, <2>4
<1>5. \A i \in 1..(e - 1) : Skipped(f.chunks[i]) = f.chunks[i].stored
  <2> TAKE i \in 1..(e - 1)
  <2>1. f.chunks[i].stored = f.chunks[i].size /\ f.chunks[i] \in Chunk
    BY <1>0, <1>4
  <2>2. QED
    BY <2>1, ChunkIs
<1>6. PICK at : Headers(f, at)
  BY <1>0, HeadersAre
<1>7. PICK w : Walked(f, w)
  BY WalkIs
<1>8. \A m \in 0..(e - 1) : w[m].pos = at[m] /\ w[m].data = 0
  <2> DEFINE n == e - 1
             S == {m \in 0..n : w[m].pos = at[m] /\ w[m].data = 0}
  <2>1. n \in Nat /\ n <= N
    BY <1>0, <1>3
  <2>2. 0 \in S
    BY <1>6, <1>7, <2>1 DEF Headers, Walked, Begin
  <2>3. ASSUME NEW m \in 0..(n - 1), m \in S PROVE m + 1 \in S
    <3>1. /\ m + 1 \in 1..n /\ m + 1 \in 0..n /\ m + 1 \in 1..N /\ m \in 0..N
          /\ (m + 1) - 1 = m
      BY <2>1
    <3> DEFINE c == f.chunks[m + 1]
    <3>2. w[m + 1] = Visit(f, w[m], m + 1) /\ w[m] \in Visited
      BY <1>7, <3>1 DEF Walked
    <3>3. Start(f, m + 1) = at[m] /\ at[m + 1] = at[m] + header_size + c.stored
      BY <1>6, <3>1 DEF Headers
    <3>4. ~IsData(c) /\ Skipped(c) = c.stored
      BY <1>4, <1>5, <3>1
    <3>5. w[m].pos = at[m] /\ w[m].data = 0
      BY <2>3
    <3> DEFINE v == w[m]
    <3>6. w[m + 1] = [v EXCEPT !.pos = @ + header_size + Skipped(c)]
      BY <3>2, <3>3, <3>4, <3>5 DEF Visit
    <3>7. v \in Visited
      BY <3>2
    <3> HIDE DEF v, c
    <3>8. w[m + 1].pos = v.pos + header_size + Skipped(c) /\ w[m + 1].data = v.data
      BY <3>6, <3>7 DEF Visited
    <3>9. QED
      BY <3>1, <3>3, <3>4, <3>5, <3>8 DEF v
  <2>4. \A m \in 0..n : m \in S
    <3> HIDE DEF S, n
    <3>1. QED
      BY <2>1, <2>2, <2>3, Induction
  <2>5. QED
    BY <2>4
<1>9. w[e].data = e
  <2>1. e - 1 \in 0..(e - 1) /\ e - 1 \in 0..N
    BY <1>0, <1>3
  <2> DEFINE v == w[e - 1]
  <2>2. v.pos = at[e - 1] /\ v.data = 0 /\ v \in Visited
    BY <1>7, <1>8, <2>1 DEF Walked
  <2>3. w[e] = Visit(f, v, e)
    BY <1>3, <1>7 DEF Walked
  <2>4. Start(f, e) = at[e - 1]
    BY <1>3, <1>6 DEF Headers
  <2>5. w[e] = [v EXCEPT !.data = e]
    BY <1>3, <2>2, <2>3, <2>4 DEF Visit
  <2> HIDE DEF v
  <2>6. QED
    BY <2>2, <2>5 DEF Visited
<1>10. \A m \in 0..(N - e) : w[e + m].data = e
  <2> DEFINE n == N - e
             S == {m \in 0..n : w[e + m].data = e}
  <2>1. n \in Nat /\ e \in Nat /\ e # 0
    BY <1>0, <1>3
  <2>2. 0 \in S
    <3>1. e + 0 = e /\ 0 \in 0..n
      BY <2>1
    <3>2. QED
      BY <1>9, <3>1
  <2>3. ASSUME NEW m \in 0..(n - 1), m \in S PROVE m + 1 \in S
    <3>1. /\ e + (m + 1) \in 1..N /\ (e + (m + 1)) - 1 = e + m /\ m + 1 \in 0..n
      BY <1>0, <1>3, <2>1
    <3>2. w[e + (m + 1)] = Visit(f, w[e + m], e + (m + 1))
      BY <1>7, <3>1 DEF Walked
    <3>3. w[e + m].data # 0 /\ w[e + m].data = e
      BY <2>1, <2>3
    <3>4. w[e + (m + 1)] = w[e + m]
      BY <3>2, <3>3 DEF Visit
    <3>5. QED
      BY <3>1, <3>3, <3>4
  <2>4. \A m \in 0..n : m \in S
    <3> HIDE DEF S, n
    <3>1. QED
      BY <2>1, <2>2, <2>3, Induction
  <2>5. QED
    BY <2>4
<1>11. w[N].data # 0
  <2>1. N - e \in 0..(N - e) /\ e + (N - e) = N /\ e # 0
    BY <1>0, <1>3
  <2>2. QED
    BY <1>10, <2>1
<1>12. Walk(f).data # 0
  BY <1>7, <1>11 DEF Walked
<1>13. QED
  BY <1>12 DEF ReadWav, WellFormed

-----------------------------------------------------------------------------
(* The samples of a call that was given a file are those of the file, from *)
(* the moment they are read to the answer.                                 *)
FromFile == \A j \in Jobs :
    file[j] # NoFile /\ (pc[j] = "clear" \/ j \in Inside \/ Answered(j))
        => file[j] \in Files /\ audio[j] = ReadWav(file[j])

FileInv == TypeInv /\ FromFile

LEMMA FromFileStep ==
    ASSUME FileInv, [Next]_vars
    PROVE  FromFile'
<1>0. TypeOK /\ Checked /\ FromFile
  BY DEF FileInv, TypeInv
<1>1. CASE InitContext \/ UNCHANGED vars
  BY <1>0, <1>1 DEF InitContext, vars, client, call, argument, FromFile, Answered, Inside
<1>2. ASSUME NEW j \in Jobs, Call(j) PROVE FromFile'
  <2>1. /\ \E l \in {"check", "clear", "close"} :
              /\ Go(j, l)
              /\ l = "clear" => file' = [file EXCEPT ![j] = NoFile]
        /\ reply' = [reply EXCEPT ![j] = NoReply]
        /\ \A i \in Jobs \ {j} : audio'[i] = audio[i] /\ file'[i] = file[i]
    BY <1>0, <1>2 DEF Call, CallTranscribeFile, CallTranscribeData, CallClose,
                      argument, TypeOK
  <2>2. ~Answered(j)'
    BY <1>0, <2>1 DEF Answered, NoReply, TypeOK
  <2>3. \A i \in Jobs \ {j} : pc'[i] = pc[i] /\ reply'[i] = reply[i]
    BY <1>0, <2>1 DEF Go, TypeOK
  <2>4. pc'[j] = "clear" => file'[j] = NoFile
    BY <1>0, <2>1 DEF Go, TypeOK
  <2>5. pc'[j] \in {"check", "clear", "close"}
    BY <1>0, <2>1 DEF Go, TypeOK
  <2>6. QED
    BY <1>0, <2>1, <2>2, <2>3, <2>4, <2>5 DEF FromFile, Answered, Inside
<1>3. ASSUME NEW j \in Jobs, Step(j) PROVE FromFile'
  <2>0. Local(j) /\ (pc'[j] = "idle" \/ reply' = reply)
    BY <1>0, <1>3, StepLocal, StepReply
  <2> SUFFICES ASSUME file'[j] # NoFile,
                      pc'[j] = "clear" \/ j \in Inside' \/ Answered(j)'
               PROVE  file'[j] \in Files /\ audio'[j] = ReadWav(file'[j])
    BY <1>0, <2>0 DEF FromFile, Local, SameCall, Answered, Inside
  <2>1. CASE CheckFile(j)
    <3>1. pc'[j] \in {"idle", "read"} /\ (pc'[j] = "idle" => ~Answered(j)')
      BY <1>0, <2>1 DEF CheckFile, Return, Go, TypeOK, Answered, Error
    <3>2. ~Answered(j)'
      BY <1>0, <2>0, <2>1, <3>1 DEF CheckFile, Checked, Answered
    <3>3. QED
      BY <3>1, <3>2 DEF Inside
  <2>2. CASE ReadWavFile(j)
    BY <1>0, <2>0, <2>2 DEF ReadWavFile, TypeOK, Checked, Local
  <2>3. CASE Close(j)
    BY <1>0, <2>3 DEF Close, Return, Go, NoReply, Answered, TypeOK, Inside
  <2>4. CASE pc[j] = "clear" \/ j \in Inside
    <3>1. ~ReadWavFile(j)
      BY <2>4 DEF ReadWavFile, Inside
    <3>2. QED
      BY <1>0, <2>0, <2>4, <3>1 DEF FromFile, Local
  <2>5. QED
    BY <1>3, <2>1, <2>2, <2>3, <2>4
       DEF Step, ClearResults, PcmToMel, ReadLength, Encode, Decode, CountSegments,
           GetSegmentText, AppendText, Inside
<1>4. QED
  BY <1>1, <1>2, <1>3 DEF Next

(* A well-formed WAV file without an odd chunk before its samples is read  *)
(* as the audio it holds and, unless another transcription is in native    *)
(* code meanwhile, answered with the whole text of it: whatever other      *)
(* chunks the file has and wherever they stand, and whatever calls were    *)
(* made before.                                                            *)
THEOREM WavFilesHold == Spec => []WavFilesTranscribed
<1>1. Init => OwnInv /\ FileInv
  BY TypeInvInductive, OwnInvInductive
     DEF Init, OwnInv, Answered, NoReply, FileInv, FromFile, Inside
<1>2. OwnInv /\ FileInv /\ [Next]_vars => FileInv'
  BY TypeInvInductive, FromFileStep DEF FileInv
<1>3. OwnInv /\ FileInv => WavFilesTranscribed
  <2> SUFFICES ASSUME OwnInv, FileInv, NEW j \in Jobs \ overlapped,
                      Answered(j), file[j] # NoFile, WellFormed(file[j]),
                      EvenBeforeData(file[j]), file[j].audio # NoAudio
               PROVE  reply[j].text = Text(file[j].audio)
    BY DEF WavFilesTranscribed
  <2>1. file[j] \in Files /\ audio[j] = ReadWav(file[j])
    BY DEF FileInv, FromFile
  <2>2. audio[j] = file[j].audio
    BY <2>1, SamplesFound
  <2>3. audio[j] \in Audios
    BY <2>1, <2>2, FileAssumption
  <2>4. QED
    BY <2>2, <2>3 DEF OwnInv, Rebuilt
<1>4. QED
  BY <1>1, <1>2, <1>3, OwnInvInductive, PTL DEF Spec

-----------------------------------------------------------------------------
(* An application that makes one call at a time. *)
OneCall == \A j, k \in Busy : j = k

Serial == app.max_in_flight <= 1 => OneCall /\ overlapped = {}

LEMMA OnlyOne ==
    ASSUME NEW j, Busy' \subseteq {j}
    PROVE  OneCall'
BY DEF OneCall

LEMMA SerialCall ==
    ASSUME TypeInv, Serial, NEW j \in Jobs, Call(j)
    PROVE  Serial'
<1>1. /\ app' = app /\ overlapped' = overlapped /\ MayCall(j)
      /\ \E to : pc' = [pc EXCEPT ![j] = to]
  BY DEF Call, CallTranscribeFile, CallTranscribeData, CallClose, client, Go
<1> SUFFICES ASSUME app.max_in_flight <= 1 PROVE OneCall' /\ overlapped' = {}
  BY <1>1 DEF Serial
<1>2. OneCall /\ overlapped = {} /\ Cardinality(Busy) < app.max_in_flight
      /\ app.max_in_flight \in Nat
  BY <1>1, SessionAssumption DEF Serial, MayCall, TypeInv, TypeOK, SessionAssumption
<1>3. Busy = {}
  <2> SUFFICES ASSUME Busy # {} PROVE FALSE
    OBVIOUS
  <2>1. PICK k \in Busy : Busy = {k}
    BY <1>2 DEF OneCall
  <2>2. Cardinality({k}) = 1
    BY FS_Singleton
  <2>3. QED
    BY <1>2, <2>1, <2>2
<1>4. overlapped' = {}
  BY <1>1, <1>2
<1>5. Busy' \subseteq {j}
  <2>1. pc \in [Jobs -> Places]
    BY DEF TypeInv, TypeOK
  <2>2. \A k \in Jobs : pc[k] = "idle"
    BY <1>3 DEF Busy
  <2>3. \A k \in Jobs \ {j} : pc'[k] = pc[k]
    BY <1>1, <2>1
  <2>4. QED
    BY <2>2, <2>3 DEF Busy
<1>6. QED
  BY <1>4, <1>5, OnlyOne

LEMMA SerialStep ==
    ASSUME TypeInv, Serial, NEW j \in Jobs, Step(j)
    PROVE  Serial'
<1>1. Local(j) /\ app' = app /\ pc[j] # "idle" /\ \A k \in Jobs \ {j} : pc'[k] = pc[k]
  BY StepLocal DEF TypeInv, Local, SameCall
<1> SUFFICES ASSUME app.max_in_flight <= 1 PROVE OneCall' /\ overlapped' = {}
  BY <1>1 DEF Serial
<1>2. OneCall /\ overlapped = {} /\ j \in Busy
  BY <1>1 DEF Serial, Busy
<1>3. \A k \in Jobs \ {j} : pc[k] = "idle"
  BY <1>2 DEF OneCall, Busy
<1>4. Busy' \subseteq {j}
  BY <1>1, <1>3 DEF Busy
<1>5. overlapped' = {}
  <2>1. CASE ClearResults(j) /\ ~TouchFreed(j)
    <3>1. Inside = {}
      BY <1>3, <2>1 DEF ClearResults, Inside
    <3>2. QED
      BY <1>2, <2>1, <3>1 DEF ClearResults, Overlaps
  <2>2. CASE ~ClearResults(j) \/ TouchFreed(j)
    BY <1>2, <2>2
       DEF Step, CheckFile, ReadWavFile, ClearResults, PcmToMel, ReadLength, Encode,
           Decode, WindowDone, WindowFails, WindowOutOfMemory, Regrow, CountSegments,
           GetSegmentText, AppendText, Close, TouchFreed, client
  <2>3. QED
    BY <2>1, <2>2
<1>6. QED
  BY <1>4, <1>5, OnlyOne

(* An application that makes one call at a time gets from every call that  *)
(* answers the whole text of the audio it gave, and nothing of another,    *)
(* and if it closes the context after its last call it meets no freed      *)
(* memory: used this way, WhisperContext needs no lock around the shared   *)
(* state.  (An empty array is answered with the audio of the call before,  *)
(* also then: NoForeignText.)                                              *)
THEOREM OneAtATime == Spec => [](app.max_in_flight <= 1 =>
    /\ \A j \in Jobs :
          Answered(j) /\ audio[j] \in Audios => reply[j].text = Text(audio[j])
    /\ app.close_last /\ ~app.alloc_may_fail => ~Stopped)
<1>1. Init => Serial
  BY DEF Init, Serial, OneCall, Busy
<1>2. TypeInv /\ Serial /\ [Next]_vars => Serial'
  <2> SUFFICES ASSUME TypeInv, Serial, [Next]_vars PROVE Serial'
    OBVIOUS
  <2>1. CASE InitContext
    BY <2>1 DEF InitContext, client, Serial, OneCall, Busy
  <2>2. CASE UNCHANGED vars
    BY <2>2 DEF vars, Serial, OneCall, Busy
  <2>3. QED
    BY <2>1, <2>2, SerialCall, SerialStep DEF Next
<1>3. Serial /\ OwnText /\ NoUseAfterFree => (app.max_in_flight <= 1 =>
          /\ \A j \in Jobs :
                Answered(j) /\ audio[j] \in Audios => reply[j].text = Text(audio[j])
          /\ app.close_last /\ ~app.alloc_may_fail => ~Stopped)
  BY DEF Serial, OwnText, NoUseAfterFree
<1>4. QED
  BY <1>1, <1>2, <1>3, TypeInvInductive, OwnTextHolds, MemorySafe, PTL DEF Spec

=============================================================================
