--------------------------- MODULE FullSeek_proofs ---------------------------
(***************************************************************************)
(* For every vocabulary, context length, set of parameters and number of   *)
(* calls: a prompt leaves room for a window's tokens, holds the text of    *)
(* the past in its order and, with no_context, nothing of an earlier call; *)
(* segments stand in the order of their times and hold the text of their   *)
(* windows; every window moves seek.                                       *)
(*                                                                         *)
(* None of this is inductive: what reaches a prompt passes through the two *)
(* contexts, which outlive windows and calls, and where a segment may      *)
(* begin depends on where the window before it ended.  The invariants      *)
(* bound the carried prompt by the largest budget of any call (ContextInv),*)
(* say what the contexts hold, in which order and from which time          *)
(* (OrderInv), and that the segments end where the next window begins      *)
(* (Results, Times).                                                       *)
(***************************************************************************)
EXTENDS FullSeek, FiniteSetTheorems, SequenceTheorems, WellFoundedInduction,
        NaturalsInduction, TLAPS

half == n_text_ctx \div 2

AnyPiece == [from : {"prev", "initial", "decoded", "init"},
             call : Int, at : Int, k : Int]

Working == phase \in {"loop", "decode", "emit"}

OfThisCall(s) == \A k \in DOMAIN s : s[k].call = calls

(* The part of a prompt that comes from the past, after its marker. *)
PastPart(s) == 2..(Len(s) - NInit)

Types ==
    /\ calls \in Nat /\ params \in Params /\ span \in Spans /\ seek \in Int
    /\ prompt_past0 \in Seq(AnyPiece) /\ prompt_past1 \in Seq(AnyPiece)
    /\ phase = "emit" => /\ outcome \in Outcomes[params]
                         /\ prompt \in Seq(AnyPiece)

CarryFits == Len(prompt_past0) <= half - 1

OwnPast == Working /\ params.no_context =>
               OfThisCall(prompt_past0) /\ OfThisCall(prompt_past1)

OwnPrompt == phase = "emit" /\ params.no_context => \A k \in DOMAIN prompt :
    IF k \in PastPart(prompt) THEN prompt[k].call = calls
    ELSE prompt[k].from \notin {"initial", "decoded"}

ContextInv == Types /\ CarryFits /\ PromptFits /\ OwnPast /\ OwnPrompt

-----------------------------------------------------------------------------
(* The end of a sequence. *)
LEMMA LastNFacts ==
    ASSUME NEW S, NEW s \in Seq(S), NEW n \in 0..Len(s)
    PROVE  /\ LastN(s, n) \in Seq(S)
           /\ Len(LastN(s, n)) = n
           /\ \A k \in 1..n : LastN(s, n)[k] = s[Len(s) - n + k]
BY DEF LastN

LEMMA HalfFacts == half \in Nat /\ half >= 5
BY OutcomeAssumption DEF OutcomeAssumption, half, n_max

LEMMA MarksFacts == /\ Marks \in Seq(AnyPiece) /\ Len(Marks) = NInit
                    /\ NInit \in 1..4
                    /\ \A k \in 1..NInit : Marks[k].from = "init"
<1>1. NInit \in Nat /\ NInit \in 1..4
  BY SeekAssumption DEF SeekAssumption
<1>2. \A k \in 1..NInit : Piece("init", 0, 0, k) \in AnyPiece
                           /\ Piece("init", 0, 0, k).from = "init"
  BY <1>1 DEF Piece, AnyPiece
<1>3. Marks \in [1..NInit -> AnyPiece]
  BY <1>2 DEF Marks
<1>4. \A k \in 1..NInit : Marks[k].from = "init"
  BY <1>2 DEF Marks
<1>5. QED
  BY <1>1, <1>3, <1>4

LEMMA ParamsFacts ==
    ASSUME params \in Params
    PROVE  /\ params.no_context \in BOOLEAN
           /\ params.carry_initial_prompt \in BOOLEAN
           /\ params.n_max_text_ctx \in Int
           /\ params.prompt_n_tokens \in Nat
BY SeekAssumption DEF SeekAssumption

LEMMA InitialFacts ==
    ASSUME params \in Params, calls \in Nat
    PROVE  /\ Initial \in Seq(AnyPiece) /\ OfThisCall(Initial)
           /\ Len(Initial) = params.prompt_n_tokens
<1>1. params.prompt_n_tokens \in Nat
  BY ParamsFacts
<1>2. \A k \in 1..params.prompt_n_tokens :
          /\ Piece("initial", calls, 0, k) \in AnyPiece
          /\ Piece("initial", calls, 0, k).call = calls
  BY <1>1 DEF Piece, AnyPiece
<1>3. Initial \in [1..params.prompt_n_tokens -> AnyPiece]
  BY <1>2 DEF Initial
<1>4. OfThisCall(Initial)
  BY <1>2, <1>3 DEF OfThisCall, Initial
<1>5. QED
  BY <1>1, <1>3, <1>4

(* What goes into the prompt of the past: a marker, and pieces of the two  *)
(* contexts, within the budget.                                            *)
LEMMA PromptOfPastFacts ==
    ASSUME Types, CarryFits
    PROVE  /\ PromptOfPast \in Seq(AnyPiece)
           /\ Len(PromptOfPast) <= half
           /\ \A k \in DOMAIN PromptOfPast :
                 IF k = 1 THEN PromptOfPast[k] = Prev
                 ELSE \/ \E l \in DOMAIN prompt_past0 : PromptOfPast[k] = prompt_past0[l]
                      \/ \E l \in DOMAIN prompt_past1 : PromptOfPast[k] = prompt_past1[l]
<1> DEFINE n0 == IF params.carry_initial_prompt THEN Len(prompt_past0) ELSE 0
           m1 == Least(max_prompt_ctx - n0 - 1, Len(prompt_past1))
           n1 == Most(0, m1)
           a  == LastN(prompt_past0, n0)
           b  == LastN(prompt_past1, n1)
<1>1. /\ prompt_past0 \in Seq(AnyPiece) /\ prompt_past1 \in Seq(AnyPiece)
      /\ params \in Params
  BY DEF Types
<1>2. max_prompt_ctx \in Int /\ max_prompt_ctx <= half
  BY <1>1, ParamsFacts, HalfFacts DEF max_prompt_ctx, Least, half
<1>3. n0 \in 0..Len(prompt_past0) /\ n0 <= half - 1
  BY <1>1, HalfFacts DEF CarryFits
<1>4. n1 \in 0..Len(prompt_past1) /\ 1 + n0 + n1 <= half
  <2> HIDE DEF n0
  <2>0. Len(prompt_past1) \in Nat /\ half \in Nat /\ n0 \in Int
    BY <1>1, <1>3, HalfFacts
  <2>1. m1 \in Int /\ m1 <= Len(prompt_past1) /\ m1 <= max_prompt_ctx - n0 - 1
    BY <2>0, <1>2 DEF Least
  <2>2. CASE m1 <= 0
    BY <2>0, <2>1, <2>2, <1>3 DEF Most
  <2>3. CASE m1 > 0
    BY <2>0, <2>1, <2>3, <1>2, <1>3 DEF Most
  <2>4. QED
    BY <2>1, <2>2, <2>3
<1>5. PromptOfPast = IF params.n_max_text_ctx > 0 /\ (n0 > 0 \/ prompt_past1 # <<>>)
                     THEN <<Prev>> \o a \o b ELSE <<>>
  BY DEF PromptOfPast
<1>6. /\ a \in Seq(AnyPiece) /\ Len(a) = n0
      /\ \A k \in 1..n0 : a[k] = prompt_past0[Len(prompt_past0) - n0 + k]
  BY <1>1, <1>3, LastNFacts
<1>7. /\ b \in Seq(AnyPiece) /\ Len(b) = n1
      /\ \A k \in 1..n1 : b[k] = prompt_past1[Len(prompt_past1) - n1 + k]
  BY <1>1, <1>4, LastNFacts
<1>8. Prev \in AnyPiece
  BY DEF Prev, Piece, AnyPiece
<1> HIDE DEF n0, m1, n1, a, b
<1>9. /\ <<Prev>> \o a \o b \in Seq(AnyPiece)
      /\ Len(<<Prev>> \o a \o b) = 1 + n0 + n1
      /\ (<<Prev>> \o a \o b)[1] = Prev
      /\ \A k \in 1..n0 : (<<Prev>> \o a \o b)[1 + k] = a[k]
      /\ \A k \in 1..n1 : (<<Prev>> \o a \o b)[1 + n0 + k] = b[k]
  <2>1. n0 \in Nat /\ n1 \in Nat
    BY <1>1, <1>3, <1>4
  <2>2. /\ <<Prev>> \o a \in Seq(AnyPiece) /\ Len(<<Prev>> \o a) = 1 + n0
        /\ (<<Prev>> \o a)[1] = Prev
        /\ \A k \in 1..n0 : (<<Prev>> \o a)[1 + k] = a[k]
    BY <2>1, <1>6, <1>8
  <2> DEFINE c == <<Prev>> \o a
  <2> HIDE DEF c
  <2>3. c \in Seq(AnyPiece) /\ Len(c) = 1 + n0
    BY <2>2 DEF c
  <2>4. /\ c \o b \in Seq(AnyPiece) /\ Len(c \o b) = 1 + n0 + n1
        /\ \A k \in 1..(1 + n0) : (c \o b)[k] = c[k]
        /\ \A k \in 1..n1 : (c \o b)[1 + n0 + k] = b[k]
    BY <2>1, <2>3, <1>7
  <2>5. /\ (c \o b)[1] = Prev
        /\ \A k \in 1..n0 : (c \o b)[1 + k] = a[k]
    BY <2>1, <2>2, <2>4 DEF c
  <2>6. QED
    BY <2>4, <2>5 DEF c
<1>10. ASSUME NEW k \in DOMAIN (<<Prev>> \o a \o b), k # 1
       PROVE  \/ \E l \in DOMAIN prompt_past0 : (<<Prev>> \o a \o b)[k] = prompt_past0[l]
              \/ \E l \in DOMAIN prompt_past1 : (<<Prev>> \o a \o b)[k] = prompt_past1[l]
  <2>1. k \in 2..(1 + n0 + n1)
    BY <1>9, <1>10, <1>3, <1>4
  <2>2. CASE k <= 1 + n0
    <3>1. k - 1 \in 1..n0 /\ Len(prompt_past0) - n0 + (k - 1) \in 1..Len(prompt_past0)
      BY <2>1, <2>2, <1>3, <1>1
    <3>2. (<<Prev>> \o a \o b)[k] = a[k - 1]
      BY <3>1, <1>9, <2>1
    <3>3. QED
      BY <3>1, <3>2, <1>6, <1>1
  <2>3. CASE k > 1 + n0
    <3>1. /\ k - 1 - n0 \in 1..n1
          /\ Len(prompt_past1) - n1 + (k - 1 - n0) \in 1..Len(prompt_past1)
      BY <2>1, <2>3, <1>3, <1>4, <1>1
    <3>2. (<<Prev>> \o a \o b)[k] = b[k - 1 - n0]
      BY <3>1, <1>9, <2>1, <1>3
    <3>3. QED
      BY <3>1, <3>2, <1>7, <1>1
  <2>4. QED
    BY <2>1, <2>2, <2>3, <1>3
<1>11. CASE PromptOfPast = <<>>
  BY <1>11, HalfFacts
<1>12. CASE PromptOfPast = <<Prev>> \o a \o b
  BY <1>4, <1>9, <1>10, <1>12
<1>13. QED
  BY <1>5, <1>11, <1>12

LEMMA OutcomeFacts ==
    ASSUME params \in Params, NEW o \in Outcomes[params]
    PROVE  o.result_len \in Nat /\ o.seek_delta \in Int
<1>1. n_max \in Int /\ Chunk \in Int
  BY OutcomeAssumption DEF OutcomeAssumption, n_max, Chunk
<1>2. o \in [tokens : UNION {[1..n -> Token] : n \in 1..n_max},
             result_len : 0..n_max, seek_delta : 1..Chunk,
             tid : Token, no_speech : BOOLEAN]
  BY DEF Outcomes
<1>3. QED
  BY <1>1, <1>2

LEMMA SeekDeltaFacts ==
    ASSUME Types, outcome \in Outcomes[params]
    PROVE  SeekDelta \in Int
<1>1. span.to \in Int /\ seek \in Int /\ Chunk \in Int
  BY SeekAssumption, OutcomeAssumption
  DEF Types, SeekAssumption, OutcomeAssumption, Chunk
<1>2. outcome.seek_delta \in Int
  BY OutcomeFacts DEF Types
<1>3. QED
  BY <1>1, <1>2 DEF SeekDelta, Least

LEMMA SaidFacts ==
    ASSUME Types, outcome \in Outcomes[params]
    PROVE  Said \in Seq(AnyPiece) /\ OfThisCall(Said)
<1>1. outcome.result_len \in Nat /\ calls \in Int /\ seek \in Int
  BY OutcomeFacts DEF Types
<1>2. CASE outcome.no_speech
  BY <1>2 DEF Said, OfThisCall
<1>3. CASE ~outcome.no_speech
  <2>1. \A k \in 1..outcome.result_len :
            /\ Piece("decoded", calls, seek, k) \in AnyPiece
            /\ Piece("decoded", calls, seek, k).call = calls
    BY <1>1 DEF Piece, AnyPiece
  <2>2. Said \in [1..outcome.result_len -> AnyPiece]
    BY <2>1, <1>3 DEF Said
  <2>3. OfThisCall(Said)
    BY <2>1, <2>2, <1>3 DEF OfThisCall, Said
  <2>4. QED
    BY <1>1, <2>2, <2>3
<1>4. QED
  BY <1>2, <1>3

-----------------------------------------------------------------------------
(* The actions that change a context or the prompt. *)

LEMMA PrepareKeeps ==
    ASSUME ContextInv, Prepare
    PROVE  ContextInv'
<1> DEFINE carry == params.carry_initial_prompt
           kept0 == Kept(prompt_past0)
           n == Least(params.prompt_n_tokens, Most(1, max_prompt_ctx - 1))
<1>1. Types /\ CarryFits
  BY DEF ContextInv
<1>2. /\ params \in Params /\ params.n_max_text_ctx \in Int
      /\ params.prompt_n_tokens \in Nat /\ params.no_context \in BOOLEAN
      /\ calls \in Nat
  BY <1>1, ParamsFacts DEF Types
<1>3. /\ Kept(prompt_past0) \in Seq(AnyPiece) /\ Len(kept0) <= half - 1
      /\ Kept(prompt_past1) \in Seq(AnyPiece)
      /\ params.no_context => kept0 = <<>> /\ Kept(prompt_past1) = <<>>
  BY <1>1, <1>2, HalfFacts DEF Kept, Types, CarryFits
<1>4. /\ Initial \in Seq(AnyPiece) /\ OfThisCall(Initial)
      /\ Len(Initial) = params.prompt_n_tokens
  BY <1>2, InitialFacts
<1>5. n \in 0..Len(Initial) /\ n <= half - 1
  <2>1. max_prompt_ctx \in Int /\ max_prompt_ctx <= half
    BY <1>2, HalfFacts DEF max_prompt_ctx, Least, half
  <2>2. Most(1, max_prompt_ctx - 1) \in 1..(half - 1)
    BY <2>1, HalfFacts DEF Most
  <2>3. QED
    BY <2>2, <1>2, <1>4, HalfFacts DEF Least
<1>6. /\ LastN(Initial, n) \in Seq(AnyPiece) /\ Len(LastN(Initial, n)) = n
      /\ OfThisCall(LastN(Initial, n))
  <2> HIDE DEF n
  <2>1. /\ LastN(Initial, n) \in Seq(AnyPiece) /\ Len(LastN(Initial, n)) = n
        /\ \A k \in 1..n : LastN(Initial, n)[k] = Initial[Len(Initial) - n + k]
    BY <1>4, <1>5, LastNFacts
  <2>2. \A k \in 1..n : Len(Initial) - n + k \in DOMAIN Initial
    BY <1>4, <1>5, <1>2
  <2>3. QED
    BY <2>1, <2>2, <1>4 DEF OfThisCall
<1>7. /\ prompt_past0' = IF carry /\ kept0 = <<>> THEN LastN(Initial, n) ELSE kept0
      /\ prompt_past1' = IF carry THEN Kept(prompt_past1)
                                  ELSE Initial \o Kept(prompt_past1)
      /\ phase' \in {"loop", "idle"}
      /\ UNCHANGED <<calls, params, span, seek, prompt, outcome>>
  BY DEF Prepare
<1> HIDE DEF n, kept0
<1>8. /\ prompt_past0' \in Seq(AnyPiece) /\ Len(prompt_past0') <= half - 1
      /\ params.no_context => OfThisCall(prompt_past0')
  BY <1>3, <1>5, <1>6, <1>7 DEF OfThisCall, kept0
<1>9. /\ prompt_past1' \in Seq(AnyPiece)
      /\ params.no_context => OfThisCall(prompt_past1')
  BY <1>3, <1>4, <1>7 DEF OfThisCall
<1>10. Types' /\ CarryFits'
  BY <1>1, <1>7, <1>8, <1>9 DEF Types, CarryFits, half
<1>11. OwnPast'
  BY <1>7, <1>8, <1>9 DEF OwnPast, OfThisCall
<1>12. PromptFits' /\ OwnPrompt'
  BY <1>7 DEF PromptFits, OwnPrompt
<1>13. QED
  BY <1>10, <1>11, <1>12 DEF ContextInv

LEMMA EncodeKeeps ==
    ASSUME ContextInv, Encode
    PROVE  ContextInv'
<1>1. /\ Types /\ CarryFits /\ OwnPast /\ phase = "loop"
  BY DEF ContextInv, Encode
<1>2. /\ \/ prompt_past0' = <<>> /\ prompt_past1' = <<>>
         \/ prompt_past0' = prompt_past0 /\ prompt_past1' = prompt_past1
      /\ phase' = "decode" /\ UNCHANGED <<calls, params, span, seek>>
  BY DEF Encode, past
<1>3. /\ prompt_past0' \in Seq(AnyPiece) /\ prompt_past1' \in Seq(AnyPiece)
      /\ Len(prompt_past0') <= half - 1
  <2>1. /\ prompt_past0 \in Seq(AnyPiece) /\ prompt_past1 \in Seq(AnyPiece)
        /\ Len(prompt_past0) <= half - 1
    BY <1>1 DEF Types, CarryFits
  <2>2. CASE prompt_past0' = <<>> /\ prompt_past1' = <<>>
    BY <2>2, HalfFacts
  <2>3. CASE prompt_past0' = prompt_past0 /\ prompt_past1' = prompt_past1
    BY <2>1, <2>3
  <2>4. QED
    BY <1>2, <2>2, <2>3
<1>4. Types' /\ CarryFits'
  BY <1>1, <1>2, <1>3 DEF Types, CarryFits, half
<1>5. OwnPast'
  BY <1>1, <1>2 DEF OwnPast, Working, OfThisCall
<1>6. PromptFits' /\ OwnPrompt'
  BY <1>2 DEF PromptFits, OwnPrompt
<1>7. QED
  BY <1>4, <1>5, <1>6 DEF ContextInv

LEMMA DecodeKeeps ==
    ASSUME ContextInv, Decode
    PROVE  ContextInv'
<1>1. /\ Types /\ CarryFits /\ OwnPast /\ phase = "decode"
  BY DEF ContextInv, Decode
<1>2. /\ prompt' \in {PromptOfPast \o Marks, Marks}
      /\ outcome' \in Outcomes[params] /\ phase' = "emit"
      /\ UNCHANGED <<calls, params, span, seek, prompt_past0, prompt_past1>>
  BY DEF Decode, past
<1>3. /\ PromptOfPast \in Seq(AnyPiece) /\ Len(PromptOfPast) <= half
      /\ \A k \in DOMAIN PromptOfPast :
            IF k = 1 THEN PromptOfPast[k] = Prev
            ELSE \/ \E l \in DOMAIN prompt_past0 : PromptOfPast[k] = prompt_past0[l]
                 \/ \E l \in DOMAIN prompt_past1 : PromptOfPast[k] = prompt_past1[l]
  BY <1>1, PromptOfPastFacts
<1>4. /\ Marks \in Seq(AnyPiece) /\ Len(Marks) = NInit /\ NInit \in 1..4
      /\ \A k \in 1..NInit : Marks[k].from = "init"
  BY MarksFacts
<1>5. Prev.from = "prev"
  BY DEF Prev, Piece
<1>6. params.no_context => \A k \in DOMAIN PromptOfPast :
          k # 1 => PromptOfPast[k].call = calls
  BY <1>1, <1>3 DEF OwnPast, Working, OfThisCall
<1> DEFINE c == PromptOfPast
<1> HIDE DEF c
<1>7. /\ prompt' \in Seq(AnyPiece) /\ Len(prompt') <= half + NInit
      /\ params.no_context => \A k \in DOMAIN prompt' :
            IF k \in PastPart(prompt') THEN prompt'[k].call = calls
            ELSE prompt'[k].from \notin {"initial", "decoded"}
  <2>1. CASE prompt' = Marks
    BY <2>1, <1>4, HalfFacts DEF PastPart
  <2>2. CASE prompt' = c \o Marks
    <3>1. /\ c \in Seq(AnyPiece) /\ Len(c) \in Nat /\ Len(c) <= half
          /\ \A k \in 1..Len(c) : k = 1 => c[k].from = "prev"
          /\ params.no_context => \A k \in 1..Len(c) : k # 1 => c[k].call = calls
      BY <1>3, <1>5, <1>6 DEF c
    <3>2. /\ prompt' \in Seq(AnyPiece) /\ Len(prompt') = Len(c) + NInit
          /\ \A k \in 1..Len(c) : prompt'[k] = c[k]
          /\ \A k \in (Len(c) + 1)..(Len(c) + NInit) : prompt'[k] = Marks[k - Len(c)]
      BY <2>2, <3>1, <1>4
    <3>3. PastPart(prompt') = 2..Len(c)
      BY <3>1, <3>2, <1>4 DEF PastPart
    <3>4. ASSUME NEW k \in DOMAIN prompt', k \notin 1..Len(c)
          PROVE  prompt'[k].from = "init"
      BY <3>1, <3>2, <3>4, <1>4
    <3>5. QED
      BY <3>1, <3>2, <3>3, <3>4, <1>4, HalfFacts
  <2>3. QED
    BY <1>2, <2>1, <2>2 DEF c
<1>8. Types' /\ CarryFits'
  BY <1>1, <1>2, <1>7 DEF Types, CarryFits, half
<1>9. OwnPast'
  BY <1>1, <1>2 DEF OwnPast, Working, OfThisCall
<1>10. PromptFits' /\ OwnPrompt'
  BY <1>2, <1>7 DEF PromptFits, OwnPrompt, half, PastPart
<1>11. QED
  BY <1>8, <1>9, <1>10 DEF ContextInv

LEMMA EmitKeeps ==
    ASSUME ContextInv, Emit
    PROVE  ContextInv'
<1>1. /\ Types /\ CarryFits /\ OwnPast /\ OwnPrompt /\ phase = "emit"
      /\ outcome \in Outcomes[params] /\ prompt \in Seq(AnyPiece)
  BY DEF ContextInv, Types, Emit
<1>2. /\ prompt_past1' = PastAfter /\ seek' = seek + SeekDelta
      /\ phase' = "loop" /\ UNCHANGED <<calls, params, span, prompt_past0>>
  BY DEF Emit
<1>3. Said \in Seq(AnyPiece) /\ OfThisCall(Said) /\ SeekDelta \in Int
  BY <1>1, SaidFacts, SeekDeltaFacts
<1> DEFINE c == SubSeq(prompt, 2, Len(prompt) - NInit)
<1>4. /\ c \in Seq(AnyPiece)
      /\ params.no_context => OfThisCall(c)
  <2>1. NInit \in 1..4 /\ Len(prompt) \in Nat
    BY <1>1, MarksFacts
  <2>2. c \in Seq(AnyPiece) /\ \A k \in DOMAIN c :
            c[k] = prompt[k + 1] /\ k + 1 \in PastPart(prompt)
                                /\ k + 1 \in DOMAIN prompt
    BY <1>1, <2>1 DEF PastPart
  <2>3. QED
    BY <1>1, <2>2 DEF OwnPrompt, OfThisCall
<1> HIDE DEF c
<1>5. PastAfter = c \o Said \/ PastAfter = <<>> \o Said
  BY DEF PastAfter, c
<1>6. /\ PastAfter \in Seq(AnyPiece)
      /\ params.no_context => OfThisCall(PastAfter)
  <2>1. CASE PastAfter = c \o Said
    BY <2>1, <1>3, <1>4 DEF OfThisCall
  <2>2. CASE PastAfter = <<>> \o Said
    BY <2>2, <1>3 DEF OfThisCall
  <2>3. QED
    BY <1>5, <2>1, <2>2
<1>7. Types' /\ CarryFits'
  BY <1>1, <1>2, <1>3, <1>6 DEF Types, CarryFits, half
<1>8. OwnPast'
  BY <1>1, <1>2, <1>6 DEF OwnPast, Working, OfThisCall
<1>9. PromptFits' /\ OwnPrompt'
  BY <1>2 DEF PromptFits, OwnPrompt
<1>10. QED
  BY <1>7, <1>8, <1>9 DEF ContextInv

-----------------------------------------------------------------------------
THEOREM ContextInvariant == Spec => []ContextInv
<1>1. Init => ContextInv
  <2> SUFFICES ASSUME Init PROVE ContextInv
    OBVIOUS
  <2>1. /\ Types /\ CarryFits
    BY HalfFacts DEF Init, Types, CarryFits
  <2>2. PromptFits /\ OwnPast /\ OwnPrompt
    BY DEF Init, PromptFits, OwnPast, Working, OwnPrompt
  <2>3. QED
    BY <2>1, <2>2 DEF ContextInv
<1>2. ContextInv /\ [Next]_vars => ContextInv'
  <2> SUFFICES ASSUME ContextInv, [Next]_vars PROVE ContextInv'
    OBVIOUS
  <2> USE DEF ContextInv
  <2>1. CASE Call
    <3>1. /\ calls' = calls + 1 /\ params' \in Params /\ span' \in Spans
          /\ seek' = span'.from /\ phase' \in {"idle", "prepare"}
          /\ UNCHANGED <<prompt_past0, prompt_past1>>
      BY <2>1 DEF Call, past
    <3>2. seek' \in Int
      BY <3>1, SeekAssumption DEF SeekAssumption
    <3>3. QED
      BY <3>1, <3>2
      DEF Types, CarryFits, half, PromptFits, OwnPast, Working, OwnPrompt
  <2>2. CASE Prepare
    BY <2>2, PrepareKeeps
  <2>3. CASE Finish \/ Fails
    BY <2>3 DEF Finish, Fails, Return, past,
        Types, CarryFits, half, PromptFits, OwnPast, Working, OwnPrompt
  <2>4. CASE Encode
    BY <2>4, EncodeKeeps
  <2>5. CASE Decode
    BY <2>5, DecodeKeeps
  <2>6. CASE OutOfMemory
    BY <2>6 DEF OutOfMemory, past,
        Types, CarryFits, half, PromptFits, OwnPast, Working, OwnPrompt
  <2>7. CASE Emit
    BY <2>7, EmitKeeps
  <2>8. CASE UNCHANGED vars
    BY <2>8 DEF vars, past, Types, CarryFits, half, PromptFits, OwnPast,
        Working, OfThisCall, OwnPrompt, PastPart
  <2>9. QED
    BY <2>1, <2>2, <2>3, <2>4, <2>5, <2>6, <2>7, <2>8 DEF Next
<1>3. QED
  BY <1>1, <1>2, PTL DEF Spec

(* Whatever budgets, initial prompts and contexts the calls combine, the   *)
(* prompt of a window (whisper.cpp:7098-7126) leaves positions for n_max   *)
(* decoded tokens.                                                         *)
THEOREM PromptAlwaysFits == Spec => []PromptFits
<1>1. ContextInv => PromptFits
  BY DEF ContextInv
<1>2. QED
  BY <1>1, ContextInvariant, PTL

(* A call with no_context (whisper.cpp:6908) prompts its windows only with *)
(* its own initial prompt and its own text.                                *)
THEOREM ContextIsOwn == Spec => []OwnContext
<1>1. ContextInv => OwnContext
  BY DEF ContextInv, OwnPrompt, OwnContext
<1>2. QED
  BY <1>1, ContextInvariant, PTL

-----------------------------------------------------------------------------
(* The order in which pieces stand in the contexts and in a prompt.        *)

PastPiece ==
    [from : {"initial"}, call : 1..MaxCalls, at : {0}, k : Nat \ {0}]
    \cup [from : {"decoded"}, call : 1..MaxCalls, at : Nat, k : 1..n_max]

Ordered(s) == \A a, b \in DOMAIN s : a < b => Earlier(s[a], s[b])

Precede(s, t) == \A a \in DOMAIN s, b \in DOMAIN t : Earlier(s[a], t[b])

Among(s, t) == \A a \in DOMAIN s : \E b \in DOMAIN t : s[a] = t[b]

(* What was said before the window at a time of a call (before the initial *)
(* prompt of the call, for the time -1).                                   *)
Known(s, call, at) == \A k \in DOMAIN s :
    /\ s[k] \in PastPiece
    /\ \/ s[k].call < call
       \/ s[k].call = call /\ (IF s[k].from = "initial" THEN 0 <= at ELSE s[k].at < at)

Contexts(s, t, call, at) ==
    /\ Known(s, call, at) /\ Known(t, call, at)
    /\ \A k \in DOMAIN s : s[k].from = "initial"
    /\ Ordered(s) /\ Ordered(t) /\ Precede(s, t)

Where ==
    /\ phase \in {"idle", "prepare", "loop", "decode", "emit", "freed"}
    /\ calls \in 0..MaxCalls /\ seek \in Nat
    /\ phase # "idle" => /\ calls >= 1 /\ span.from <= seek
                         /\ seek <= span.to + Chunk
    /\ phase \in {"decode", "emit"} => seek + delta_min < span.to
    /\ phase # "emit" => prompt = <<>>

InOrder ==
    Contexts(prompt_past0, prompt_past1,
             IF phase \in {"idle", "freed"} THEN calls + 1 ELSE calls,
             IF Working THEN seek ELSE -1)

OrderedPrompt == phase = "emit" =>
    /\ Ordered(prompt) /\ prompt # <<>>
    /\ \A k \in DOMAIN prompt : prompt[k] \in Pieces
    /\ ~params.carry_initial_prompt => \A k \in PastPart(prompt) :
          \E l \in DOMAIN prompt_past1 : prompt[k] = prompt_past1[l]

OrderInv == Where /\ InOrder /\ OrderedPrompt

LEMMA PieceFacts ==
    ASSUME NEW p \in PastPiece
    PROVE  /\ p \in AnyPiece /\ p \in Pieces
           /\ p.call \in Nat /\ p.at \in Nat /\ p.k \in Nat
           /\ p.from \in {"initial", "decoded"}
           /\ p.from = "initial" => p.at = 0
<1>1. n_max \in Nat
  BY OutcomeAssumption DEF OutcomeAssumption, n_max
<1>2. CASE p \in [from : {"initial"}, call : 1..MaxCalls, at : {0}, k : Nat \ {0}]
  BY <1>2, SeekAssumption DEF SeekAssumption, AnyPiece, Pieces
<1>3. CASE p \in [from : {"decoded"}, call : 1..MaxCalls, at : Nat, k : 1..n_max]
  BY <1>1, <1>3, SeekAssumption DEF SeekAssumption, AnyPiece, Pieces
<1>4. QED
  BY <1>2, <1>3 DEF PastPiece

LEMMA EarlierFacts ==
    ASSUME NEW p \in AnyPiece, NEW q \in AnyPiece
    PROVE  /\ p.from = "prev" /\ q.from # "prev" => Earlier(p, q)
           /\ p.from # "init" /\ q.from = "init" => Earlier(p, q)
           /\ p.from = "initial" /\ q.from = "decoded" => Earlier(p, q)
           /\ p.from = q.from /\ p.call < q.call => Earlier(p, q)
           /\ p.from = "initial" /\ q.from = "initial" /\ p.call # q.call => Earlier(p, q)
           /\ p.from = q.from /\ p.call = q.call /\ p.at < q.at => Earlier(p, q)
           /\ p.from = q.from /\ p.call = q.call /\ p.at = q.at /\ p.k < q.k => Earlier(p, q)
BY DEF AnyPiece, Earlier, Kind

LEMMA ConcatOrdered ==
    ASSUME NEW s \in Seq(AnyPiece), NEW t \in Seq(AnyPiece)
    PROVE  /\ Ordered(s) /\ Ordered(t) /\ Precede(s, t) => Ordered(s \o t)
           /\ \A u : Precede(s, u) /\ Precede(t, u) => Precede(s \o t, u)
           /\ \A u : Precede(u, s) /\ Precede(u, t) => Precede(u, s \o t)
<1> DEFINE m == Len(s)
           n == Len(t)
<1>1. /\ m \in Nat /\ n \in Nat /\ DOMAIN s = 1..m /\ DOMAIN t = 1..n
      /\ DOMAIN (s \o t) = 1..(m + n)
      /\ \A k \in 1..(m + n) : (s \o t)[k] = IF k <= m THEN s[k] ELSE t[k - m]
  <2>1. Len(s \o t) = m + n /\ s \o t \in Seq(AnyPiece)
    BY ConcatProperties
  <2>2. \A k \in 1..(m + n) : (s \o t)[k] = IF k <= m THEN s[k] ELSE t[k - m]
    BY ConcatProperties
  <2>3. QED
    BY <2>1, <2>2
<1> HIDE DEF m, n
<1>2. \A k \in 1..(m + n) : IF k <= m THEN k \in 1..m ELSE k - m \in 1..n
  BY <1>1
<1>3. ASSUME Ordered(s), Ordered(t), Precede(s, t) PROVE Ordered(s \o t)
  <2>1. ASSUME NEW a \in 1..(m + n), NEW b \in 1..(m + n), a < b
        PROVE  Earlier((s \o t)[a], (s \o t)[b])
    <3>1. CASE b <= m
      <4>1. a \in 1..m /\ b \in 1..m /\ a <= m
        BY <1>1, <2>1, <3>1
      <4>2. QED
        BY <1>1, <1>3, <2>1, <3>1, <4>1 DEF Ordered
    <3>2. CASE a <= m /\ ~(b <= m)
      BY <1>1, <1>2, <1>3, <3>2 DEF Precede
    <3>3. CASE ~(a <= m)
      <4>1. a - m \in 1..n /\ b - m \in 1..n /\ a - m < b - m /\ ~(b <= m)
        BY <1>1, <2>1, <3>3
      <4>2. QED
        BY <1>1, <1>3, <3>3, <4>1 DEF Ordered
    <3>4. QED
      BY <3>1, <3>2, <3>3
  <2>2. QED
    BY <1>1, <2>1 DEF Ordered
<1>4. ASSUME NEW u, Precede(s, u), Precede(t, u) PROVE Precede(s \o t, u)
  BY <1>1, <1>2, <1>4 DEF Precede
<1>5. ASSUME NEW u, Precede(u, s), Precede(u, t) PROVE Precede(u, s \o t)
  BY <1>1, <1>2, <1>5 DEF Precede
<1>6. QED
  BY <1>3, <1>4, <1>5

(* A part of a sequence.                                                   *)
LEMMA LastNOrdered ==
    ASSUME NEW s \in Seq(AnyPiece), NEW n \in 0..Len(s)
    PROVE  /\ Among(LastN(s, n), s)
           /\ Ordered(s) => Ordered(LastN(s, n))
<1>1. /\ LastN(s, n) \in Seq(AnyPiece) /\ Len(LastN(s, n)) = n /\ Len(s) \in Nat
      /\ \A k \in 1..n : LastN(s, n)[k] = s[Len(s) - n + k]
      /\ DOMAIN LastN(s, n) = 1..n /\ DOMAIN s = 1..Len(s)
  BY LastNFacts
<1>2. \A k \in 1..n : Len(s) - n + k \in 1..Len(s)
  BY <1>1
<1>3. \A a, b \in 1..n : a < b => Len(s) - n + a < Len(s) - n + b
  BY <1>1
<1>4. Among(LastN(s, n), s)
  BY <1>1, <1>2 DEF Among
<1>5. ASSUME Ordered(s) PROVE Ordered(LastN(s, n))
  BY <1>1, <1>2, <1>3, <1>5 DEF Ordered
<1>6. QED
  BY <1>4, <1>5

(* Time goes on.                                                           *)
LEMMA ContextsLater ==
    ASSUME NEW s, NEW t, NEW call \in Nat, NEW at \in Int, Contexts(s, t, call, at),
           NEW later \in Nat, NEW end \in Int, later > call \/ (later = call /\ end >= at)
    PROVE  Contexts(s, t, later, end)
<1>1. ASSUME NEW u, Known(u, call, at) PROVE Known(u, later, end)
  <2>1. ASSUME NEW k \in DOMAIN u
        PROVE  /\ u[k] \in PastPiece
               /\ \/ u[k].call < later
                  \/ /\ u[k].call = later
                     /\ IF u[k].from = "initial" THEN 0 <= end ELSE u[k].at < end
    <3>1. /\ u[k] \in PastPiece
          /\ \/ u[k].call < call
             \/ u[k].call = call /\ (IF u[k].from = "initial" THEN 0 <= at ELSE u[k].at < at)
      BY <1>1 DEF Known
    <3>2. u[k].call \in Nat /\ u[k].at \in Nat
      BY <3>1, PieceFacts
    <3>3. QED
      BY <3>1, <3>2
  <2>2. QED
    BY <2>1 DEF Known
<1>2. QED
  BY <1>1 DEF Contexts

LEMMA ContextsEmpty ==
    ASSUME NEW call, NEW at PROVE Contexts(<<>>, <<>>, call, at)
BY DEF Contexts, Known, Ordered, Precede

LEMMA ContextsAmong ==
    ASSUME NEW s, NEW t, NEW call, NEW at, Contexts(s, t, call, at),
           NEW u, Among(u, t), Ordered(u)
    PROVE  Contexts(s, u, call, at)
<1>1. \A a \in DOMAIN u : \E b \in DOMAIN t : u[a] = t[b]
  BY DEF Among
<1>2. Known(u, call, at)
  BY <1>1 DEF Contexts, Known
<1>3. Precede(s, u)
  BY <1>1 DEF Contexts, Precede
<1>4. QED
  BY <1>2, <1>3 DEF Contexts

LEMMA KnownConcat ==
    ASSUME NEW t \in Seq(AnyPiece), NEW w \in Seq(AnyPiece), NEW call, NEW at,
           Known(t, call, at), Known(w, call, at)
    PROVE  Known(t \o w, call, at)
<1>1. /\ DOMAIN (t \o w) = 1..(Len(t) + Len(w)) /\ Len(t) \in Nat /\ Len(w) \in Nat
      /\ \A k \in 1..(Len(t) + Len(w)) :
            (t \o w)[k] = IF k <= Len(t) THEN t[k] ELSE w[k - Len(t)]
  BY ConcatProperties
<1>2. DOMAIN t = 1..Len(t) /\ DOMAIN w = 1..Len(w)
  OBVIOUS
<1>3. \A k \in 1..(Len(t) + Len(w)) :
         IF k <= Len(t) THEN k \in 1..Len(t) ELSE k - Len(t) \in 1..Len(w)
  BY <1>1
<1>4. \A k \in 1..(Len(t) + Len(w)) :
         \/ \E l \in DOMAIN t : (t \o w)[k] = t[l]
         \/ \E l \in DOMAIN w : (t \o w)[k] = w[l]
  BY <1>1, <1>2, <1>3
<1>5. QED
  BY <1>1, <1>4 DEF Known

(* What a window adds.                                                     *)
LEMMA ContextsAppend ==
    ASSUME NEW s \in Seq(AnyPiece), NEW t \in Seq(AnyPiece), NEW w \in Seq(AnyPiece),
           NEW call \in Nat, NEW at \in Nat, Contexts(s, t, call, at), Ordered(w),
           \A k \in DOMAIN w : /\ w[k] \in PastPiece /\ w[k].from = "decoded"
                               /\ w[k].call = call /\ w[k].at = at,
           NEW end \in Nat, end > at
    PROVE  Contexts(s, t \o w, call, end)
<1>1. Contexts(s, t, call, end)
  BY ContextsLater
<1>2. Known(w, call, end)
  BY DEF Known
<1>3. ASSUME NEW u \in Seq(AnyPiece), Known(u, call, at) PROVE Precede(u, w)
  <2>1. ASSUME NEW a \in DOMAIN u, NEW b \in DOMAIN w PROVE Earlier(u[a], w[b])
    <3>1. /\ u[a] \in PastPiece
          /\ \/ u[a].call < call
             \/ u[a].call = call /\ (IF u[a].from = "initial" THEN 0 <= at ELSE u[a].at < at)
      BY <1>3 DEF Known
    <3>2. u[a] \in AnyPiece /\ u[a].from \in {"initial", "decoded"}
      BY <3>1, PieceFacts
    <3>3. w[b] \in AnyPiece /\ w[b].from = "decoded" /\ w[b].call = call /\ w[b].at = at
      BY PieceFacts
    <3>4. QED
      BY <3>1, <3>2, <3>3, EarlierFacts
  <2>2. QED
    BY <2>1 DEF Precede
<1>4. Precede(s, w) /\ Precede(t, w)
  BY <1>3 DEF Contexts
<1>5. Ordered(t \o w) /\ Precede(s, t \o w)
  BY <1>1, <1>4, ConcatOrdered DEF Contexts
<1>6. Known(t \o w, call, end)
  BY <1>1, <1>2, KnownConcat DEF Contexts
<1>7. QED
  BY <1>1, <1>5, <1>6 DEF Contexts

LEMMA InitialOrdered ==
    ASSUME params \in Params, calls \in 1..MaxCalls
    PROVE  /\ Initial \in Seq(AnyPiece) /\ Ordered(Initial)
           /\ \A k \in DOMAIN Initial : /\ Initial[k] \in PastPiece
                                        /\ Initial[k].from = "initial"
                                        /\ Initial[k].call = calls
<1>1. params.prompt_n_tokens \in Nat /\ calls \in Nat /\ MaxCalls \in Nat
  BY ParamsFacts, SeekAssumption DEF SeekAssumption
<1>2. Initial \in Seq(AnyPiece)
  BY <1>1, InitialFacts
<1>3. \A k \in 1..params.prompt_n_tokens :
         Initial[k] = [from |-> "initial", call |-> calls, at |-> 0, k |-> k]
  BY DEF Initial, Piece
<1>4. DOMAIN Initial = 1..params.prompt_n_tokens
  BY DEF Initial
<1>5. ASSUME NEW k \in DOMAIN Initial
      PROVE  /\ Initial[k] \in PastPiece /\ Initial[k] \in AnyPiece
             /\ Initial[k].from = "initial" /\ Initial[k].call = calls
             /\ Initial[k].at = 0 /\ Initial[k].k = k
  <2>1. k \in Nat \ {0}
    BY <1>1, <1>4
  <2>2. [from |-> "initial", call |-> calls, at |-> 0, k |-> k]
           \in [from : {"initial"}, call : 1..MaxCalls, at : {0}, k : Nat \ {0}]
    BY <2>1
  <2>3. Initial[k] = [from |-> "initial", call |-> calls, at |-> 0, k |-> k]
    BY <1>3, <1>4
  <2>4. Initial[k] \in PastPiece
    BY <2>2, <2>3 DEF PastPiece
  <2>5. QED
    BY <2>3, <2>4, PieceFacts
<1>6. Ordered(Initial)
  BY <1>5, EarlierFacts DEF Ordered
<1>7. QED
  BY <1>2, <1>5, <1>6

-----------------------------------------------------------------------------
(* Where the call is.                                                      *)

LEMMA NumberFacts ==
    /\ delta_min \in Nat /\ delta_min >= 1 /\ Chunk \in Nat /\ Chunk >= 2
    /\ n_max \in Nat /\ MaxCalls \in Nat /\ NInit \in 1..4
    /\ \A s \in Spans : s.from \in Nat /\ s.to \in Nat
<1>1. \A s \in Spans : s \in [from : Nat, to : Nat]
  BY SeekAssumption DEF SeekAssumption
<1>2. \A s \in Spans : s.from \in Nat /\ s.to \in Nat
  BY <1>1
<1>3. QED
  BY <1>2, SeekAssumption, OutcomeAssumption
  DEF SeekAssumption, OutcomeAssumption, Chunk, n_max

LEMMA DeltaFacts ==
    ASSUME Types, Where, phase = "emit"
    PROVE  /\ outcome.seek_delta \in 1..Chunk /\ outcome.result_len \in 0..n_max
           /\ SeekDelta \in 1..Chunk
<1>1. /\ outcome \in Outcomes[params] /\ params \in Params /\ span \in Spans /\ seek \in Nat
      /\ seek + delta_min < span.to
  BY DEF Types, Where
<1>2. outcome \in [tokens : UNION {[1..n -> Token] : n \in 1..n_max},
                   result_len : 0..n_max, seek_delta : 1..Chunk,
                   tid : Token, no_speech : BOOLEAN]
  BY <1>1 DEF Outcomes
<1>3. outcome.seek_delta \in 1..Chunk /\ outcome.result_len \in 0..n_max
  BY <1>2
<1>4. SeekDelta \in 1..Chunk
  BY <1>1, <1>3, NumberFacts DEF SeekDelta, Least
<1>5. QED
  BY <1>3, <1>4

LEMMA WhereNext ==
    ASSUME Types, Where, Next
    PROVE  Where'
<1>1. span \in Spans /\ span.from \in Nat /\ span.to \in Nat
  BY NumberFacts DEF Types
<1>2. CASE Call
  <2>1. /\ calls' = calls + 1 /\ calls < MaxCalls /\ span' \in Spans /\ seek' = span'.from
        /\ prompt' = prompt /\ phase = "idle"
        /\ \/ phase' = "idle"
           \/ span'.to >= span'.from + delta_min /\ phase' = "prepare"
    BY <1>2 DEF Call
  <2>2. span'.from \in Nat /\ span'.to \in Nat
    BY <2>1, NumberFacts
  <2>3. calls' \in 0..MaxCalls /\ calls' >= 1
    BY <2>1, NumberFacts DEF Where
  <2>4. QED
    BY <2>1, <2>2, <2>3, NumberFacts DEF Where
<1>3. CASE Prepare
  BY <1>3 DEF Prepare, Where
<1>4. CASE Finish \/ Fails
  BY <1>4 DEF Finish, Fails, Return, Where
<1>5. CASE Encode
  BY <1>1, <1>5, NumberFacts DEF Encode, AtEnd, Where
<1>6. CASE Decode
  BY <1>6 DEF Decode, Where
<1>7. CASE OutOfMemory
  BY <1>7 DEF OutOfMemory, Where
<1>8. CASE Emit
  <2>1. /\ phase = "emit" /\ phase' = "loop" /\ seek' = seek + SeekDelta /\ prompt' = <<>>
        /\ UNCHANGED <<calls, params, span>>
    BY <1>8 DEF Emit
  <2>2. SeekDelta \in 1..Chunk /\ seek \in Nat /\ seek + delta_min < span.to
    BY <2>1, DeltaFacts DEF Where
  <2>3. seek' \in Nat /\ span.from <= seek' /\ seek' <= span.to + Chunk
    BY <1>1, <2>1, <2>2, NumberFacts DEF Where
  <2>4. QED
    BY <2>1, <2>3 DEF Where
<1>9. QED
  BY <1>2, <1>3, <1>4, <1>5, <1>6, <1>7, <1>8 DEF Next

-----------------------------------------------------------------------------
(* The contexts, step by step.                                             *)

LEMMA OrderPrepare ==
    ASSUME ContextInv, OrderInv, Prepare
    PROVE  InOrder'
<1> DEFINE carry == params.carry_initial_prompt
           kept0 == Kept(prompt_past0)
           kept1 == Kept(prompt_past1)
           n == Least(params.prompt_n_tokens, Most(1, max_prompt_ctx - 1))
<1>1. /\ phase = "prepare" /\ params \in Params /\ calls \in 1..MaxCalls /\ calls \in Nat
      /\ seek \in Nat /\ prompt_past0 \in Seq(AnyPiece) /\ prompt_past1 \in Seq(AnyPiece)
      /\ Contexts(prompt_past0, prompt_past1, calls, -1)
  BY DEF Prepare, ContextInv, Types, OrderInv, Where, InOrder, Working
<1>2. /\ prompt_past0' = IF carry /\ kept0 = <<>> THEN LastN(Initial, n) ELSE kept0
      /\ prompt_past1' = IF carry THEN kept1 ELSE Initial \o kept1
      /\ phase' \in {"loop", "idle"} /\ UNCHANGED <<calls, seek>>
  BY DEF Prepare
<1>3. /\ Contexts(kept0, kept1, calls, -1)
      /\ kept0 \in Seq(AnyPiece) /\ kept1 \in Seq(AnyPiece)
  BY <1>1, ContextsEmpty DEF Kept
<1>4. /\ Initial \in Seq(AnyPiece) /\ Ordered(Initial)
      /\ \A k \in DOMAIN Initial : /\ Initial[k] \in PastPiece
                                   /\ Initial[k].from = "initial"
                                   /\ Initial[k].call = calls
  BY <1>1, InitialOrdered
<1>5. n \in 0..Len(Initial)
  <2>1. params.n_max_text_ctx \in Int /\ params.prompt_n_tokens \in Nat
    BY <1>1, ParamsFacts
  <2>2. max_prompt_ctx \in Int
    BY <2>1, HalfFacts DEF max_prompt_ctx, Least, half
  <2>3. Len(Initial) = params.prompt_n_tokens
    BY <1>1, InitialFacts
  <2>4. QED
    BY <2>1, <2>2, <2>3 DEF Least, Most
<1> DEFINE part == LastN(Initial, n)
<1>6. /\ part \in Seq(AnyPiece) /\ Ordered(part)
      /\ \A k \in DOMAIN part : /\ part[k] \in PastPiece /\ part[k].from = "initial"
                                /\ part[k].call = calls
  <2> HIDE DEF n
  <2>1. part \in Seq(AnyPiece) /\ Among(part, Initial) /\ Ordered(part)
    BY <1>4, <1>5, LastNFacts, LastNOrdered
  <2>2. QED
    BY <1>4, <2>1 DEF Among
<1> HIDE DEF n, kept0, kept1, part, carry
(* The initial prompt of this call and what is older.                      *)
<1>7. ASSUME NEW u, \A k \in DOMAIN u : /\ u[k] \in PastPiece /\ u[k].from = "initial"
                                        /\ u[k].call = calls,
             NEW v, Known(v, calls, -1)
      PROVE  /\ Precede(u, v) /\ Known(u, calls, seek)
             /\ (\A k \in DOMAIN v : v[k].from = "initial") => Precede(v, u)
  <2>1. ASSUME NEW a \in DOMAIN u, NEW b \in DOMAIN v
        PROVE  /\ Earlier(u[a], v[b])
               /\ v[b].from = "initial" => Earlier(v[b], u[a])
    <3>1. v[b] \in PastPiece /\ v[b] \in AnyPiece /\ v[b].call \in Nat
          /\ v[b].from \in {"initial", "decoded"} /\ v[b].at \in Nat
      BY <1>7, PieceFacts DEF Known
    <3>2. v[b].call < calls
      BY <1>7, <3>1 DEF Known
    <3>3. u[a] \in AnyPiece /\ u[a].from = "initial" /\ u[a].call = calls
      BY <1>7, PieceFacts
    <3>4. v[b].call # calls
      BY <1>1, <3>1, <3>2
    <3>5. QED
      BY <3>1, <3>2, <3>3, <3>4, EarlierFacts
  <2>2. Known(u, calls, seek)
    BY <1>1, <1>7 DEF Known
  <2>3. QED
    BY <2>1, <2>2 DEF Precede
<1>8. Contexts(kept0, kept1, calls, seek)
  BY <1>1, <1>3, ContextsLater
<1>9. Known(kept0, calls, -1) /\ Known(kept1, calls, -1)
      /\ \A k \in DOMAIN kept0 : kept0[k].from = "initial"
  BY <1>3 DEF Contexts
<1>10. ASSUME Contexts(prompt_past0', prompt_past1', calls, seek) PROVE InOrder'
  <2>1. Contexts(prompt_past0', prompt_past1', calls + 1, -1)
    BY <1>1, <1>10, ContextsLater
  <2>2. QED
    BY <1>2, <1>10, <2>1 DEF InOrder, Working
<1>11. CASE carry /\ kept0 = <<>>
  <2>1. Precede(part, kept1) /\ Known(part, calls, seek)
    BY <1>6, <1>7, <1>9
  <2>2. Contexts(part, kept1, calls, seek)
    BY <1>6, <1>8, <2>1 DEF Contexts
  <2>3. prompt_past0' = part /\ prompt_past1' = kept1
    BY <1>2, <1>11 DEF part
  <2>4. QED
    BY <1>10, <2>2, <2>3
<1>12. CASE carry /\ kept0 # <<>>
  BY <1>2, <1>8, <1>10, <1>12
<1>13. CASE ~carry
  <2>1. /\ Precede(Initial, kept1) /\ Known(Initial, calls, seek) /\ Precede(kept0, Initial)
    BY <1>4, <1>7, <1>9
  <2>2. Ordered(Initial \o kept1) /\ Precede(kept0, Initial \o kept1)
    BY <1>3, <1>4, <1>8, <2>1, ConcatOrdered DEF Contexts
  <2>3. Known(Initial \o kept1, calls, seek)
    <3>1. Known(kept1, calls, seek)
      BY <1>8 DEF Contexts
    <3>2. QED
      BY <1>3, <1>4, <2>1, <3>1, KnownConcat
  <2>4. Contexts(kept0, Initial \o kept1, calls, seek)
    BY <1>8, <2>2, <2>3 DEF Contexts
  <2>5. QED
    BY <1>2, <1>10, <1>13, <2>4
<1>14. QED
  BY <1>11, <1>12, <1>13

LEMMA OrderEncode ==
    ASSUME OrderInv, Encode
    PROVE  InOrder'
<1>1. /\ phase = "loop" /\ phase' = "decode" /\ UNCHANGED <<calls, params, span, seek>>
      /\ \/ prompt_past0' = <<>> /\ prompt_past1' = <<>>
         \/ prompt_past0' = prompt_past0 /\ prompt_past1' = prompt_past1
  BY DEF Encode, past
<1>2. Contexts(prompt_past0, prompt_past1, calls, seek)
  BY <1>1 DEF OrderInv, InOrder, Working
<1>3. QED
  BY <1>1, <1>2, ContextsEmpty DEF InOrder, Working

LEMMA PromptOfPastIs ==
    ASSUME Types, PromptOfPast # <<>>
    PROVE  \E n0 \in 0..Len(prompt_past0), n1 \in 0..Len(prompt_past1) :
              /\ PromptOfPast = <<Prev>> \o LastN(prompt_past0, n0) \o LastN(prompt_past1, n1)
              /\ ~params.carry_initial_prompt => n0 = 0
<1> DEFINE n0 == IF params.carry_initial_prompt THEN Len(prompt_past0) ELSE 0
           m1 == Least(max_prompt_ctx - n0 - 1, Len(prompt_past1))
           n1 == Most(0, m1)
<1>1. /\ prompt_past0 \in Seq(AnyPiece) /\ prompt_past1 \in Seq(AnyPiece)
      /\ params \in Params /\ Len(prompt_past0) \in Nat /\ Len(prompt_past1) \in Nat
  BY DEF Types
<1>2. max_prompt_ctx \in Int
  BY <1>1, ParamsFacts, HalfFacts DEF max_prompt_ctx, Least, half
<1>3. n0 \in 0..Len(prompt_past0) /\ (~params.carry_initial_prompt => n0 = 0)
  BY <1>1
<1>4. n1 \in 0..Len(prompt_past1)
  <2> HIDE DEF n0
  <2>1. m1 \in Int /\ m1 <= Len(prompt_past1)
    BY <1>1, <1>2, <1>3 DEF Least
  <2>2. QED
    BY <1>1, <2>1 DEF Most
<1>5. PromptOfPast = <<Prev>> \o LastN(prompt_past0, n0) \o LastN(prompt_past1, n1)
  BY DEF PromptOfPast
<1> HIDE DEF n0, n1
<1>6. QED
  BY <1>3, <1>4, <1>5

(* The prompt: a marker, the ends of the two contexts, the marks.          *)
LEMMA PromptOrder ==
    ASSUME ContextInv, OrderInv, Decode
    PROVE  OrderedPrompt'
<1>1. /\ phase = "decode" /\ prompt' \in {PromptOfPast \o Marks, Marks}
      /\ UNCHANGED <<calls, params, span, seek, prompt_past0, prompt_past1>>
  BY DEF Decode, past
<1>2. /\ prompt_past0 \in Seq(AnyPiece) /\ prompt_past1 \in Seq(AnyPiece)
      /\ params \in Params /\ calls \in Nat /\ seek \in Nat
      /\ Contexts(prompt_past0, prompt_past1, calls, seek)
  BY <1>1 DEF ContextInv, Types, OrderInv, Where, InOrder, Working
<1>3. /\ Marks \in Seq(AnyPiece) /\ Len(Marks) = NInit /\ NInit \in 1..4
      /\ DOMAIN Marks = 1..NInit
      /\ \A k \in 1..NInit : Marks[k].from = "init"
  BY MarksFacts
<1>4. Ordered(Marks) /\ \A k \in DOMAIN Marks : Marks[k] \in Pieces
  <2>0. \A k \in 1..NInit : Marks[k] = [from |-> "init", call |-> 0, at |-> 0, k |-> k]
    BY <1>3 DEF Marks, Piece
  <2>1. ASSUME NEW k \in 1..NInit
        PROVE  /\ Marks[k].call = 0 /\ Marks[k].at = 0 /\ Marks[k].k = k
               /\ Marks[k] \in AnyPiece
    <3>1. Marks[k] = [from |-> "init", call |-> 0, at |-> 0, k |-> k] /\ k \in Int
      BY <2>0, <1>3
    <3>2. QED
      BY ONLY <3>1 DEF AnyPiece
  <2>2. Ordered(Marks)
    BY <1>3, <2>1, EarlierFacts DEF Ordered
  <2>3. QED
    BY <2>2 DEF Pieces
<1>5. \A u : (\A k \in DOMAIN u : u[k] \in AnyPiece /\ u[k].from # "init") => Precede(u, Marks)
  <2>1. \A k \in 1..NInit : Marks[k] \in AnyPiece
    BY <1>3
  <2>2. QED
    BY <1>3, <2>1, EarlierFacts DEF Precede
<1>6. CASE prompt' = Marks
  <2>1. Marks # <<>> /\ PastPart(Marks) = {}
    BY <1>3 DEF PastPart
  <2>2. QED
    BY <1>4, <1>6, <2>1 DEF OrderedPrompt, PastPart
<1>7. CASE prompt' = PromptOfPast \o Marks /\ PromptOfPast = <<>>
  <2>1. prompt' = Marks
    BY <1>3, <1>7
  <2>2. QED
    BY <1>6, <2>1
<1>8. CASE prompt' = PromptOfPast \o Marks /\ PromptOfPast # <<>>
  <2>1. PICK n0 \in 0..Len(prompt_past0), n1 \in 0..Len(prompt_past1) :
           /\ PromptOfPast = <<Prev>> \o LastN(prompt_past0, n0) \o LastN(prompt_past1, n1)
           /\ ~params.carry_initial_prompt => n0 = 0
    <3>1. ContextInv /\ PromptOfPast # <<>>
      BY <1>8
    <3>2. QED
      BY <3>1, PromptOfPastIs DEF ContextInv
  <2> DEFINE a == LastN(prompt_past0, n0)
             b == LastN(prompt_past1, n1)
             c == <<Prev>> \o a
             d == c \o b
  <2>2. /\ a \in Seq(AnyPiece) /\ Len(a) = n0 /\ Among(a, prompt_past0) /\ Ordered(a)
        /\ b \in Seq(AnyPiece) /\ Len(b) = n1 /\ Among(b, prompt_past1) /\ Ordered(b)
    BY <1>2, LastNFacts, LastNOrdered DEF Contexts
  <2> HIDE DEF a, b
  <2>3. /\ \A k \in DOMAIN a : a[k] \in PastPiece /\ a[k].from = "initial"
        /\ \A k \in DOMAIN b : b[k] \in PastPiece
        /\ Precede(a, b)
    BY <1>2, <2>2 DEF Contexts, Known, Among, Precede
  <2>4. /\ Prev \in AnyPiece /\ Prev.from = "prev" /\ Prev \in Pieces
        /\ <<Prev>> \in Seq(AnyPiece) /\ Ordered(<<Prev>>)
    BY DEF Prev, Piece, AnyPiece, Pieces, Ordered
  <2>5. /\ \A k \in DOMAIN a : a[k] \in AnyPiece /\ a[k].from # "prev" /\ a[k].from # "init"
        /\ \A k \in DOMAIN b : b[k] \in AnyPiece /\ b[k].from # "prev" /\ b[k].from # "init"
    BY <2>3, PieceFacts
  <2>6. Precede(<<Prev>>, a) /\ Precede(<<Prev>>, b)
    BY <2>4, <2>5, EarlierFacts DEF Precede
  <2>7. c \in Seq(AnyPiece) /\ Ordered(c) /\ Precede(c, b)
    BY <2>2, <2>3, <2>4, <2>6, ConcatProperties, ConcatOrdered
  <2>8. d \in Seq(AnyPiece) /\ Ordered(d)
    BY <2>2, <2>7, ConcatProperties, ConcatOrdered
  <2>9. Precede(d, Marks)
    <3>1. Precede(<<Prev>>, Marks)
      BY <1>5, <2>4
    <3>2. Precede(a, Marks) /\ Precede(b, Marks)
      BY <1>5, <2>5
    <3>3. Precede(c, Marks)
      BY <2>2, <2>4, <3>1, <3>2, ConcatOrdered
    <3>4. QED
      BY <2>2, <2>7, <3>2, <3>3, ConcatOrdered
  <2>10. prompt' = d \o Marks /\ Ordered(d \o Marks) /\ d \o Marks \in Seq(AnyPiece)
    BY <1>3, <1>4, <1>8, <2>1, <2>8, <2>9, ConcatOrdered, ConcatProperties DEF a, b
  (* What stands where. *)
  <2>11. /\ Len(d \o Marks) = 1 + n0 + n1 + NInit /\ n0 \in Nat /\ n1 \in Nat
         /\ (d \o Marks)[1] = Prev
         /\ \A k \in 2..(1 + n0 + n1) :
               \/ \E l \in DOMAIN a : (d \o Marks)[k] = a[l]
               \/ \E l \in DOMAIN b : (d \o Marks)[k] = b[l]
         /\ n0 = 0 => \A k \in 2..(1 + n0 + n1) : \E l \in DOMAIN b : (d \o Marks)[k] = b[l]
         /\ \A k \in (2 + n0 + n1)..(1 + n0 + n1 + NInit) :
               \E l \in DOMAIN Marks : (d \o Marks)[k] = Marks[l]
    <3>0. /\ n0 \in Nat /\ n1 \in Nat /\ DOMAIN a = 1..n0 /\ DOMAIN b = 1..n1
          /\ Len(<<Prev>>) = 1 /\ <<Prev>>[1] = Prev
      BY <1>2, <2>2
    <3>1. /\ Len(c) = 1 + n0
          /\ \A k \in 1..(1 + n0) : c[k] = IF k <= 1 THEN <<Prev>>[k] ELSE a[k - 1]
      BY <2>2, <2>4, <3>0, ConcatProperties
    <3> HIDE DEF c
    <3>2. /\ Len(d) = 1 + n0 + n1
          /\ \A k \in 1..(1 + n0 + n1) : d[k] = IF k <= 1 + n0 THEN c[k] ELSE b[k - (1 + n0)]
      <4>1. /\ Len(c \o b) = Len(c) + Len(b)
            /\ \A k \in 1..(Len(c) + Len(b)) :
                  (c \o b)[k] = IF k <= Len(c) THEN c[k] ELSE b[k - Len(c)]
        BY <2>2, <2>7, ConcatProperties
      <4>2. Len(c) = 1 + n0 /\ Len(b) = n1 /\ n0 \in Nat /\ n1 \in Nat
        BY <2>2, <3>0, <3>1
      <4>3. Len(c) + Len(b) = 1 + n0 + n1
        BY ONLY <4>2
      <4>4. QED
        BY ONLY <4>1, <4>2, <4>3 DEF d
    <3> HIDE DEF d
    <3>3. /\ Len(d \o Marks) = 1 + n0 + n1 + NInit
          /\ \A k \in 1..(1 + n0 + n1 + NInit) : (d \o Marks)[k] =
                IF k <= 1 + n0 + n1 THEN d[k] ELSE Marks[k - (1 + n0 + n1)]
      <4>1. /\ Len(d \o Marks) = Len(d) + Len(Marks)
            /\ \A k \in 1..(Len(d) + Len(Marks)) :
                  (d \o Marks)[k] = IF k <= Len(d) THEN d[k] ELSE Marks[k - Len(d)]
        BY <1>3, <2>8, ConcatProperties DEF d
      <4>2. Len(d) = 1 + n0 + n1 /\ Len(Marks) = NInit
        BY <1>3, <3>2
      <4>3. QED
        BY ONLY <4>1, <4>2
    <3>4. ASSUME NEW k \in 2..(1 + n0 + n1)
          PROVE  IF k <= 1 + n0 THEN k - 1 \in 1..n0 /\ (d \o Marks)[k] = a[k - 1]
                 ELSE k - (1 + n0) \in 1..n1 /\ (d \o Marks)[k] = b[k - (1 + n0)]
      BY <1>3, <3>0, <3>1, <3>2, <3>3
    <3>5. ASSUME NEW k \in (2 + n0 + n1)..(1 + n0 + n1 + NInit)
          PROVE  k - (1 + n0 + n1) \in 1..NInit /\ (d \o Marks)[k] = Marks[k - (1 + n0 + n1)]
      BY <1>3, <3>0, <3>3
    <3>6. (d \o Marks)[1] = Prev
      BY <1>3, <3>0, <3>1, <3>2, <3>3
    <3>7. n0 = 0 => \A k \in 2..(1 + n0 + n1) : ~(k <= 1 + n0)
      OBVIOUS
    <3>8. QED
      BY <1>3, <3>0, <3>3, <3>4, <3>5, <3>6, <3>7
  <2> DEFINE w == d \o Marks
  <2> HIDE DEF c, d, w
  <2>12. \A k \in DOMAIN w : w[k] \in Pieces
    <3>1. \A l \in DOMAIN a : a[l] \in Pieces
      BY <2>3, PieceFacts
    <3>2. \A l \in DOMAIN b : b[l] \in Pieces
      BY <2>3, PieceFacts
    <3>3. DOMAIN w = 1..(1 + n0 + n1 + NInit)
      BY <2>10, <2>11 DEF w
    <3>4. \A k \in DOMAIN w : k = 1 \/ k \in 2..(1 + n0 + n1)
                              \/ k \in (2 + n0 + n1)..(1 + n0 + n1 + NInit)
      BY <1>3, <2>11, <3>3
    <3>5. QED
      BY <1>4, <2>4, <2>11, <3>1, <3>2, <3>4 DEF w
  <2>13. ASSUME ~params.carry_initial_prompt, NEW k \in PastPart(w)
         PROVE  \E l \in DOMAIN prompt_past1 : w[k] = prompt_past1[l]
    <3>1. k \in 2..(1 + n0 + n1)
      BY <1>3, <2>11, <2>13 DEF PastPart, w
    <3>2. PICK l \in DOMAIN b : w[k] = b[l]
      BY <2>1, <2>11, <2>13, <3>1 DEF w
    <3>3. QED
      BY <2>2, <3>2 DEF Among
  <2>14. w # <<>>
    BY <1>3, <2>10, <2>11 DEF w
  <2>15. prompt' = w /\ Ordered(w) /\ prompt_past1' = prompt_past1
         /\ params'.carry_initial_prompt = params.carry_initial_prompt
    BY <1>1, <2>10 DEF w
  <2>16. QED
    BY <2>12, <2>13, <2>14, <2>15 DEF OrderedPrompt, PastPart
<1>9. QED
  BY <1>1, <1>6, <1>7, <1>8

(* What a window keeps of its prompt is what the prompt took of the        *)
(* rolling context.                                                        *)
LEMMA KeptOfPrompt ==
    ASSUME ContextInv, OrderInv, phase = "emit", ~params.carry_initial_prompt,
           NEW c, c = SubSeq(prompt, 2, Len(prompt) - NInit)
    PROVE  c \in Seq(AnyPiece) /\ Ordered(c) /\ Among(c, prompt_past1)
<1> DEFINE n == Len(prompt) - NInit - 1
<1>1. /\ prompt \in Seq(AnyPiece) /\ Len(prompt) \in Nat /\ NInit \in 1..4
      /\ Ordered(prompt) /\ DOMAIN prompt = 1..Len(prompt)
      /\ \A k \in 2..(Len(prompt) - NInit) :
            \E l \in DOMAIN prompt_past1 : prompt[k] = prompt_past1[l]
  BY NumberFacts DEF ContextInv, Types, OrderInv, OrderedPrompt, PastPart
<1>2. CASE n <= 0
  <2> DEFINE e == Len(prompt) - NInit
  <2>1. e < 2 /\ e \in Int
    BY <1>1, <1>2
  <2>2. c = SubSeq(prompt, 2, e)
    OBVIOUS
  <2> HIDE DEF e
  <2>3. SubSeq(prompt, 2, e) = <<>>
    BY <2>1, SubSeqEmpty
  <2>4. c = <<>>
    BY <2>2, <2>3
  <2>5. <<>> \in Seq(AnyPiece) /\ Ordered(<<>>) /\ Among(<<>>, prompt_past1)
    BY DEF Ordered, Among
  <2>6. QED
    BY <2>4, <2>5
<1>3. CASE n > 0
  <2>1. /\ c \in Seq(AnyPiece) /\ DOMAIN c = 1..n
        /\ \A k \in 1..n : c[k] = prompt[k + 1]
    BY <1>1, <1>3
  <2>2. \A k \in 1..n : /\ k + 1 \in 2..(Len(prompt) - NInit) /\ k + 1 \in 1..Len(prompt)
    BY <1>1, <1>3
  <2>3. \A k, l \in 1..n : k < l => k + 1 < l + 1
    BY <1>1
  <2> HIDE DEF n
  <2>4. Ordered(c)
    BY <1>1, <2>1, <2>2, <2>3 DEF Ordered
  <2>5. Among(c, prompt_past1)
    BY <1>1, <2>1, <2>2 DEF Among
  <2>6. QED
    BY <2>1, <2>4, <2>5
<1>4. QED
  BY <1>1, <1>2, <1>3

LEMMA SaidOrdered ==
    ASSUME Types, Where, phase = "emit"
    PROVE  /\ Said \in Seq(AnyPiece) /\ Ordered(Said)
           /\ \A k \in DOMAIN Said : /\ Said[k] \in PastPiece /\ Said[k].from = "decoded"
                                     /\ Said[k].call = calls /\ Said[k].at = seek
<1>1. /\ Said \in Seq(AnyPiece) /\ calls \in 1..MaxCalls /\ seek \in Nat
      /\ outcome.result_len \in 0..n_max /\ MaxCalls \in Nat /\ n_max \in Nat
  BY SaidFacts, DeltaFacts, NumberFacts DEF Types, Where
<1>2. CASE outcome.no_speech
  <2>1. Said = <<>>
    BY <1>2 DEF Said
  <2>2. QED
    BY <2>1 DEF Ordered
<1>3. CASE ~outcome.no_speech
  <2>1. /\ DOMAIN Said = 1..outcome.result_len
        /\ \A k \in 1..outcome.result_len :
              Said[k] = [from |-> "decoded", call |-> calls, at |-> seek, k |-> k]
    BY <1>3 DEF Said, Piece
  <2>2. ASSUME NEW k \in DOMAIN Said
        PROVE  /\ Said[k] \in PastPiece /\ Said[k] \in AnyPiece
               /\ Said[k].from = "decoded" /\ Said[k].call = calls
               /\ Said[k].at = seek /\ Said[k].k = k
    <3>1. k \in 1..n_max
      BY <1>1, <2>1
    <3>2. [from |-> "decoded", call |-> calls, at |-> seek, k |-> k]
             \in [from : {"decoded"}, call : 1..MaxCalls, at : Nat, k : 1..n_max]
      BY <1>1, <3>1
    <3>3. Said[k] = [from |-> "decoded", call |-> calls, at |-> seek, k |-> k]
      BY <2>1
    <3>4. Said[k] \in PastPiece
      BY <3>2, <3>3 DEF PastPiece
    <3>5. QED
      BY <3>3, <3>4, PieceFacts
  <2>3. Ordered(Said)
    BY <2>2, EarlierFacts DEF Ordered
  <2>4. QED
    BY <1>1, <2>2, <2>3
<1>4. QED
  BY <1>2, <1>3

LEMMA OrderEmit ==
    ASSUME ContextInv, OrderInv, Emit
    PROVE  InOrder'
<1>1. /\ phase = "emit" /\ phase' = "loop" /\ seek' = seek + SeekDelta
      /\ prompt_past1' = PastAfter /\ prompt_past0' = prompt_past0 /\ calls' = calls
  BY DEF Emit
<1>2. /\ Types /\ Where
      /\ prompt_past0 \in Seq(AnyPiece) /\ prompt_past1 \in Seq(AnyPiece)
      /\ calls \in Nat /\ seek \in Nat
      /\ Contexts(prompt_past0, prompt_past1, calls, seek)
  BY <1>1 DEF ContextInv, Types, OrderInv, Where, InOrder, Working
<1>3. SeekDelta \in 1..Chunk /\ Chunk \in Nat
  BY <1>1, <1>2, DeltaFacts, NumberFacts
<1>4. seek' \in Nat /\ seek' > seek
  BY <1>1, <1>2, <1>3
<1>5. /\ Said \in Seq(AnyPiece) /\ Ordered(Said)
      /\ \A k \in DOMAIN Said : /\ Said[k] \in PastPiece /\ Said[k].from = "decoded"
                                /\ Said[k].call = calls /\ Said[k].at = seek
  BY <1>1, <1>2, SaidOrdered
<1>6. ASSUME NEW c \in Seq(AnyPiece), Ordered(c), Among(c, prompt_past1),
             prompt_past1' = c \o Said
      PROVE  InOrder'
  <2>1. Contexts(prompt_past0, c, calls, seek)
    BY <1>2, <1>6, ContextsAmong
  <2>2. Contexts(prompt_past0, c \o Said, calls, seek')
    BY <1>2, <1>4, <1>5, <1>6, <2>1, ContextsAppend
  <2>3. QED
    BY <1>1, <1>6, <2>2 DEF InOrder, Working
<1>7. CASE ~params.carry_initial_prompt /\ prompt[1] = Prev
  <2>1. PastAfter = SubSeq(prompt, 2, Len(prompt) - NInit) \o Said
    BY <1>7 DEF PastAfter
  <2>2. QED
    BY <1>1, <1>6, <1>7, <2>1, KeptOfPrompt
<1>8. CASE ~(~params.carry_initial_prompt /\ prompt[1] = Prev)
  <2>1. PastAfter = <<>> \o Said
    BY <1>8 DEF PastAfter
  <2>2. <<>> \in Seq(AnyPiece) /\ Ordered(<<>>) /\ Among(<<>>, prompt_past1)
    BY DEF Ordered, Among
  <2>3. QED
    BY <1>1, <1>6, <2>1, <2>2
<1>9. QED
  BY <1>7, <1>8

LEMMA OrderNext ==
    ASSUME ContextInv, OrderInv, Next
    PROVE  OrderInv'
<1>1. /\ Types /\ Where /\ InOrder
      /\ prompt_past0 \in Seq(AnyPiece) /\ prompt_past1 \in Seq(AnyPiece)
      /\ calls \in Nat /\ seek \in Nat
  BY DEF ContextInv, Types, OrderInv, Where
<1>2. Where'
  BY <1>1, WhereNext
<1>3. CASE Call
  <2>1. /\ phase = "idle" /\ calls' = calls + 1 /\ phase' \in {"idle", "prepare"}
        /\ prompt_past0' = prompt_past0 /\ prompt_past1' = prompt_past1
    BY <1>3 DEF Call, past
  <2>2. Contexts(prompt_past0, prompt_past1, calls', -1)
    BY <1>1, <2>1 DEF InOrder, Working
  <2>3. InOrder'
    <3>1. calls' \in Nat /\ calls' + 1 \in Nat
      BY <1>1, <2>1
    <3>2. Contexts(prompt_past0, prompt_past1, calls' + 1, -1)
      BY <2>2, <3>1, ContextsLater
    <3>3. QED
      BY <2>1, <2>2, <3>2 DEF InOrder, Working
  <2>4. QED
    BY <1>2, <2>1, <2>3 DEF OrderInv, OrderedPrompt
<1>4. CASE Prepare
  <2>1. InOrder' /\ phase' \in {"loop", "idle"}
    BY <1>4, OrderPrepare DEF Prepare
  <2>2. QED
    BY <1>2, <2>1 DEF OrderInv, OrderedPrompt
<1>5. CASE Finish \/ Fails \/ OutOfMemory
  <2>1. /\ phase \in {"loop", "decode"} /\ phase' \in {"idle", "freed"} /\ calls' = calls
        /\ prompt_past0' = prompt_past0 /\ prompt_past1' = prompt_past1
    BY <1>5 DEF Finish, Fails, OutOfMemory, Return, past
  <2>2. Contexts(prompt_past0, prompt_past1, calls, seek)
    BY <1>1, <2>1 DEF InOrder, Working
  <2>3. Contexts(prompt_past0, prompt_past1, calls + 1, -1)
    BY <1>1, <2>2, ContextsLater
  <2>4. InOrder'
    BY <2>1, <2>3 DEF InOrder, Working
  <2>5. QED
    BY <1>2, <2>1, <2>4 DEF OrderInv, OrderedPrompt
<1>6. CASE Encode
  <2>1. InOrder' /\ phase' = "decode"
    BY <1>6, OrderEncode DEF Encode
  <2>2. QED
    BY <1>2, <2>1 DEF OrderInv, OrderedPrompt
<1>7. CASE Decode
  <2>1. /\ phase = "decode" /\ phase' = "emit" /\ calls' = calls /\ seek' = seek
        /\ prompt_past0' = prompt_past0 /\ prompt_past1' = prompt_past1
    BY <1>7 DEF Decode, past
  <2>2. InOrder'
    BY <1>1, <2>1 DEF InOrder, Working
  <2>3. OrderedPrompt'
    BY <1>7, PromptOrder
  <2>4. QED
    BY <1>2, <2>2, <2>3 DEF OrderInv
<1>8. CASE Emit
  <2>1. InOrder' /\ phase' = "loop"
    BY <1>8, OrderEmit DEF Emit
  <2>2. QED
    BY <1>2, <2>1 DEF OrderInv, OrderedPrompt
<1>9. QED
  BY <1>3, <1>4, <1>5, <1>6, <1>7, <1>8 DEF Next

THEOREM OrderInvariant == Spec => []OrderInv
<1>1. Init => OrderInv
  <2> SUFFICES ASSUME Init PROVE OrderInv
    OBVIOUS
  <2>1. Where
    BY NumberFacts DEF Init, Where
  <2>2. InOrder
    BY ContextsEmpty DEF Init, InOrder
  <2>3. QED
    BY <2>1, <2>2 DEF Init, OrderInv, OrderedPrompt
<1>2. ContextInv /\ OrderInv /\ [Next]_vars => OrderInv'
  <2> SUFFICES ASSUME ContextInv, OrderInv, [Next]_vars PROVE OrderInv'
    OBVIOUS
  <2>1. CASE Next
    BY <2>1, OrderNext
  <2>2. CASE UNCHANGED vars
    BY <2>2 DEF vars, past, OrderInv, Where, InOrder, Working, OrderedPrompt, PastPart
  <2>3. QED
    BY <2>1, <2>2
<1>3. QED
  BY <1>1, <1>2, ContextInvariant, PTL DEF Spec

(* The text of the past stands in a prompt in the order in which it was    *)
(* spoken, behind the marker and the initial prompts, before the markers   *)
(* of the task, and none of it twice (whisper.cpp:7098-7126, 7683-7695),   *)
(* whatever calls with and without a carried prompt follow one another.    *)
THEOREM PromptOrdered == Spec => []PromptInOrder
<1>1. OrderInv => PromptInOrder
  BY DEF OrderInv, OrderedPrompt, PromptInOrder, Ordered
<1>2. QED
  BY <1>1, OrderInvariant, PTL

-----------------------------------------------------------------------------
(* The segments of a window.                                               *)

LEMMA Smallest ==
    ASSUME NEW S, S \subseteq Nat, S # {}
    PROVE  \E x \in S : \A y \in S : x <= y
<1>1. PICK x \in S : \A y \in S : ~(<<y, x>> \in OpToRel(<, Nat))
  BY NatLessThanWellFounded, WFMin
<1>2. \A y \in S : ~(y < x)
  BY <1>1 DEF OpToRel
<1>3. QED
  BY <1>2

(* A set of numbers that has 0 and with each number the next has them all, *)
(* up to a bound.                                                          *)
LEMMA Induction ==
    ASSUME NEW n \in Nat, NEW S, 0 \in S,
           \A m \in 0..(n - 1) : m \in S => m + 1 \in S
    PROVE  \A m \in 0..n : m \in S
<1> SUFFICES ASSUME NEW z \in 0..n, z \notin S PROVE FALSE
  OBVIOUS
<1> DEFINE T == {m \in 0..n : m \notin S}
<1>1. T \subseteq Nat /\ T # {}
  OBVIOUS
<1>2. PICK x \in T : \A y \in T : x <= y
  BY <1>1, Smallest
<1>3. x \in 0..n /\ x \notin S /\ x # 0
  OBVIOUS
<1>4. x - 1 \in 0..(n - 1) /\ x - 1 \in 0..n /\ ~(x <= x - 1) /\ (x - 1) + 1 = x
  BY <1>3
<1>5. x - 1 \in S
  BY <1>2, <1>4
<1>6. QED
  BY <1>3, <1>4, <1>5

(* What a recursive function yields when each of its steps stays in V.     *)
Follows(f, n, V, a, step) ==
    f \in [0..n -> V] /\ f[0] = a /\ \A i \in 1..n : f[i] = step[i][f[i - 1]]

LEMMA Recursion ==
    ASSUME NEW n \in Nat, NEW V, NEW a \in V, NEW step \in [1..n -> [V -> V]]
    PROVE  \E f : Follows(f, n, V, a, step)
<1> DEFINE Is(f, m) == /\ f \in [0..m -> V] /\ f[0] = a
                       /\ \A i \in 1..m : f[i] = step[i][f[i - 1]]
           S == {m \in 0..n : \E f : Is(f, m)}
<1>1. 0 \in S
  <2> DEFINE h == [i \in 0..0 |-> a]
  <2>1. h \in [0..0 -> V] /\ h[0] = a
    OBVIOUS
  <2>2. \A i \in 1..0 : FALSE
    OBVIOUS
  <2>3. Is(h, 0)
    BY <2>1, <2>2
  <2> HIDE DEF h, Is
  <2>4. QED
    BY <2>3
<1>2. ASSUME NEW m \in 0..(n - 1), m \in S PROVE m + 1 \in S
  <2>1. PICK f : Is(f, m)
    BY <1>2
  <2>2. m \in 0..m /\ m + 1 \in 1..n /\ m + 1 \in 0..n
    OBVIOUS
  <2>3. f[m] \in V /\ step[m + 1] \in [V -> V]
    BY <2>1, <2>2
  <2>4. step[m + 1][f[m]] \in V
    BY <2>3
  <2> DEFINE g == [i \in 0..(m + 1) |-> IF i <= m THEN f[i] ELSE step[m + 1][f[m]]]
  <2>5. g \in [0..(m + 1) -> V]
    <3>1. \A i \in 0..(m + 1) : i <= m => i \in 0..m
      OBVIOUS
    <3>2. QED
      BY <2>1, <2>4, <3>1
  <2>6. g[0] = a
    BY <2>1
  <2>7. ASSUME NEW i \in 1..(m + 1) PROVE g[i] = step[i][g[i - 1]]
    <3>1. i - 1 \in 0..(m + 1) /\ i \in 0..(m + 1) /\ i - 1 <= m
      OBVIOUS
    <3>2. g[i - 1] = f[i - 1]
      BY <3>1
    <3>3. CASE i <= m
      <4>1. g[i] = f[i] /\ i \in 1..m
        BY <3>1, <3>3
      <4>2. QED
        BY <2>1, <3>2, <4>1
    <3>4. CASE i = m + 1
      <4>1. g[i] = step[m + 1][f[m]] /\ i - 1 = m
        BY <3>1, <3>4
      <4>2. QED
        BY <3>2, <3>4, <4>1
    <3>5. QED
      BY <3>3, <3>4
  <2>8. Is(g, m + 1)
    BY <2>5, <2>6, <2>7
  <2>9. QED
    BY <2>2, <2>8
<1>3. \A m \in 0..n : m \in S
  <2> HIDE DEF S
  <2>1. \A m \in 0..(n - 1) : m \in S => m + 1 \in S
    BY <1>2
  <2>2. QED
    BY <1>1, <2>1, Induction
<1>4. n \in S
  BY <1>3
<1>5. QED
  BY <1>4 DEF Follows

LEMMA Largest ==
    ASSUME NEW n \in Nat, NEW S, S \subseteq 0..n, S # {}
    PROVE  \E x \in S : \A y \in S : y <= x
<1> DEFINE T == {n - k : k \in S}
<1>1. T \subseteq Nat /\ T # {}
  <2>1. \A k \in S : n - k \in Nat
    OBVIOUS
  <2>2. QED
    BY <2>1
<1>2. PICK t \in T : \A y \in T : t <= y
  BY <1>1, Smallest
<1>3. PICK x \in S : t = n - x
  BY <1>2
<1>4. \A y \in S : y \in Int /\ x \in Int /\ n - y \in T
  OBVIOUS
<1>5. \A y \in S : n - x <= n - y
  BY <1>2, <1>3, <1>4
<1>6. QED
  BY <1>4, <1>5

(* The numbers of a finite set, in their order. *)
LEMMA NthFacts ==
    ASSUME NEW S, S \subseteq Nat, IsFiniteSet(S)
    PROVE  /\ Cardinality(S) \in Nat
           /\ \A n \in 1..Cardinality(S) : Nth(S, n) \in S
           /\ \A m, n \in 1..Cardinality(S) : m < n => Nth(S, m) < Nth(S, n)
           /\ \A k \in S : \E n \in 1..Cardinality(S) : Nth(S, n) = k
<1> DEFINE c       == Cardinality(S)
           Upto(j) == {l \in S : l <= j}
           At(j)   == Cardinality(Upto(j))
<1>1. c \in Nat
  BY FS_CardinalityType
<1>2. ASSUME NEW T \in SUBSET S
      PROVE  /\ IsFiniteSet(T) /\ Cardinality(T) \in Nat /\ Cardinality(T) <= c
             /\ T # {} => Cardinality(T) # 0
  BY FS_Subset, FS_CardinalityType, FS_EmptySet
<1>3. ASSUME NEW j \in S PROVE At(j) \in 1..c
  <2>1. Upto(j) \in SUBSET S /\ j \in Upto(j)
    OBVIOUS
  <2>2. QED
    BY <1>1, <1>2, <2>1
<1>4. ASSUME NEW j \in S, NEW k \in S, j < k PROVE At(j) < At(k)
  <2>1. Upto(j) \in SUBSET Upto(k) /\ k \in Upto(k) /\ k \notin Upto(j)
    <3>1. j \in Nat /\ k \in Nat /\ \A l \in S : l \in Nat
      OBVIOUS
    <3>2. (\A l \in S : l <= j => l <= k) /\ k <= k /\ ~(k <= j)
      BY <1>4, <3>1
    <3>3. QED
      BY <3>2
  <2>2. IsFiniteSet(Upto(k))
    BY <1>2
  <2>3. At(k) # At(j) /\ At(j) <= At(k)
    BY <2>1, <2>2, FS_Subset
  <2>4. At(j) \in 1..c /\ At(k) \in 1..c
    BY <1>3
  <2>5. QED
    BY <1>1, <2>3, <2>4
<1> HIDE DEF Upto, At, c
<1>5. \A j, k \in S : At(j) = At(k) => j = k
  <2>1. \A j, k \in S : j = k \/ j < k \/ k < j
    OBVIOUS
  <2>2. \A j \in S : At(j) \in Int
    BY <1>1, <1>3
  <2>3. \A j, k \in S : j < k => At(j) # At(k)
    BY <1>4, <2>2
  <2>4. QED
    BY <2>1, <2>3
<1>6. \A n \in 1..c : \E j \in S : At(j) = n
  <2> DEFINE f == [j \in S |-> At(j)]
  <2>1. f \in [S -> 1..c] /\ \A j \in S : f[j] = At(j)
    BY <1>3
  <2> HIDE DEF f
  <2>2. f \in Injection(S, 1..c)
    BY <1>5, <2>1 DEF Injection, IsInjective
  <2>3. IsFiniteSet(1..c) /\ Cardinality(1..c) = c
    <3>1. IsFiniteSet(1..c) /\ Cardinality(1..c) = IF 1 > c THEN 0 ELSE c - 1 + 1
      BY <1>1, FS_Interval
    <3>2. (IF 1 > c THEN 0 ELSE c - 1 + 1) = c
      BY <1>1
    <3>3. QED
      BY <3>1, <3>2
  <2>4. f \in Surjection(S, 1..c)
    BY <2>2, <2>3, FS_Injection DEF c
  <2>5. QED
    BY <2>1, <2>4 DEF Surjection
<1>7. ASSUME NEW n \in 1..c PROVE Nth(S, n) \in S /\ At(Nth(S, n)) = n
  <2>1. Nth(S, n) = CHOOSE j \in S : At(j) = n
    BY DEF Nth, At, Upto
  <2>2. QED
    BY <1>6, <2>1
<1>8. \A j, k \in S : At(j) < At(k) => j < k
  <2>1. \A j, k \in S : j = k \/ j < k \/ k < j
    OBVIOUS
  <2>2. \A j \in S : At(j) \in Int
    BY <1>1, <1>3
  <2>3. \A j, k \in S : k < j => At(k) < At(j)
    BY <1>4
  <2>4. QED
    BY <2>1, <2>2, <2>3
<1>9. ASSUME NEW m \in 1..c, NEW n \in 1..c, m < n PROVE Nth(S, m) < Nth(S, n)
  <2>1. /\ Nth(S, m) \in S /\ At(Nth(S, m)) = m
        /\ Nth(S, n) \in S /\ At(Nth(S, n)) = n
    BY <1>7
  <2>2. At(Nth(S, m)) < At(Nth(S, n))
    BY <1>9, <2>1
  <2>3. QED
    BY <1>8, <2>1, <2>2
<1>10. ASSUME NEW k \in S PROVE Nth(S, At(k)) = k /\ At(k) \in 1..c
  <2>1. At(k) \in 1..c
    BY <1>3
  <2>2. Nth(S, At(k)) \in S /\ At(Nth(S, At(k))) = At(k)
    BY <1>7, <2>1
  <2>3. QED
    BY <1>5, <2>1, <2>2
<1>11. QED
  BY <1>1, <1>7, <1>9, <1>10 DEF c

(* What is known of an outcome.                                            *)
LEMMA OutcomeIs ==
    ASSUME params \in Params, NEW o \in Outcomes[params]
    PROVE  /\ Len(o.tokens) \in 1..n_max /\ DOMAIN o.tokens = 1..Len(o.tokens)
           /\ \A k \in DOMAIN o.tokens : o.tokens[k] \in Token
           /\ o.seek_delta \in 1..Chunk /\ o.tid \in Tid(o.tokens, params)
           /\ IsOutcome(o, params) /\ Sampled(o.tokens, params)
<1>1. o \in [tokens : UNION {[1..n -> Token] : n \in 1..n_max},
             result_len : 0..n_max, seek_delta : 1..Chunk,
             tid : Token, no_speech : BOOLEAN]
      /\ IsOutcome(o, params) /\ o.tid \in Tid(o.tokens, params)
  BY DEF Outcomes
<1>2. PICK n \in 1..n_max : o.tokens \in [1..n -> Token]
  BY <1>1
<1>3. n \in Nat
  BY NumberFacts
<1>4. Len(o.tokens) = n
  BY <1>2, <1>3
<1>5. QED
  BY <1>1, <1>2, <1>4 DEF IsOutcome

LEMMA TokenFacts ==
    /\ Beg \in Nat /\ NTimestamps \in Nat /\ Chunk = 2 * NTimestamps
    /\ \A t \in Token : t \in Nat /\ t <= Beg + NTimestamps
BY OutcomeAssumption DEF OutcomeAssumption, Beg, Token, Chunk

(* Where the pieces of a text end.                                         *)
LEMMA CutFacts ==
    ASSUME NEW s, Len(s) \in Nat, DOMAIN s = 1..Len(s)
    PROVE  /\ IsFiniteSet(Ends(s)) /\ Ends(s) \subseteq 1..(Len(s) + 1)
           /\ \A e \in Ends(s) : e <= Len(s) => e \in Cuts(s)
           /\ Cuts(s) \subseteq Stamps(s) /\ Stamps(s) \subseteq 1..Len(s)
           /\ \A e \in Ends(s) :
                 \/ CutBefore(s, e) = 0 /\ \A k \in Cuts(s) : ~(k < e)
                 \/ /\ CutBefore(s, e) \in Cuts(s) /\ CutBefore(s, e) < e
                    /\ \A k \in Cuts(s) : k < e => k <= CutBefore(s, e)
<1> DEFINE n == Len(s)
<1>1. Cuts(s) \subseteq Stamps(s) /\ Stamps(s) \subseteq 1..n
  BY DEF Cuts, Stamps
<1>2. Ends(s) \subseteq 1..(n + 1)
  BY <1>1 DEF Ends
<1>3. IsFiniteSet(Ends(s))
  <2>1. IsFiniteSet(1..(n + 1))
    BY FS_Interval
  <2>2. QED
    BY <1>2, <2>1, FS_Subset
<1>4. \A e \in Ends(s) : e <= n => e \in Cuts(s)
  BY DEF Ends
<1>5. ASSUME NEW e \in Ends(s)
      PROVE  \/ CutBefore(s, e) = 0 /\ \A k \in Cuts(s) : ~(k < e)
             \/ /\ CutBefore(s, e) \in Cuts(s) /\ CutBefore(s, e) < e
                /\ \A k \in Cuts(s) : k < e => k <= CutBefore(s, e)
  <2> DEFINE earlier == {k \in Cuts(s) : k < e}
  <2>1. CASE earlier = {}
    BY <2>1 DEF CutBefore
  <2>2. CASE earlier # {}
    <3>1. earlier \subseteq 0..n
      BY <1>1
    <3>2. \E x \in earlier : \A y \in earlier : y <= x
      BY <2>2, <3>1, Largest
    <3>3. CutBefore(s, e) = CHOOSE k \in earlier : \A l \in earlier : l <= k
      BY <2>2 DEF CutBefore
    <3>4. CutBefore(s, e) \in earlier /\ \A l \in earlier : l <= CutBefore(s, e)
      BY <3>2, <3>3
    <3>5. QED
      BY <3>4
  <2>3. QED
    BY <2>1, <2>2
<1>6. QED
  BY <1>1, <1>2, <1>3, <1>4, <1>5

Elements(s) == {s[k] : k \in DOMAIN s}

(* Segments that begin at lo or later, end by hi, and do not overlap.      *)
Lined(s, lo, hi) ==
    /\ \A k \in DOMAIN s : /\ s[k].t0 \in Int /\ s[k].t1 \in Int
                           /\ lo <= s[k].t0 /\ s[k].t1 <= hi
    /\ \A k, l \in DOMAIN s : k < l => s[k].t1 <= s[l].t0

Spoken(s) == s \in Seq(Elements(s)) /\ \A k \in DOMAIN s : s[k].text # <<>>

(* Every timestamp the sampler notes is one: without timestamps, greedy    *)
(* decoding leaves it 0, and then segments begin far before the audio.     *)
Noted == \A p \in Params : p.no_timestamps => ~p.greedy

SegmentAt(o, e, lo) ==
    /\ Segment(o, e).t0 \in Int /\ Segment(o, e).t1 \in Int
    /\ lo <= Segment(o, e).t0 /\ Segment(o, e).t1 <= lo + o.seek_delta

LEMMA SegmentFacts ==
    ASSUME params \in Params, NEW o \in Outcomes[params], seek \in Nat, Noted
    PROVE  /\ \A e \in Ends(o.tokens) : SegmentAt(o, e, seek)
           /\ \A e, f \in Ends(o.tokens) : e < f => Segment(o, e).t1 <= Segment(o, f).t0
<1> DEFINE s == o.tokens
           n == Len(s)
<1>1. /\ n \in Nat /\ n >= 1 /\ DOMAIN s = 1..n /\ \A k \in 1..n : s[k] \in Token
      /\ o.seek_delta \in 1..Chunk /\ o.tid \in Tid(s, params)
      /\ IsOutcome(o, params) /\ Sampled(s, params)
  BY OutcomeIs, NumberFacts
<1>2. /\ Beg \in Nat /\ NTimestamps \in Nat /\ Chunk = 2 * NTimestamps
      /\ \A k \in 1..n : s[k] \in Nat /\ s[k] <= Beg + NTimestamps
  BY <1>1, TokenFacts
<1>3. /\ Ends(s) \subseteq 1..(n + 1)
      /\ \A e \in Ends(s) : e <= n => e \in Cuts(s)
      /\ Cuts(s) \subseteq Stamps(s) /\ Stamps(s) \subseteq 1..n
      /\ \A e \in Ends(s) :
            \/ CutBefore(s, e) = 0 /\ \A k \in Cuts(s) : ~(k < e)
            \/ /\ CutBefore(s, e) \in Cuts(s) /\ CutBefore(s, e) < e
               /\ \A k \in Cuts(s) : k < e => k <= CutBefore(s, e)
  BY <1>1, CutFacts
<1>4. \A k \in Cuts(s) : k \in 1..n /\ s[k] > Beg
  BY <1>3 DEF Stamps
(* Timestamps do not decrease, and the window moves beyond the last.       *)
<1>5. \A k, l \in Cuts(s) : k <= l => s[k] <= s[l]
  <2>1. \A k, l \in 1..n : l < k /\ s[l] >= Beg /\ s[k] >= Beg => s[l] <= s[k]
    BY <1>1 DEF Sampled
  <2>2. \A k, l \in Cuts(s) : k \in 1..n /\ l \in 1..n /\ s[k] >= Beg /\ s[l] >= Beg
                              /\ s[k] \in Nat /\ s[l] \in Nat
    BY <1>2, <1>4
  <2>3. \A k, l \in Cuts(s) : k <= l => k = l \/ k < l
    BY <2>2
  <2>4. QED
    BY <2>1, <2>2, <2>3
<1>6. ASSUME NEW k \in Cuts(s) PROVE 2 * (s[k] - Beg) <= o.seek_delta
  <2>1. k \in Stamps(s) /\ k \in 1..n /\ s[k] > Beg /\ s[k] \in Nat
        /\ s[k] <= Beg + NTimestamps
    BY <1>2, <1>3, <1>4
  <2>2. CASE o.seek_delta = Chunk
    BY <1>2, <2>1, <2>2
  <2>3. CASE LastStamp(s) # 0 /\ o.seek_delta = 2 * (s[LastStamp(s)] - Beg)
    <3>1. \E x \in Stamps(s) : \A y \in Stamps(s) : y <= x
      <4>1. Stamps(s) \subseteq 0..n /\ Stamps(s) # {}
        BY <1>3, <2>1
      <4>2. QED
        BY <1>1, <4>1, Largest
    <3>2. LastStamp(s) \in Stamps(s) /\ \A l \in Stamps(s) : l <= LastStamp(s)
      BY <2>1, <3>1 DEF LastStamp
    <3>3. /\ LastStamp(s) \in 1..n /\ s[LastStamp(s)] > Beg /\ k <= LastStamp(s)
          /\ s[LastStamp(s)] \in Nat
      BY <1>1, <1>2, <2>1, <3>2 DEF Stamps
    <3>4. s[k] <= s[LastStamp(s)]
      <4>1. \A a, b \in 1..n : b < a /\ s[b] >= Beg /\ s[a] >= Beg => s[b] <= s[a]
        BY <1>1 DEF Sampled
      <4>2. k = LastStamp(s) \/ k < LastStamp(s)
        BY <2>1, <3>3
      <4>3. s[k] >= Beg /\ s[LastStamp(s)] >= Beg
        BY <1>2, <2>1, <3>3
      <4>4. QED
        BY <2>1, <3>3, <4>1, <4>2, <4>3
    <3>5. QED
      BY <1>2, <2>1, <2>3, <3>3, <3>4
  <2>4. o.seek_delta = Chunk
        \/ (LastStamp(s) # 0 /\ o.seek_delta = 2 * (s[LastStamp(s)] - Beg))
    BY <1>1 DEF IsOutcome
  <2>5. QED
    BY <2>2, <2>3, <2>4
<1>7. o.tid \in Int /\ o.tid >= Beg
  <2>1. \A j \in Int : \A x \in Beg..j : x \in Int /\ x >= Beg
    BY <1>2
  <2>2. Least(Beg + max_initial_ts, Beg + NTimestamps) \in Int
    BY <1>2, OutcomeAssumption DEF OutcomeAssumption, Least
  <2>3. o.tid \in IF s[1] >= Beg THEN {s[1]}
                  ELSE IF ~params.no_timestamps
                  THEN Beg..Least(Beg + max_initial_ts, Beg + NTimestamps)
                  ELSE IF params.greedy THEN {0} ELSE {Beg}
    BY <1>1 DEF Tid
  <2>4. ~params.no_timestamps \/ ~params.greedy
    BY DEF Noted
  <2>5. s[1] \in Int
    BY <1>1, <1>2
  <2>6. QED
    BY <1>2, <2>1, <2>2, <2>3, <2>4, <2>5
<1> DEFINE Start(e) == IF CutBefore(s, e) = 0 THEN TimeOf(o.tid) ELSE TimeOf(s[CutBefore(s, e)])
           End(e)   == IF e > n THEN seek + o.seek_delta ELSE TimeOf(s[e])
<1>8. \A e : Segment(o, e).t0 = Start(e) /\ Segment(o, e).t1 = End(e)
  BY DEF Segment
<1>9. \A k \in Cuts(s) : /\ TimeOf(s[k]) \in Int /\ seek <= TimeOf(s[k])
                         /\ TimeOf(s[k]) <= seek + o.seek_delta
  <2>1. \A k \in Cuts(s) : s[k] \in Nat /\ s[k] > Beg /\ 2 * (s[k] - Beg) <= o.seek_delta
    BY <1>2, <1>4, <1>6
  <2>2. o.seek_delta \in Int
    BY <1>1, <1>2
  <2>3. QED
    BY <1>2, <2>1, <2>2 DEF TimeOf
<1>10. \A k, l \in Cuts(s) : k <= l => TimeOf(s[k]) <= TimeOf(s[l])
  BY <1>2, <1>4, <1>5 DEF TimeOf
<1>11. TimeOf(o.tid) \in Int /\ seek <= TimeOf(o.tid)
  BY <1>2, <1>7 DEF TimeOf
<1>12. o.seek_delta \in Int
  BY <1>1, <1>2
<1> HIDE DEF s, n
<1>13. ASSUME NEW e \in Ends(s)
       PROVE  /\ Start(e) \in Int /\ End(e) \in Int /\ seek <= Start(e)
              /\ End(e) <= seek + o.seek_delta
  <2>1. Start(e) \in Int /\ seek <= Start(e)
    BY <1>3, <1>9, <1>11
  <2>2. e \in Int /\ (e <= n => e \in Cuts(s))
    BY <1>1, <1>3
  <2>3. End(e) \in Int /\ End(e) <= seek + o.seek_delta
    BY <1>1, <1>9, <1>12, <2>2
  <2>4. QED
    BY <2>1, <2>3
<1>14. ASSUME NEW e \in Ends(s), NEW f \in Ends(s), e < f PROVE End(e) <= Start(f)
  <2>1. e \in Int /\ f \in Int /\ f <= n + 1
    BY <1>1, <1>3
  <2>2. e <= n /\ ~(e > n) /\ e \in Cuts(s)
    BY <1>1, <1>3, <1>14, <2>1
  <2>3. CutBefore(s, f) \in Cuts(s) /\ e <= CutBefore(s, f)
    BY <1>3, <1>14, <2>2
  <2>4. CutBefore(s, f) # 0
    BY <1>4, <2>3
  <2>5. QED
    BY <1>10, <2>2, <2>3, <2>4
<1>15. \A e \in Ends(s) : SegmentAt(o, e, seek)
  BY <1>8, <1>13 DEF SegmentAt
<1>16. \A e, f \in Ends(s) : e < f => Segment(o, e).t1 <= Segment(o, f).t0
  BY <1>8, <1>14
<1>17. QED
  BY <1>15, <1>16 DEF s

(* The segments of a window hold text; with the timestamps noted, they lie *)
(* in the window, in order.                                                *)
LEMMA WindowSegments ==
    ASSUME params \in Params, NEW o \in Outcomes[params], seek \in Nat
    PROVE  /\ Spoken(Segments(o))
           /\ Noted => Lined(Segments(o), seek, seek + o.seek_delta)
<1> DEFINE S == {e \in Ends(o.tokens) : PieceText(o.tokens, e) # <<>>}
           c == Cardinality(S)
           w == Segments(o)
<1>1. Len(o.tokens) \in Nat /\ DOMAIN o.tokens = 1..Len(o.tokens)
  BY OutcomeIs, NumberFacts
<1>2. IsFiniteSet(S) /\ S \subseteq Nat /\ S \subseteq Ends(o.tokens)
  <2>1. IsFiniteSet(Ends(o.tokens)) /\ Ends(o.tokens) \subseteq 1..(Len(o.tokens) + 1)
    BY <1>1, CutFacts
  <2>2. QED
    BY <1>1, <2>1, FS_Subset
<1>3. /\ c \in Nat
      /\ \A k \in 1..c : Nth(S, k) \in S
      /\ \A k, l \in 1..c : k < l => Nth(S, k) < Nth(S, l)
  BY <1>2, NthFacts
<1>4. \A e \in S : Segment(o, e).text # <<>>
  BY DEF Segment
<1>5. w = IF o.no_speech THEN <<>> ELSE [k \in 1..c |-> Segment(o, Nth(S, k))]
  BY DEF Segments
<1>6. CASE o.no_speech
  <2>1. w = <<>> /\ DOMAIN w = {} /\ w \in Seq(Elements(w))
    BY <1>5, <1>6
  <2>2. QED
    BY <2>1 DEF Spoken, Lined
<1>7. CASE ~o.no_speech
  <2>1. w = [k \in 1..c |-> Segment(o, Nth(S, k))]
    BY <1>5, <1>7
  <2> HIDE DEF w, c
  <2>2. DOMAIN w = 1..c /\ \A k \in 1..c : w[k] = Segment(o, Nth(S, k))
    BY <2>1
  <2>3. w \in [1..c -> Elements(w)]
    BY <2>1, <2>2 DEF Elements
  <2>4. Spoken(w)
    <3>1. w \in Seq(Elements(w))
      BY <1>3, <2>3
    <3>2. \A k \in 1..c : w[k].text # <<>>
      BY <1>3, <1>4, <2>2
    <3>3. QED
      BY <2>2, <3>1, <3>2 DEF Spoken
  <2>5. ASSUME Noted PROVE Lined(w, seek, seek + o.seek_delta)
    <3>1. /\ \A e \in S : SegmentAt(o, e, seek)
          /\ \A e, f \in S : e < f => Segment(o, e).t1 <= Segment(o, f).t0
      BY <1>2, <2>5, SegmentFacts
    <3>2. \A k \in 1..c : SegmentAt(o, Nth(S, k), seek)
      BY <1>3, <3>1
    <3>3. \A k, l \in 1..c :
             k < l => Segment(o, Nth(S, k)).t1 <= Segment(o, Nth(S, l)).t0
      BY <1>3, <3>1
    <3>4. QED
      BY <2>2, <3>2, <3>3 DEF Lined, SegmentAt
  <2>6. QED
    BY <2>4, <2>5 DEF w
<1>8. QED
  BY <1>6, <1>7

(* More segments, behind those there are.                                  *)
LEMMA AppendSegments ==
    ASSUME NEW s, Spoken(s), NEW t, Spoken(t)
    PROVE  /\ Spoken(s \o t) /\ Len(s \o t) = Len(s) + Len(t)
           /\ Len(s) \in Nat /\ Len(t) \in Nat
           /\ \A lo, mid, hi \in Int :
                 /\ lo <= mid /\ mid <= hi
                 /\ Lined(s, lo, mid) /\ Lined(t, mid, hi)
                 => Lined(s \o t, lo, hi)
<1> DEFINE S == Elements(s) \cup Elements(t)
           m == Len(s)
           n == Len(t)
           w == s \o t
<1>1. s \in Seq(S) /\ t \in Seq(S)
  <2>1. s \in Seq(Elements(s)) /\ t \in Seq(Elements(t))
    BY DEF Spoken
  <2> HIDE DEF S
  <2>2. Elements(s) \subseteq S /\ Elements(t) \subseteq S
    BY DEF S
  <2>3. QED
    BY <2>1, <2>2
<1>2. /\ m \in Nat /\ n \in Nat /\ DOMAIN s = 1..m /\ DOMAIN t = 1..n
      /\ w \in Seq(S) /\ Len(w) = m + n
      /\ \A k \in 1..(m + n) : w[k] = IF k <= m THEN s[k] ELSE t[k - m]
  <2> HIDE DEF S
  <2>1. QED
    BY <1>1, ConcatProperties
<1> HIDE DEF m, n, w, S
<1>3. DOMAIN w = 1..(m + n)
  BY <1>2
<1>4. \A k \in 1..(m + n) : IF k <= m THEN k \in 1..m /\ w[k] = s[k]
                                      ELSE k - m \in 1..n /\ w[k] = t[k - m]
  BY <1>2
<1>5. Spoken(w)
  <2>1. w \in [1..(m + n) -> Elements(w)]
    BY <1>2, <1>3 DEF Elements
  <2>2. w \in Seq(Elements(w))
    BY <1>2, <2>1
  <2>3. \A k \in 1..(m + n) : w[k].text # <<>>
    BY <1>2, <1>4 DEF Spoken
  <2>4. QED
    BY <1>3, <2>2, <2>3 DEF Spoken
<1>6. ASSUME NEW lo \in Int, NEW mid \in Int, NEW hi \in Int, lo <= mid, mid <= hi,
             Lined(s, lo, mid), Lined(t, mid, hi)
      PROVE  Lined(w, lo, hi)
  <2>1. /\ \A k \in 1..m : /\ s[k].t0 \in Int /\ s[k].t1 \in Int
                           /\ lo <= s[k].t0 /\ s[k].t1 <= mid
        /\ \A k, l \in 1..m : k < l => s[k].t1 <= s[l].t0
        /\ \A k \in 1..n : /\ t[k].t0 \in Int /\ t[k].t1 \in Int
                           /\ mid <= t[k].t0 /\ t[k].t1 <= hi
        /\ \A k, l \in 1..n : k < l => t[k].t1 <= t[l].t0
    BY <1>2, <1>6 DEF Lined
  <2>2. ASSUME NEW k \in 1..(m + n)
        PROVE  w[k].t0 \in Int /\ w[k].t1 \in Int /\ lo <= w[k].t0 /\ w[k].t1 <= hi
    <3>1. CASE k <= m
      <4>1. k \in 1..m /\ w[k] = s[k]
        BY <1>4, <3>1
      <4>2. s[k].t0 \in Int /\ s[k].t1 \in Int /\ lo <= s[k].t0 /\ s[k].t1 <= mid
        BY <2>1, <4>1
      <4>3. QED
        BY <1>6, <4>1, <4>2
    <3>2. CASE ~(k <= m)
      <4>1. k - m \in 1..n /\ w[k] = t[k - m]
        BY <1>4, <3>2
      <4>2. /\ t[k - m].t0 \in Int /\ t[k - m].t1 \in Int
            /\ mid <= t[k - m].t0 /\ t[k - m].t1 <= hi
        BY <2>1, <4>1
      <4>3. QED
        BY <1>6, <4>1, <4>2
    <3>3. QED
      BY <3>1, <3>2
  <2>3. ASSUME NEW k \in 1..(m + n), NEW l \in 1..(m + n), k < l
        PROVE  w[k].t1 <= w[l].t0
    <3>1. CASE l <= m
      <4>1. k \in 1..m /\ l \in 1..m /\ k <= m
        BY <1>2, <2>3, <3>1
      <4>2. w[k] = s[k] /\ w[l] = s[l] /\ s[k].t1 <= s[l].t0
        BY <1>4, <2>1, <2>3, <3>1, <4>1
      <4>3. QED
        BY <4>2
    <3>2. CASE k <= m /\ ~(l <= m)
      <4>1. k \in 1..m /\ w[k] = s[k] /\ l - m \in 1..n /\ w[l] = t[l - m]
        BY <1>4, <3>2
      <4>2. /\ s[k].t1 \in Int /\ s[k].t1 <= mid
            /\ t[l - m].t0 \in Int /\ mid <= t[l - m].t0
        BY <2>1, <4>1
      <4>3. QED
        BY <4>1, <4>2
    <3>3. CASE ~(k <= m)
      <4>1. k - m \in 1..n /\ l - m \in 1..n /\ k - m < l - m /\ ~(l <= m)
        BY <1>2, <1>4, <2>3, <3>3
      <4>2. w[k] = t[k - m] /\ w[l] = t[l - m] /\ t[k - m].t1 <= t[l - m].t0
        BY <1>4, <2>1, <3>3, <4>1
      <4>3. QED
        BY <4>2
    <3>4. QED
      BY <3>1, <3>2, <3>3
  <2>4. QED
    BY <1>3, <2>2, <2>3 DEF Lined
<1>7. QED
  BY <1>2, <1>5, <1>6 DEF w, m, n

LEMMA NoSegments == Spoken(<<>>) /\ \A lo, hi : Lined(<<>>, lo, hi)
<1>1. DOMAIN <<>> = {} /\ <<>> \in Seq(Elements(<<>>))
  OBVIOUS
<1>2. QED
  BY <1>1 DEF Spoken, Lined

LEMMA LinedLater ==
    ASSUME NEW s, NEW lo \in Int, NEW hi \in Int, NEW later \in Int, hi <= later,
           Lined(s, lo, hi)
    PROVE  Lined(s, lo, later)
BY DEF Lined

-----------------------------------------------------------------------------
(* What the segments are, in every state.                                  *)

Results ==
    /\ Spoken(result_all) /\ announced \in 0..Len(result_all)
    /\ phase = "prepare" => result_all = <<>>

(* Until the loop has reached the end of the audio, the segments end where *)
(* the next window begins.                                                 *)
Times ==
    /\ Lined(result_all, span.from, span.to + Chunk)
    /\ Working /\ ~AtEnd => Lined(result_all, span.from, seek)

LEMMA ResultsEmit ==
    ASSUME Types, Where, Results, Emit
    PROVE  Results' /\ (Noted /\ Times => Times')
<1> DEFINE new == Segments(outcome)
<1>1. /\ phase = "emit" /\ phase' = "loop" /\ result_all' = result_all \o new
      /\ announced' = announced + Announced(Len(new))
      /\ seek' = seek + SeekDelta /\ span' = span
  BY DEF Emit
<1>2. /\ params \in Params /\ outcome \in Outcomes[params] /\ span \in Spans
      /\ seek \in Nat /\ seek + delta_min < span.to /\ span.from <= seek
      /\ span.from \in Nat /\ span.to \in Nat /\ Chunk \in Nat /\ delta_min \in Nat
  BY <1>1, NumberFacts DEF Types, Where
<1>3. /\ Spoken(new) /\ (Noted => Lined(new, seek, seek + outcome.seek_delta))
  BY <1>2, WindowSegments
<1>4. outcome.seek_delta \in 1..Chunk /\ SeekDelta \in 1..Chunk
  BY <1>1, DeltaFacts
<1> HIDE DEF new
<1>5. /\ Spoken(result_all \o new) /\ Len(result_all \o new) = Len(result_all) + Len(new)
      /\ Len(result_all) \in Nat /\ Len(new) \in Nat
  BY <1>3, AppendSegments DEF Results
<1>6. announced' \in 0..Len(result_all')
  <2>1. announced \in 0..Len(result_all)
    BY DEF Results
  <2>2. Announced(Len(new)) \in 0..Len(new)
    BY <1>5 DEF Announced, Most
  <2>3. QED
    BY <1>1, <1>5, <2>1, <2>2
<1>7. Results'
  BY <1>1, <1>5, <1>6 DEF Results
<1>8. ASSUME Noted, Times PROVE Times'
  <2>1. Lined(result_all, span.from, seek)
    BY <1>1, <1>2, <1>8 DEF Times, Working, AtEnd
  <2> DEFINE end == seek + outcome.seek_delta
  <2>2. end \in Int /\ seek <= end /\ end <= span.to + Chunk /\ span.to + Chunk \in Int
    BY <1>2, <1>4
  <2>3. Lined(result_all \o new, span.from, end)
    <3>1. Lined(new, seek, end)
      BY <1>3, <1>8
    <3> HIDE DEF end
    <3>2. \A lo, mid, hi \in Int :
             /\ lo <= mid /\ mid <= hi
             /\ Lined(result_all, lo, mid) /\ Lined(new, mid, hi)
             => Lined(result_all \o new, lo, hi)
      BY <1>3, AppendSegments DEF Results
    <3>3. span.from \in Int /\ seek \in Int /\ span.from <= seek
      BY <1>2
    <3>4. QED
      BY <2>1, <2>2, <3>1, <3>2, <3>3
  <2>4. Lined(result_all \o new, span.from, span.to + Chunk)
    <3> HIDE DEF end
    <3>1. QED
      BY <1>2, <2>2, <2>3, LinedLater
  <2>5. ASSUME ~(seek' + delta_min >= span.to) PROVE end <= seek' /\ seek' \in Int
    <3>1. CASE SeekDelta = outcome.seek_delta
      BY <1>1, <1>2, <1>4, <3>1
    <3>2. CASE SeekDelta = Least(span.to - seek, Chunk)
      <4>1. SeekDelta = Chunk \/ SeekDelta = span.to - seek
        BY <3>2 DEF Least
      <4>2. QED
        BY <1>1, <1>2, <1>4, <2>5, <4>1
    <3>3. QED
      BY <3>1, <3>2 DEF SeekDelta
  <2>6. ASSUME ~(seek' + delta_min >= span.to)
        PROVE  Lined(result_all \o new, span.from, seek')
    <3>1. end <= seek' /\ seek' \in Int
      BY <2>5, <2>6
    <3> HIDE DEF end
    <3>2. QED
      BY <1>2, <2>2, <2>3, <3>1, LinedLater
  <2>7. QED
    BY <1>1, <2>4, <2>6 DEF Times, AtEnd
<1>9. QED
  BY <1>7, <1>8

LEMMA ResultsNext ==
    ASSUME Types, Where, Results, [Next]_vars
    PROVE  Results' /\ (Noted /\ Times => Times')
<1>1. CASE Call
  <2>1. /\ result_all' = <<>> /\ announced' = 0 /\ span' \in Spans
        /\ phase' \in {"idle", "prepare"}
    BY <1>1 DEF Call
  <2>2. Len(<<>>) = 0
    OBVIOUS
  <2>3. Results'
    BY <2>1, <2>2, NoSegments DEF Results
  <2>4. Times'
    BY <2>1, NoSegments DEF Times, Working
  <2>5. QED
    BY <2>3, <2>4
<1>2. CASE Prepare
  <2>1. /\ phase = "prepare" /\ phase' \in {"loop", "idle"} /\ result_all' = result_all
        /\ announced' = announced /\ span' = span /\ seek' = seek /\ result_all = <<>>
    BY <1>2 DEF Prepare, Results
  <2>2. Results'
    BY <2>1 DEF Results
  <2>3. Times'
    BY <2>1, NoSegments DEF Times
  <2>4. QED
    BY <2>2, <2>3
<1>3. CASE Finish \/ Fails \/ OutOfMemory
  BY <1>3 DEF Finish, Fails, OutOfMemory, Return, Results, Times, Working
<1>4. CASE Encode \/ Decode
  BY <1>4 DEF Encode, Decode, Results, Times, Working, AtEnd
<1>5. CASE Emit
  BY <1>5, ResultsEmit
<1>6. CASE UNCHANGED vars
  BY <1>6 DEF vars, Results, Times, Working, AtEnd
<1>7. QED
  BY <1>1, <1>2, <1>3, <1>4, <1>5, <1>6 DEF Next

THEOREM ResultsInvariant == Spec => []Results
<1>1. Init => Results
  <2>1. Len(<<>>) = 0
    OBVIOUS
  <2>2. QED
    BY <2>1, NoSegments DEF Init, Results
<1>2. ContextInv /\ OrderInv /\ Results /\ [Next]_vars => Results'
  BY ResultsNext DEF ContextInv, OrderInv
<1>3. QED
  BY <1>1, <1>2, ContextInvariant, OrderInvariant, PTL DEF Spec

(* Where every timestamp that the sampler notes is one, segments begin     *)
(* within the audio asked for and one ends before the next begins, also    *)
(* across windows: the cuts of a window have timestamps that grow, and the *)
(* next window starts behind the last of them (whisper.cpp:7697-7792,      *)
(* 7798), except behind a single timestamp at the end of a window, which   *)
(* ends the audio or moves a whole window.  The hypothesis cannot be left  *)
(* out: seek_no_timestamps refutes the property without it.                *)
THEOREM SegmentsOrdered == ASSUME Noted PROVE Spec => []SegmentsInOrder
<1>1. Init => Times
  BY NoSegments DEF Init, Times, Working
<1>2. ContextInv /\ OrderInv /\ Results /\ Times /\ [Next]_vars => Times'
  BY ResultsNext DEF ContextInv, OrderInv
<1>3. Times => SegmentsInOrder
  BY DEF Times, Lined, SegmentsInOrder
<1>4. QED
  BY <1>1, <1>2, <1>3, ContextInvariant, OrderInvariant, ResultsInvariant, PTL DEF Spec

(* Every variable has its type: each piece of a context or prompt comes    *)
(* from a call there was, a window is decoded to a sequence of its         *)
(* parameters, seek stays within a window of the end, no segment is empty, *)
(* and no more segments are announced than there are.                      *)
THEOREM TypeCorrect == Spec => []TypeOK
<1>1. ContextInv /\ OrderInv /\ Results => TypeOK
  <2> SUFFICES ASSUME ContextInv, OrderInv, Results PROVE TypeOK
    OBVIOUS
  <2>1. /\ phase \in {"idle", "prepare", "loop", "decode", "emit", "freed"}
        /\ calls \in 0..MaxCalls /\ params \in Params /\ span \in Spans
        /\ seek \in Nat
    BY DEF ContextInv, Types, OrderInv, Where
  <2>2. phase # "idle" => seek <= span.to + Chunk
    BY DEF OrderInv, Where
  <2>3. \A s \in {prompt_past0, prompt_past1, prompt} : \A k \in DOMAIN s : s[k] \in Pieces
    <3>1. /\ \A k \in DOMAIN prompt_past0 : prompt_past0[k] \in PastPiece
          /\ \A k \in DOMAIN prompt_past1 : prompt_past1[k] \in PastPiece
      BY DEF OrderInv, InOrder, Contexts, Known
    <3>2. /\ \A k \in DOMAIN prompt_past0 : prompt_past0[k] \in Pieces
          /\ \A k \in DOMAIN prompt_past1 : prompt_past1[k] \in Pieces
      BY <3>1, PieceFacts
    <3>3. \A k \in DOMAIN prompt : prompt[k] \in Pieces
      <4>1. CASE phase = "emit"
        BY <4>1 DEF OrderInv, OrderedPrompt
      <4>2. CASE phase # "emit"
        <5>1. prompt = <<>> /\ DOMAIN <<>> = {}
          BY <4>2 DEF OrderInv, Where
        <5>2. QED
          BY <5>1
      <4>3. QED
        BY <4>1, <4>2
    <3>4. QED
      BY <3>2, <3>3
  <2>4. phase = "emit" => prompt # <<>> /\ Sampled(outcome.tokens, params)
    <3> SUFFICES ASSUME phase = "emit"
                 PROVE  prompt # <<>> /\ Sampled(outcome.tokens, params)
      OBVIOUS
    <3>1. prompt # <<>>
      BY DEF OrderInv, OrderedPrompt
    <3>2. outcome \in Outcomes[params] /\ params \in Params
      BY DEF ContextInv, Types
    <3>3. QED
      BY <3>1, <3>2, OutcomeIs
  <2>5. /\ \A k \in DOMAIN result_all : result_all[k].text # <<>>
        /\ announced \in 0..Len(result_all)
    BY DEF Results, Spoken
  <2>6. QED
    BY <2>1, <2>2, <2>3, <2>4, <2>5 DEF TypeOK
<1>2. QED
  BY <1>1, ContextInvariant, OrderInvariant, ResultsInvariant, PTL

(* Every window moves seek, by at most a window's length: the loop cannot  *)
(* stay where it is, whatever its windows yield.                           *)
THEOREM SeekMoves == Spec => [][Emit => seek' > seek /\ seek' <= seek + Chunk]_vars
<1>1. ContextInv /\ OrderInv /\ [Next]_vars
         => [Emit => seek' > seek /\ seek' <= seek + Chunk]_vars
  <2> SUFFICES ASSUME ContextInv, OrderInv, Emit
               PROVE  seek' > seek /\ seek' <= seek + Chunk
    OBVIOUS
  <2>1. /\ Types /\ Where /\ phase = "emit" /\ seek' = seek + SeekDelta /\ seek \in Nat
    BY DEF Emit, ContextInv, OrderInv, Where
  <2>2. SeekDelta \in 1..Chunk /\ Chunk \in Nat
    BY <2>1, DeltaFacts, NumberFacts
  <2>3. QED
    BY <2>1, <2>2
<1>2. QED
  BY <1>1, ContextInvariant, OrderInvariant, PTL DEF Spec

-----------------------------------------------------------------------------
(* The text of the segments.  TextOf and Joined are recursive functions;   *)
(* these are the values they take on the way.                              *)
TextSteps(g, s) ==
    /\ g \in [0..Len(s) -> Seq(Token)]
    /\ g[0] = <<>>
    /\ \A i \in 1..Len(s) :
          g[i] = IF IsText(s[i]) THEN Append(g[i - 1], s[i]) ELSE g[i - 1]

LEMMA TextIs ==
    ASSUME NEW s \in Seq(Token), Len(s) <= n_max
    PROVE  \E g : TextSteps(g, s) /\ TextOf[s] = g[Len(s)]
<1> DEFINE N == Len(s)
           Is(f) == f = [n \in 0..Len(s) |->
                           IF n = 0 THEN <<>>
                           ELSE IF IsText(s[n]) THEN Append(f[n - 1], s[n]) ELSE f[n - 1]]
           step == [i \in 1..N |-> [v \in Seq(Token) |->
                       IF IsText(s[i]) THEN Append(v, s[i]) ELSE v]]
<1>1. s \in Seq(Token) /\ N \in Nat /\ \A i \in 1..N : s[i] \in Token
  BY ElementOfSeq
<1>2. <<>> \in Seq(Token)
  OBVIOUS
<1>3. step \in [1..N -> [Seq(Token) -> Seq(Token)]]
  <2>1. ASSUME NEW i \in 1..N, NEW v \in Seq(Token)
        PROVE  (IF IsText(s[i]) THEN Append(v, s[i]) ELSE v) \in Seq(Token)
    <3>1. s[i] \in Token
      BY <1>1
    <3>2. Append(v, s[i]) \in Seq(Token)
      BY <3>1
    <3>3. QED
      BY <3>2
  <2>2. QED
    BY <2>1
<1>4. PICK f : Follows(f, N, Seq(Token), <<>>, step)
  <2> HIDE DEF N, step
  <2>1. QED
    BY <1>1, <1>2, <1>3, Recursion
<1>5. Is(f)
  <2>1. \A i \in 0..N : i # 0 => i \in 1..N /\ i - 1 \in 0..N
    BY <1>1
  <2>2. \A i \in 1..N : f[i] = IF IsText(s[i]) THEN Append(f[i - 1], s[i]) ELSE f[i - 1]
    <3> TAKE i \in 1..N
    <3>1. i - 1 \in 0..N
      BY <1>1
    <3>2. f[i - 1] \in Seq(Token) /\ f[i] = step[i][f[i - 1]]
      BY <1>4, <3>1 DEF Follows
    <3>3. QED
      BY <3>2
  <2>3. f[0] = <<>> /\ f = [i \in 0..N |-> f[i]]
    BY <1>4 DEF Follows
  <2>4. QED
    BY <2>1, <2>2, <2>3
<1>6. TextOf[s] = (CHOOSE g : Is(g))[N]
  <2>1. s \in UNION {[1..n -> Token] : n \in 0..n_max}
    <3>1. N \in 0..n_max /\ s \in [1..N -> Token]
      BY <1>1, NumberFacts
    <3> HIDE DEF N
    <3>2. QED
      BY <3>1
  <2>2. QED
    BY <2>1 DEF TextOf
<1>7. PICK g : Is(g) /\ TextOf[s] = g[N]
  <2> HIDE DEF Is
  <2>1. QED
    BY <1>5, <1>6
<1>8. g[0] = <<>> /\ \A i \in 1..N : g[i] = IF IsText(s[i]) THEN Append(g[i - 1], s[i]) ELSE g[i - 1]
  <2>1. 0 \in 0..N /\ \A i \in 1..N : i \in 0..N /\ i # 0
    BY <1>1
  <2>2. QED
    BY <1>7, <2>1
<1>9. DOMAIN g = 0..N /\ g = [i \in 0..N |-> g[i]]
  BY <1>7
<1>10. \A i \in 0..N : g[i] \in Seq(Token)
  <2> DEFINE S == {m \in 0..N : g[m] \in Seq(Token)}
  <2> HIDE DEF Is, step
  <2>1. 0 \in S
    <3>1. 0 \in 0..N /\ g[0] = <<>>
      BY <1>1, <1>8
    <3> HIDE DEF N
    <3>2. QED
      BY <1>2, <3>1
  <2>2. ASSUME NEW m \in 0..(N - 1), m \in S PROVE m + 1 \in S
    <3>1. m + 1 \in 1..N /\ m + 1 \in 0..N /\ (m + 1) - 1 = m
      BY <1>1
    <3>2. s[m + 1] \in Token /\ g[m] \in Seq(Token)
      BY <1>1, <2>2, <3>1
    <3>3. g[m + 1] = IF IsText(s[m + 1]) THEN Append(g[m], s[m + 1]) ELSE g[m]
      BY <1>8, <3>1
    <3>4. Append(g[m], s[m + 1]) \in Seq(Token)
      BY <3>2
    <3>5. QED
      BY <3>1, <3>2, <3>3, <3>4
  <2>3. \A m \in 0..N : m \in S
    <3> HIDE DEF S, N
    <3>1. QED
      BY <1>1, <2>1, <2>2, Induction
  <2>4. QED
    BY <2>3
<1>11. TextSteps(g, s)
  <2>1. g \in [0..N -> Seq(Token)]
    BY <1>9, <1>10
  <2>2. QED
    BY <1>8, <2>1 DEF TextSteps
<1>12. QED
  BY <1>7, <1>11

LEMMA AppendRight ==
    ASSUME NEW x \in Seq(Token), NEW y \in Seq(Token), NEW e \in Token
    PROVE  Append(x \o y, e) = x \o Append(y, e)
<1>1. x \o y \in Seq(Token) /\ <<e>> \in Seq(Token)
  OBVIOUS
<1>2. Append(x \o y, e) = (x \o y) \o <<e>> /\ Append(y, e) = y \o <<e>>
  BY <1>1, AppendIsConcat
<1>3. (x \o y) \o <<e>> = x \o (y \o <<e>>)
  BY <1>1, ConcatAssociative
<1>4. QED
  BY <1>2, <1>3

LEMMA TextConcat ==
    ASSUME NEW s \in Seq(Token), NEW t \in Seq(Token), Len(s) + Len(t) <= n_max
    PROVE  /\ TextOf[s] \in Seq(Token) /\ TextOf[t] \in Seq(Token)
           /\ TextOf[s \o t] = TextOf[s] \o TextOf[t]
<1> DEFINE m == Len(s)
           n == Len(t)
           w == s \o t
<1>1. /\ m \in Nat /\ n \in Nat /\ w \in Seq(Token) /\ Len(w) = m + n
      /\ \A i \in 1..(m + n) : w[i] = IF i <= m THEN s[i] ELSE t[i - m]
      /\ m <= n_max /\ n <= n_max /\ Len(w) <= n_max
  <2>1. m \in Nat /\ n \in Nat
    BY LenProperties
  <2>2. /\ w \in Seq(Token) /\ Len(w) = m + n
        /\ \A i \in 1..(m + n) : w[i] = IF i <= m THEN s[i] ELSE t[i - m]
    BY ConcatProperties
  <2>3. m + n <= n_max /\ n_max \in Nat
    BY NumberFacts
  <2> HIDE DEF m, n, w
  <2>4. QED
    BY <2>1, <2>2, <2>3
<1>2. PICK g : TextSteps(g, w) /\ TextOf[w] = g[Len(w)]
  BY <1>1, TextIs
<1>3. PICK h : TextSteps(h, s) /\ TextOf[s] = h[m]
  BY <1>1, TextIs
<1>4. PICK k : TextSteps(k, t) /\ TextOf[t] = k[n]
  BY <1>1, TextIs
<1> HIDE DEF m, n, w
<1>5. /\ g \in [0..(m + n) -> Seq(Token)] /\ g[0] = <<>>
      /\ \A i \in 1..(m + n) : g[i] = IF IsText(w[i]) THEN Append(g[i - 1], w[i]) ELSE g[i - 1]
  BY <1>1, <1>2 DEF TextSteps
<1>6. /\ h \in [0..m -> Seq(Token)] /\ h[0] = <<>>
      /\ \A i \in 1..m : h[i] = IF IsText(s[i]) THEN Append(h[i - 1], s[i]) ELSE h[i - 1]
  BY <1>3 DEF TextSteps, m
<1>7. /\ k \in [0..n -> Seq(Token)] /\ k[0] = <<>>
      /\ \A i \in 1..n : k[i] = IF IsText(t[i]) THEN Append(k[i - 1], t[i]) ELSE k[i - 1]
  BY <1>4 DEF TextSteps, n
<1>8. \A j \in 0..m : g[j] = h[j]
  <2> DEFINE S == {j \in 0..m : g[j] = h[j]}
  <2>1. 0 \in S
    BY <1>1, <1>5, <1>6
  <2>2. ASSUME NEW j \in 0..(m - 1), j \in S PROVE j + 1 \in S
    <3>1. j + 1 \in 1..m /\ j + 1 \in 0..m /\ j + 1 \in 1..(m + n) /\ (j + 1) - 1 = j
      BY <1>1
    <3>2. w[j + 1] = s[j + 1] /\ g[j] = h[j]
      BY <1>1, <2>2, <3>1
    <3>3. /\ g[j + 1] = IF IsText(w[j + 1]) THEN Append(g[j], w[j + 1]) ELSE g[j]
          /\ h[j + 1] = IF IsText(s[j + 1]) THEN Append(h[j], s[j + 1]) ELSE h[j]
      BY <1>5, <1>6, <3>1
    <3>4. QED
      BY <3>1, <3>2, <3>3
  <2>3. \A j \in 0..m : j \in S
    <3> HIDE DEF S
    <3>1. QED
      BY <1>1, <2>1, <2>2, Induction
  <2>4. QED
    BY <2>3
<1>9. h[m] \in Seq(Token) /\ g[m] = h[m] /\ k[n] \in Seq(Token)
  BY <1>1, <1>6, <1>7, <1>8
<1>10. \A j \in 0..n : g[m + j] = h[m] \o k[j]
  <2> DEFINE S == {j \in 0..n : g[m + j] = h[m] \o k[j]}
  <2>1. 0 \in S
    <3>1. h[m] \o <<>> = h[m] /\ m + 0 = m /\ 0 \in 0..n
      BY <1>1, <1>9, ConcatEmptySeq
    <3>2. QED
      BY <1>7, <1>9, <3>1
  <2>2. ASSUME NEW j \in 0..(n - 1), j \in S PROVE j + 1 \in S
    <3> DEFINE i == m + j + 1
    <3>1. /\ j + 1 \in 1..n /\ j + 1 \in 0..n /\ j \in 0..n /\ (j + 1) - 1 = j
          /\ i \in 1..(m + n) /\ i - 1 = m + j /\ ~(i <= m) /\ i - m = j + 1
          /\ m + (j + 1) = i
      BY <1>1
    <3> HIDE DEF i
    <3>2. w[i] = t[j + 1] /\ g[m + j] = h[m] \o k[j] /\ k[j] \in Seq(Token)
      BY <1>1, <1>7, <2>2, <3>1
    <3>3. /\ g[i] = IF IsText(w[i]) THEN Append(g[m + j], w[i]) ELSE g[m + j]
          /\ k[j + 1] = IF IsText(t[j + 1]) THEN Append(k[j], t[j + 1]) ELSE k[j]
      BY <1>5, <1>7, <3>1
    <3>4. t[j + 1] \in Token
      BY <3>1, ElementOfSeq DEF n
    <3>5. Append(h[m] \o k[j], t[j + 1]) = h[m] \o Append(k[j], t[j + 1])
      <4> DEFINE x == h[m]
                 y == k[j]
                 e == t[j + 1]
      <4>1. x \in Seq(Token) /\ y \in Seq(Token) /\ e \in Token
        BY <1>9, <3>2, <3>4
      <4> HIDE DEF x, y, e
      <4>2. Append(x \o y, e) = x \o Append(y, e)
        BY <4>1, AppendRight
      <4>3. QED
        BY <4>2 DEF x, y, e
    <3>6. QED
      BY <3>1, <3>2, <3>3, <3>5
  <2>3. \A j \in 0..n : j \in S
    <3> HIDE DEF S
    <3>1. QED
      BY <1>1, <2>1, <2>2, Induction
  <2>4. QED
    BY <2>3
<1>11. g[m + n] = h[m] \o k[n]
  <2>1. n \in 0..n
    BY <1>1
  <2>2. QED
    BY <1>10, <2>1
<1>12. QED
  BY <1>1, <1>2, <1>3, <1>4, <1>9, <1>11 DEF w

(* The text up to a token, and that of the tokens behind it.               *)
TextUpto(s, k) == TextOf[SubSeq(s, 1, k)]

LEMMA TextSplit ==
    ASSUME NEW s \in Seq(Token), Len(s) <= n_max,
           NEW k \in 0..Len(s), NEW l \in k..Len(s)
    PROVE  /\ TextUpto(s, k) \in Seq(Token) /\ TextUpto(s, l) \in Seq(Token)
           /\ TextOf[SubSeq(s, k + 1, l)] \in Seq(Token)
           /\ TextUpto(s, l) = TextUpto(s, k) \o TextOf[SubSeq(s, k + 1, l)]
<1> DEFINE a == SubSeq(s, 1, k)
           b == SubSeq(s, k + 1, l)
           N == Len(s)
<1>1. N \in Nat /\ \A i \in 1..N : s[i] \in Token
  BY LenProperties, ElementOfSeq
<1>2. /\ k \in Int /\ l \in Int /\ 0 <= k /\ k <= l /\ l <= N /\ N <= n_max /\ n_max \in Nat
  BY <1>1, NumberFacts
<1> HIDE DEF N
<1>3. a \in Seq(Token) /\ Len(a) = k
  <2>1. \A i \in 1..k : s[i] \in Token
    BY <1>1, <1>2
  <2>2. a \in Seq(Token) /\ Len(a) = IF 1 <= k THEN k - 1 + 1 ELSE 0
    BY <1>2, <2>1, SubSeqProperties
  <2> HIDE DEF a
  <2>3. QED
    BY <1>2, <2>2
<1>4. b \in Seq(Token) /\ Len(b) = l - k
  <2>1. \A i \in (k + 1)..l : s[i] \in Token
    BY <1>1, <1>2
  <2>2. k + 1 \in Int
    BY <1>2
  <2>3. b \in Seq(Token) /\ Len(b) = IF k + 1 <= l THEN l - (k + 1) + 1 ELSE 0
    BY <1>2, <2>1, <2>2, SubSeqProperties
  <2> HIDE DEF b
  <2>4. QED
    BY <1>2, <2>3
<1>5. a \o b = SubSeq(s, 1, l)
  <2>1. 1 \in 1..(Len(s) + 1) /\ k \in (1 - 1)..Len(s) /\ l \in k..Len(s)
    BY <1>1, <1>2 DEF N
  <2>2. QED
    BY <2>1, ConcatAdjacentSubSeq
<1> HIDE DEF a, b
<1>6. Len(a) + Len(b) <= n_max
  BY <1>2, <1>3, <1>4
<1>7. TextOf[a] \in Seq(Token) /\ TextOf[b] \in Seq(Token) /\ TextOf[a \o b] = TextOf[a] \o TextOf[b]
  BY <1>3, <1>4, <1>6, TextConcat
<1>8. TextOf[a] \o TextOf[b] \in Seq(Token)
  BY <1>7
<1>9. QED
  BY <1>5, <1>7, <1>8 DEF TextUpto, a, b

LEMMA TextEnds ==
    ASSUME NEW s \in Seq(Token), Len(s) <= n_max
    PROVE  TextUpto(s, 0) = <<>> /\ TextUpto(s, Len(s)) = TextOf[s]
<1>1. SubSeq(s, 1, Len(s)) = s
  BY SubSeqFull
<1>2. SubSeq(s, 1, 0) = <<>>
  BY SubSeqEmpty
<1>3. <<>> \in Seq(Token) /\ Len(<<>>) = 0 /\ 0 <= n_max
  BY NumberFacts
<1>4. PICK g : TextSteps(g, <<>>) /\ TextOf[<<>>] = g[0]
  BY <1>3, TextIs
<1>5. TextOf[<<>>] = <<>>
  BY <1>4 DEF TextSteps
<1>6. QED
  BY <1>1, <1>2, <1>5 DEF TextUpto

(* A piece ends at a cut or with the tokens; its text comes behind that up *)
(* to the cut before.                                                      *)
PieceEnd(s, e) == Least(e, Len(s))

Before(s, c, e) ==       \* the cut c, or the beginning, is the last before e
    /\ c = CutBefore(s, e) /\ c \in {0} \cup Cuts(s) /\ c < e
    /\ \A k \in {0} \cup Cuts(s) : k < e => k <= c

LEMMA PieceIs ==
    ASSUME NEW s \in Seq(Token), Len(s) \in 1..n_max, NEW e \in Ends(s)
    PROVE  /\ Before(s, CutBefore(s, e), e)
           /\ PieceEnd(s, e) \in 1..Len(s) /\ CutBefore(s, e) \in 0..PieceEnd(s, e)
           /\ e \in 1..(Len(s) + 1)
           /\ PieceText(s, e) \in Seq(Token)
           /\ TextUpto(s, CutBefore(s, e)) \in Seq(Token)
           /\ TextUpto(s, PieceEnd(s, e)) = TextUpto(s, CutBefore(s, e)) \o PieceText(s, e)
<1> DEFINE N == Len(s)
           c == CutBefore(s, e)
           m == PieceEnd(s, e)
<1>1. N \in Nat /\ N >= 1 /\ N <= n_max /\ DOMAIN s = 1..N /\ N \in 1..n_max
  BY NumberFacts, LenProperties
<1>2. /\ Ends(s) \subseteq 1..(N + 1)
      /\ Cuts(s) \subseteq Stamps(s) /\ Stamps(s) \subseteq 1..N
      /\ \/ c = 0 /\ \A k \in Cuts(s) : ~(k < e)
         \/ /\ c \in Cuts(s) /\ c < e
            /\ \A k \in Cuts(s) : k < e => k <= c
  BY <1>1, CutFacts
<1> HIDE DEF N, c
<1>3. e \in Int /\ 1 <= e /\ e <= N + 1 /\ \A k \in Cuts(s) : k \in Int /\ 1 <= k /\ k <= N
  BY <1>1, <1>2
<1>4. c \in Int /\ c \in {0} \cup Cuts(s) /\ 0 <= c /\ c < e /\ c <= N
  BY <1>1, <1>2, <1>3
<1>5. \A k \in {0} \cup Cuts(s) : k < e => k <= c
  BY <1>2, <1>3, <1>4
<1>6. m \in Int /\ 1 <= m /\ m <= N /\ c <= m
  BY <1>1, <1>3, <1>4 DEF PieceEnd, Least, N
<1>7. PieceText(s, e) = TextOf[SubSeq(s, c + 1, m)]
  BY DEF PieceText, PieceEnd, c
<1> HIDE DEF m
<1>8. c \in 0..Len(s) /\ m \in c..Len(s) /\ Len(s) <= n_max
  BY <1>1, <1>4, <1>6 DEF N
<1>9. /\ TextUpto(s, c) \in Seq(Token) /\ TextOf[SubSeq(s, c + 1, m)] \in Seq(Token)
      /\ TextUpto(s, m) = TextUpto(s, c) \o TextOf[SubSeq(s, c + 1, m)]
  BY <1>8, TextSplit
<1>10. Before(s, c, e)
  BY <1>4, <1>5 DEF Before, c
<1>11. m \in 1..N /\ c \in 0..m /\ e \in 1..(N + 1)
  BY <1>1, <1>3, <1>4, <1>6
<1>12. QED
  BY <1>7, <1>9, <1>10, <1>11 DEF N, c, m

(* Pieces without text add nothing. *)
LEMMA SilentPieces ==
    ASSUME NEW s \in Seq(Token), Len(s) \in 1..n_max,
           NEW c \in {0} \cup Cuts(s), NEW d \in {0} \cup Cuts(s), c <= d,
           \A k \in Cuts(s) : c < k /\ k <= d => PieceText(s, k) = <<>>
    PROVE  TextUpto(s, d) = TextUpto(s, c)
<1> DEFINE N == Len(s)
           S == {k \in {0} \cup Cuts(s) : c <= k /\ k <= d /\ TextUpto(s, k) # TextUpto(s, c)}
<1>1. N \in Nat /\ DOMAIN s = 1..N
  BY LenProperties
<1>2. Cuts(s) \subseteq 1..N /\ Cuts(s) \subseteq Ends(s)
  <2>1. Cuts(s) \subseteq Stamps(s) /\ Stamps(s) \subseteq 1..N
    BY <1>1, CutFacts
  <2>2. QED
    BY <2>1 DEF Ends
<1> HIDE DEF N
<1>3. \A k \in {0} \cup Cuts(s) : k \in Nat
  BY <1>1, <1>2
<1> SUFFICES ASSUME S # {} PROVE FALSE
  BY <1>3
<1>4. PICK x \in S : \A y \in S : x <= y
  <2>1. S \subseteq Nat
    BY <1>3
  <2>2. QED
    BY <2>1, Smallest
<1>5. /\ x \in {0} \cup Cuts(s) /\ x \in Nat /\ c \in Nat /\ d \in Nat /\ c <= x /\ x <= d
      /\ TextUpto(s, x) # TextUpto(s, c)
  BY <1>3, <1>4
<1>6. c < x /\ x \in Cuts(s) /\ x \in Ends(s)
  BY <1>2, <1>5
<1> DEFINE b == CutBefore(s, x)
<1>7. /\ Before(s, b, x) /\ TextUpto(s, b) \in Seq(Token)
      /\ TextUpto(s, PieceEnd(s, x)) = TextUpto(s, b) \o PieceText(s, x)
  BY <1>6, PieceIs
<1>8. PieceEnd(s, x) = x
  <2>1. x <= N /\ x \in Int /\ N \in Int
    BY <1>1, <1>2, <1>6
  <2>2. Least(x, N) = x
    BY <2>1 DEF Least
  <2>3. QED
    BY <2>2 DEF PieceEnd, N
<1>9. PieceText(s, x) = <<>>
  BY <1>5, <1>6
<1>10. TextUpto(s, x) = TextUpto(s, b)
  BY <1>7, <1>8, <1>9, ConcatEmptySeq
<1>11. b \in {0} \cup Cuts(s) /\ b < x /\ c <= b
  BY <1>6, <1>7 DEF Before
<1> HIDE DEF b
<1>12. b \in Nat /\ b <= d /\ ~(x <= b)
  BY <1>3, <1>5, <1>11
<1>13. b \notin S
  BY <1>4, <1>12
<1>14. TextUpto(s, b) = TextUpto(s, c)
  BY <1>11, <1>12, <1>13
<1>15. QED
  BY <1>5, <1>10, <1>14

(* Segments put together. *)
Quoted(q) ==
    q \in Seq(Elements(q)) /\ \A k \in DOMAIN q : q[k].text \in Seq(Token)

JoinSteps(g, q) ==
    /\ g \in [0..Len(q) -> Seq(Token)]
    /\ g[0] = <<>>
    /\ \A i \in 1..Len(q) : g[i] = g[i - 1] \o q[i].text

LEMMA JoinedIs ==
    ASSUME NEW q, Quoted(q)
    PROVE  \E g : JoinSteps(g, q) /\ Joined(q) = g[Len(q)]
<1> DEFINE N == Len(q)
           Is(f) == f = [n \in 0..Len(q) |-> IF n = 0 THEN <<>> ELSE f[n - 1] \o q[n].text]
           step == [i \in 1..N |-> [v \in Seq(Token) |-> v \o q[i].text]]
<1>1. N \in Nat /\ DOMAIN q = 1..N /\ \A i \in 1..N : q[i].text \in Seq(Token)
  <2>1. N \in Nat /\ DOMAIN q = 1..N
    BY LenProperties DEF Quoted
  <2>2. QED
    BY <2>1 DEF Quoted
<1>2. <<>> \in Seq(Token)
  OBVIOUS
<1>3. step \in [1..N -> [Seq(Token) -> Seq(Token)]]
  <2>1. ASSUME NEW i \in 1..N, NEW v \in Seq(Token)
        PROVE  v \o q[i].text \in Seq(Token)
    <3>1. q[i].text \in Seq(Token)
      BY <1>1
    <3>2. QED
      BY <3>1, ConcatProperties
  <2>2. QED
    BY <2>1
<1>4. PICK f : Follows(f, N, Seq(Token), <<>>, step)
  <2> HIDE DEF N, step
  <2>1. QED
    BY <1>1, <1>2, <1>3, Recursion
<1>5. Is(f)
  <2>1. \A i \in 0..N : i # 0 => i \in 1..N /\ i - 1 \in 0..N
    BY <1>1
  <2>2. \A i \in 1..N : f[i] = f[i - 1] \o q[i].text
    <3> TAKE i \in 1..N
    <3>1. i - 1 \in 0..N
      BY <1>1
    <3>2. f[i - 1] \in Seq(Token) /\ f[i] = step[i][f[i - 1]]
      BY <1>4, <3>1 DEF Follows
    <3>3. QED
      BY <3>2
  <2>3. f[0] = <<>> /\ f = [i \in 0..N |-> f[i]]
    BY <1>4 DEF Follows
  <2>4. QED
    BY <2>1, <2>2, <2>3
<1>6. Joined(q) = (CHOOSE g : Is(g))[N]
  BY DEF Joined
<1>7. PICK g : Is(g) /\ Joined(q) = g[N]
  <2> HIDE DEF Is
  <2>1. QED
    BY <1>5, <1>6
<1>8. g[0] = <<>> /\ \A i \in 1..N : g[i] = g[i - 1] \o q[i].text
  <2>1. 0 \in 0..N /\ \A i \in 1..N : i \in 0..N /\ i # 0
    BY <1>1
  <2>2. QED
    BY <1>7, <2>1
<1>9. DOMAIN g = 0..N /\ g = [i \in 0..N |-> g[i]]
  BY <1>7
<1>10. \A i \in 0..N : g[i] \in Seq(Token)
  <2> DEFINE S == {m \in 0..N : g[m] \in Seq(Token)}
  <2> HIDE DEF Is, step, N
  <2>1. 0 \in S
    <3>1. 0 \in 0..N /\ g[0] = <<>>
      BY <1>1, <1>8
    <3>2. QED
      BY <1>2, <3>1
  <2>2. ASSUME NEW m \in 0..(N - 1), m \in S PROVE m + 1 \in S
    <3>1. m + 1 \in 1..N /\ m + 1 \in 0..N /\ (m + 1) - 1 = m
      BY <1>1
    <3>2. q[m + 1].text \in Seq(Token) /\ g[m] \in Seq(Token)
      BY <1>1, <2>2, <3>1
    <3>3. g[m + 1] = g[m] \o q[m + 1].text
      BY <1>8, <3>1
    <3>4. g[m] \o q[m + 1].text \in Seq(Token)
      BY <3>2, ConcatProperties
    <3>5. QED
      BY <3>1, <3>3, <3>4
  <2>3. \A m \in 0..N : m \in S
    <3> HIDE DEF S
    <3>1. QED
      BY <1>1, <2>1, <2>2, Induction
  <2>4. QED
    BY <2>3
<1>11. JoinSteps(g, q)
  <2>1. g \in [0..N -> Seq(Token)]
    BY <1>9, <1>10
  <2>2. QED
    BY <1>8, <2>1 DEF JoinSteps
<1>12. QED
  BY <1>7, <1>11

LEMMA TextsAssociate ==
    ASSUME NEW x \in Seq(Token), NEW y \in Seq(Token), NEW z \in Seq(Token)
    PROVE  (x \o y) \o z = x \o (y \o z)
BY ConcatAssociative

(* What segments say that are added to others comes behind what those say. *)
LEMMA JoinedConcat ==
    ASSUME NEW q, Quoted(q), NEW r, Quoted(r)
    PROVE  Quoted(q \o r) /\ Joined(q \o r) = Joined(q) \o Joined(r)
<1> DEFINE m == Len(q)
           n == Len(r)
           w == q \o r
           E == Elements(q) \cup Elements(r)
<1>1. /\ m \in Nat /\ n \in Nat /\ DOMAIN q = 1..m /\ DOMAIN r = 1..n
      /\ w \in Seq(E) /\ Len(w) = m + n
      /\ \A i \in 1..(m + n) : w[i] = IF i <= m THEN q[i] ELSE r[i - m]
  <2>1. q \in Seq(E) /\ r \in Seq(E)
    <3>1. q \in Seq(Elements(q)) /\ r \in Seq(Elements(r))
      BY DEF Quoted
    <3> HIDE DEF E
    <3>2. Elements(q) \subseteq E /\ Elements(r) \subseteq E
      BY DEF E
    <3>3. QED
      BY <3>1, <3>2
  <2> HIDE DEF E
  <2>2. QED
    BY <2>1, ConcatProperties
<1> HIDE DEF m, n, w, E
<1>2. DOMAIN w = 1..(m + n)
  BY <1>1
<1>3. \A i \in 1..(m + n) : IF i <= m THEN i \in 1..m /\ w[i] = q[i]
                                      ELSE i - m \in 1..n /\ w[i] = r[i - m]
  BY <1>1
<1>4. Quoted(w)
  <2>1. w \in [1..(m + n) -> Elements(w)]
    BY <1>1, <1>2 DEF Elements
  <2>2. w \in Seq(Elements(w))
    BY <1>1, <2>1
  <2>3. \A i \in 1..(m + n) : w[i].text \in Seq(Token)
    BY <1>1, <1>3 DEF Quoted
  <2>4. QED
    BY <1>2, <2>2, <2>3 DEF Quoted
<1>5. PICK g : JoinSteps(g, w) /\ Joined(w) = g[Len(w)]
  BY <1>4, JoinedIs
<1>6. PICK h : JoinSteps(h, q) /\ Joined(q) = h[m]
  BY JoinedIs DEF m
<1>7. PICK k : JoinSteps(k, r) /\ Joined(r) = k[n]
  BY JoinedIs DEF n
<1>8. /\ g[0] = <<>> /\ \A i \in 1..(m + n) : g[i] = g[i - 1] \o w[i].text
  BY <1>1, <1>5 DEF JoinSteps
<1>9. /\ h \in [0..m -> Seq(Token)] /\ h[0] = <<>>
      /\ \A i \in 1..m : h[i] = h[i - 1] \o q[i].text
  BY <1>6 DEF JoinSteps, m
<1>10. /\ k \in [0..n -> Seq(Token)] /\ k[0] = <<>>
       /\ \A i \in 1..n : k[i] = k[i - 1] \o r[i].text
  BY <1>7 DEF JoinSteps, n
<1>11. \A j \in 0..m : g[j] = h[j]
  <2> DEFINE S == {j \in 0..m : g[j] = h[j]}
  <2>1. 0 \in S
    BY <1>1, <1>8, <1>9
  <2>2. ASSUME NEW j \in 0..(m - 1), j \in S PROVE j + 1 \in S
    <3>1. j + 1 \in 1..m /\ j + 1 \in 0..m /\ j + 1 \in 1..(m + n) /\ (j + 1) - 1 = j
      BY <1>1
    <3>2. w[j + 1] = q[j + 1] /\ g[j] = h[j]
      BY <1>1, <2>2, <3>1
    <3>3. g[j + 1] = g[j] \o w[j + 1].text /\ h[j + 1] = h[j] \o q[j + 1].text
      BY <1>8, <1>9, <3>1
    <3>4. QED
      BY <3>1, <3>2, <3>3
  <2>3. \A j \in 0..m : j \in S
    <3> HIDE DEF S
    <3>1. QED
      BY <1>1, <2>1, <2>2, Induction
  <2>4. QED
    BY <2>3
<1>12. h[m] \in Seq(Token) /\ g[m] = h[m]
  BY <1>1, <1>9, <1>11
<1>13. \A j \in 0..n : g[m + j] = h[m] \o k[j]
  <2> DEFINE S == {j \in 0..n : g[m + j] = h[m] \o k[j]}
  <2>1. 0 \in S
    <3>1. h[m] \o <<>> = h[m] /\ m + 0 = m /\ 0 \in 0..n
      BY <1>1, <1>12, ConcatEmptySeq
    <3>2. QED
      BY <1>10, <1>12, <3>1
  <2>2. ASSUME NEW j \in 0..(n - 1), j \in S PROVE j + 1 \in S
    <3> DEFINE i == m + j + 1
    <3>1. /\ j + 1 \in 1..n /\ j + 1 \in 0..n /\ j \in 0..n /\ (j + 1) - 1 = j
          /\ i \in 1..(m + n) /\ i - 1 = m + j /\ ~(i <= m) /\ i - m = j + 1
          /\ m + (j + 1) = i
      BY <1>1
    <3> HIDE DEF i
    <3>2. w[i] = r[j + 1] /\ g[m + j] = h[m] \o k[j] /\ k[j] \in Seq(Token)
      BY <1>1, <1>10, <2>2, <3>1
    <3>3. /\ g[i] = g[m + j] \o w[i].text
          /\ k[j + 1] = k[j] \o r[j + 1].text
      BY <1>8, <1>10, <3>1
    <3>4. r[j + 1].text \in Seq(Token)
      BY <1>1, <3>1 DEF Quoted
    <3> DEFINE x == h[m]
               y == k[j]
               z == r[j + 1].text
    <3>5. x \in Seq(Token) /\ y \in Seq(Token) /\ z \in Seq(Token)
      BY <1>12, <3>2, <3>4
    <3>6. g[i] = (x \o y) \o z /\ k[j + 1] = y \o z
      BY <3>2, <3>3
    <3> HIDE DEF x, y, z
    <3>7. g[i] = x \o k[j + 1]
      BY <3>5, <3>6, TextsAssociate
    <3>8. QED
      BY <3>1, <3>7 DEF x
  <2>3. \A j \in 0..n : j \in S
    <3> HIDE DEF S
    <3>1. QED
      BY <1>1, <2>1, <2>2, Induction
  <2>4. QED
    BY <2>3
<1>14. g[m + n] = h[m] \o k[n]
  <2>1. n \in 0..n
    BY <1>1
  <2>2. QED
    BY <1>13, <2>1
<1>15. QED
  BY <1>1, <1>4, <1>5, <1>6, <1>7, <1>14 DEF w

(* The text up to the end of a piece: what there is up to a cut before it, *)
(* with nothing said between them, and what the piece says.                *)
LEMMA NextPiece ==
    ASSUME NEW s \in Seq(Token), Len(s) \in 1..n_max,
           NEW e \in Ends(s), NEW p \in {0} \cup Cuts(s), p < e,
           \A k \in Cuts(s) : p < k /\ k < e => PieceText(s, k) = <<>>
    PROVE  TextUpto(s, PieceEnd(s, e)) = TextUpto(s, p) \o PieceText(s, e)
<1> DEFINE b == CutBefore(s, e)
<1>1. /\ Before(s, b, e)
      /\ TextUpto(s, PieceEnd(s, e)) = TextUpto(s, b) \o PieceText(s, e)
  BY PieceIs
<1>2. /\ b \in {0} \cup Cuts(s) /\ b < e
      /\ \A k \in {0} \cup Cuts(s) : k < e => k <= b
  BY <1>1 DEF Before
<1> HIDE DEF b
<1>3. p <= b
  BY <1>2
<1>4. \A k \in {0} \cup Cuts(s) : k \in Int
  <2>1. DOMAIN s = 1..Len(s) /\ Len(s) \in Nat
    BY LenProperties
  <2>2. Cuts(s) \subseteq 1..Len(s)
    BY <2>1, CutFacts
  <2>3. QED
    BY <2>1, <2>2
<1>5. e \in Int
  BY PieceIs, NumberFacts
<1>6. ASSUME NEW k \in Cuts(s), p < k, k <= b PROVE PieceText(s, k) = <<>>
  <2>1. k \in Int /\ b \in Int
    BY <1>2, <1>4
  <2>2. k < e
    BY <1>2, <1>5, <1>6, <2>1
  <2>3. QED
    BY <1>6, <2>2
<1>7. TextUpto(s, b) = TextUpto(s, p)
  BY <1>2, <1>3, <1>6, SilentPieces
<1>8. QED
  BY <1>1, <1>7

(* A window's segments hold its text. *)
LEMMA WindowText ==
    ASSUME params \in Params, NEW o \in Outcomes[params], ~o.no_speech
    PROVE  Quoted(Segments(o)) /\ Joined(Segments(o)) = TextOf[o.tokens]
<1> DEFINE s     == o.tokens
           N     == Len(s)
           S     == {e \in Ends(s) : PieceText(s, e) # <<>>}
           c     == Cardinality(S)
           w     == Segments(o)
           At(n) == IF n = 0 THEN 0 ELSE Nth(S, n)
<1>1. /\ N \in Nat /\ N >= 1 /\ N <= n_max /\ N \in 1..n_max
      /\ DOMAIN s = 1..N /\ s \in Seq(Token)
  <2>1. N \in 1..n_max /\ DOMAIN s = 1..N /\ \A k \in 1..N : s[k] \in Token
    BY OutcomeIs
  <2>2. N \in Nat /\ N >= 1 /\ N <= n_max
    BY <2>1, NumberFacts
  <2>3. s \in [1..N -> Token]
    <3>1. PICK n \in 1..n_max : s \in [1..n -> Token]
      BY DEF Outcomes
    <3>2. n \in Nat
      BY NumberFacts
    <3>3. N = n
      BY <3>1, <3>2
    <3>4. QED
      BY <3>1, <3>3
  <2> HIDE DEF N, s
  <2>4. QED
    BY <2>1, <2>2, <2>3
<1>2. /\ IsFiniteSet(Ends(s)) /\ Ends(s) \subseteq 1..(N + 1)
      /\ \A e \in Ends(s) : e <= N => e \in Cuts(s)
      /\ Cuts(s) \subseteq 1..N
      /\ N + 1 \in Ends(s) /\ Cuts(s) \subseteq Ends(s)
  <2>1. Cuts(s) \subseteq Stamps(s) /\ Stamps(s) \subseteq 1..N
    BY <1>1, CutFacts
  <2>2. QED
    BY <1>1, <2>1, CutFacts DEF Ends
<1>3. IsFiniteSet(S) /\ S \subseteq Nat /\ S \subseteq Ends(s)
  BY <1>1, <1>2, FS_Subset
<1>4. /\ c \in Nat
      /\ \A n \in 1..c : Nth(S, n) \in S
      /\ \A m, n \in 1..c : m < n => Nth(S, m) < Nth(S, n)
      /\ \A k \in S : \E n \in 1..c : Nth(S, n) = k
  BY <1>3, NthFacts
<1>5. /\ w = [n \in 1..c |-> Segment(o, Nth(S, n))]
      /\ \A e : Segment(o, e).text = PieceText(s, e)
  BY DEF Segments, Segment
<1>6. /\ \A e \in S : e \in Ends(s) /\ e \in Int /\ 1 <= e /\ e <= N + 1
      /\ \A e \in Ends(s) : e \in Int /\ e <= N + 1
      /\ \A k \in Cuts(s) : k \in Int /\ 1 <= k /\ k <= N
      /\ \A e \in Ends(s) : PieceText(s, e) # <<>> => e \in S
  BY <1>1, <1>2, <1>3
<1>7. \A e \in Ends(s) : PieceText(s, e) \in Seq(Token)
  BY <1>1, PieceIs
<1> HIDE DEF s, N, S, c, w
<1>8. DOMAIN w = 1..c /\ Len(w) = c /\ \A n \in 1..c : w[n].text = PieceText(s, Nth(S, n))
  BY <1>4, <1>5
<1>9. Quoted(w)
  <2>1. w \in [1..c -> Elements(w)]
    BY <1>5, <1>8 DEF Elements
  <2>2. w \in Seq(Elements(w))
    BY <1>4, <2>1
  <2>3. \A n \in 1..c : w[n].text \in Seq(Token)
    BY <1>4, <1>6, <1>7, <1>8
  <2>4. QED
    BY <1>8, <2>2, <2>3 DEF Quoted
<1>10. PICK g : JoinSteps(g, w) /\ Joined(w) = g[Len(w)]
  BY <1>9, JoinedIs
<1>11. g[0] = <<>> /\ \A n \in 1..c : g[n] = g[n - 1] \o w[n].text
  BY <1>8, <1>10 DEF JoinSteps
<1>12. /\ TextUpto(s, 0) = <<>> /\ TextUpto(s, N) = TextOf[s]
  BY <1>1, TextEnds DEF N
(* The cuts between two segments, and those behind the last, say nothing. *)
<1>13. ASSUME NEW n \in 0..c, NEW k \in Cuts(s), At(n) < k,
              n # c => k < Nth(S, n + 1)
       PROVE  PieceText(s, k) = <<>>
  <2> SUFFICES ASSUME PieceText(s, k) # <<>> PROVE FALSE
    OBVIOUS
  <2>1. k \in S
    BY <1>2, <1>6
  <2>2. PICK m \in 1..c : Nth(S, m) = k
    BY <1>4, <2>1
  <2>3. k \in Int /\ m \in Nat /\ 1 <= m /\ m <= c /\ n \in Nat /\ n <= c
    BY <1>4, <1>6
  <2>4. CASE m <= n
    <3>1. n \in 1..c /\ At(n) = Nth(S, n) /\ (m = n \/ m < n)
      BY <1>4, <2>3, <2>4
    <3>2. Nth(S, n) \in Int
      BY <1>4, <1>6, <3>1
    <3>3. QED
      BY <1>4, <1>13, <2>2, <2>3, <3>1, <3>2
  <2>5. CASE ~(m <= n)
    <3>1. n # c /\ n + 1 \in 1..c /\ (m = n + 1 \/ n + 1 < m)
      BY <1>4, <2>3, <2>5
    <3>2. Nth(S, n + 1) \in Int
      BY <1>4, <1>6, <3>1
    <3>3. QED
      BY <1>4, <1>13, <2>2, <2>3, <3>1, <3>2
  <2>6. QED
    BY <2>4, <2>5
<1>14. ASSUME NEW n \in 0..c, NEW e \in Ends(s), At(n) < e,
              n # c => e = Nth(S, n + 1), n = c => e = N + 1
       PROVE  /\ At(n) \in {0} \cup Cuts(s) /\ PieceEnd(s, At(n)) = At(n)
              /\ TextUpto(s, PieceEnd(s, e)) = TextUpto(s, At(n)) \o PieceText(s, e)
  <2> DEFINE p == At(n)
  <2>1. p \in {0} \cup Cuts(s)
    <3>1. CASE n = 0
      BY <3>1
    <3>2. CASE n # 0
      <4>1. n \in 1..c /\ p = Nth(S, n)
        BY <1>4, <3>2
      <4>2. p \in S /\ p \in Ends(s) /\ p \in Int /\ e \in Int /\ e <= N + 1
        BY <1>4, <1>6, <4>1
      <4> HIDE DEF p
      <4>3. p < e
        BY <1>14 DEF p
      <4>4. p <= N
        BY <1>1, <4>2, <4>3
      <4>5. QED
        BY <1>2, <4>2, <4>4
    <3>3. QED
      BY <3>1, <3>2
  <2>2. \A k \in Cuts(s) : p < k /\ k < e => PieceText(s, k) = <<>>
    BY <1>13, <1>14
  <2>3. p < e
    BY <1>14
  <2> HIDE DEF p
  <2>4. PieceEnd(s, p) = p
    <3>1. p \in Int /\ p <= N /\ N \in Int
      BY <1>1, <1>6, <2>1
    <3>2. Least(p, N) = p
      BY <3>1 DEF Least
    <3>3. QED
      BY <3>2 DEF PieceEnd, N
  <2>5. TextUpto(s, PieceEnd(s, e)) = TextUpto(s, p) \o PieceText(s, e)
    BY <1>1, <2>1, <2>2, <2>3, NextPiece DEF N
  <2>6. QED
    BY <2>1, <2>4, <2>5 DEF p
<1>15. \A n \in 0..c : g[n] = TextUpto(s, PieceEnd(s, At(n)))
  <2> DEFINE Good == {n \in 0..c : g[n] = TextUpto(s, PieceEnd(s, At(n)))}
  <2>1. 0 \in Good
    <3>1. At(0) = 0 /\ 0 \in 0..c
      BY <1>4
    <3>2. Least(0, N) = 0
      BY <1>1 DEF Least
    <3>3. PieceEnd(s, 0) = 0
      BY <3>2 DEF PieceEnd, N
    <3>4. QED
      BY <1>11, <1>12, <3>1, <3>3
  <2>2. ASSUME NEW n \in 0..(c - 1), n \in Good PROVE n + 1 \in Good
    <3> DEFINE e == Nth(S, n + 1)
    <3>1. /\ n \in 0..c /\ n # c /\ n + 1 \in 1..c /\ n + 1 \in 0..c /\ (n + 1) - 1 = n
          /\ n + 1 # 0 /\ n \in Nat
      BY <1>4
    <3>2. e \in S /\ e \in Ends(s) /\ e \in Int /\ 1 <= e
      BY <1>4, <1>6, <3>1
    <3>3. At(n) < e
      <4>1. CASE n = 0
        BY <3>2, <4>1
      <4>2. CASE n # 0
        <5>1. n \in 1..c /\ n < n + 1
          BY <3>1, <4>2
        <5>2. QED
          BY <1>4, <3>1, <4>2, <5>1
      <4>3. QED
        BY <4>1, <4>2
    <3>4. /\ PieceEnd(s, At(n)) = At(n)
          /\ TextUpto(s, PieceEnd(s, e)) = TextUpto(s, At(n)) \o PieceText(s, e)
      BY <1>14, <3>1, <3>2, <3>3
    <3>5. g[n] = TextUpto(s, At(n))
      BY <2>2, <3>4
    <3>6. g[n + 1] = g[n] \o PieceText(s, e)
      BY <1>8, <1>11, <3>1
    <3>7. At(n + 1) = e
      BY <3>1
    <3>8. QED
      BY <3>1, <3>4, <3>5, <3>6, <3>7
  <2>3. \A n \in 0..c : n \in Good
    <3> HIDE DEF Good
    <3>1. QED
      BY <1>4, <2>1, <2>2, Induction
  <2>4. QED
    BY <2>3
<1>16. TextUpto(s, PieceEnd(s, At(c))) = TextUpto(s, N)
  <2>1. Least(N + 1, N) = N
    BY <1>1 DEF Least
  <2>2. PieceEnd(s, N + 1) = N
    BY <2>1 DEF PieceEnd, N
  <2>3. c \in 0..c
    BY <1>4
  <2>4. CASE At(c) = N + 1
    BY <2>2, <2>4
  <2>5. CASE At(c) # N + 1
    <3>1. At(c) < N + 1
      <4>1. CASE c = 0
        BY <1>1, <4>1
      <4>2. CASE c # 0
        <5>1. c \in 1..c
          BY <1>4, <4>2
        <5>2. Nth(S, c) \in S
          BY <1>4, <5>1
        <5>3. Nth(S, c) \in Int /\ Nth(S, c) <= N + 1
          BY <1>6, <5>2
        <5>4. QED
          BY <1>1, <2>5, <4>2, <5>3
      <4>3. QED
        BY <4>1, <4>2
    <3>2. PieceText(s, N + 1) = <<>>
      <4> SUFFICES ASSUME PieceText(s, N + 1) # <<>> PROVE FALSE
        OBVIOUS
      <4>1. N + 1 \in S
        BY <1>2, <1>6
      <4>2. PICK m \in 1..c : Nth(S, m) = N + 1
        BY <1>4, <4>1
      <4>3. c \in 1..c /\ m # c /\ m < c /\ At(c) = Nth(S, c)
        BY <1>4, <2>5, <4>2
      <4>4. Nth(S, c) \in Int /\ N + 1 < Nth(S, c) /\ Nth(S, c) <= N + 1
        BY <1>4, <1>6, <4>2, <4>3
      <4>5. QED
        BY <1>1, <4>4
    <3>3. /\ At(c) \in {0} \cup Cuts(s) /\ PieceEnd(s, At(c)) = At(c)
          /\ TextUpto(s, PieceEnd(s, N + 1)) = TextUpto(s, At(c)) \o PieceText(s, N + 1)
      BY <1>2, <1>14, <2>3, <3>1
    <3>4. TextUpto(s, At(c)) \in Seq(Token)
      <4> DEFINE p == At(c)
      <4>1. p \in {0} \cup Cuts(s)
        BY <3>3
      <4> HIDE DEF p
      <4>2. p \in 0..Len(s) /\ Len(s) \in p..Len(s) /\ Len(s) <= n_max
        BY <1>1, <1>6, <4>1 DEF N
      <4>3. TextUpto(s, p) \in Seq(Token)
        BY <1>1, <4>2, TextSplit
      <4>4. QED
        BY <4>3 DEF p
    <3>5. TextUpto(s, N) = TextUpto(s, At(c))
      BY <2>2, <3>2, <3>3, <3>4, ConcatEmptySeq
    <3>6. QED
      BY <3>3, <3>5
  <2>6. QED
    BY <2>4, <2>5
<1>17. Joined(w) = TextOf[s]
  <2>1. c \in 0..c
    BY <1>4
  <2>2. QED
    BY <1>8, <1>10, <1>12, <1>15, <1>16, <2>1
<1>18. QED
  BY <1>9, <1>17 DEF s, w

Worded == Quoted(result_all)

LEMMA NothingQuoted == Quoted(<<>>) /\ Joined(<<>>) = <<>>
<1>1. Quoted(<<>>)
  <2>1. <<>> \in Seq(Elements(<<>>)) /\ DOMAIN <<>> = {}
    OBVIOUS
  <2>2. QED
    BY <2>1 DEF Quoted
<1>2. PICK g : JoinSteps(g, <<>>) /\ Joined(<<>>) = g[Len(<<>>)]
  BY <1>1, JoinedIs
<1>3. QED
  BY <1>1, <1>2 DEF JoinSteps

LEMMA WordedEmit ==
    ASSUME Types, Worded, Emit
    PROVE  /\ Worded'
           /\ ~outcome.no_speech =>
                Joined(result_all') = Joined(result_all) \o TextOf[outcome.tokens]
<1> DEFINE w == Segments(outcome)
<1>1. /\ params \in Params /\ outcome \in Outcomes[params]
      /\ result_all' = result_all \o w /\ Quoted(result_all)
  BY DEF Emit, Types, Worded
<1>2. Quoted(w)
  <2>1. CASE outcome.no_speech
    BY <2>1, NothingQuoted DEF Segments
  <2>2. CASE ~outcome.no_speech
    BY <1>1, <2>2, WindowText
  <2>3. QED
    BY <2>1, <2>2
<1>3. ~outcome.no_speech => Joined(w) = TextOf[outcome.tokens]
  BY <1>1, WindowText
<1> HIDE DEF w
<1>4. Quoted(result_all \o w) /\ Joined(result_all \o w) = Joined(result_all) \o Joined(w)
  BY <1>1, <1>2, JoinedConcat
<1>5. QED
  BY <1>1, <1>3, <1>4 DEF Worded

(* The segments a window adds hold its text, all of it, once and in order, *)
(* wherever timestamps cut it (whisper.cpp:7697-7792): each is added at    *)
(* its cut, behind what was said up to the cut before, and a piece is left *)
(* out only when it says nothing.                                          *)
THEOREM TextIsKept == Spec => TextKept
<1> DEFINE Kept1 == phase = "emit" /\ ~outcome.no_speech =>
               Joined(result_all') = Joined(result_all) \o TextOf[outcome.tokens]
<1>1. Init => Worded
  BY NothingQuoted DEF Init, Worded
<1>2. ASSUME Types, Worded, [Next]_vars PROVE Worded' /\ [Kept1]_vars
  <2>1. CASE Emit
    BY <1>2, <2>1, WordedEmit
  <2>2. CASE Call
    BY <2>2, NothingQuoted DEF Call, Worded
  <2>3. CASE Prepare \/ Finish \/ Encode \/ Decode \/ Fails \/ OutOfMemory
    <3>1. phase # "emit" /\ result_all' = result_all
      BY <2>3 DEF Prepare, Finish, Encode, Decode, Fails, OutOfMemory, Return
    <3>2. QED
      BY <1>2, <3>1 DEF Worded
  <2>4. CASE UNCHANGED vars
    BY <1>2, <2>4 DEF vars, Worded
  <2>5. QED
    BY <1>2, <2>1, <2>2, <2>3, <2>4 DEF Next
<1>3. ContextInv => Types
  BY DEF ContextInv
<1>4. QED
  BY <1>1, <1>2, <1>3, ContextInvariant, PTL DEF Spec, TextKept

=============================================================================
