-------------------------- MODULE HttpClientProofs ---------------------------
(***************************************************************************)
(* The overlay of waiting covers the page exactly while somebody waits,    *)
(* for any number of requests that overlap, and whatever ends them.        *)
(***************************************************************************)
EXTENDS HttpClient, FiniteSetTheorems, TLAPS

\* None is not the name of a path or of what comes after an answer.
Names == IsFiniteSet(Call) /\ None \notin {"data", "stream", "me", "login", "enter", "done"}

Fields == {"mode", "path", "then", "text", "rest", "buf", "got"}

\* A stream is never silent: its wrapper shows the overlay at once.
CallOK(s) ==
  /\ DOMAIN s = Fields
  /\ s.mode \in Modes
  /\ s.path = "stream" => s.mode = "immediate"

\* The counter is what the requests in flight say, and the rest follows the counter.
OverlayInv ==
  /\ DOMAIN calls = Call
  /\ \A c \in Call : CallOK(calls[c])
  /\ visible \in BOOLEAN /\ label \in BOOLEAN /\ timer \in BOOLEAN
  /\ OverlayIsOwed

-----------------------------------------------------------------------------
(* Counting                                                                *)

LEMMA IdleOK ==
  ASSUME Names
  PROVE  CallOK(Idle) /\ Idle.mode = "silent"
BY DEF Names, Idle, CallOK, Fields, Modes

\* What is idle is silent.
LEMMA LoudCalls ==
  ASSUME Names
  PROVE  /\ Loud = {c \in Call : calls[c].mode # "silent"}
         /\ IsFiniteSet(Loud) /\ Cardinality(Loud) \in Nat
         /\ Cardinality(Loud) > 0 <=> Loud # {}
<1>1. Loud = {c \in Call : calls[c].mode # "silent"}
  BY DEF Loud, Idle
<1>2. IsFiniteSet(Loud)
  BY FS_Subset DEF Loud, Names
<1>3. QED
  BY <1>1, <1>2, FS_CardinalityType, FS_EmptySet

LEMMA LoudCallsAfterwards ==
  (Names => /\ Loud = {c \in Call : calls[c].mode # "silent"}
            /\ IsFiniteSet(Loud) /\ Cardinality(Loud) \in Nat
            /\ (Cardinality(Loud) > 0 <=> Loud # {}))'
<1>1. Names => /\ Loud = {c \in Call : calls[c].mode # "silent"}
               /\ IsFiniteSet(Loud) /\ Cardinality(Loud) \in Nat
               /\ (Cardinality(Loud) > 0 <=> Loud # {})
  BY LoudCalls
<1>2. QED
  BY <1>1, PTL

\* A call that is replaced by another one.
LEMMA OneCall ==
  ASSUME Names, OverlayInv, NEW c \in Call, NEW s, CallOK(s), calls' = [calls EXCEPT ![c] = s]
  PROVE  /\ DOMAIN calls' = Call
         /\ \A d \in Call : CallOK(calls'[d])
         /\ calls[c].mode = "silent" /\ s.mode # "silent" => Cardinality(Loud') = pending + 1
         /\ calls[c].mode # "silent" /\ s.mode = "silent" =>
              Cardinality(Loud') = pending - 1 /\ pending > 0
         /\ (calls[c].mode = "silent" <=> s.mode = "silent") => Cardinality(Loud') = pending
<1>1. DOMAIN calls' = Call /\ calls'[c] = s /\ \A d \in Call : d # c => calls'[d] = calls[d]
  BY DEF OverlayInv
<1>2. \A d \in Call : CallOK(calls'[d])
  BY <1>1 DEF OverlayInv
<1>3. Loud = {d \in Call : calls[d].mode # "silent"} /\ IsFiniteSet(Loud)
  BY LoudCalls
<1>4. Loud' = {d \in Call : calls'[d].mode # "silent"}
  BY LoudCallsAfterwards
<1>5. pending = Cardinality(Loud) /\ pending \in Nat
  BY LoudCalls DEF OverlayInv, OverlayIsOwed
<1>6. CASE calls[c].mode = "silent" /\ s.mode # "silent"
  <2>1. Loud' = Loud \cup {c} /\ c \notin Loud
    BY <1>1, <1>3, <1>4, <1>6
  <2>2. QED
    BY <1>1, <1>2, <1>3, <1>5, <1>6, <2>1, FS_AddElement
<1>7. CASE calls[c].mode # "silent" /\ s.mode = "silent"
  <2>1. Loud' = Loud \ {c} /\ c \in Loud
    BY <1>1, <1>3, <1>4, <1>7
  <2>2. Cardinality(Loud) > 0
    BY <2>1, LoudCalls
  <2>3. QED
    BY <1>1, <1>2, <1>3, <1>5, <1>7, <2>1, <2>2, FS_RemoveElement
<1>8. CASE calls[c].mode = "silent" <=> s.mode = "silent"
  <2>1. Loud' = Loud
    BY <1>1, <1>3, <1>4, <1>8
  <2>2. QED
    BY <1>1, <1>2, <1>5, <1>8, <2>1
<1>9. QED
  BY <1>6, <1>7, <1>8

-----------------------------------------------------------------------------
(* The steps                                                               *)

\* A request begins; the label may be set by one that shows the overlay.
LEMMA SendKeeps ==
  ASSUME Names, OverlayInv, NEW c \in Call, NEW mode \in Modes, NEW path, NEW then, NEW text,
         Send(c, mode, path, then, text), path = "stream" => mode = "immediate",
         (label' = TRUE /\ mode = "immediate") \/ UNCHANGED label
  PROVE  OverlayInv'
<1> DEFINE s == [Idle EXCEPT !.mode = mode, !.path = path, !.then = then, !.text = text, !.rest = text]
<1>1. CallOK(s) /\ s.mode = mode
  BY DEF Idle, CallOK, Fields
<1>2. calls' = [calls EXCEPT ![c] = s] /\ calls[c] = Idle /\ BeginGlobalLoading(mode)
  BY DEF Send
<1>3. calls[c].mode = "silent"
  BY <1>2 DEF Idle
<1> HIDE DEF s
<1>4. /\ DOMAIN calls' = Call /\ \A d \in Call : CallOK(calls'[d])
      /\ Cardinality(Loud') = IF mode = "silent" THEN pending ELSE pending + 1
  BY <1>1, <1>2, <1>3, OneCall
<1>5. pending \in Nat
  BY LoudCalls DEF OverlayInv, OverlayIsOwed
<1>6. CASE mode = "silent"
  BY <1>2, <1>4, <1>5, <1>6 DEF OverlayInv, OverlayIsOwed, BeginGlobalLoading
<1>7. CASE mode = "immediate"
  <2>1. pending' = pending + 1 /\ timer' = FALSE /\ visible' = TRUE
    BY <1>2, <1>7 DEF BeginGlobalLoading
  <2>2. label' \in BOOLEAN
    BY DEF OverlayInv
  <2>3. pending' > 0 /\ pending' = Cardinality(Loud')
    BY <1>4, <1>5, <1>7, <2>1
  <2>4. OverlayIsOwed'
    BY <2>1, <2>3 DEF OverlayIsOwed
  <2>5. QED
    BY <1>4, <2>1, <2>2, <2>4 DEF OverlayInv
<1>8. CASE mode = "loud"
  <2>1. pending' = pending + 1 /\ timer' = (timer \/ pending = 0) /\ UNCHANGED <<visible, label>>
    BY <1>2, <1>8 DEF BeginGlobalLoading
  <2>2. pending' > 0 /\ pending' = Cardinality(Loud')
    BY <1>4, <1>5, <1>8, <2>1
  <2>3. (visible' \/ timer') /\ timer' \in BOOLEAN
    <3>1. CASE pending = 0
      BY <2>1, <3>1
    <3>2. CASE pending # 0
      <4>1. visible \/ timer
        BY <1>5, <3>2 DEF OverlayInv, OverlayIsOwed
      <4>2. QED
        BY <2>1, <4>1
    <3>3. QED
      BY <3>1, <3>2
  <2>4. visible' \in BOOLEAN /\ label' \in BOOLEAN
    BY <2>1 DEF OverlayInv
  <2>5. OverlayIsOwed'
    BY <2>2, <2>3 DEF OverlayIsOwed
  <2>6. QED
    BY <1>4, <2>3, <2>4, <2>5 DEF OverlayInv
<1>9. QED
  BY <1>6, <1>7, <1>8 DEF Modes

\* A request ends, or is followed by a silent one.
LEMMA EndKeeps ==
  ASSUME Names, OverlayInv, NEW c \in Call, NEW s, CallOK(s), s.mode = "silent",
         calls' = [calls EXCEPT ![c] = s], EndGlobalLoading(calls[c].mode)
  PROVE  OverlayInv'
<1>1. pending \in Nat
  BY LoudCalls DEF OverlayInv, OverlayIsOwed
<1>2. CASE calls[c].mode = "silent"
  <2>1. UNCHANGED <<pending, timer, visible, label>>
    BY <1>2 DEF EndGlobalLoading, overlay
  <2>2. QED
    BY <1>2, <2>1, OneCall DEF OverlayInv, OverlayIsOwed
<1>3. CASE calls[c].mode # "silent"
  <2>1. /\ DOMAIN calls' = Call /\ \A d \in Call : CallOK(calls'[d])
        /\ Cardinality(Loud') = pending - 1 /\ pending > 0
    BY <1>3, OneCall
  <2>2. CASE pending > 1
    BY <1>1, <1>3, <2>1, <2>2 DEF EndGlobalLoading, OverlayInv, OverlayIsOwed
  <2>3. CASE pending = 1
    <3>1. pending' = 0 /\ timer' = FALSE /\ visible' = FALSE /\ label' = FALSE
      BY <1>3, <2>3 DEF EndGlobalLoading
    <3>2. Cardinality(Loud') = 0
      BY <2>1, <2>3
    <3>3. OverlayIsOwed'
      BY <3>1, <3>2 DEF OverlayIsOwed
    <3>4. QED
      BY <2>1, <3>1, <3>3 DEF OverlayInv
  <2>4. QED
    BY <1>1, <2>1, <2>2, <2>3
<1>4. QED
  BY <1>2, <1>3

\* A stream is read on: its overlay is there, so the label may be.
LEMMA ReadKeeps ==
  ASSUME Names, OverlayInv, NEW c \in Call, calls[c].path = "stream",
         NEW s, CallOK(s), s.mode = calls[c].mode,
         calls' = [calls EXCEPT ![c] = s],
         UNCHANGED <<pending, timer, visible>>, label' \in {label, TRUE}
  PROVE  OverlayInv'
<1>1. calls[c].mode = "immediate"
  BY DEF OverlayInv, CallOK
<1>2. c \in Loud /\ Loud # {}
  BY <1>1, LoudCalls
<1>3. pending > 0 /\ pending \in Nat
  BY <1>2, LoudCalls DEF OverlayInv, OverlayIsOwed
<1>4. /\ DOMAIN calls' = Call /\ \A d \in Call : CallOK(calls'[d])
      /\ Cardinality(Loud') = pending
  BY OneCall
<1>5. QED
  BY <1>3, <1>4 DEF OverlayInv, OverlayIsOwed

LEMMA TimerKeeps ==
  ASSUME OverlayInv, Names, ShowTimer
  PROVE  OverlayInv'
<1>1. /\ UNCHANGED <<calls, pending, label>> /\ timer' = FALSE /\ visible' = (visible \/ pending > 0)
      /\ timer
  BY DEF ShowTimer
<1>2. pending > 0 /\ visible' = TRUE /\ pending = Cardinality(Loud)
  BY <1>1 DEF OverlayInv, OverlayIsOwed
<1>3. Loud' = Loud
  BY <1>1 DEF Loud
<1>4. OverlayIsOwed'
  BY <1>1, <1>2, <1>3 DEF OverlayIsOwed
<1>5. QED
  BY <1>1, <1>2, <1>4 DEF OverlayInv

LEMMA OverlayStep ==
  ASSUME Names, OverlayInv, Next
  PROVE  OverlayInv'
<1>1. ASSUME NEW c \in Call, NEW mode \in Modes, HttpRequest(c, mode)
      PROVE  OverlayInv'
  BY <1>1, SendKeeps DEF HttpRequest
<1>2. ASSUME NEW c \in Call, NEW text \in Texts, HttpNdjson(c, text)
      PROVE  OverlayInv'
  BY <1>2, SendKeeps DEF HttpNdjson, Modes
<1>3. ASSUME NEW c \in Call, Refresh(c)
      PROVE  OverlayInv'
  BY <1>3, SendKeeps DEF Refresh, Modes
<1>4. ASSUME NEW c \in Call, OnSubmit(c)
      PROVE  OverlayInv'
  BY <1>4, SendKeeps DEF OnSubmit, Modes
<1>5. ASSUME NEW c \in Call, LoggedIn(c)
      PROVE  OverlayInv'
  <2> DEFINE s == [Idle EXCEPT !.path = "me", !.then = "enter"]
  <2>1. CallOK(s) /\ s.mode = "silent"
    BY DEF Idle, CallOK, Fields, Modes
  <2>2. calls' = [calls EXCEPT ![c] = s] /\ EndGlobalLoading(calls[c].mode)
    BY <1>5 DEF LoggedIn
  <2> HIDE DEF s
  <2>3. QED
    BY <2>1, <2>2, EndKeeps
<1>6. ASSUME NEW c \in Call, Unauthorized(c) \/ Fails(c) \/ Answers(c) \/ ReadEnds(c)
      PROVE  OverlayInv'
  BY <1>6, IdleOK, EndKeeps DEF Unauthorized, Fails, Answers, ReadEnds, Done
<1>7. ASSUME NEW c \in Call, ReadChunk(c)
      PROVE  OverlayInv'
  <2>1. PICK k \in 1..Len(calls[c].rest) : calls' = [calls EXCEPT ![c] = Take(@, k)]
    BY <1>7 DEF ReadChunk
  <2>2. calls[c].path = "stream" /\ CallOK(calls[c]) /\ DOMAIN calls = Call
    BY <1>7 DEF ReadChunk, OverlayInv
  <2> DEFINE s == Take(calls[c], k)
  <2>3. CallOK(s) /\ s.mode = calls[c].mode
    BY <2>2 DEF Take, CallOK, Fields
  <2>4. calls' = [calls EXCEPT ![c] = s]
    BY <2>1, <2>2
  <2>5. UNCHANGED <<pending, timer, visible>> /\ label' = TRUE
    BY <1>7 DEF ReadChunk
  <2> HIDE DEF s
  <2>6. QED
    BY <2>2, <2>3, <2>4, <2>5, ReadKeeps
<1>8. ASSUME NEW c \in Call, ReadDone(c)
      PROVE  OverlayInv'
  <2>1. calls[c].path = "stream" /\ CallOK(calls[c]) /\ DOMAIN calls = Call
    BY <1>8 DEF ReadDone, OverlayInv
  <2> DEFINE s == [calls[c] EXCEPT !.got = @ \o Lines(calls[c].buf), !.buf = <<>>, !.then = "done"]
  <2>2. CallOK(s) /\ s.mode = calls[c].mode
    BY <2>1 DEF CallOK, Fields
  <2>3. calls' = [calls EXCEPT ![c] = s]
    BY <1>8, <2>1 DEF ReadDone
  <2>4. UNCHANGED <<pending, timer, visible, label>>
    BY <1>8 DEF ReadDone, overlay
  <2> HIDE DEF s
  <2>5. QED
    BY <2>1, <2>2, <2>3, <2>4, ReadKeeps
<1>9. CASE ShowTimer
  BY <1>9, TimerKeeps
<1>10. CASE SessionExpires
  <2>1. UNCHANGED <<calls, pending, timer, visible, label>>
    BY <1>10 DEF SessionExpires, overlay
  <2>2. QED
    BY <2>1 DEF OverlayInv, OverlayIsOwed, Loud
<1>11. QED
  BY <1>1, <1>2, <1>3, <1>4, <1>5, <1>6, <1>7, <1>8, <1>9, <1>10 DEF Next

-----------------------------------------------------------------------------
\* beginGlobalLoading, its timer and endGlobalLoading: pendingCount is the number of
\* requests that show the overlay, through errors, redirects to the login and streams; the
\* overlay, its label and its timer are gone when the last has ended, and not before.
THEOREM OverlayFollowsRequests ==
  ASSUME Names
  PROVE  Spec => []OverlayIsOwed
<1>1. Init => OverlayInv
  <2> SUFFICES ASSUME Init PROVE OverlayInv
    OBVIOUS
  <2>1. Loud = {}
    BY DEF Init, Loud
  <2>2. OverlayIsOwed
    BY <2>1, FS_EmptySet DEF Init, OverlayIsOwed
  <2>3. DOMAIN calls = Call /\ \A c \in Call : CallOK(calls[c])
    BY IdleOK DEF Init
  <2>4. QED
    BY <2>2, <2>3 DEF Init, OverlayInv
<1>2. OverlayInv /\ [Next]_vars => OverlayInv'
  <2>1. ASSUME OverlayInv, UNCHANGED vars PROVE OverlayInv'
    <3>1. UNCHANGED <<calls, pending, timer, visible, label>>
      BY <2>1 DEF vars, overlay
    <3>2. QED
      BY <2>1, <3>1 DEF OverlayInv, OverlayIsOwed, Loud
  <2>2. QED
    BY <2>1, OverlayStep
<1>3. OverlayInv => OverlayIsOwed
  BY DEF OverlayInv
<1>4. QED
  BY <1>1, <1>2, <1>3, PTL DEF Spec
=============================================================================
