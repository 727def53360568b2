----------------------------- MODULE HttpClient -----------------------------
(***************************************************************************)
(* Requests of the console: the wrappers httpRequest and httpNdjson        *)
(* (ui/src/services/httpClient.ts), the loading overlay they share         *)
(* (lib/globalLoading.ts), and the session that decides their answers      *)
(* (hooks/auth/useSession.ts, pages/SessionGatePage.tsx).                  *)
(*                                                                         *)
(* A streamed answer is a sequence of numbers, 0 for a line break.  It     *)
(* arrives in chunks that know nothing of lines.                           *)
(***************************************************************************)
EXTENDS Naturals, Sequences, FiniteSets, SequencesExt

CONSTANTS
  Call,      \* requests that may be in flight together
  Texts,     \* streamed answers
  MaxCalls,  \* bound on the requests of one visit
  None

Modes == {"loud", "immediate", "silent"}
Idle == [mode |-> "silent", path |-> None, then |-> None, text |-> <<>>, rest |-> <<>>,
         buf |-> <<>>, got |-> <<>>]

VARIABLES
  calls,    \* the requests in flight, Idle where there is none
  pending, timer, visible, label,   \* lib/globalLoading.ts
  session,  \* the server takes the cookie
  user,     \* the SessionUser of the provider
  gate,     \* the location is /login
  busy,     \* the form of SessionGatePage
  begun     \* requests so far

overlay == <<pending, timer, visible, label>>
vars == <<calls, overlay, session, user, gate, busy, begun>>

Init ==
  /\ calls = [c \in Call |-> Idle]
  /\ pending = 0 /\ timer = FALSE /\ visible = FALSE /\ label = FALSE
  /\ session \in BOOLEAN /\ user = FALSE /\ gate = FALSE /\ busy = FALSE
  /\ begun = 0

-----------------------------------------------------------------------------
(* beginGlobalLoading, its timer of 200 ms, endGlobalLoading               *)

BeginGlobalLoading(mode) ==
  CASE mode = "silent" -> UNCHANGED <<pending, timer, visible>>
    [] mode = "immediate" -> pending' = pending + 1 /\ timer' = FALSE /\ visible' = TRUE
    [] mode = "loud" -> /\ pending' = pending + 1 /\ timer' = (timer \/ pending = 0)
                        /\ UNCHANGED visible

\* Mutant: the overlay of the last request that ends keeps its timer.
EndKeepsTimer(mode) ==
  IF mode = "silent" THEN UNCHANGED overlay
  ELSE /\ pending' = pending - 1
       /\ IF pending > 1 THEN UNCHANGED <<timer, visible, label>>
          ELSE visible' = FALSE /\ label' = FALSE /\ UNCHANGED timer

EndGlobalLoading(mode) ==
  IF mode = "silent" THEN UNCHANGED overlay
  ELSE /\ pending' = IF pending > 0 THEN pending - 1 ELSE 0
       /\ IF pending > 1 THEN UNCHANGED <<timer, visible, label>>
          ELSE timer' = FALSE /\ visible' = FALSE /\ label' = FALSE

ShowTimer ==
  /\ timer /\ timer' = FALSE /\ visible' = (visible \/ pending > 0)
  /\ UNCHANGED <<calls, pending, label, session, user, gate, busy, begun>>

-----------------------------------------------------------------------------
Send(c, mode, path, then, text) ==
  /\ calls[c] = Idle /\ begun < MaxCalls /\ begun' = begun + 1
  /\ calls' = [calls EXCEPT ![c] = [Idle EXCEPT !.mode = mode, !.path = path, !.then = then,
                                                !.text = text, !.rest = text]]
  /\ BeginGlobalLoading(mode)

HttpRequest(c, mode) ==
  /\ ~gate /\ Send(c, mode, "data", None, <<>>)
  /\ UNCHANGED <<label, session, user, gate, busy>>

\* The upload of files sets the label of the overlay and sends at once.
HttpNdjson(c, text) ==
  /\ ~gate /\ Send(c, "immediate", "stream", None, text) /\ label' = TRUE
  /\ UNCHANGED <<session, user, gate, busy>>

\* SessionProvider asks for the user when the console starts.
Refresh(c) ==
  /\ begun = 0 /\ Send(c, "silent", "me", None, <<>>)
  /\ UNCHANGED <<label, session, user, gate, busy>>

OnSubmit(c) ==
  /\ gate /\ ~busy /\ busy' = TRUE
  /\ Send(c, "loud", "login", None, <<>>)
  /\ UNCHANGED <<label, session, user, gate>>

\* What a finished request leaves: a failed one is thrown to its caller.
Done(c) == calls' = [calls EXCEPT ![c] = Idle] /\ EndGlobalLoading(calls[c].mode)

Caller(c, ok) ==
  LET p == calls[c].path IN
  /\ user' = IF p = "me" THEN ok ELSE user
  /\ busy' = IF p = "login" \/ calls[c].then = "enter" THEN FALSE ELSE busy

\* Every answer but that of the login itself sends the page to /login on 401.
Unauthorized(c) ==
  /\ calls[c].path \in {"data", "me", "stream"} /\ ~session
  /\ calls[c].rest = calls[c].text
  /\ Done(c) /\ Caller(c, FALSE)
  /\ gate' = (calls[c].then # "enter")
  /\ UNCHANGED <<session, begun>>

\* An error status, no network, or a body that is not JSON.
Fails(c) ==
  /\ calls[c] # Idle /\ calls[c].then # "done"
  /\ Done(c) /\ Caller(c, FALSE)
  /\ gate' = (gate /\ calls[c].then # "enter")
  /\ UNCHANGED <<session, begun>>

\* onSubmit goes on to "/" whatever the session says of the new user.
Answers(c) ==
  /\ calls[c].path \in {"data", "me"} /\ session
  /\ Done(c) /\ Caller(c, TRUE)
  /\ gate' = (gate /\ calls[c].then # "enter")
  /\ UNCHANGED <<session, begun>>

\* The login is answered and the form asks for the user before it goes on.
LoggedIn(c) ==
  /\ calls[c].path = "login"
  /\ session' = TRUE
  /\ calls' = [calls EXCEPT ![c] = [Idle EXCEPT !.path = "me", !.then = "enter"]]
  /\ EndGlobalLoading(calls[c].mode)
  /\ UNCHANGED <<user, gate, busy, begun>>

SessionExpires ==
  /\ session /\ session' = FALSE
  /\ UNCHANGED <<calls, overlay, user, gate, busy, begun>>

-----------------------------------------------------------------------------
(* The reader of httpNdjson                                                *)

\* The lines of a text that are not empty.
Lines(t) ==
  LET starts == {i \in DOMAIN t : t[i] # 0 /\ (i = 1 \/ t[i - 1] = 0)}
      ends == {i \in DOMAIN t : t[i] # 0 /\ (i = Len(t) \/ t[i + 1] = 0)}
      line(i) == SubSeq(t, i, CHOOSE j \in ends : j >= i /\ \A k \in ends : k >= i => j <= k)
      order == SetToSortSeq(starts, <)
  IN  [n \in DOMAIN order |-> line(order[n])]

LastBreak(t) == LET at == {i \in DOMAIN t : t[i] = 0} \cup {0} IN
  CHOOSE i \in at : \A j \in at : j <= i

\* Mutant: the rest behind the last line break is dropped with the chunk.
TakeDropsRest(s, k) ==
  LET buf == s.buf \o SubSeq(s.rest, 1, k) IN
  [s EXCEPT !.rest = SubSeq(@, k + 1, Len(@)), !.buf = <<>>,
            !.got = @ \o Lines(SubSeq(buf, 1, LastBreak(buf)))]

Take(s, k) ==
  LET buf == s.buf \o SubSeq(s.rest, 1, k) IN
  [s EXCEPT !.rest = SubSeq(@, k + 1, Len(@)),
            !.buf = SubSeq(buf, LastBreak(buf) + 1, Len(buf)),
            !.got = @ \o Lines(SubSeq(buf, 1, LastBreak(buf)))]

ReadChunk(c) ==
  /\ calls[c].path = "stream" /\ (session \/ calls[c].rest # calls[c].text)
  /\ \E k \in 1..Len(calls[c].rest) : calls' = [calls EXCEPT ![c] = Take(@, k)]
  /\ label' = TRUE
  /\ UNCHANGED <<pending, timer, visible, session, user, gate, busy, begun>>

\* The last line needs no line break; then the promise is settled.
ReadDone(c) ==
  /\ calls[c].path = "stream" /\ calls[c].rest = <<>> /\ calls[c].then = None
  /\ calls' = [calls EXCEPT ![c].got = @ \o Lines(calls[c].buf), ![c].buf = <<>>,
                            ![c].then = "done"]
  /\ UNCHANGED <<overlay, session, user, gate, busy, begun>>

ReadEnds(c) ==
  /\ calls[c].then = "done" /\ Done(c)
  /\ UNCHANGED <<session, user, gate, busy, begun>>

Next ==
  \/ \E c \in Call :
       \/ \E mode \in Modes : HttpRequest(c, mode)
       \/ \E text \in Texts : HttpNdjson(c, text)
       \/ Refresh(c) \/ OnSubmit(c) \/ LoggedIn(c)
       \/ Unauthorized(c) \/ Fails(c) \/ Answers(c)
       \/ ReadChunk(c) \/ ReadDone(c) \/ ReadEnds(c)
  \/ ShowTimer \/ SessionExpires

Spec == Init /\ [][Next]_vars

-----------------------------------------------------------------------------
Loud == {c \in Call : calls[c] # Idle /\ calls[c].mode # "silent"}

\* The overlay covers the page exactly while somebody waits: the counter agrees with
\* the requests in flight through errors, redirects and streams, no overlay or label
\* outlives them, and the timer that shows it late is there as long as it is needed.
OverlayIsOwed ==
  /\ pending = Cardinality(Loud)
  /\ visible \/ label \/ timer => pending > 0
  /\ pending > 0 => visible \/ timer

\* onEvent sees the lines of the answer in order, each once, however the network
\* cuts the stream; when the promise is settled it has seen them all.
StreamIsWhole ==
  \A c \in Call : calls[c].path = "stream" =>
    /\ calls[c].got \o Lines(calls[c].buf \o calls[c].rest) = Lines(calls[c].text)
    /\ calls[c].then = "done" => calls[c].got = Lines(calls[c].text)
=============================================================================
