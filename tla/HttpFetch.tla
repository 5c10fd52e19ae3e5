----------------------------- MODULE HttpFetch -----------------------------
(***************************************************************************)
(* httpfetch.fetch: the downloads of OCSP answers, CRLs, issuers and CT    *)
(* records.  The thread that inspects a target performs its fetches one    *)
(* after the other; each has a timer thread of its own that, at the        *)
(* deadline of the whole fetch, raises a flag and shuts down the sockets   *)
(* the fetch has opened so far.                                            *)
(*                                                                         *)
(* A server may keep a transfer alive for ever, one byte at a time, so     *)
(* only the deadline can end it.                                           *)
(***************************************************************************)
EXTENDS Integers, FiniteSets

CONSTANTS
  Fetches,       \* how many fetches the thread performs
  MaxRedirects,  \* _MAX_REDIRECTS
  Schemes,       \* the URL schemes of interest, of "http" and "https"
  SlowConnect    \* a connection may be established after the deadline

ASSUME HttpFetchAssumption ==
  /\ Fetches \in Nat \ {0} /\ MaxRedirects \in Nat
  /\ Schemes \subseteq {"http", "https"}
  /\ SlowConnect \in BOOLEAN

Fetch  == 1..Fetches
Hop    == 0..MaxRedirects
Socket == Fetch \X Hop
NoSocket == <<0, 0>>

VARIABLES
  current,  \* the fetch the thread performs
  pc,       \* its next step
  hop,      \* the redirects followed
  sockets,  \* the tracked sockets of each fetch, the list its timer captured
  live,     \* the socket the transfer goes over, NoSocket between two
  tardy,    \* sockets whose connection stood only after the deadline
  detached, \* sockets a TLS layer took over: shutting them down has no effect
  shut,     \* sockets that were shut down
  timer,    \* the timer thread of each fetch
  expired,  \* the flag it raises
  late,     \* its deadline has passed
  cut,      \* the fetches whose response the deadline cut short
  outcome   \* how each fetch ended

vars == <<current, pc, hop, sockets, live, tardy, detached, shut, timer, expired, late, cut,
          outcome>>

Outcomes == {"running", "body", "deadline", "error", "refused", "malformed", "too large"}

TypeOK ==
  /\ current \in Fetch
  /\ pc \in {"url", "connect", "wrap", "read", "except", "finally", "check", "ended"}
  /\ hop \in Hop
  /\ sockets \in [Fetch -> SUBSET Socket]
  /\ live \in Socket \cup {NoSocket}
  /\ tardy \subseteq Socket /\ detached \subseteq Socket /\ shut \subseteq Socket
  /\ timer \in [Fetch -> {"off", "armed", "fired", "flagged", "over"}]
  /\ expired \in [Fetch -> BOOLEAN]
  /\ late \in [Fetch -> BOOLEAN]
  /\ cut \subseteq Fetch
  /\ outcome \in [Fetch -> Outcomes]

Init ==
  /\ current = 1 /\ pc = "url" /\ hop = 0
  /\ sockets = [f \in Fetch |-> {}]
  /\ live = NoSocket /\ tardy = {} /\ detached = {} /\ shut = {}
  /\ timer = [f \in Fetch |-> "off"]
  /\ expired = [f \in Fetch |-> FALSE]
  /\ late = [f \in Fetch |-> FALSE]
  /\ cut = {}
  /\ outcome = [f \in Fetch |-> "running"]

ThisSocket == <<current, hop>>

End(o) == outcome' = [outcome EXCEPT ![current] = o]

-----------------------------------------------------------------------------
(* The thread that fetches                                                  *)

\* The first _check_url, before the timer is started.
CheckUrl ==
  /\ pc = "url"
  /\ \/ /\ timer' = [timer EXCEPT ![current] = "armed"]
        /\ pc' = "connect"
        /\ UNCHANGED outcome
     \/ End("refused") /\ pc' = "ended" /\ UNCHANGED timer
  /\ UNCHANGED <<current, hop, sockets, live, tardy, detached, shut, expired, late, cut>>

\* _connect_vetted or _connect_direct: the socket joins the tracked ones once
\* the connection stands; no address is vetted, or none answers: an error.
Connected(scheme) ==
  /\ pc = "connect" /\ (late[current] => SlowConnect)
  /\ live' = ThisSocket
  /\ sockets' = [sockets EXCEPT ![current] = @ \cup {ThisSocket}]
  /\ tardy' = IF late[current] THEN tardy \cup {ThisSocket} ELSE tardy
  /\ pc' = IF scheme = "https" THEN "wrap" ELSE "read"
  /\ UNCHANGED <<current, hop, detached, shut, timer, expired, late, cut, outcome>>

ConnectFails ==
  /\ pc = "connect"
  /\ \/ End("error") /\ pc' = "except"
     \/ End("refused") /\ pc' = "finally"   \* a ValueError is not caught
  /\ UNCHANGED <<current, hop, sockets, live, tardy, detached, shut, timer, expired, late, cut>>

\* HTTPSConnection.connect: wrap_socket moves the connection to an SSLSocket
\* and detaches the tracked socket.
Wrap ==
  /\ pc = "wrap" /\ live \notin shut
  /\ detached' = detached \cup {live}
  /\ pc' = "read"
  /\ UNCHANGED <<current, hop, sockets, live, tardy, shut, timer, expired, late, cut, outcome>>

WrapFails ==
  /\ pc = "wrap"
  /\ End("error") /\ pc' = "except" /\ live' = NoSocket
  /\ UNCHANGED <<current, hop, sockets, tardy, detached, shut, timer, expired, late, cut>>

\* The server ended its response: a body within the limit, a larger one, an
\* HTTP error or timeout (OSError), or no valid HTTP (HTTPException).
Received ==
  /\ pc = "read" /\ live \notin shut
  /\ live' = NoSocket
  /\ \/ End("body") /\ pc' = "finally"
     \/ End("too large") /\ pc' = "finally"
     \/ End("error") /\ pc' = "except"
     \/ End("malformed") /\ pc' = "except"
  /\ UNCHANGED <<current, hop, sockets, tardy, detached, shut, timer, expired, late, cut>>

\* redirect_request: the new URL is checked like the first one; urllib refuses
\* one redirect too many, a loop and other schemes with an HTTPError.
Redirected ==
  /\ pc = "read" /\ live \notin shut
  /\ live' = NoSocket
  /\ \/ /\ hop < MaxRedirects
        /\ hop' = hop + 1 /\ pc' = "connect"
        /\ UNCHANGED outcome
     \/ End("refused") /\ pc' = "finally" /\ UNCHANGED hop
     \/ End("error") /\ pc' = "except" /\ UNCHANGED hop
  /\ UNCHANGED <<current, sockets, tardy, detached, shut, timer, expired, late, cut>>

\* A read of a socket that was shut down returns the end of the stream: an
\* incomplete response, or a body without a length that merely looks complete.
CutShort ==
  /\ pc = "read" /\ live \in shut
  /\ live' = NoSocket
  /\ cut' = cut \cup {current}
  /\ \/ End("body") /\ pc' = "finally"
     \/ End("malformed") /\ pc' = "except"
  /\ UNCHANGED <<current, hop, sockets, tardy, detached, shut, timer, expired, late>>

\* The except clause: past the deadline every such error is a timeout.
Except ==
  /\ pc = "except"
  /\ IF expired[current] THEN End("deadline") ELSE UNCHANGED outcome
  /\ pc' = "finally"
  /\ UNCHANGED <<current, hop, sockets, live, tardy, detached, shut, timer, expired, late, cut>>

\* timer.cancel() stops a timer that has not fired; a firing one goes on.
Finally ==
  /\ pc = "finally"
  /\ timer' = [timer EXCEPT ![current] = IF @ = "armed" THEN "over" ELSE @]
  /\ pc' = IF outcome[current] \in {"body", "too large"} THEN "check" ELSE "ended"
  /\ UNCHANGED <<current, hop, sockets, live, tardy, detached, shut, expired, late, cut, outcome>>

\* The checks behind the try statement.
CheckExpired ==
  /\ pc = "check"
  /\ IF expired[current] THEN End("deadline") ELSE UNCHANGED outcome
  /\ pc' = "ended"
  /\ UNCHANGED <<current, hop, sockets, live, tardy, detached, shut, timer, expired, late, cut>>

\* The caller's next fetch, in the same thread.
NextFetch ==
  /\ pc = "ended" /\ current < Fetches
  /\ current' = current + 1
  /\ pc' = "url" /\ hop' = 0
  /\ UNCHANGED <<sockets, live, tardy, detached, shut, timer, expired, late, cut, outcome>>

-----------------------------------------------------------------------------
(* The timer thread of fetch f, expire(): the flag first, then the sockets. *)

Fire(f) ==
  /\ timer[f] = "armed"
  /\ late' = [late EXCEPT ![f] = TRUE]
  /\ timer' = [timer EXCEPT ![f] = "fired"]
  /\ UNCHANGED <<current, pc, hop, sockets, live, tardy, detached, shut, expired, cut, outcome>>

RaiseFlag(f) ==
  /\ timer[f] = "fired"
  /\ expired' = [expired EXCEPT ![f] = TRUE]
  /\ timer' = [timer EXCEPT ![f] = "flagged"]
  /\ UNCHANGED <<current, pc, hop, sockets, live, tardy, detached, shut, late, cut, outcome>>

\* Mutant of ShutDown: the sockets of the thread, not of the timer's fetch.
ShutDownCurrent(f) ==
  /\ timer[f] = "flagged"
  /\ shut' = shut \cup (sockets[current] \ detached)
  /\ timer' = [timer EXCEPT ![f] = "over"]
  /\ UNCHANGED <<current, pc, hop, sockets, live, tardy, detached, expired, late, cut, outcome>>

\* Mutant of ShutDown: only the flag is raised.
ShutDownNothing(f) ==
  /\ timer[f] = "flagged"
  /\ timer' = [timer EXCEPT ![f] = "over"]
  /\ UNCHANGED <<current, pc, hop, sockets, live, tardy, detached, shut, expired, late, cut, outcome>>

\* shutdown() of a closed or detached socket is an ignored OSError.
ShutDown(f) ==
  /\ timer[f] = "flagged"
  /\ shut' = shut \cup (sockets[f] \ detached)
  /\ timer' = [timer EXCEPT ![f] = "over"]
  /\ UNCHANGED <<current, pc, hop, sockets, live, tardy, detached, expired, late, cut, outcome>>

-----------------------------------------------------------------------------
\* The steps that wait for nobody but the socket timeouts.
OwnStep ==
  \/ CheckUrl \/ ConnectFails \/ (\E scheme \in Schemes : Connected(scheme))
  \/ Wrap \/ WrapFails \/ CutShort \/ Except \/ Finally \/ CheckExpired \/ NextFetch

\* Mutant of TimerStep: the sockets before the flag.
ShutFirst(f) ==
  /\ timer[f] = "fired"
  /\ shut' = shut \cup (sockets[f] \ detached)
  /\ timer' = [timer EXCEPT ![f] = "flagged"]
  /\ UNCHANGED <<current, pc, hop, sockets, live, tardy, detached, expired, late, cut, outcome>>

FlagLast(f) ==
  /\ timer[f] = "flagged"
  /\ expired' = [expired EXCEPT ![f] = TRUE]
  /\ timer' = [timer EXCEPT ![f] = "over"]
  /\ UNCHANGED <<current, pc, hop, sockets, live, tardy, detached, shut, late, cut, outcome>>

TimerStepSwapped(f) == Fire(f) \/ ShutFirst(f) \/ FlagLast(f)

TimerStep(f) == Fire(f) \/ RaiseFlag(f) \/ ShutDown(f)

AllEnded == pc = "ended" /\ current = Fetches

Next ==
  \/ OwnStep \/ Received \/ Redirected
  \/ \E f \in Fetch : TimerStep(f)
  \/ AllEnded /\ UNCHANGED vars

\* Nothing obliges the server to end its response: Received and Redirected
\* are not fair.
Spec == Init /\ [][Next]_vars /\ WF_vars(OwnStep) /\ \A f \in Fetch : WF_vars(TimerStep(f))

-----------------------------------------------------------------------------
(* Properties                                                               *)

Ended(f) == f < current \/ (f = current /\ pc = "ended")

\* A response the deadline cut short never reaches the caller as a body or as a
\* malformed answer, although its end looks like the end of a stream (the order
\* of the steps of expire, the two tests of the flag).
CutIsATimeout == \A f \in cut : Ended(f) => outcome[f] = "deadline"

\* The deadline of one fetch never disturbs another of the same thread, although
\* its timer may still fire after it: only the sockets of a late fetch are shut
\* down, and only a late fetch reports the deadline.
DeadlineIsOfItsFetch ==
  /\ \A s \in shut : late[s[1]]
  /\ \A f \in Fetch : outcome[f] = "deadline" => late[f]

\* The deadline ends a fetch however slowly the server sends, as long as the
\* transfer goes over a plain socket that stood before the deadline: a socket
\* that TLS took over or that was connected later is out of the timer's reach
\* (expire, _track).
DeadlineEndsPlainFetch ==
  \A f \in Fetch : late[f] ~> (outcome[f] # "running" \/ live \in detached \cup tardy)

\* "The whole fetch must finish within _FETCH_DEADLINE_SECONDS" (fetch): the
\* deadline ends a fetch however slowly the server sends.
DeadlineEndsTheFetch == \A f \in Fetch : late[f] ~> outcome[f] # "running"
=============================================================================
