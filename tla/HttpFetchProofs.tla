-------------------------- MODULE HttpFetchProofs --------------------------
(***************************************************************************)
(* The deadline of a fetch, whatever the interleaving of its thread with   *)
(* the timer threads of all the fetches, for any number of fetches and     *)
(* redirects.                                                              *)
(***************************************************************************)
EXTENDS HttpFetch, TLAPS

\* What the timer threads have done, each to its own fetch.
Timers ==
  /\ \A f \in Fetch : timer[f] \in {"fired", "flagged"} => late[f]
  /\ \A f \in Fetch : timer[f] = "flagged" => expired[f]
  /\ \A f \in Fetch : expired[f] => late[f]
  /\ \A f \in Fetch : \A s \in sockets[f] : s[1] = f
  /\ \A s \in shut : expired[s[1]]

\* The transfer goes over the current fetch's own socket.
Transfer == live = IF pc \in {"wrap", "read"} THEN ThisSocket ELSE NoSocket

\* How far the current fetch is in telling a cut as a timeout.
Told ==
  /\ pc = "finally" => outcome[current] \in {"body", "deadline"}
  /\ pc = "check" => outcome[current] = "body"
  /\ pc = "ended" => outcome[current] = "deadline"
  /\ pc \in {"except", "finally", "check", "ended"}

\* A cut needs the raised flag, which outlives the fetch.
Cuts ==
  \A f \in cut : /\ expired[f] /\ f <= current
                 /\ f < current => outcome[f] = "deadline"
                 /\ f = current => Told

OnlyLate == \A f \in Fetch : outcome[f] = "deadline" => late[f]

IInv == TypeOK /\ Timers /\ Transfer /\ Cuts /\ OnlyLate

LEMMA Numbers == Fetches \in Nat /\ Fetches > 0 /\ MaxRedirects \in Nat /\ NoSocket \notin Socket
  BY HttpFetchAssumption DEF Socket, NoSocket, Fetch

\* What the invariant says of the fetch that is running.
LEMMA CurrentFacts ==
  ASSUME TypeOK
  PROVE  current \in Fetch /\ current \in Nat /\ ThisSocket \in Socket /\ ThisSocket[1] = current
  BY Numbers DEF TypeOK, ThisSocket, Socket, Fetch, Hop

LEMMA InitIInv == Init => IInv
  BY Numbers DEF Init, IInv, TypeOK, Timers, Transfer, Cuts, OnlyLate, Fetch, Hop, Outcomes

-----------------------------------------------------------------------------
(* The steps of the fetching thread                                         *)

\* Steps before the response ends: this fetch has not been cut.
LEMMA OpenInv ==
  ASSUME IInv, CheckUrl \/ ConnectFails \/ (\E scheme \in Schemes : Connected(scheme))
               \/ Wrap \/ WrapFails \/ Received \/ Redirected
  PROVE  IInv'
  <1>. USE CurrentFacts, Numbers DEF IInv
  <1>1. current \notin cut /\ cut' = cut /\ current' = current /\ expired' = expired /\ late' = late
    BY DEF Cuts, Told, CheckUrl, ConnectFails, Connected, Wrap, WrapFails, Received, Redirected
  <1>2. outcome' = outcome \/ \E o \in Outcomes \ {"deadline"} : End(o)
    BY DEF CheckUrl, ConnectFails, Connected, Wrap, WrapFails, Received, Redirected, Outcomes
  <1>3. /\ outcome' \in [Fetch -> Outcomes]
        /\ \A f \in Fetch : f # current => outcome'[f] = outcome[f]
        /\ outcome'[current] = "deadline" => outcome[current] = "deadline"
    BY <1>2 DEF End, TypeOK
  <1>4. Cuts' /\ OnlyLate'
    BY <1>1, <1>3 DEF Cuts, OnlyLate, TypeOK
  <1>5. Transfer'
    BY DEF Transfer, CheckUrl, ConnectFails, Connected, Wrap, WrapFails, Received, Redirected,
      ThisSocket
  <1>6. TypeOK'
    <2>1. live' \in Socket \cup {NoSocket}
      <3>1. live' \in {live, ThisSocket, NoSocket}
        BY DEF CheckUrl, ConnectFails, Connected, Wrap, WrapFails, Received, Redirected
      <3>. QED
        BY <3>1 DEF TypeOK
    <2>2. sockets' \in [Fetch -> SUBSET Socket] /\ tardy' \subseteq Socket /\ shut' \subseteq Socket
      <3>1. /\ sockets' = sockets
                 \/ sockets' = [sockets EXCEPT ![current] = @ \cup {ThisSocket}]
            /\ tardy' \in {tardy, tardy \cup {ThisSocket}} /\ shut' = shut
        BY DEF CheckUrl, ConnectFails, Connected, Wrap, WrapFails, Received, Redirected
      <3>. QED
        BY <3>1 DEF TypeOK
    <2>3. detached' \subseteq Socket
      <3>1. CASE Wrap
        <4>1. detached' = detached \cup {ThisSocket}
          BY <3>1 DEF Wrap, Transfer
        <4>. QED
          BY <4>1 DEF TypeOK
      <3>2. CASE ~Wrap
        BY <3>2 DEF TypeOK, CheckUrl, ConnectFails, Connected, WrapFails, Received, Redirected
      <3>. QED
        BY <3>1, <3>2
    <2>4. timer' \in [Fetch -> {"off", "armed", "fired", "flagged", "over"}] /\ hop' \in Hop
      <3>1. /\ timer' = timer \/ timer' = [timer EXCEPT ![current] = "armed"]
            /\ hop' = hop \/ (hop < MaxRedirects /\ hop' = hop + 1)
        BY DEF CheckUrl, ConnectFails, Connected, Wrap, WrapFails, Received, Redirected
      <3>. QED
        BY <3>1 DEF TypeOK, Hop
    <2>5. pc' \in {"url", "connect", "wrap", "read", "except", "finally", "check", "ended"}
      BY DEF CheckUrl, ConnectFails, Connected, Wrap, WrapFails, Received, Redirected
    <2>. QED
      BY <1>1, <1>3, <2>1, <2>2, <2>3, <2>4, <2>5 DEF TypeOK
  <1>7. Timers'
    <2>1. CASE CheckUrl
      BY <2>1, <1>1 DEF Timers, CheckUrl, TypeOK
    <2>2. CASE \E scheme \in Schemes : Connected(scheme)
      BY <2>2, <1>1 DEF Timers, Connected, TypeOK
    <2>3. CASE ConnectFails \/ Wrap \/ WrapFails \/ Received \/ Redirected
      BY <2>3, <1>1 DEF Timers, ConnectFails, Wrap, WrapFails, Received, Redirected
    <2>. QED
      BY <2>1, <2>2, <2>3
  <1>. QED
    BY <1>4, <1>5, <1>6, <1>7

\* A cut: the socket was shut down, so the flag of this fetch is up.
LEMMA CutShortInv == IInv /\ CutShort => IInv'
  <1>. SUFFICES ASSUME IInv, CutShort PROVE IInv'
    OBVIOUS
  <1>. USE CurrentFacts, Numbers DEF IInv
  <1>1. live = ThisSocket /\ expired[current]
    BY DEF CutShort, Transfer, Timers
  <1>2. current \notin cut
    BY DEF CutShort, Cuts, Told
  <1>3. /\ outcome' \in [Fetch -> Outcomes] /\ outcome'[current] \in {"body", "malformed"}
        /\ \A f \in Fetch : f # current => outcome'[f] = outcome[f]
        /\ pc' = "finally" => outcome'[current] = "body"
        /\ pc' \in {"finally", "except"}
    BY DEF CutShort, End, TypeOK, Outcomes
  <1>4. TypeOK' /\ Transfer'
    BY <1>3 DEF CutShort, TypeOK, Transfer
  <1>5. Timers' /\ OnlyLate'
    BY <1>3 DEF CutShort, Timers, OnlyLate
  <1>6. Cuts'
    BY <1>1, <1>2, <1>3 DEF CutShort, Cuts, Told, TypeOK
  <1>. QED
    BY <1>4, <1>5, <1>6

\* The two tests of the flag, and the end of the try statement.
LEMMA CloseInv == IInv /\ (Except \/ Finally \/ CheckExpired) => IInv'
  <1>. SUFFICES ASSUME IInv, Except \/ Finally \/ CheckExpired PROVE IInv'
    OBVIOUS
  <1>. USE CurrentFacts, Numbers DEF IInv
  <1>1. UNCHANGED <<current, hop, sockets, live, tardy, detached, shut, expired, late, cut>>
    BY DEF Except, Finally, CheckExpired
  <1>2. /\ outcome' \in [Fetch -> Outcomes]
        /\ \A f \in Fetch : f # current => outcome'[f] = outcome[f]
        /\ outcome'[current] = outcome[current]
             \/ (expired[current] /\ outcome'[current] = "deadline")
    <2>1. \/ outcome' = outcome
          \/ expired[current] /\ outcome' = [outcome EXCEPT ![current] = "deadline"]
      BY DEF Except, Finally, CheckExpired, End
    <2>2. outcome \in [Fetch -> Outcomes] /\ "deadline" \in Outcomes /\ current \in Fetch
      BY DEF TypeOK, Outcomes
    <2>. QED
      BY ONLY <2>1, <2>2
  <1>3. /\ timer' \in [Fetch -> {"off", "armed", "fired", "flagged", "over"}]
        /\ \A f \in Fetch : timer'[f] = timer[f] \/ timer'[f] = "over"
    BY DEF Except, Finally, CheckExpired, TypeOK
  <1>4. TypeOK' /\ Transfer'
    BY <1>1, <1>2, <1>3 DEF Except, Finally, CheckExpired, TypeOK, Transfer, ThisSocket
  <1>5. Timers' /\ OnlyLate'
    BY <1>1, <1>2, <1>3 DEF Timers, OnlyLate
  <1>6. ASSUME current \in cut PROVE Told'
    <2>1. Told /\ expired[current]
      BY <1>6 DEF Cuts
    <2>2. CASE Except
      BY <2>1, <2>2 DEF Except, Told, End, TypeOK, Cuts
    <2>3. CASE Finally
      BY <2>1, <2>3 DEF Finally, Told
    <2>4. CASE CheckExpired
      BY <2>1, <2>4 DEF CheckExpired, Told, End, TypeOK
    <2>. QED
      BY <2>2, <2>3, <2>4
  <1>7. Cuts'
    BY <1>1, <1>2, <1>6 DEF Cuts, TypeOK
  <1>. QED
    BY <1>4, <1>5, <1>7

\* The next fetch starts uncut.
LEMMA NextFetchInv == IInv /\ NextFetch => IInv'
  <1>. SUFFICES ASSUME IInv, NextFetch PROVE IInv'
    OBVIOUS
  <1>. USE CurrentFacts, Numbers DEF IInv
  <1>1. current' \in Fetch /\ current' = current + 1
    BY DEF NextFetch, TypeOK, Fetch
  <1>2. TypeOK' /\ Transfer' /\ Timers' /\ OnlyLate'
    BY <1>1 DEF NextFetch, TypeOK, Transfer, Timers, OnlyLate, Hop
  <1>3. Cuts'
    BY <1>1 DEF NextFetch, Cuts, Told, TypeOK, Fetch
  <1>. QED
    BY <1>2, <1>3

-----------------------------------------------------------------------------
(* The steps of a timer thread                                              *)

\* The flag goes up before the sockets go down, and they are those of the fetch.
LEMMA TimerInv ==
  ASSUME IInv, NEW f \in Fetch, TimerStep(f)
  PROVE  IInv'
  <1>. USE CurrentFacts, Numbers DEF IInv
  <1>1. UNCHANGED <<current, pc, hop, sockets, live, tardy, detached, cut, outcome>>
    BY DEF TimerStep, Fire, RaiseFlag, ShutDown
  <1>2. /\ \A g \in Fetch : late[g] => late'[g]
        /\ \A g \in Fetch : expired[g] => expired'[g]
    BY DEF TimerStep, Fire, RaiseFlag, ShutDown, TypeOK
  <1>3. Transfer' /\ OnlyLate' /\ Cuts'
    BY <1>1, <1>2 DEF Transfer, ThisSocket, OnlyLate, Cuts, Told, TypeOK
  <1>4. TypeOK'
    BY <1>1 DEF TimerStep, Fire, RaiseFlag, ShutDown, TypeOK
  <1>5. Timers'
    <2>1. CASE Fire(f)
      BY <2>1 DEF Fire, Timers, TypeOK
    <2>2. CASE RaiseFlag(f)
      BY <2>2 DEF RaiseFlag, Timers, TypeOK, Socket
    <2>3. CASE ShutDown(f)
      BY <2>3 DEF ShutDown, Timers, TypeOK
    <2>. QED
      BY <2>1, <2>2, <2>3 DEF TimerStep
  <1>. QED
    BY <1>3, <1>4, <1>5

-----------------------------------------------------------------------------
\* The inductive invariant of the fetches and their timers.
THEOREM Invariance == Spec => []IInv
  <1>1. ASSUME IInv, [Next]_vars PROVE IInv'
    <2>1. CASE UNCHANGED vars
      BY <1>1, <2>1 DEF vars, IInv, TypeOK, Timers, Transfer, ThisSocket, Cuts, Told, OnlyLate
    <2>2. CASE OwnStep \/ Received \/ Redirected
      BY <1>1, <2>2, OpenInv, CutShortInv, CloseInv, NextFetchInv DEF OwnStep
    <2>3. CASE \E f \in Fetch : TimerStep(f)
      BY <1>1, <2>3, TimerInv
    <2>. QED
      BY <1>1, <2>1, <2>2, <2>3 DEF Next
  <1>. QED
    BY <1>1, InitIInv, PTL DEF Spec

\* A response cut short by the deadline is reported as a timeout, never as the
\* body or the malformed answer it looks like (fetch, expire).
THEOREM CutIsTold == Spec => []CutIsATimeout
  <1>1. IInv => CutIsATimeout
    BY DEF IInv, Cuts, Told, CutIsATimeout, Ended
  <1>. QED
    BY <1>1, Invariance, PTL

\* No timer reaches into another fetch of its thread (_track, expire).
THEOREM DeadlineIsOwn == Spec => []DeadlineIsOfItsFetch
  <1>1. IInv => DeadlineIsOfItsFetch
    BY Numbers DEF IInv, Timers, OnlyLate, DeadlineIsOfItsFetch, TypeOK, Socket
  <1>. QED
    BY <1>1, Invariance, PTL
=============================================================================
