--------------------------- MODULE StartTlsProofs ---------------------------
(***************************************************************************)
(* The bounds of one connection attempt, for every timeout, every number   *)
(* of retries and every limit on lines and replies.                        *)
(***************************************************************************)
EXTENDS StartTls, TLAPS

\* The assumption in the form the provers use it.
LEMMA ConstantFacts == Retries \in Nat /\ Timeout \in Nat /\ Timeout > 0
  BY StartTlsAssumption

\* What the clocks of a reply add up to: the current recv began when elapsed -
\* waited ticks were gone, and its timeout is what was left of the reply then.
Clocks ==
  /\ elapsed \in Nat /\ waited \in Nat /\ sockTimeout \in Nat
  /\ elapsed <= Timeout
  /\ pc = "reply" => /\ waited <= sockTimeout
                     /\ sockTimeout - waited = Timeout - elapsed

\* What retry_network has spent when it dials again.
Budget ==
  /\ attempts \in Nat /\ attempts <= Retries + 1
  /\ pc \in {"dial", "reply", "handshake", "done", "failed"}
  /\ pc = "dial" => attempts <= Retries
  /\ pc = "dial" /\ attempts > 0 => cause \in Transient
  /\ RetriesAreUsedUp

IInv == Clocks /\ Budget /\ HandshakeHasTheFullTimeout

\* The invariant holds before the first dial.
LEMMA InitIInv == Init => IInv
  BY StartTlsAssumption DEF Init, IInv, Clocks, Budget, RetriesAreUsedUp, HandshakeHasTheFullTimeout

\* A failed attempt is dialled again only after a transient cause, while there
\* are retries left.
LEMMA FailureFacts ==
  ASSUME NEW c, NEW n \in Nat, n <= Retries + 1
  PROVE  /\ AfterFailure(c, n) \in {"dial", "failed"}
         /\ AfterFailure(c, n) = "dial" => c \in Transient /\ n <= Retries
         /\ AfterFailure(c, n) = "failed" /\ c \in Transient => n = Retries + 1
  BY StartTlsAssumption DEF AfterFailure

\* Dialling keeps the invariant.
LEMMA DialIInv == IInv /\ (Connect \/ ConnectFails) => IInv'
<1>. SUFFICES ASSUME IInv, Connect \/ ConnectFails PROVE IInv'
  OBVIOUS
<1>. USE ConstantFacts
<1>a. attempts \in Nat /\ attempts <= Retries /\ pc = "dial" /\ attempts' = attempts + 1
  <2>1. pc = "dial" /\ attempts' = attempts + 1
    BY DEF Connect, ConnectFails
  <2>. QED
    BY <2>1 DEF IInv, Budget
<1>0. pc = "dial" /\ attempts' = attempts + 1 /\ attempts' \in Nat /\ attempts' <= Retries + 1
  BY <1>a
<1>1. CASE Connect /\ protocol = "none"
  BY <1>0, <1>1 DEF Connect, IInv, Clocks, Budget, RetriesAreUsedUp, dialogue,
       HandshakeHasTheFullTimeout, Transient, StartReply
<1>2. CASE Connect /\ protocol # "none"
  <2>1. pc' = "reply" /\ cause' = "none"
    BY <1>2 DEF Connect
  <2>2. elapsed' = 0 /\ waited' = 0 /\ sockTimeout' = Timeout
    <3>1. StartReply(1)
      BY <1>2 DEF Connect
    <3>. QED
      BY <3>1 DEF StartReply, StartRecv, Remaining
  <2>. QED
    BY <1>0, <2>1, <2>2 DEF IInv, Clocks, Budget, RetriesAreUsedUp, HandshakeHasTheFullTimeout
<1>3. CASE ConnectFails
  <2>1. PICK c \in Transient \cup {"proxy refusal"} :
               cause' = c /\ pc' = AfterFailure(c, attempts')
    BY <1>3 DEF ConnectFails
  <2>2. /\ pc' \in {"dial", "failed"}
        /\ pc' = "dial" => c \in Transient /\ attempts' <= Retries
        /\ pc' = "failed" /\ c \in Transient => attempts' = Retries + 1
    BY <1>0, <2>1, FailureFacts
  <2>3. UNCHANGED <<elapsed, waited, sockTimeout>>
    BY <1>3 DEF ConnectFails, dialogue
  <2>. QED
    BY <1>0, <2>1, <2>2, <2>3 DEF IInv, Clocks, Budget, RetriesAreUsedUp,
         HandshakeHasTheFullTimeout
<1>. QED
  BY <1>1, <1>2, <1>3 DEF Connect

\* An exception during the dialogue keeps it.
LEMMA LeaveIInv ==
  ASSUME IInv, NEW c, Leave(c)
  PROVE  IInv'
<1>. USE ConstantFacts
<1>1. attempts \in Nat /\ attempts <= Retries + 1
  BY DEF IInv, Budget
<1>2. /\ cause' = c /\ pc' = AfterFailure(c, attempts)
      /\ sockTimeout' = Timeout
      /\ UNCHANGED <<attempts, elapsed, waited>>
  BY DEF Leave, FailWith, RestoreTimeout, dialogue
<1>3. /\ pc' \in {"dial", "failed"}
      /\ pc' = "dial" => c \in Transient /\ attempts <= Retries
      /\ pc' = "failed" /\ c \in Transient => attempts = Retries + 1
  BY <1>1, <1>2, FailureFacts
<1>. QED
  BY <1>1, <1>2, <1>3 DEF IInv, Clocks, Budget, RetriesAreUsedUp, HandshakeHasTheFullTimeout

\* The bytes, lines and ticks of a reply keep it.
LEMMA ReplyIInv == IInv /\ (Tick \/ Byte \/ LineContinues \/ ReplyEnds) => IInv'
<1>. SUFFICES ASSUME IInv, Tick \/ Byte \/ LineContinues \/ ReplyEnds PROVE IInv'
  OBVIOUS
<1>. USE ConstantFacts DEF IInv, Clocks, Budget, RetriesAreUsedUp, HandshakeHasTheFullTimeout
<1>1. CASE Tick
  BY <1>1 DEF Tick, Receiving
<1>2. CASE Byte
  BY <1>2 DEF Byte, Receiving, StartRecv, Remaining
<1>3. CASE LineContinues
  BY <1>3 DEF LineContinues, Receiving, StartRecv, Remaining
<1>4. CASE ReplyEnds /\ ~Last
  BY <1>4 DEF ReplyEnds, Receiving, StartReply, StartRecv, Remaining
<1>5. CASE ReplyEnds /\ Last
  BY <1>5 DEF ReplyEnds, Receiving, RestoreTimeout, dialogue
<1>. QED
  BY <1>1, <1>2, <1>3, <1>4, <1>5

\* So does the handshake.
LEMMA HandshakeIInv == IInv /\ Handshake => IInv'
<1>. SUFFICES ASSUME IInv, Handshake PROVE IInv'
  OBVIOUS
<1>. USE ConstantFacts
<1>1. attempts \in Nat /\ attempts <= Retries + 1 /\ pc = "handshake"
  BY DEF IInv, Budget, Handshake
<1>2. UNCHANGED <<attempts, elapsed, waited, sockTimeout>>
  BY DEF Handshake, dialogue
<1>3. CASE pc' = "done" /\ UNCHANGED cause
  BY <1>1, <1>2, <1>3 DEF IInv, Clocks, Budget, RetriesAreUsedUp, HandshakeHasTheFullTimeout
<1>4. ASSUME NEW c \in {"timeout", "connection error", "TLS error"}, FailWith(c)
      PROVE  IInv'
  <2>1. cause' = c /\ pc' = AfterFailure(c, attempts)
    BY <1>4 DEF FailWith
  <2>2. /\ pc' \in {"dial", "failed"}
        /\ pc' = "dial" => c \in Transient /\ attempts <= Retries
        /\ pc' = "failed" /\ c \in Transient => attempts = Retries + 1
    BY <1>1, <2>1, FailureFacts
  <2>. QED
    BY <1>1, <1>2, <2>1, <2>2 DEF IInv, Clocks, Budget, RetriesAreUsedUp,
         HandshakeHasTheFullTimeout
<1>. QED
  BY <1>3, <1>4 DEF Handshake

\* Every step keeps the invariant.
LEMMA NextIInv == IInv /\ [Next]_vars => IInv'
<1>. SUFFICES ASSUME IInv, [Next]_vars PROVE IInv'
  OBVIOUS
<1>1. CASE Connect \/ ConnectFails
  BY <1>1, DialIInv
<1>2. CASE Tick \/ Byte \/ LineContinues \/ ReplyEnds
  BY <1>2, ReplyIInv
<1>3. CASE TimedOut \/ Closed \/ Reset \/ LineTooLong \/ ReplyTooLong \/ Refusal
  BY <1>3, LeaveIInv DEF TimedOut, Closed, Reset, LineTooLong, ReplyTooLong, Refusal
<1>4. CASE Handshake
  BY <1>4, HandshakeIInv
<1>5. CASE UNCHANGED vars
  BY <1>5 DEF vars, dialogue, IInv, Clocks, Budget, RetriesAreUsedUp, HandshakeHasTheFullTimeout
<1>. QED
  BY <1>1, <1>2, <1>3, <1>4, <1>5 DEF Next, ClientStep

\* The invariant holds in every reachable state.
THEOREM Invariance == Spec => []IInv
  BY InitIInv, NextIInv, PTL DEF Spec

\* No reply of a STARTTLS dialogue is waited for longer than the read timeout,
\* however the server spreads its bytes.
THEOREM RepliesAreBounded == Spec => []ReplyWithinTimeout
<1>1. IInv => ReplyWithinTimeout
  BY DEF IInv, Clocks, ReplyWithinTimeout
<1>. QED
  BY <1>1, Invariance, PTL

\* The handshake starts with the whole read timeout.
THEOREM HandshakeTimeout == Spec => []HandshakeHasTheFullTimeout
<1>1. IInv => HandshakeHasTheFullTimeout
  BY DEF IInv
<1>. QED
  BY <1>1, Invariance, PTL

\* retry_network never gives up on a transient failure before the last retry.
THEOREM RetriesAreSpent == Spec => []RetriesAreUsedUp
<1>1. IInv => RetriesAreUsedUp
  BY DEF IInv, Budget
<1>. QED
  BY <1>1, Invariance, PTL

\* It dials again only after a transient failure.
THEOREM RetriesAreForTransients == Spec => OnlyTransientIsRetried
<1>1. IInv /\ [Next]_vars => [attempts' > attempts /\ attempts > 0 => cause \in Transient]_vars
  <2>. SUFFICES ASSUME IInv, Next, attempts' > attempts, attempts > 0
               PROVE  cause \in Transient
    BY DEF vars
  <2>0. attempts' # attempts
    BY DEF IInv, Budget
  <2>1. Connect \/ ConnectFails
    <3>1. ~(Tick \/ Byte \/ ReplyEnds \/ LineContinues \/ Handshake)
      BY <2>0 DEF Tick, Byte, ReplyEnds, LineContinues, Handshake
    <3>2. ~(TimedOut \/ Closed \/ Reset \/ LineTooLong \/ ReplyTooLong \/ Refusal)
      BY <2>0 DEF TimedOut, Closed, Reset, LineTooLong, ReplyTooLong, Refusal, Leave
    <3>. QED
      BY <2>0, <3>1, <3>2 DEF Next, ClientStep, vars
  <2>. QED
    BY <2>1 DEF Connect, ConnectFails, IInv, Budget
<1>. QED
  BY <1>1, Invariance, PTL DEF Spec, OnlyTransientIsRetried
=============================================================================
