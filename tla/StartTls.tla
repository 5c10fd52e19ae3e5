------------------------------ MODULE StartTls ------------------------------
(***************************************************************************)
(* Opening one TLS connection (fetch.py): retry_network around             *)
(* _open_socket, the plaintext STARTTLS dialogue of _negotiate_starttls    *)
(* byte by byte, and the handshake on the same socket.                     *)
(*                                                                         *)
(* The server may stay silent, close, drip bytes, answer with lines that   *)
(* never end or replies that never end, or refuse.  Each reply must arrive *)
(* in full within the read timeout, so each recv of a reply waits no       *)
(* longer than what is left of it (_Deadline).                             *)
(***************************************************************************)
EXTENDS Integers, Sequences

CONSTANTS
  Protocols,     \* of "none", "smtp", "ftp", "pop3", "imap"
  Retries,       \* --retries
  Timeout,       \* the read timeout, in ticks
  MaxLineBytes,  \* _MAX_STARTTLS_LINE_BYTES
  MaxReplyLines  \* _MAX_STARTTLS_REPLY_LINES

ASSUME StartTlsAssumption ==
  /\ Protocols \subseteq {"none", "smtp", "ftp", "pop3", "imap"}
  /\ Retries \in Nat
  /\ {Timeout, MaxLineBytes, MaxReplyLines} \subseteq Nat \ {0}

\* The replies of each dialogue: "single", one line; "multi", up to the first
\* line without a dash; "tagged", up to the line with the tag.
Replies ==
  [none |-> <<>>,
   smtp |-> <<"multi", "multi", "multi">>,
   ftp  |-> <<"multi", "multi">>,
   pop3 |-> <<"single", "single">>,
   imap |-> <<"single", "tagged">>]

VARIABLES
  protocol,    \* the --starttls protocol, "none" without
  pc,          \* "dial", "reply", "handshake", "done", "failed"
  attempts,    \* dials made
  cause,       \* why the last attempt failed, "none" if it did not
  reply,       \* the reply being read
  lines,       \* its complete lines so far
  bytes,       \* the bytes of its current line
  elapsed,     \* ticks since the reply was first waited for
  waited,      \* ticks in the current recv
  sockTimeout  \* the timeout of the socket

dialogue == <<reply, lines, bytes, elapsed, waited>>
vars == <<protocol, pc, attempts, cause, dialogue, sockTimeout>>

\* TimeoutError, ConnectionError and gaierror.
Transient == {"connection error", "timeout"}
Causes == {"none", "closed", "long line", "long reply", "refusal", "proxy refusal",
           "TLS error"} \cup Transient

TypeOK ==
  /\ protocol \in Protocols
  /\ pc \in {"dial", "reply", "handshake", "done", "failed"}
  /\ attempts \in 0..(Retries + 1)
  /\ cause \in Causes
  /\ reply \in 0..3 /\ lines \in 0..MaxReplyLines /\ bytes \in 0..MaxLineBytes
  /\ {elapsed, waited, sockTimeout} \subseteq Nat

Init ==
  /\ protocol \in Protocols
  /\ pc = "dial" /\ attempts = 0 /\ cause = "none"
  /\ reply = 0 /\ lines = 0 /\ bytes = 0 /\ elapsed = 0 /\ waited = 0
  /\ sockTimeout = 0

-----------------------------------------------------------------------------
(* retry_network: dial again after a transient failure, else give up.       *)

\* Mutant of AfterFailure: off by one.
AfterFailureOneLess(c, n) == IF c \in Transient /\ n < Retries THEN "dial" ELSE "failed"

\* n: the dials made, this one included.
AfterFailure(c, n) == IF c \in Transient /\ n <= Retries THEN "dial" ELSE "failed"

FailWith(c) == cause' = c /\ pc' = AfterFailure(c, attempts)

-----------------------------------------------------------------------------
(* _Deadline: a reply starts its clock, and each recv gets the rest of it.  *)

\* Mutant of Remaining: a plain socket timeout, for each recv.
FullTimeout(spent) == Timeout

Remaining(spent) == Timeout - spent

StartRecv(spent) == sockTimeout' = Remaining(spent) /\ waited' = 0

StartReply(r) ==
  /\ reply' = r /\ lines' = 0 /\ bytes' = 0 /\ elapsed' = 0
  /\ StartRecv(0)

-----------------------------------------------------------------------------
(* _open_socket: a connection, direct or through the tunnel of a proxy; the *)
(* socket carries the read timeout from here on.                            *)

\* Mutant of Connect: a connection starts the retries anew.
ConnectResetsBudget ==
  /\ pc = "dial"
  /\ attempts' = 1
  /\ cause' = "none"
  /\ \/ /\ protocol = "none" /\ pc' = "handshake"
        /\ sockTimeout' = Timeout /\ UNCHANGED dialogue
     \/ protocol # "none" /\ pc' = "reply" /\ StartReply(1)
  /\ UNCHANGED protocol

Connect ==
  /\ pc = "dial"
  /\ attempts' = attempts + 1
  /\ cause' = "none"
  /\ \/ /\ protocol = "none" /\ pc' = "handshake"
        /\ sockTimeout' = Timeout /\ UNCHANGED dialogue
     \/ protocol # "none" /\ pc' = "reply" /\ StartReply(1)
  /\ UNCHANGED protocol

ConnectFails ==
  /\ pc = "dial"
  /\ attempts' = attempts + 1
  /\ \E c \in Transient \cup {"proxy refusal"} :
       cause' = c /\ pc' = AfterFailure(c, attempts')
  /\ UNCHANGED <<protocol, dialogue, sockTimeout>>

-----------------------------------------------------------------------------
(* _readline, _read_reply and the IMAP loop.                                *)

Receiving == pc = "reply" /\ waited < sockTimeout

\* The server sends nothing for a while.
Tick ==
  /\ Receiving
  /\ elapsed' = elapsed + 1 /\ waited' = waited + 1
  /\ UNCHANGED <<protocol, pc, attempts, cause, reply, lines, bytes, sockTimeout>>

\* Mutant of RestoreTimeout: no finally clause.
KeepTimeout == UNCHANGED sockTimeout

\* An exception ends the negotiation; its finally clause puts the timeout back.
RestoreTimeout == sockTimeout' = Timeout

Leave(c) ==
  /\ FailWith(c)
  /\ RestoreTimeout
  /\ UNCHANGED <<protocol, attempts, dialogue>>

\* The recv timed out, or nothing was left for it.
TimedOut == pc = "reply" /\ waited = sockTimeout /\ Leave("timeout")

\* The end of the stream (a cut line that passes is one that ends the reply).
Closed == Receiving /\ Leave("closed")

Reset == Receiving /\ Leave("connection error")

LineHasRoom == bytes < MaxLineBytes

\* Any byte but the end of the line; the bound is tested before the next recv.
Byte ==
  /\ Receiving /\ LineHasRoom
  /\ bytes' = bytes + 1
  /\ StartRecv(elapsed)
  /\ UNCHANGED <<protocol, pc, attempts, cause, reply, lines, elapsed>>

LineTooLong == pc = "reply" /\ ~LineHasRoom /\ Leave("long line")

Last == reply = Len(Replies[protocol])

\* The line that ends the reply, as _expect wants it: the next command is sent
\* and answered, or the socket is ready for TLS.
ReplyEnds ==
  /\ Receiving /\ LineHasRoom
  /\ \/ ~Last /\ StartReply(reply + 1) /\ UNCHANGED pc
     \/ Last /\ pc' = "handshake" /\ RestoreTimeout /\ UNCHANGED dialogue
  /\ UNCHANGED <<protocol, attempts, cause>>

\* A line that does not end the reply: a dash, or no tag.
LineContinues ==
  /\ Receiving /\ LineHasRoom
  /\ Replies[protocol][reply] # "single"
  /\ lines + 1 < MaxReplyLines
  /\ lines' = lines + 1 /\ bytes' = 0
  /\ StartRecv(elapsed)
  /\ UNCHANGED <<protocol, pc, attempts, cause, reply, elapsed>>

ReplyTooLong ==
  /\ Receiving /\ LineHasRoom
  /\ Replies[protocol][reply] # "single" /\ lines + 1 = MaxReplyLines
  /\ Leave("long reply")

\* The line that ends the reply has another code.
Refusal == Receiving /\ LineHasRoom /\ Leave("refusal")

-----------------------------------------------------------------------------
(* wrap_socket, under the timeout the socket was left with.                 *)

Handshake ==
  /\ pc = "handshake"
  /\ \/ pc' = "done" /\ UNCHANGED cause
     \/ FailWith("timeout")
     \/ FailWith("connection error")
     \/ FailWith("TLS error")
  /\ UNCHANGED <<protocol, attempts, dialogue, sockTimeout>>

-----------------------------------------------------------------------------
Ended == pc \in {"done", "failed"}

ClientStep ==
  \/ Connect \/ ConnectFails
  \/ Tick \/ TimedOut \/ Closed \/ Reset \/ Byte \/ LineTooLong
  \/ ReplyEnds \/ LineContinues \/ ReplyTooLong \/ Refusal
  \/ Handshake

Next == ClientStep \/ (Ended /\ UNCHANGED vars)

\* Ticks count as steps: time goes on for a client that waits.
Spec == Init /\ [][Next]_vars /\ WF_vars(ClientStep)

-----------------------------------------------------------------------------
(* Properties                                                               *)

\* "Each server reply must arrive in full within that many seconds": however
\* the server spreads its bytes, no reply takes longer than the read timeout.
ReplyWithinTimeout == elapsed <= Timeout

\* The handshake gets the read timeout and not the rest of the last reply's
\* ("the socket is left with that timeout for the TLS handshake").
HandshakeHasTheFullTimeout == pc = "handshake" => sockTimeout = Timeout

\* Only connection-level failures are retried; a refusal, an oversized reply or
\* a TLS error ends the inspection at once.
OnlyTransientIsRetried ==
  [][attempts' > attempts /\ attempts > 0 => cause \in Transient]_vars

\* A transient failure is reported only once every retry was used up.
RetriesAreUsedUp == pc = "failed" /\ cause \in Transient => attempts = Retries + 1

\* Every connection attempt ends, against any server.
Terminates == <>Ended
=============================================================================
