----------------------------- MODULE OrderedMap -----------------------------
(***************************************************************************)
(* cli._map: run a call on every item, in the caller's thread or in a      *)
(* ThreadPoolExecutor, and hand the answers back in the order of the       *)
(* items.  The inspection of a batch and the discovery of several domains  *)
(* both go through it.                                                     *)
(*                                                                         *)
(* The pool is modelled from how the source uses it: map() submits every   *)
(* item, worker threads take them first in, first out, the caller waits    *)
(* for the futures in input order, and leaving the with-block joins the    *)
(* threads.  An exception of one call cancels what has not started.        *)
(***************************************************************************)
EXTENDS Integers, Sequences, FiniteSets

CONSTANTS
  N,            \* the number of items
  MaxWorkers,   \* bound: the largest --concurrency of interest
  Answers,      \* what call(i) may return: [1..N -> set of answers]
  Raised        \* call(i) raised an exception

ASSUME ItemsAssumption == N \in Nat \ {0}

ASSUME WorkersAssumption == MaxWorkers \in Nat \ {0}

ASSUME AnswersAssumption ==
  /\ DOMAIN Answers = 1..N
  /\ \A i \in 1..N : Raised \notin Answers[i]

Item == 1..N

Threads == 1..MaxWorkers

Idle == 0

VARIABLES
  workers,   \* max(1, --concurrency)
  main,      \* what the calling thread does
  submitted, \* how many items it has submitted
  queue,     \* the pool's work queue
  worker,    \* the item each thread runs, or Idle
  future,    \* the state of each item's future
  answer,    \* what the call of each finished item returned, or Raised
  result     \* the list built so far

poolVars == <<workers, main, submitted, queue, worker, future, answer, result>>

MainStates == {"serial", "submit", "collect", "cancel", "join", "returned",
               "joinRaised", "raised"}
FutureStates == {"new", "pending", "running", "finished", "cancelled"}

AnyAnswer == UNION {Answers[i] : i \in Item}

PoolTypeOK ==
  /\ workers \in 1..MaxWorkers
  /\ main \in MainStates
  /\ submitted \in 0..N
  /\ queue \in Seq(Item)
  /\ worker \in [Threads -> Item \cup {Idle}]
  /\ future \in [Item -> FutureStates]
  /\ answer \in [Item -> AnyAnswer \cup {Raised}]
  /\ result \in Seq(AnyAnswer)
  /\ Len(result) <= N

\* One worker or one item: no threads.
PoolInit ==
  /\ workers \in 1..MaxWorkers
  /\ main = IF workers > 1 /\ N > 1 THEN "submit" ELSE "serial"
  /\ submitted = 0 /\ queue = <<>>
  /\ worker = [w \in Threads |-> Idle]
  /\ future = [i \in Item |-> "new"]
  /\ answer = [i \in Item |-> Raised]
  /\ result = <<>>

NextItem == Len(result) + 1

-----------------------------------------------------------------------------
(* The list comprehension of the serial case.                               *)

CallInline(a) ==
  /\ main = "serial" /\ NextItem <= N
  /\ a \in Answers[NextItem] \cup {Raised}
  /\ answer' = [answer EXCEPT ![NextItem] = a]
  /\ future' = [future EXCEPT ![NextItem] = "finished"]
  /\ IF a = Raised
     THEN main' = "raised" /\ UNCHANGED result
     ELSE result' = Append(result, a) /\ UNCHANGED main
  /\ UNCHANGED <<workers, submitted, queue, worker>>

ReturnInline ==
  /\ main = "serial" /\ NextItem > N
  /\ main' = "returned"
  /\ UNCHANGED <<workers, submitted, queue, worker, future, answer, result>>

-----------------------------------------------------------------------------
(* The calling thread of the parallel case.                                 *)

Submit ==
  /\ main = "submit" /\ submitted < N
  /\ submitted' = submitted + 1
  /\ queue' = Append(queue, submitted + 1)
  /\ future' = [future EXCEPT ![submitted + 1] = "pending"]
  /\ UNCHANGED <<workers, main, worker, answer, result>>

AllSubmitted ==
  /\ main = "submit" /\ submitted = N
  /\ main' = "collect"
  /\ UNCHANGED <<workers, submitted, queue, worker, future, answer, result>>

\* Mutant of Collect: as_completed, in the order of completion.
CollectAnyOrder ==
  /\ main = "collect" /\ NextItem <= N
  /\ \E i \in Item :
       /\ future[i] = "finished" /\ answer[i] # Raised
       /\ result' = Append(result, answer[i])
  /\ UNCHANGED <<workers, main, submitted, queue, worker, future, answer>>

\* The next future of the list, waited for in input order.
Collect ==
  /\ main = "collect" /\ NextItem <= N /\ future[NextItem] = "finished"
  /\ IF answer[NextItem] = Raised
     THEN main' = "cancel" /\ UNCHANGED result
     ELSE result' = Append(result, answer[NextItem]) /\ UNCHANGED main
  /\ UNCHANGED <<workers, submitted, queue, worker, future, answer>>

Collected ==
  /\ main = "collect" /\ NextItem > N
  /\ main' = "join"
  /\ UNCHANGED <<workers, submitted, queue, worker, future, answer, result>>

\* The finally clause of the result generator: cancel what has not started.
Cancel ==
  /\ main = "cancel"
  /\ future' = [i \in Item |-> IF i > NextItem /\ future[i] = "pending"
                               THEN "cancelled" ELSE future[i]]
  /\ main' = "joinRaised"
  /\ UNCHANGED <<workers, submitted, queue, worker, answer, result>>

PoolIsIdle == queue = <<>> /\ \A w \in Threads : worker[w] = Idle

\* Mutant of Join: shutdown(wait=False).
JoinNobody ==
  /\ main \in {"join", "joinRaised"}
  /\ main' = IF main = "join" THEN "returned" ELSE "raised"
  /\ UNCHANGED <<workers, submitted, queue, worker, future, answer, result>>

\* shutdown(wait=True) when the with-block is left.
Join ==
  /\ main \in {"join", "joinRaised"} /\ PoolIsIdle
  /\ main' = IF main = "join" THEN "returned" ELSE "raised"
  /\ UNCHANGED <<workers, submitted, queue, worker, future, answer, result>>

-----------------------------------------------------------------------------
(* The worker threads.                                                      *)

\* Mutant of Take: a cancelled item is skipped, never marked as done.
TakeWithoutTaskDone(w) ==
  /\ w <= workers /\ worker[w] = Idle /\ queue # <<>>
  /\ LET i == Head(queue)
     IN \/ /\ future[i] = "pending"
           /\ queue' = Tail(queue)
           /\ future' = [future EXCEPT ![i] = "running"]
           /\ worker' = [worker EXCEPT ![w] = i]
        \/ /\ future[i] = "cancelled"
           /\ UNCHANGED <<queue, future, worker>>
  /\ UNCHANGED <<workers, main, submitted, answer, result>>

Take(w) ==
  /\ w <= workers /\ worker[w] = Idle /\ queue # <<>>
  /\ queue' = Tail(queue)
  /\ LET i == Head(queue)
     IN \/ /\ future[i] = "pending"
           /\ future' = [future EXCEPT ![i] = "running"]
           /\ worker' = [worker EXCEPT ![w] = i]
        \/ /\ future[i] = "cancelled"
           /\ UNCHANGED <<future, worker>>
  /\ UNCHANGED <<workers, main, submitted, answer, result>>

\* The call of the item a thread runs ends.
FinishCall(w, a) ==
  /\ worker[w] # Idle
  /\ a \in Answers[worker[w]] \cup {Raised}
  /\ answer' = [answer EXCEPT ![worker[w]] = a]
  /\ future' = [future EXCEPT ![worker[w]] = "finished"]
  /\ worker' = [worker EXCEPT ![w] = Idle]
  /\ UNCHANGED <<workers, main, submitted, queue, result>>

-----------------------------------------------------------------------------
MainStep ==
  \/ \E a \in AnyAnswer \cup {Raised} : CallInline(a)
  \/ ReturnInline
  \/ Submit \/ AllSubmitted \/ Collect \/ Collected \/ Cancel \/ Join

ThreadStep(w) ==
  \/ Take(w)
  \/ \E a \in AnyAnswer \cup {Raised} : FinishCall(w, a)

PoolStep == MainStep \/ \E w \in Threads : ThreadStep(w)

Over == main \in {"returned", "raised"}

\* The call of item i has begun and not ended, in the caller's thread or in another.
Running(i) == (main = "serial" /\ NextItem = i) \/ \E w \in Threads : worker[w] = i

\* The interpreter schedules every thread that can go on.  That a call ends is not
\* assumed: an HTTPS fetch may outlive its deadline (HttpFetch).
PoolFairness ==
  /\ WF_poolVars(ReturnInline \/ Submit \/ AllSubmitted \/ Collect \/ Collected \/ Cancel \/ Join)
  /\ \A w \in Threads : WF_poolVars(Take(w))

-----------------------------------------------------------------------------
(* Properties                                                               *)

\* Once _map is over no thread works behind the caller's back: what comes next
\* (the state file, the report) sees the final answers.
QuietWhenOver == [][~Over]_poolVars

\* "The output is identical to the sequential run" (README, --concurrency).
Serial == INSTANCE SequentialMap WITH
            outcome <- IF main = "returned" THEN "returned"
                       ELSE IF main \in {"cancel", "joinRaised", "raised"} THEN "raised"
                       ELSE "mapping"

IsSequential == Serial!MapSpec
=============================================================================
