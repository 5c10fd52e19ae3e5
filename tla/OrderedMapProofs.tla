-------------------------- MODULE OrderedMapProofs --------------------------
(***************************************************************************)
(* The pool of cli._map implements the list comprehension, and leaves no   *)
(* thread at work behind it: for any number of items and threads, any      *)
(* answers and any order in which the calls end.                           *)
(***************************************************************************)
EXTENDS OrderedMap, SequenceTheorems, TLAPS

\* The map by itself.
PoolSpec == PoolInit /\ [][PoolStep]_poolVars

\* A finished call has an answer of its own item.
AnswersFit ==
  \A i \in Item : future[i] = "finished" => answer[i] \in Answers[i] \cup {Raised}

\* The with-block is left the normal way when every item is collected.
JoinedIsComplete == main \in {"join", "returned"} => Len(result) = N

\* An item runs in one thread, and nothing else is done to it meanwhile.
OneThreadEach ==
  /\ \A w \in Threads : worker[w] # Idle => future[worker[w]] = "running"
  /\ \A v, w \in Threads : worker[v] # Idle /\ worker[v] = worker[w] => v = w
  /\ main = "submit" => \A i \in Item : i > submitted => future[i] = "new"

\* The list holds the answer of item i at position i, and it is the last one.
ResultIsAnswers ==
  \A i \in Item : i <= Len(result) => result[i] = answer[i] /\ future[i] = "finished"

\* The pool has nothing to do in the serial case, before and after the map.
IdleOutside == main \in {"serial", "returned", "raised"} => PoolIsIdle

PoolInv ==
  /\ PoolTypeOK /\ AnswersFit /\ JoinedIsComplete /\ IdleOutside
  /\ OneThreadEach /\ ResultIsAnswers

LEMMA Bounds == N \in Nat /\ N > 0 /\ MaxWorkers \in Nat /\ MaxWorkers > 0
  BY ItemsAssumption, WorkersAssumption

\* Each item's answers are answers of the map.
LEMMA AnswersAreAnswers ==
  ASSUME NEW i \in Item, NEW a \in Answers[i]
  PROVE  a \in AnyAnswer /\ a # Raised
  BY AnswersAssumption DEF Item, AnyAnswer

\* What appending one answer does to the list.
LEMMA OneMore ==
  ASSUME PoolTypeOK, NextItem <= N, NEW a \in AnyAnswer, result' = Append(result, a)
  PROVE  /\ result' \in Seq(AnyAnswer) /\ Len(result') <= N
         /\ Len(result') = Len(result) + 1
         /\ \A i \in 1..Len(result) : result'[i] = result[i]
         /\ result'[NextItem] = a
  <1>1. result \in Seq(AnyAnswer) /\ Len(result) \in Nat
    BY LenProperties DEF PoolTypeOK
  <1>2. /\ Len(result') = Len(result) + 1 /\ result' \in Seq(AnyAnswer)
        /\ \A i \in 1..Len(result) : result'[i] = result[i]
        /\ result'[Len(result) + 1] = a
    BY <1>1, AppendProperties
  <1>. QED
    BY <1>1, <1>2, Bounds DEF NextItem

LEMMA NextItemFact == PoolTypeOK /\ NextItem <= N => NextItem \in Item
  BY LenProperties, Bounds DEF PoolTypeOK, NextItem, Item

\* The pool starts idle, with nothing finished.
LEMMA InitPoolInv == PoolInit => PoolInv
  <1>. SUFFICES ASSUME PoolInit PROVE PoolInv
    OBVIOUS
  <1>1. PoolTypeOK
    <2>1. queue \in Seq(Item) /\ result \in Seq(AnyAnswer) /\ Len(result) = 0
      BY EmptySeq DEF PoolInit
    <2>2. worker \in [Threads -> Item \cup {Idle}] /\ future \in [Item -> FutureStates]
            /\ answer \in [Item -> AnyAnswer \cup {Raised}]
      BY DEF PoolInit, FutureStates
    <2>3. workers \in 1..MaxWorkers /\ main \in MainStates /\ submitted \in 0..N
      BY Bounds DEF PoolInit, MainStates
    <2>. QED
      BY <2>1, <2>2, <2>3, Bounds DEF PoolTypeOK
  <1>2. AnswersFit
    BY DEF PoolInit, AnswersFit
  <1>3. JoinedIsComplete /\ IdleOutside
    BY DEF PoolInit, JoinedIsComplete, IdleOutside, PoolIsIdle
  <1>4. OneThreadEach /\ ResultIsAnswers
    BY EmptySeq, Bounds DEF PoolInit, OneThreadEach, ResultIsAnswers, Item
  <1>. QED
    BY <1>1, <1>2, <1>3, <1>4 DEF PoolInv

-----------------------------------------------------------------------------
(* The calling thread.                                                      *)

\* A call in the caller's thread: nothing of the pool moves.
LEMMA CallInlineInv ==
  ASSUME PoolInv, NEW a, CallInline(a)
  PROVE  PoolInv'
  <1>. USE DEF PoolInv
  <1>1. NextItem \in Item /\ a \in Answers[NextItem] \cup {Raised}
    BY NextItemFact DEF CallInline
  <1>2. a \in AnyAnswer \cup {Raised}
    BY <1>1, AnswersAreAnswers
  <1>3. /\ answer' = [answer EXCEPT ![NextItem] = a]
        /\ future' = [future EXCEPT ![NextItem] = "finished"]
        /\ answer' \in [Item -> AnyAnswer \cup {Raised}]
        /\ future' \in [Item -> FutureStates]
    BY <1>1, <1>2 DEF CallInline, PoolTypeOK, FutureStates
  <1>4. result' \in Seq(AnyAnswer) /\ Len(result') <= N /\ main' \in {"serial", "raised"}
    <2>1. CASE a = Raised
      BY <2>1 DEF CallInline, PoolTypeOK
    <2>2. CASE a # Raised
      BY <2>2, <1>2, OneMore DEF CallInline
    <2>. QED
      BY <2>1, <2>2
  <1>5. PoolTypeOK'
    BY <1>3, <1>4 DEF CallInline, PoolTypeOK, MainStates
  <1>6. AnswersFit'
    BY <1>1, <1>3 DEF AnswersFit, PoolTypeOK
  <1>7. JoinedIsComplete' /\ IdleOutside' /\ OneThreadEach'
    BY <1>4 DEF CallInline, JoinedIsComplete, IdleOutside, PoolIsIdle, OneThreadEach
  <1>8. ResultIsAnswers'
    <2>1. \A i \in Item : i <= Len(result) =>
             result[i] = answer'[i] /\ future'[i] = "finished"
      BY <1>1, <1>3, LenProperties DEF ResultIsAnswers, PoolTypeOK, NextItem, Item
    <2>2. answer'[NextItem] = a /\ future'[NextItem] = "finished"
      BY <1>1, <1>3 DEF PoolTypeOK
    <2>3. CASE a = Raised
      BY <2>1, <2>3 DEF CallInline, ResultIsAnswers
    <2>4. CASE a # Raised
      <3>1. /\ Len(result') = Len(result) + 1 /\ Len(result) \in Nat
            /\ \A i \in 1..Len(result) : result'[i] = result[i]
            /\ result'[NextItem] = a
        BY <2>4, <1>2, OneMore, LenProperties DEF CallInline, PoolTypeOK
      <3>. QED
        BY <3>1, <2>1, <2>2 DEF ResultIsAnswers, NextItem, Item
    <2>. QED
      BY <2>3, <2>4
  <1>. QED
    BY <1>5, <1>6, <1>7, <1>8

\* Submitting queues one more item.
LEMMA SubmitInv == PoolInv /\ Submit => PoolInv'
  <1>. SUFFICES ASSUME PoolInv, Submit PROVE PoolInv'
    OBVIOUS
  <1>. USE DEF PoolInv
  <1>1. submitted + 1 \in Item /\ submitted' \in 0..N
    BY Bounds DEF Submit, PoolTypeOK, Item
  <1>2. queue' \in Seq(Item)
    BY <1>1, AppendProperties DEF Submit, PoolTypeOK
  <1>3. future' \in [Item -> FutureStates]
    BY <1>1 DEF Submit, PoolTypeOK, FutureStates
  <1>4. PoolTypeOK'
    BY <1>1, <1>2, <1>3 DEF Submit, PoolTypeOK
  <1>5. AnswersFit'
    BY <1>1 DEF Submit, AnswersFit, PoolTypeOK
  <1>6. JoinedIsComplete' /\ IdleOutside'
    BY DEF Submit, JoinedIsComplete, IdleOutside
  <1>7. future[submitted + 1] = "new"
    BY <1>1 DEF Submit, OneThreadEach, PoolTypeOK, Item
  <1>8. OneThreadEach'
    BY <1>1, <1>7, Bounds DEF Submit, OneThreadEach, PoolTypeOK, Item
  <1>9. ResultIsAnswers'
    BY <1>1, <1>7 DEF Submit, ResultIsAnswers, PoolTypeOK
  <1>. QED
    BY <1>4, <1>5, <1>6, <1>8, <1>9

\* Collecting appends the answer of the next item, or ends the map.
LEMMA CollectInv == PoolInv /\ Collect => PoolInv'
  <1>. SUFFICES ASSUME PoolInv, Collect PROVE PoolInv'
    OBVIOUS
  <1>. USE DEF PoolInv
  <1>1. NextItem \in Item /\ answer[NextItem] \in AnyAnswer \cup {Raised}
    BY NextItemFact DEF Collect, PoolTypeOK
  <1>2. result' \in Seq(AnyAnswer) /\ Len(result') <= N /\ main' \in {"collect", "cancel"}
    <2>1. CASE answer[NextItem] = Raised
      BY <2>1 DEF Collect, PoolTypeOK
    <2>2. CASE answer[NextItem] # Raised
      BY <2>2, <1>1, OneMore DEF Collect
    <2>. QED
      BY <2>1, <2>2
  <1>3. PoolTypeOK'
    BY <1>2 DEF Collect, PoolTypeOK, MainStates
  <1>4. AnswersFit' /\ JoinedIsComplete' /\ IdleOutside' /\ OneThreadEach'
    BY <1>2 DEF Collect, AnswersFit, JoinedIsComplete, IdleOutside, OneThreadEach
  <1>5. ResultIsAnswers'
    <2>1. CASE answer[NextItem] = Raised
      BY <2>1 DEF Collect, ResultIsAnswers
    <2>2. CASE answer[NextItem] # Raised
      <3>1. /\ Len(result') = Len(result) + 1 /\ Len(result) \in Nat
            /\ \A i \in 1..Len(result) : result'[i] = result[i]
            /\ result'[NextItem] = answer[NextItem]
        BY <2>2, <1>1, OneMore, LenProperties DEF Collect, PoolTypeOK
      <3>. QED
        BY <3>1 DEF Collect, ResultIsAnswers, NextItem, Item
    <2>. QED
      BY <2>1, <2>2
  <1>. QED
    BY <1>3, <1>4, <1>5

\* The remaining steps of the calling thread change where it is; leaving the
\* with-block waits until the pool is idle.
LEMMA ControlInv ==
  PoolInv /\ (ReturnInline \/ AllSubmitted \/ Collected \/ Cancel \/ Join) => PoolInv'
  <1>. SUFFICES ASSUME PoolInv, ReturnInline \/ AllSubmitted \/ Collected \/ Cancel \/ Join
                PROVE  PoolInv'
    OBVIOUS
  <1>. USE DEF PoolInv
  <1>1. CASE ReturnInline
    <2>1. Len(result) = N
      BY <1>1, LenProperties, Bounds DEF ReturnInline, NextItem, PoolTypeOK
    <2>. QED
      BY <1>1, <2>1 DEF ReturnInline, PoolTypeOK, MainStates, AnswersFit, JoinedIsComplete,
         IdleOutside, PoolIsIdle, OneThreadEach, ResultIsAnswers
  <1>2. CASE AllSubmitted
    BY <1>2 DEF AllSubmitted, PoolTypeOK, MainStates, AnswersFit, JoinedIsComplete,
         IdleOutside, PoolIsIdle, OneThreadEach, ResultIsAnswers
  <1>3. CASE Collected
    <2>1. Len(result) = N
      BY <1>3, LenProperties, Bounds DEF Collected, NextItem, PoolTypeOK
    <2>. QED
      BY <1>3, <2>1 DEF Collected, PoolTypeOK, MainStates, AnswersFit, JoinedIsComplete,
           IdleOutside, PoolIsIdle, OneThreadEach, ResultIsAnswers
  <1>4. CASE Cancel
    <2>1. future' \in [Item -> FutureStates]
      BY <1>4 DEF Cancel, PoolTypeOK, FutureStates
    <2>2. AnswersFit'
      BY <1>4 DEF Cancel, AnswersFit
    <2>3. OneThreadEach' /\ ResultIsAnswers'
      BY <1>4 DEF Cancel, OneThreadEach, ResultIsAnswers, PoolTypeOK
    <2>. QED
      BY <1>4, <2>1, <2>2, <2>3 DEF Cancel, PoolTypeOK, MainStates, JoinedIsComplete,
           IdleOutside, PoolIsIdle
  <1>5. CASE Join
    BY <1>5 DEF Join, PoolTypeOK, MainStates, AnswersFit, JoinedIsComplete,
         IdleOutside, PoolIsIdle, OneThreadEach, ResultIsAnswers
  <1>. QED
    BY <1>1, <1>2, <1>3, <1>4, <1>5

-----------------------------------------------------------------------------
(* The worker threads.                                                      *)

\* A pool thread has work only while the calling thread is in the with-block.
LEMMA ThreadsWorkInside ==
  ASSUME PoolInv, NEW w \in Threads, ThreadStep(w)
  PROVE  main \notin {"serial", "returned", "raised"}
  BY DEF PoolInv, IdleOutside, PoolIsIdle, ThreadStep, Take, FinishCall

\* Taking an item off the queue.
LEMMA TakeInv ==
  ASSUME PoolInv, NEW w \in Threads, Take(w)
  PROVE  PoolInv'
  <1>. USE DEF PoolInv
  <1>1. queue' \in Seq(Item) /\ Head(queue) \in Item
    BY HeadTailProperties DEF Take, PoolTypeOK
  <1>2. /\ future' \in [Item -> FutureStates] /\ worker' \in [Threads -> Item \cup {Idle}]
        /\ \A i \in Item : future'[i] = "finished" => future[i] = "finished"
    BY <1>1 DEF Take, PoolTypeOK, FutureStates
  <1>3. main' = main /\ main \notin {"serial", "returned", "raised"}
    BY ThreadsWorkInside DEF Take, ThreadStep
  <1>4. PoolTypeOK'
    BY <1>1, <1>2 DEF Take, PoolTypeOK
  <1>5. AnswersFit' /\ JoinedIsComplete' /\ IdleOutside'
    BY <1>2, <1>3 DEF Take, AnswersFit, JoinedIsComplete, IdleOutside
  <1>6. OneThreadEach' /\ ResultIsAnswers'
    BY <1>1, <1>3 DEF Take, OneThreadEach, ResultIsAnswers, PoolTypeOK
  <1>. QED
    BY <1>4, <1>5, <1>6

\* The call of an item ends with one of its answers.
LEMMA FinishCallInv ==
  ASSUME PoolInv, NEW w \in Threads, NEW a, FinishCall(w, a)
  PROVE  PoolInv'
  <1>. USE DEF PoolInv
  <1>1. worker[w] \in Item /\ a \in Answers[worker[w]] \cup {Raised}
    BY DEF FinishCall, PoolTypeOK
  <1>2. a \in AnyAnswer \cup {Raised}
    BY <1>1, AnswersAreAnswers
  <1>3. PoolTypeOK'
    BY <1>1, <1>2 DEF FinishCall, PoolTypeOK, FutureStates
  <1>4. AnswersFit'
    BY <1>1 DEF FinishCall, AnswersFit, PoolTypeOK
  <1>5. main' = main /\ main \notin {"serial", "returned", "raised"}
    <2>1. ThreadStep(w)
      BY <1>2 DEF ThreadStep
    <2>. QED
      BY <2>1, ThreadsWorkInside DEF FinishCall
  <1>6. JoinedIsComplete' /\ IdleOutside'
    BY <1>5 DEF FinishCall, JoinedIsComplete, IdleOutside
  <1>7. OneThreadEach'
    BY <1>1, <1>5 DEF FinishCall, OneThreadEach, PoolTypeOK, Idle, Item
  <1>8. ResultIsAnswers'
    BY <1>1 DEF FinishCall, ResultIsAnswers, OneThreadEach, PoolTypeOK
  <1>. QED
    BY <1>3, <1>4, <1>6, <1>7, <1>8

\* Every step, of the caller or of a thread, keeps the invariant.
LEMMA NextPoolInv == PoolInv /\ [PoolStep]_poolVars => PoolInv'
  <1>. SUFFICES ASSUME PoolInv, [PoolStep]_poolVars PROVE PoolInv'
    OBVIOUS
  <1>1. CASE MainStep
    BY <1>1, CallInlineInv, SubmitInv, CollectInv, ControlInv DEF MainStep
  <1>2. CASE \E w \in Threads : ThreadStep(w)
    BY <1>2, TakeInv, FinishCallInv DEF ThreadStep
  <1>3. CASE UNCHANGED poolVars
    BY <1>3 DEF poolVars, PoolInv, PoolTypeOK, AnswersFit, JoinedIsComplete, IdleOutside,
         PoolIsIdle, OneThreadEach, ResultIsAnswers
  <1>. QED
    BY <1>1, <1>2, <1>3 DEF PoolStep

\* The invariant of the pool holds throughout.
THEOREM PoolIsConsistent == PoolSpec => []PoolInv
  BY InitPoolInv, NextPoolInv, PTL DEF PoolSpec

-----------------------------------------------------------------------------
(* Quiet when over                                                          *)

\* Nobody takes a step once the map is over: the calling thread has none left,
\* and it waited for the others.
LEMMA NoStepWhenOver == PoolInv /\ [PoolStep]_poolVars => [~Over]_poolVars
  <1>. SUFFICES ASSUME PoolInv, PoolStep PROVE ~Over
    OBVIOUS
  <1>1. CASE MainStep
    BY <1>1 DEF MainStep, CallInline, ReturnInline, Submit, AllSubmitted, Collect, Collected,
         Cancel, Join, Over
  <1>2. CASE \E w \in Threads : ThreadStep(w)
    BY <1>2, ThreadsWorkInside DEF Over
  <1>. QED
    BY <1>1, <1>2 DEF PoolStep

\* The state file and the report are made from answers that no thread can change
\* any more (leaving the executor's with-block joins its threads).
THEOREM MapLeavesNoThread == PoolSpec => QuietWhenOver
  BY PoolIsConsistent, NoStepWhenOver, PTL DEF PoolSpec, QuietWhenOver

-----------------------------------------------------------------------------
(* Refinement                                                               *)

\* An empty list, nothing decided.
LEMMA InitIsInit == PoolInit => Serial!MapInit
  BY DEF PoolInit, Serial!MapInit

\* An inline call is an answer of the next item, or the exception.
LEMMA CallInlineRefines ==
  ASSUME PoolInv, NEW a, CallInline(a)
  PROVE  [Serial!MapNext]_(Serial!mapVars)
  <1>1. NextItem \in Item /\ Len(result) < N /\ main = "serial"
    <2>1. NextItem \in Item /\ NextItem <= N
      BY NextItemFact DEF CallInline, PoolInv
    <2>. QED
      BY <2>1, LenProperties, Bounds DEF CallInline, NextItem, PoolInv, PoolTypeOK
  <1>2. CASE a = Raised
    BY <1>1, <1>2 DEF CallInline, Serial!MapNext, Serial!Raise
  <1>3. CASE a # Raised
    <2>1. Serial!Answer(a)
      BY <1>1, <1>3 DEF CallInline, Serial!Answer, NextItem
    <2>2. a \in UNION {Answers[i] : i \in 1..N}
      BY <1>1, <1>3, AnswersAreAnswers DEF CallInline, AnyAnswer, Item
    <2>. QED
      BY <2>1, <2>2 DEF Serial!MapNext
  <1>. QED
    BY <1>2, <1>3

\* Collecting the future of the next item is that item's turn in the list
\* comprehension: its answer, or its exception.
LEMMA CollectRefines ==
  ASSUME PoolInv, Collect
  PROVE  [Serial!MapNext]_(Serial!mapVars)
  <1>. DEFINE a == answer[NextItem]
  <1>1. /\ NextItem \in Item /\ Len(result) < N /\ main = "collect"
        /\ a \in Answers[NextItem] \cup {Raised}
    <2>1. NextItem \in Item /\ NextItem <= N
      BY NextItemFact DEF Collect, PoolInv
    <2>2. Len(result) < N
      BY <2>1, LenProperties, Bounds DEF NextItem, PoolInv, PoolTypeOK
    <2>. QED
      BY <2>1, <2>2 DEF Collect, PoolInv, AnswersFit
  <1>2. CASE a = Raised
    BY <1>1, <1>2 DEF Collect, Serial!MapNext, Serial!Raise
  <1>3. CASE a # Raised
    <2>1. Serial!Answer(a)
      BY <1>1, <1>3 DEF Collect, Serial!Answer, NextItem
    <2>2. a \in UNION {Answers[i] : i \in 1..N}
      BY <1>1, <1>3, AnswersAreAnswers DEF AnyAnswer, Item
    <2>. QED
      BY <2>1, <2>2 DEF Serial!MapNext
  <1>. QED
    BY <1>2, <1>3

\* Returning the list needs all its answers; the rest is a stutter.
LEMMA ControlRefines ==
  ASSUME PoolInv, ReturnInline \/ Submit \/ AllSubmitted \/ Collected \/ Cancel \/ Join
  PROVE  [Serial!MapNext]_(Serial!mapVars)
  <1>1. CASE ReturnInline
    <2>1. Len(result) = N
      BY <1>1, LenProperties, Bounds DEF ReturnInline, NextItem, PoolInv, PoolTypeOK
    <2>. QED
      BY <1>1, <2>1 DEF ReturnInline, Serial!MapNext, Serial!Return
  <1>2. CASE Submit \/ AllSubmitted \/ Collected \/ Cancel
    BY <1>2 DEF Submit, AllSubmitted, Collected, Cancel, Serial!mapVars
  <1>3. CASE Join
    BY <1>3 DEF Join, PoolInv, JoinedIsComplete, Serial!MapNext, Serial!Return, Serial!mapVars
  <1>. QED
    BY <1>1, <1>2, <1>3

\* Every step of the pool is a step of the list comprehension or none.
LEMMA StepIsStep == PoolInv /\ [PoolStep]_poolVars => [Serial!MapNext]_(Serial!mapVars)
  <1>. SUFFICES ASSUME PoolInv, [PoolStep]_poolVars PROVE [Serial!MapNext]_(Serial!mapVars)
    OBVIOUS
  <1>1. CASE MainStep
    BY <1>1, CallInlineRefines, CollectRefines, ControlRefines DEF MainStep
  <1>2. CASE \E w \in Threads : ThreadStep(w)
    BY <1>2 DEF ThreadStep, Take, FinishCall, Serial!mapVars
  <1>3. CASE UNCHANGED poolVars
    BY <1>3 DEF poolVars, Serial!mapVars
  <1>. QED
    BY <1>1, <1>2, <1>3 DEF PoolStep

\* "The output is identical to the sequential run" (README, --concurrency): the
\* pool implements [call(item) for item in items].
THEOREM PoolIsSequential == PoolSpec => IsSequential
  <1>1. PoolInit => Serial!MapInit
    BY InitIsInit
  <1>2. PoolInv /\ [PoolStep]_poolVars => [Serial!MapNext]_(Serial!mapVars)
    BY StepIsStep
  <1>. QED
    BY <1>1, <1>2, PoolIsConsistent, PTL DEF PoolSpec, IsSequential, Serial!MapSpec
=============================================================================
