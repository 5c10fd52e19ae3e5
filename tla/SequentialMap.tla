--------------------------- MODULE SequentialMap ---------------------------
(***************************************************************************)
(* What cli._map promises: the list comprehension                          *)
(*     [call(item) for item in items]                                      *)
(* one answer per item, in the order of the items; an exception of a call  *)
(* ends the map with that exception, after the answers of the items before *)
(* it.                                                                     *)
(***************************************************************************)
EXTENDS Integers, Sequences

CONSTANTS
  N,         \* the number of items
  Answers,   \* what call(i) may return: [1..N -> set of answers]
  Raised     \* an exception of call, no answer

VARIABLES
  result,    \* the answers so far
  outcome    \* "mapping", "returned" or "raised"

mapVars == <<result, outcome>>

MapInit == result = <<>> /\ outcome = "mapping"

Answer(a) ==
  /\ outcome = "mapping" /\ Len(result) < N
  /\ a \in Answers[Len(result) + 1]
  /\ result' = Append(result, a)
  /\ UNCHANGED outcome

Raise ==
  /\ outcome = "mapping" /\ Len(result) < N
  /\ outcome' = "raised"
  /\ UNCHANGED result

Return ==
  /\ outcome = "mapping" /\ Len(result) = N
  /\ outcome' = "returned"
  /\ UNCHANGED result

MapNext ==
  \/ \E a \in UNION {Answers[i] : i \in 1..N} : Answer(a)
  \/ Raise
  \/ Return

MapSpec == MapInit /\ [][MapNext]_mapVars
=============================================================================
