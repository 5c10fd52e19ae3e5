------------------------------ MODULE StateMap ------------------------------
(***************************************************************************)
(* The mappings of update_state (state.py): target label -> status, as the *)
(* last run saved it and as this run sees it.                              *)
(*                                                                         *)
(* A run is the sequence of its outcomes, in report order; the results and *)
(* the errors of one run may name the same label more than once.           *)
(***************************************************************************)
EXTENDS Integers, Sequences, FiniteSets

CONSTANTS
  Targets,    \* the labels of host targets
  Statuses,   \* the certificate statuses
  NoStatus,   \* absent from a mapping
  Failed      \* the outcome of a target that could not be inspected

ASSUME StatusAssumption ==
  NoStatus \notin Statuses /\ Failed \notin Statuses /\ NoStatus # Failed

Mapping  == [Targets -> Statuses \cup {NoStatus}]
EmptyMap == [t \in Targets |-> NoStatus]

Indices(r, t) == {i \in DOMAIN r : r[i].target = t}

\* {r.label: status for r in results}: the last result of a label wins.
Current(r) ==
  [t \in Targets |->
     LET done == {i \in Indices(r, t) : r[i].status # Failed}
     IN IF done = {} THEN NoStatus
        ELSE r[CHOOSE i \in done : \A j \in done : j <= i].status]

FailedTargets(r) == {t \in Targets : \E i \in Indices(r, t) : r[i].status = Failed}

\* Mutant of Changed: a target seen for the first time is no change.
ChangedOfKnown(prev, r) ==
  {t \in Targets : prev[t] # NoStatus /\ Current(r)[t] # NoStatus /\ prev[t] # Current(r)[t]}

Changed(prev, r) ==
  {t \in Targets : Current(r)[t] # NoStatus /\ prev[t] # Current(r)[t]}

\* Mutant of Kept: a failed target is forgotten.
KeptNothing(prev, r) == EmptyMap

\* Mutant of Kept: nothing is ever dropped.
KeptAll(prev, r) == prev

Kept(prev, r) == [t \in Targets |-> IF t \in FailedTargets(r) THEN prev[t] ELSE NoStatus]

\* Mutant of Merged: {**current, **kept}.
MergedOldFirst(kept, current) ==
  [t \in Targets |-> IF kept[t] # NoStatus THEN kept[t] ELSE current[t]]

\* {**kept, **current}
Merged(kept, current) ==
  [t \in Targets |-> IF current[t] # NoStatus THEN current[t] ELSE kept[t]]

NewState(prev, r) == Merged(Kept(prev, r), Current(r))
=============================================================================
