----------------------------- MODULE MCValidity -----------------------------
(* Days of three ticks; validities that begin, end or both within the run.  *)
EXTENDS Validity

MCWindows == {[before |-> b, after |-> a] : b \in {-3, 4}, a \in {-1, 7, 9, 12}}

\* Inspections at most four ticks apart: less than a two-day warning window.
MCLimits ==
  {l \in [warn : {0, 1, 2}, critical : {Unset, 0, 1}, verify : BOOLEAN] :
     l.critical # Unset => l.critical <= l.warn}

MCSchedule == <<[start |-> 9, limit |-> 47], [start |-> 6, limit |-> 100],
                [start |-> 2, limit |-> 200]>>
=============================================================================
