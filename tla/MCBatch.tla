------------------------------ MODULE MCBatch ------------------------------
(* Three targets, two of them the same label, with every kind of outcome.   *)
EXTENDS Batch

MCTargets == {"a", "b"}
MCStatuses == {"VALID", "EXPIRED", "NOT YET VALID"}

Reports(t) ==
  {[target |-> t, status |-> "VALID", code |-> 0, due |-> FALSE],
   [target |-> t, status |-> "VALID", code |-> 3, due |-> TRUE],
   [target |-> t, status |-> "VALID", code |-> 9, due |-> FALSE],
   IF t = "a" THEN [target |-> t, status |-> "EXPIRED", code |-> 4, due |-> TRUE]
   ELSE [target |-> t, status |-> "NOT YET VALID", code |-> 4, due |-> FALSE]}

Failure(t) == [target |-> t, status |-> "failed", code |-> 1, due |-> FALSE]

MCAnswers == [i \in 1..3 |-> LET t == IF i = 2 THEN "b" ELSE "a"
                             IN Reports(t) \cup {Failure(t)}]
NoAnswer == [target |-> "none", status |-> "raised", code |-> 1, due |-> FALSE]

Plain == [exporter |-> "none", quiet |-> FALSE, maxDays |-> FALSE,
          stateFile |-> FALSE, onlyChanged |-> FALSE, exitZero |-> FALSE, summary |-> FALSE]

MCOutputs ==
  {Plain, [Plain EXCEPT !.quiet = TRUE],
   [Plain EXCEPT !.maxDays = TRUE, !.summary = TRUE],
   [Plain EXCEPT !.exporter = "nagios"], [Plain EXCEPT !.exporter = "prometheus"],
   [Plain EXCEPT !.exitZero = TRUE],
   [Plain EXCEPT !.stateFile = TRUE, !.onlyChanged = TRUE],
   [Plain EXCEPT !.stateFile = TRUE, !.onlyChanged = TRUE, !.quiet = TRUE,
          !.summary = TRUE]}

MCPrevious == {[t \in MCTargets |-> "VALID"], [t \in MCTargets |-> "absent"],
               [t \in MCTargets |-> IF t = "a" THEN "EXPIRED" ELSE "absent"]}
=============================================================================
