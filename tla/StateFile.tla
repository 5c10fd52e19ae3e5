----------------------------- MODULE StateFile -----------------------------
(***************************************************************************)
(* --state-file / --only-changed (state.py and its call in main): each run *)
(* loads the statuses of the previous one, reports the targets whose       *)
(* status changed and rewrites the file in place, for the next run.        *)
(*                                                                         *)
(* Runs are processes.  They may be started while another one still works  *)
(* (a slow cron job), be killed at any point, and fail to write.  The file *)
(* is truncated when it is opened and holds no JSON until the write ends.  *)
(***************************************************************************)
EXTENDS StateMap

CONSTANTS
  Procs,      \* the processes that may run certinspect
  Settings,   \* what may happen: see Setting
  MaxItems    \* bound: targets listed in one run

\* The processes that may overlap, the faults that may occur and the bound on the
\* runs started.
Setting == [procs : SUBSET Procs, faults : SUBSET {"open", "full", "crash"}, runs : Nat]

ASSUME StateFileAssumption ==
  /\ Settings \subseteq Setting
  /\ MaxItems \in Nat
  /\ IsFiniteSet(Procs)

\* A target listed twice (or discovered again) gives two outcomes of one label.
Outcome == [target : Targets, status : Statuses \cup {Failed}]
Runs    == UNION {[1..n -> Outcome] : n \in 1..MaxItems}

VARIABLES
  setting,   \* the setting of this behaviour
  file,      \* the state file: a mapping, or unreadable
  pc,        \* what each process does
  run,       \* the outcomes of its run
  previous,  \* what it loaded
  reported,  \* the targets it will report as changed
  history,   \* the runs that updated the state, in order (the reference)
  before     \* how many of them came before each process's run

vars == <<setting, file, pc, run, previous, reported, history, before>>

TypeOK ==
  /\ setting \in Settings
  /\ file \in [readable : {TRUE}, map : Mapping] \cup [readable : {FALSE}, map : {EmptyMap}]
  /\ pc \in [Procs -> {"idle", "load", "open", "write", "render"}]
  /\ run \in [Procs -> Runs \cup {<<>>}]
  /\ previous \in [Procs -> Mapping]
  /\ reported \in [Procs -> SUBSET Targets]
  /\ history \in Seq(Runs)
  /\ before \in [Procs -> 0..setting.runs]

\* A missing, truncated or malformed file: load_state reads it as {}.
NoFile == [readable |-> FALSE, map |-> EmptyMap]
Written(m) == [readable |-> TRUE, map |-> m]

-----------------------------------------------------------------------------
Init ==
  /\ setting \in Settings
  /\ file = NoFile
  /\ pc = [p \in Procs |-> "idle"]
  /\ run = [p \in Procs |-> <<>>]
  /\ previous = [p \in Procs |-> EmptyMap]
  /\ reported = [p \in Procs |-> {}]
  /\ history = <<>>
  /\ before = [p \in Procs |-> 0]

\* _inspect_all has the results and errors of a run.
Inspected(p, r) ==
  /\ pc[p] = "idle"
  /\ Len(history) + Cardinality({q \in Procs : pc[q] = "load"}) < setting.runs
  /\ run' = [run EXCEPT ![p] = r]
  /\ pc' = [pc EXCEPT ![p] = "load"]
  /\ UNCHANGED <<setting, file, previous, reported, history, before>>

\* load_state, and the sets update_state computes from it.
Load(p) ==
  /\ pc[p] = "load"
  /\ previous' = [previous EXCEPT ![p] = file.map]
  /\ reported' = [reported EXCEPT ![p] = Changed(file.map, run[p])]
  /\ history' = Append(history, run[p])
  /\ before' = [before EXCEPT ![p] = Len(history)]
  /\ pc' = [pc EXCEPT ![p] = "open"]
  /\ UNCHANGED <<setting, file, run>>

\* open(path, "w") truncates.
Open(p) ==
  /\ pc[p] = "open"
  /\ file' = NoFile
  /\ pc' = [pc EXCEPT ![p] = "write"]
  /\ UNCHANGED <<setting, run, previous, reported, history, before>>

\* An unwritable path: save_state only warns.
OpenFails(p) ==
  /\ "open" \in setting.faults
  /\ pc[p] = "open"
  /\ pc' = [pc EXCEPT ![p] = "render"]
  /\ UNCHANGED <<setting, file, run, previous, reported, history, before>>

\* json.dump and the close: over bytes another process wrote meanwhile, the
\* longer of the two texts leaves a tail behind and the file is no JSON.
Write(p) ==
  /\ pc[p] = "write"
  /\ LET mine == Written(NewState(previous[p], run[p]))
     IN file' \in IF file \in {NoFile, mine} THEN {mine} ELSE {mine, NoFile}
  /\ pc' = [pc EXCEPT ![p] = "render"]
  /\ UNCHANGED <<setting, run, previous, reported, history, before>>

\* A full disk: the text is cut short, save_state only warns.
WriteFails(p) ==
  /\ "full" \in setting.faults
  /\ pc[p] = "write"
  /\ file' = NoFile
  /\ pc' = [pc EXCEPT ![p] = "render"]
  /\ UNCHANGED <<setting, run, previous, reported, history, before>>

Exit(p) ==
  /\ pc' = [pc EXCEPT ![p] = "idle"]
  /\ run' = [run EXCEPT ![p] = <<>>]
  /\ previous' = [previous EXCEPT ![p] = EmptyMap]
  /\ reported' = [reported EXCEPT ![p] = {}]
  /\ before' = [before EXCEPT ![p] = 0]
  /\ UNCHANGED <<setting, file, history>>

\* The report, then the process exits.
RenderAndExit(p) == pc[p] = "render" /\ Exit(p)

\* The process is killed before its report.
Crash(p) == "crash" \in setting.faults /\ pc[p] # "idle" /\ Exit(p)

Step(p) == \/ \E r \in Runs : Inspected(p, r)
           \/ Load(p) \/ Open(p) \/ OpenFails(p) \/ Write(p) \/ WriteFails(p)
           \/ RenderAndExit(p) \/ Crash(p)

\* Nothing is left to do once all runs are over.
Finished == Len(history) = setting.runs /\ (\A p \in Procs : pc[p] = "idle") /\ UNCHANGED vars

Next == (\E p \in setting.procs : Step(p)) \/ Finished

Spec == Init /\ [][Next]_vars

-----------------------------------------------------------------------------
(* Properties                                                               *)

\* One run after the other, and every one of them to its end.
Calm == setting.faults = {} /\ Cardinality(setting.procs) = 1

\* The last status a target was seen with in the first n runs of the history,
\* unless a later one of them no longer listed it (the reference definition).
LastKnown(t, n) ==
  LET seen == {k \in 1..n : Current(history[k])[t] # NoStatus}
  IN IF seen = {} THEN NoStatus
     ELSE LET last == CHOOSE k \in seen : \A j \in seen : j <= k
          IN IF \A k \in (last + 1)..n : t \in FailedTargets(history[k])
             THEN Current(history[last])[t] ELSE NoStatus

\* A target is reported as changed exactly when its status differs from the last
\* one known, however many outages, removals and duplicates came in between: an
\* outage is no change, and no change is missed (update_state, README
\* --state-file).
ChangedIsExact ==
  Calm => \A p \in Procs : pc[p] = "render" =>
    \A t \in Targets :
      t \in reported[p] <=> /\ Current(run[p])[t] # NoStatus
                          /\ LastKnown(t, before[p]) # Current(run[p])[t]

\* A target removed from the list is dropped: the file never lists a target
\* outside the run that wrote it.
RemovedIsForgotten ==
  file.readable =>
    \E k \in DOMAIN history :
      \A t \in Targets : file.map[t] # NoStatus => Indices(history[k], t) # {}

\* Whatever fault or overlap came before, a run that leaves the file readable
\* leaves every status it saw itself in it: a target that failed and answered in
\* one run, too, is saved with its answer (save_state, update_state).
SavedIsCurrent ==
  [][\A p \in Procs : pc[p] = "write" /\ pc'[p] = "render" /\ file'.readable =>
        \A t \in Targets : Current(run[p])[t] # NoStatus => file'.map[t] = Current(run[p])[t]]_vars
=============================================================================
