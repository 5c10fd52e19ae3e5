------------------------------- MODULE Batch -------------------------------
(***************************************************************************)
(* One run over a batch of hosts: main hands the targets to _map (the pool *)
(* of OrderedMap, whose actions are the inspections), then tallies the     *)
(* answers in input order, updates the state file, renders the report and  *)
(* picks the exit code.                                                    *)
(*                                                                         *)
(* An answer is what _run returns for one target: its label, the status    *)
(* and exit code of the report, or a failure.  Raised stands for an        *)
(* exception _run does not catch (it catches OSError, SSLError and         *)
(* ValueError).                                                            *)
(***************************************************************************)
EXTENDS OrderedMap, StateMap, ExitCodes, Lists

CONSTANTS
  OutputSets,   \* the output options of interest
  PreviousFiles \* the mappings the state file may hold

\* code is the one of the report; due: days_to_expire <= --max-days.
BatchAnswer ==
  {a \in [target : Targets, status : Statuses \cup {Failed}, code : Codes, due : BOOLEAN] :
     (a.status = Failed) <=> (a.code = RUNTIME_ERROR)}

Output == [exporter : {"none", "nagios", "prometheus"}, quiet : BOOLEAN, maxDays : BOOLEAN,
           stateFile : BOOLEAN, onlyChanged : BOOLEAN, exitZero : BOOLEAN, summary : BOOLEAN]

\* _validate_args: --only-changed requires --state-file.
ASSUME BatchAssumption ==
  /\ \A i \in Item : Answers[i] \subseteq BatchAnswer
  /\ OutputSets \subseteq Output
  /\ \A o \in OutputSets : o.onlyChanged => o.stateFile
  /\ PreviousFiles \subseteq Mapping

VARIABLES
  out,      \* the output options of this run
  phase,    \* what main does: "map", "tally", "state", "render", "exited", "aborted"
  results,  \* the answers that carry a report
  errors,   \* the failed ones
  codes,    \* one exit code per answer
  stderr,   \* the targets of the "error:" lines printed
  saved,    \* the content of the state file
  loaded,   \* what load_state read from it
  changed,  \* what update_state returned
  report,   \* the lines of the report
  summary,  \* the counts of the --summary line, NoSummary when none is printed
  exit      \* the exit code of the process, -1 before it exits

tailVars  == <<out, results, errors, codes, stderr, saved, loaded, changed, report, summary, exit>>
batchVars == <<poolVars, phase, tailVars>>

NagiosSeverities == 0..3

\* The counts of the summary line, the errors counted last.
Category == {"valid", "expiring", "critical", "not-yet-valid", "expired", "mismatch",
             "untrusted", "pin-mismatch", "san-mismatch", "policy", "errors"}

NoSummary == <<>>

BatchTypeOK ==
  /\ PoolTypeOK
  /\ out \in OutputSets
  /\ phase \in {"map", "tally", "state", "render", "exited", "aborted"}
  /\ results \in Seq(BatchAnswer) /\ errors \in Seq(BatchAnswer)
  /\ codes \in Seq(Codes)
  /\ stderr \in Seq(Targets)
  /\ saved \in Mapping /\ loaded \in Mapping /\ changed \subseteq Targets
  /\ report \in Seq(BatchAnswer)
  /\ summary \in [Category -> Nat] \cup {NoSummary}
  /\ exit \in Codes \cup NagiosSeverities \cup {-1}

BatchInit ==
  /\ PoolInit
  /\ out \in OutputSets
  /\ phase = "map"
  /\ results = <<>> /\ errors = <<>> /\ codes = <<>> /\ stderr = <<>>
  /\ saved \in PreviousFiles /\ loaded = EmptyMap
  /\ changed = {} /\ report = <<>> /\ summary = NoSummary /\ exit = -1

-----------------------------------------------------------------------------
(* formatter._nagios_severity and format_nagios                             *)

\* max over the results, CRITICAL for every error, UNKNOWN for an empty list.
NagiosSeverity(c) ==
  IF c = ExitCode.OK THEN 0 ELSE IF c = ExitCode.EXPIRING THEN 1 ELSE 2

\* Mutant of NagiosExit: errors do not count.
NagiosExitOfResults(rs, es) ==
  LET severities == {NagiosSeverity(rs[i].code) : i \in DOMAIN rs}
  IN IF severities = {} THEN 3
     ELSE CHOOSE s \in severities : \A v \in severities : v <= s

NagiosExit(rs, es) ==
  LET severities == {NagiosSeverity(rs[i].code) : i \in DOMAIN rs}
                      \cup (IF es = <<>> THEN {} ELSE {2})
  IN IF severities = {} THEN 3
     ELSE CHOOSE s \in severities : \A v \in severities : v <= s

\* render: the filters of the text, CSV and JSON outputs.
Shown(a) ==
  /\ out.quiet => a.code # ExitCode.OK
  /\ out.maxDays => a.due
  /\ out.onlyChanged => a.target \in changed

Filtered(rs) == Select(rs, {a \in Entries(rs) : Shown(a)})

\* Mutant of Report: the exporters leave out what failed.
ReportOfResults(rs, es) == IF out.exporter = "none" THEN Filtered(rs) ELSE rs

Report(rs, es) == IF out.exporter = "none" THEN Filtered(rs) ELSE rs \o es

-----------------------------------------------------------------------------
(* format_summary                                                           *)

\* By the exit code of the report; the code of bad dates is split by status.
CategoryOf(a) ==
  CASE a.status = Failed                         -> "errors"
    [] a.code = ExitCode.OK                      -> "valid"
    [] a.code = ExitCode.EXPIRING                -> "expiring"
    [] a.code = ExitCode.HOSTNAME_MISMATCH       -> "mismatch"
    [] a.code = ExitCode.UNTRUSTED_OR_REVOKED    -> "untrusted"
    [] a.code = ExitCode.PIN_MISMATCH            -> "pin-mismatch"
    [] a.code = ExitCode.SAN_MISMATCH            -> "san-mismatch"
    [] a.code = ExitCode.POLICY                  -> "policy"
    [] a.code = ExitCode.INVALID /\ a.status = "CRITICAL"      -> "critical"
    [] a.code = ExitCode.INVALID /\ a.status = "NOT YET VALID" -> "not-yet-valid"
    [] OTHER                                     -> "expired"

\* Mutant of Summary: counted after the filters.
SummaryOfShown(rs, es) ==
  [c \in Category |-> Cardinality({i \in DOMAIN Filtered(rs) : CategoryOf(Filtered(rs)[i]) = c})
                       + Cardinality({i \in DOMAIN es : CategoryOf(es[i]) = c})]

Summary(rs, es) ==
  [c \in Category |-> Cardinality({i \in DOMAIN rs : CategoryOf(rs[i]) = c})
                       + Cardinality({i \in DOMAIN es : CategoryOf(es[i]) = c})]

-----------------------------------------------------------------------------
Inspecting == phase = "map" /\ PoolStep /\ UNCHANGED <<phase, tailVars>>

\* The exception _map lets through is a traceback: the interpreter exits 1.
Abort ==
  /\ phase = "map" /\ main = "raised"
  /\ phase' = "aborted" /\ exit' = RUNTIME_ERROR
  /\ UNCHANGED <<poolVars, out, results, errors, codes, stderr, saved, loaded, changed, report,
                 summary>>

Mapped ==
  /\ phase = "map" /\ main = "returned"
  /\ phase' = "tally"
  /\ UNCHANGED <<poolVars, tailVars>>

\* One round of the loop of _inspect_all over the answers.
Tally ==
  /\ phase = "tally" /\ Len(codes) < Len(result)
  /\ LET a == result[Len(codes) + 1]
     IN \/ /\ a.status = Failed
           /\ stderr' = IF out.exporter = "none" THEN Append(stderr, a.target) ELSE stderr
           /\ errors' = Append(errors, a)
           /\ codes' = Append(codes, RUNTIME_ERROR)
           /\ UNCHANGED results
        \/ /\ a.status # Failed
           /\ results' = Append(results, a)
           /\ codes' = Append(codes, a.code)
           /\ UNCHANGED <<stderr, errors>>
  /\ UNCHANGED <<poolVars, phase, out, saved, loaded, changed, report, summary, exit>>

Tallied ==
  /\ phase = "tally" /\ Len(codes) = Len(result)
  /\ phase' = "state"
  /\ UNCHANGED <<poolVars, tailVars>>

UpdateState ==
  /\ phase = "state"
  /\ \/ /\ out.stateFile
        /\ changed' = Changed(saved, results \o errors)
        /\ saved' = NewState(saved, results \o errors)
        /\ loaded' = saved
     \/ ~out.stateFile /\ UNCHANGED <<changed, saved, loaded>>
  /\ phase' = "render"
  /\ UNCHANGED <<poolVars, out, results, errors, codes, stderr, report, summary, exit>>

\* Mutant of Render: the exit code of what is shown.
RenderShownCodes ==
  /\ phase = "render"
  /\ report' = Report(results, errors)
  /\ summary' = IF out.summary /\ out.exporter = "none" THEN Summary(results, errors)
                ELSE NoSummary
  /\ exit' = IF out.exitZero THEN 0
             ELSE IF out.exporter = "nagios" THEN NagiosExit(results, errors)
             ELSE MostSevere({report'[i].code : i \in DOMAIN report'})
  /\ phase' = "exited"
  /\ UNCHANGED <<poolVars, out, results, errors, codes, stderr, saved, loaded, changed>>

\* render and sys.exit.
Render ==
  /\ phase = "render"
  /\ report' = Report(results, errors)
  /\ summary' = IF out.summary /\ out.exporter = "none" THEN Summary(results, errors)
                ELSE NoSummary
  /\ exit' = IF out.exitZero THEN 0
             ELSE IF out.exporter = "nagios" THEN NagiosExit(results, errors)
             ELSE MostSevere(Entries(codes))
  /\ phase' = "exited"
  /\ UNCHANGED <<poolVars, out, results, errors, codes, stderr, saved, loaded, changed>>

BatchOver == phase \in {"exited", "aborted"}

BatchStep == Inspecting \/ Abort \/ Mapped \/ Tally \/ Tallied \/ UpdateState \/ Render

BatchNext == BatchStep \/ (BatchOver /\ UNCHANGED batchVars)

BatchSpec == BatchInit /\ [][BatchNext]_batchVars

TailStep == Abort \/ Mapped \/ Tally \/ Tallied \/ UpdateState \/ Render

FairBatchSpec == BatchSpec /\ PoolFairness /\ WF_batchVars(TailStep)

-----------------------------------------------------------------------------
(* Properties                                                               *)

\* The problems the inspections found, whatever order they finished in.
Found == {answer[i].code : i \in Item}

\* A failed target is counted and the others are still inspected and tallied:
\* the exit code is the worst of all the answers, however the pool scheduled
\* them and whatever the filters hide (main, README --only-changed).
ExitIsTheWorstFound ==
  phase = "exited" /\ ~out.exitZero /\ out.exporter # "nagios" => exit = MostSevere(Found)

\* The plugin code of --exporter nagios never contradicts the exit code the same
\* run has without it (format_nagios and most_severe rank the codes separately).
NagiosAgrees ==
  phase = "exited" /\ ~out.exitZero /\ out.exporter = "nagios" =>
    exit = NagiosSeverity(MostSevere(Found))

\* "Both formats report every target, including hosts that could not be
\* reached" (README, Monitoring); the text output prints one line of each
\* target on stdout or stderr when nothing filters it.
EveryTargetIsReported ==
  phase = "exited" /\ (out.exporter # "none" \/ ~(out.quiet \/ out.maxDays \/ out.onlyChanged)) =>
    \A t \in Targets :
      Cardinality({i \in Item : answer[i].target = t})
        = Cardinality({i \in DOMAIN report : report[i].target = t})
            + Cardinality({i \in DOMAIN stderr : stderr[i] = t})

\* The exit code a category of the summary stands for.
CodeOf == [c \in Category |->
             CASE c = "errors" -> RUNTIME_ERROR
               [] c = "valid" -> ExitCode.OK
               [] c = "expiring" -> ExitCode.EXPIRING
               [] c = "mismatch" -> ExitCode.HOSTNAME_MISMATCH
               [] c = "untrusted" -> ExitCode.UNTRUSTED_OR_REVOKED
               [] c = "pin-mismatch" -> ExitCode.PIN_MISMATCH
               [] c = "san-mismatch" -> ExitCode.SAN_MISMATCH
               [] c = "policy" -> ExitCode.POLICY
               [] OTHER -> ExitCode.INVALID]

\* The targets a summary line counts.
Counted(line) ==
  line["valid"] + line["expiring"] + line["critical"] + line["not-yet-valid"] + line["expired"]
    + line["mismatch"] + line["untrusted"] + line["pin-mismatch"] + line["san-mismatch"]
    + line["policy"] + line["errors"]

\* The one line of --summary counts every target once, whatever the filters hide,
\* and its worst category is the exit code (format_summary, most_severe).
SummaryAgrees ==
  phase = "exited" /\ summary # NoSummary =>
    /\ Counted(summary) = N
    /\ out.exitZero \/ exit = MostSevere({CodeOf[c] : c \in {k \in Category : summary[k] > 0}})

\* --only-changed shows every target whose status differs from the one the
\* state file held, one seen for the first time or twice in the batch included,
\* unless another filter hides it.
EveryChangeIsShown ==
  phase = "exited" /\ out.onlyChanged /\ out.exporter = "none" /\ ~out.quiet /\ ~out.maxDays =>
    \A i \in DOMAIN results :
      loaded[results[i].target] # Current(results)[results[i].target]
        => \E j \in DOMAIN report : report[j] = results[i]

\* Nothing but an inspection that hangs keeps a run from its exit code: if no call
\* goes on for ever, the run ends, with every future waited for, every thread joined
\* and the calls cancelled that an exception leaves behind (_map, _inspect_all).
OnlyACallHangs == (\A i \in Item : []<>~Running(i)) => <>BatchOver
=============================================================================
