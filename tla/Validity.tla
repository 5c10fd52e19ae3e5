------------------------------ MODULE Validity ------------------------------
(***************************************************************************)
(* Time in an inspection.  One target is inspected again and again (a cron *)
(* job, a monitoring agent), and every inspection reads the clock several  *)
(* times: analyze counts the days left, certificate_status compares the    *)
(* start of the validity, OpenSSL verifies the chain, diagnose_chain and   *)
(* chain_expiry_warnings look at its dates again, and cab_forum_max_       *)
(* validity asks for today's limit.  Between any two of them time passes,  *)
(* perhaps across the very instant that matters.                           *)
(*                                                                         *)
(* Instants are ticks, Day ticks to a day.  The chain is the leaf and one  *)
(* intermediate; which chain is looked at is the subject of Inspect.       *)
(***************************************************************************)
EXTENDS Integers, Sequences

CONSTANTS
  Unset,      \* no critical window, no verdict yet
  Day,        \* the ticks of a day
  Horizon,    \* the bound of the clock
  Gap,        \* the longest time from one analysis to the next
  Windows,    \* the validity periods of interest
  LimitSets,  \* --days, --critical-days and --no-verify
  Schedule    \* _CAB_FORUM_SCHEDULE, newest entry first

Period == [before : Int, after : Int]
Limits == [warn : Int, critical : Int \cup {Unset}, verify : BOOLEAN]

CAB_FORUM_DEFAULT == 398

\* _validate_args refuses a critical window wider than the warning one.  The limits
\* of the schedule get tighter with time.
ASSUME ValidityAssumption ==
  /\ Day \in Nat \ {0} /\ Horizon \in Nat /\ Gap \in Nat
  /\ Windows \subseteq Period
  /\ LimitSets \subseteq Limits
  /\ \A l \in LimitSets : l.critical # Unset => l.critical <= l.warn
  /\ Schedule \in Seq([start : Int, limit : Nat])
  /\ \A i, j \in 1..Len(Schedule) : i < j => Schedule[i].limit <= Schedule[j].limit

VARIABLES
  leaf,         \* the validity of the inspected certificate
  intermediate, \* the validity of the intermediate sent with it
  limits,       \* the options
  now,          \* the clock
  step,         \* the next step of the inspection
  began,        \* when the last analysis read the clock
  report,       \* what this inspection has found
  last          \* the report of the inspection before

validityVars == <<leaf, intermediate, limits, now, step, began, report, last>>

Dated == {"NOT_YET_VALID", "VALID", "EXPIRING", "CRITICAL", "EXPIRED"}

Report == [days       : Int,
           status     : Dated \cup {"INVALID_DATES", "None"},
           trusted    : BOOLEAN \cup {Unset},
           diagnosis  : {"None", "EXPIRED_IN_CHAIN", "OTHER"},
           warning    : {"None", "expired", "expires"},
           cap        : Nat]

Blank == [days |-> 0, status |-> "None", trusted |-> Unset, diagnosis |-> "None",
          warning |-> "None", cap |-> 0]

ValidityTypeOK ==
  /\ leaf \in Windows /\ intermediate \in Windows /\ limits \in LimitSets
  /\ now \in 0..Horizon
  /\ step \in {"analyze", "status", "verify", "diagnose", "warn", "policy", "reported"}
  /\ began \in 0..now
  /\ report \in Report /\ last \in Report

ValidityInit ==
  /\ leaf \in Windows /\ intermediate \in Windows /\ limits \in LimitSets
  /\ now = 0 /\ began = 0
  /\ step = "analyze"
  /\ report = Blank /\ last = Blank

-----------------------------------------------------------------------------
\* Mutant of DaysLeft: rounded towards zero, as int(delta / day) is.
DaysLeftTruncated(w) ==
  IF w.after >= now THEN (w.after - now) \div Day ELSE -((now - w.after) \div Day)

\* (not_after - now).days: timedelta rounds down, so it is negative at once.
DaysLeft(w) == (w.after - now) \div Day

\* diagnose_chain compares the instants themselves.
HasEnded(w) == w.after < now

InWindow(w, t) == w.before <= t /\ t <= w.after

Analyze ==
  /\ step = "analyze"
  /\ report' = [Blank EXCEPT !.days = DaysLeft(leaf)]
  /\ began' = now
  /\ step' = "status"
  /\ UNCHANGED <<leaf, intermediate, limits, now, last>>

\* Mutant of StatusOf: with a critical window there is no warning window.
StatusEitherOr(days) ==
  IF leaf.before > leaf.after THEN "INVALID_DATES"
  ELSE IF leaf.before > now THEN "NOT_YET_VALID"
  ELSE IF days < 0 THEN "EXPIRED"
  ELSE IF limits.critical # Unset
       THEN IF days < limits.critical THEN "CRITICAL" ELSE "VALID"
  ELSE IF days < limits.warn THEN "EXPIRING" ELSE "VALID"

\* certificate_status reads the clock anew, and the days of the analysis.
StatusOf(days) ==
  IF leaf.before > leaf.after THEN "INVALID_DATES"
  ELSE IF leaf.before > now THEN "NOT_YET_VALID"
  ELSE IF days < 0 THEN "EXPIRED"
  ELSE IF limits.critical # Unset /\ days < limits.critical THEN "CRITICAL"
  ELSE IF days < limits.warn THEN "EXPIRING" ELSE "VALID"

GiveStatus ==
  /\ step = "status"
  /\ report' = [report EXCEPT !.status = StatusOf(report.days)]
  /\ step' = IF limits.verify THEN "verify" ELSE "warn"
  /\ UNCHANGED <<leaf, intermediate, limits, now, began, last>>

-----------------------------------------------------------------------------
(* _check_chain and chain_expiry_warnings                                   *)

\* The verifier accepts no certificate outside its validity; it may refuse the
\* chain for many other reasons.
Verify(ok) ==
  /\ step = "verify"
  /\ ok => InWindow(leaf, now) /\ InWindow(intermediate, now)
  /\ report' = [report EXCEPT !.trusted = ok]
  /\ step' = IF ok THEN "warn" ELSE "diagnose"
  /\ UNCHANGED <<leaf, intermediate, limits, now, began, last>>

Diagnosis == IF HasEnded(leaf) \/ HasEnded(intermediate) THEN "EXPIRED_IN_CHAIN" ELSE "OTHER"

Diagnose ==
  /\ step = "diagnose"
  /\ report' = [report EXCEPT !.diagnosis = Diagnosis]
  /\ step' = "warn"
  /\ UNCHANGED <<leaf, intermediate, limits, now, began, last>>

ChainWarning ==
  IF DaysLeft(intermediate) < 0 THEN "expired"
  ELSE IF DaysLeft(intermediate) < limits.warn THEN "expires" ELSE "None"

Warn ==
  /\ step = "warn"
  /\ report' = [report EXCEPT !.warning = ChainWarning]
  /\ step' = "policy"
  /\ UNCHANGED <<leaf, intermediate, limits, now, began, last>>

-----------------------------------------------------------------------------
(* cab_forum_max_validity                                                   *)

InForce == {i \in 1..Len(Schedule) : Schedule[i].start <= now}

\* Mutant of CabForumMax: the schedule read from its oldest entry.
CabForumMaxOldestFirst ==
  IF InForce = {} THEN CAB_FORUM_DEFAULT
  ELSE Schedule[CHOOSE i \in InForce : \A j \in InForce : j <= i].limit

\* The first entry in force, from the newest on.
CabForumMax ==
  IF InForce = {} THEN CAB_FORUM_DEFAULT
  ELSE Schedule[CHOOSE i \in InForce : \A j \in InForce : i <= j].limit

CheckPolicy ==
  /\ step = "policy"
  /\ report' = [report EXCEPT !.cap = CabForumMax]
  /\ step' = "reported"
  /\ UNCHANGED <<leaf, intermediate, limits, now, began, last>>

-----------------------------------------------------------------------------
\* The next inspection of the same target.
Again ==
  /\ step = "reported"
  /\ last' = report
  /\ report' = Blank
  /\ step' = "analyze"
  /\ UNCHANGED <<leaf, intermediate, limits, now, began>>

\* Time passes between any two readings, up to the schedule of the inspections.
Tick ==
  /\ now < Horizon /\ now < began + Gap
  /\ now' = now + 1
  /\ UNCHANGED <<leaf, intermediate, limits, step, began, report, last>>

ValidityNext ==
  \/ Analyze \/ GiveStatus \/ (\E ok \in BOOLEAN : Verify(ok)) \/ Diagnose \/ Warn
  \/ CheckPolicy \/ Again \/ Tick

ValiditySpec == ValidityInit /\ [][ValidityNext]_validityVars

-----------------------------------------------------------------------------
(* What the outputs make of a report                                        *)

\* Mutant of Below: a bare "N" alerts on values outside 0..N.
OutsideZeroTo(days, n) == days < 0 \/ days > n

\* A Nagios range "N:" alerts on values below N.
Below(days, n) == days < n

\* The rating of the performance data of format_nagios: days;warn:;critical:
PerfdataRating(r) ==
  IF Below(r.days, IF limits.critical = Unset THEN 0 ELSE limits.critical) THEN "CRITICAL"
  ELSE IF Below(r.days, limits.warn) THEN "WARNING" ELSE "OK"

\* _nagios_severity of the exit code of a status.
StatusRating(status) == CASE status = "VALID"    -> "OK"
                          [] status = "EXPIRING" -> "WARNING"
                          [] OTHER               -> "CRITICAL"

\* _expiry_lines: the alert of the text report.
ExpiryLine(r) ==
  CASE r.status = "CRITICAL"      -> "CRITICAL"
    [] r.status = "NOT_YET_VALID" -> "not_valid_until"
    [] OTHER -> IF 0 <= r.days /\ r.days < limits.warn THEN "WARNING" ELSE "None"

\* certinspect_cert_valid of format_prometheus.
CertValid(r) == IF r.status \in {"EXPIRED", "INVALID_DATES"} THEN 0 ELSE 1

-----------------------------------------------------------------------------
(* Properties                                                               *)

Reported == step = "reported"

\* An EXPIRED certificate is never trusted, and its failed verification is put
\* down to the expiry, although the status, the verification and the diagnosis
\* read the clock one after the other.  Conversely, whatever the diagnosis calls
\* expired is the leaf or is warned of: days below zero and an instant in the past
\* are one notion (certificate_status, diagnose_chain, chain_expiry_warnings).
ExpiryIsExplained ==
  Reported =>
    /\ report.status = "EXPIRED" /\ limits.verify =>
         report.trusted = FALSE /\ report.diagnosis = "EXPIRED_IN_CHAIN"
    /\ report.diagnosis = "EXPIRED_IN_CHAIN" => HasEnded(leaf) \/ report.warning = "expired"

\* Inspected often enough, no certificate expires or turns critical without being
\* announced: the report between VALID and EXPIRED says EXPIRING or CRITICAL, and
\* the one between VALID and CRITICAL says EXPIRING (certificate_status).
NoSurpriseExpiry ==
  [][report'.status # report.status /\ last.status = "VALID" =>
       /\ Gap <= limits.warn * Day => report'.status # "EXPIRED"
       /\ limits.critical # Unset /\ Gap <= (limits.warn - limits.critical) * Day
            => report'.status # "CRITICAL"]_validityVars

\* "Graphers colour each series exactly as the plugin rates it" (README), the text
\* report alerts when the status does, and the two Prometheus series agree, for a
\* certificate in its validity period or past it: each output compares the days
\* with the limits anew.
OutputsAgree ==
  Reported /\ report.status \in Dated \ {"NOT_YET_VALID"} =>
    /\ PerfdataRating(report) = StatusRating(report.status)
    /\ (ExpiryLine(report) = "WARNING") = (report.status = "EXPIRING")
    /\ (ExpiryLine(report) = "CRITICAL") = (report.status = "CRITICAL")
    /\ CertValid(report) = 0 <=> report.days < 0

\* No limit already in force is tighter than the one applied (the schedule's
\* "newest first so the first match wins").
CapIsTheTightestInForce ==
  Reported => \A i \in 1..Len(Schedule) :
                Schedule[i].start <= began => report.cap <= Schedule[i].limit
=============================================================================
