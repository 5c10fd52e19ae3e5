------------------------------- MODULE Report -------------------------------
(***************************************************************************)
(* What one inspection shows in each output format: the check lines of the *)
(* text (_check_lines), the sections of the JSON object (_result_to_v2)    *)
(* and the Prometheus gauges (format_prometheus).  Each decides anew, from *)
(* which fields of the report exist, what to show; the exit code was       *)
(* decided long before.  The properties ask that whoever reads only one of *)
(* the outputs reaches the verdict of the exit code.                       *)
(*                                                                         *)
(* An output is the set of the <<label, value>> pairs it shows; a label    *)
(* has _ for a blank.                                                      *)
(***************************************************************************)
EXTENDS Inspect

Entry(shown, label, value) == IF shown THEN {<<label, value>>} ELSE {}

\* A field that _inspect only sets when its check ran.
Ran(verdict) == verdict # "None"

-----------------------------------------------------------------------------
(* format_human                                                             *)

\* Mutant of CheckLines: the chain lines stand on the verified chain.
CheckLinesOfVerified ==
  Entry(Ran(info.hostname_match), "Hostname_match", info.hostname_match)
    \cup Entry(Ran(info.sans_covered), "Expected_SAN", info.sans_covered)
    \cup Entry(Ran(info.policy_met), "Policy", info.policy_met)
    \cup Entry(verified # <<>>, "Chain_trusted", info.chain_trusted)
    \cup Entry(Ran(info.revocation_status), "Revocation", info.revocation_status)
    \cup Entry(Ran(info.pin_match), "Pin_match", info.pin_match)

CheckLines ==
  Entry(Ran(info.hostname_match), "Hostname_match", info.hostname_match)
    \cup Entry(Ran(info.sans_covered), "Expected_SAN", info.sans_covered)
    \cup Entry(Ran(info.policy_met), "Policy", info.policy_met)
    \cup Entry(Ran(info.chain_trusted), "Chain_trusted", info.chain_trusted)
    \cup Entry(Ran(info.chain_diagnosis), "Chain_diagnosis", info.chain_diagnosis)
    \cup {<<"WARNING", w>> : w \in info.chain_warnings}
    \cup Entry(Ran(info.revocation_status), "Revocation", info.revocation_status)
    \cup Entry(Ran(info.pin_match), "Pin_match", info.pin_match)

ExtensionLines == Entry(opts.source = "host", "TLS_version", "negotiated")

\* --chain lists what was presented, or the inspected certificate alone.
ChainSummary ==
  IF ~opts.chain THEN {}
  ELSE IF presented # <<>> THEN {presented[i] : i \in 1..Len(presented)} ELSE {cert}

ChainLines == {<<"Certificate_chain", c>> : c \in ChainSummary}

Text == {<<"Status", info.status>>} \cup ExtensionLines \cup CheckLines \cup ChainLines

-----------------------------------------------------------------------------
(* _result_to_v2: a section appears when one of its fields does.            *)

ChainSection ==
  IF ~Ran(info.chain_trusted) /\ ChainSummary = {} /\ info.chain_warnings = {} THEN {}
  ELSE Entry(Ran(info.chain_trusted), "chain.trusted", info.chain_trusted)
         \cup Entry(Ran(info.chain_trusted), "chain.diagnosis", info.chain_diagnosis)
         \cup {<<"chain.warnings", info.chain_warnings>>}
         \cup {<<"chain.certificates", c>> : c \in ChainSummary}

Json ==
  {<<"status", info.status>>, <<"hostname_match", info.hostname_match>>}
    \cup Entry(opts.source = "host", "connection", "negotiated")
    \cup ChainSection
    \cup Entry(Ran(info.revocation_status), "revocation.status", info.revocation_status)
    \cup Entry(Ran(info.policy_met), "policy.violations", info.policy_met)
    \cup Entry(Ran(info.pin_match), "pin_match", info.pin_match)
    \cup Entry(Ran(info.sans_covered), "expected_san_missing", info.sans_covered)

-----------------------------------------------------------------------------
(* format_prometheus                                                        *)

ToGauge(b) == IF b THEN 1 ELSE 0

\* Mutant of RevokedGauge: every answer that is not GOOD is an alarm.
RevokedGaugeOfAnyAnswer ==
  Entry(Ran(info.revocation_status), "cert_revoked",
        ToGauge(info.revocation_status # "GOOD"))

\* Only for a definitive answer.
RevokedGauge ==
  Entry(info.revocation_status \in {"GOOD", "REVOKED"}, "cert_revoked",
        ToGauge(info.revocation_status = "REVOKED"))

Gauges ==
  {<<"up", 1>>, <<"cert_valid", ToGauge(info.status \notin {"EXPIRED", "INVALID DATES"})>>}
    \cup Entry(Ran(info.hostname_match), "hostname_match",
               ToGauge(info.hostname_match = "True"))
    \cup Entry(Ran(info.chain_trusted), "chain_trusted",
               ToGauge(info.chain_trusted = "True"))
    \cup RevokedGauge
    \cup Entry(Ran(info.policy_met), "policy_ok", ToGauge(info.policy_met = "True"))

-----------------------------------------------------------------------------
(* Properties                                                               *)

StatusCodes(output, label) ==
  {EXIT_BY_STATUS[s] : s \in {x \in Status : <<label, x>> \in output}}

\* The verdict of a reader of the text.
TextProblems ==
  StatusCodes(Text, "Status")
    \cup Problem(<<"Hostname_match", "False">> \in Text, ExitCode.HOSTNAME_MISMATCH)
    \cup Problem(<<"Chain_trusted", "False">> \in Text \/ <<"Revocation", "REVOKED">> \in Text,
                 ExitCode.UNTRUSTED_OR_REVOKED)
    \cup Problem(<<"Pin_match", "False">> \in Text, ExitCode.PIN_MISMATCH)
    \cup Problem(<<"Expected_SAN", "False">> \in Text, ExitCode.SAN_MISMATCH)
    \cup Problem(<<"Policy", "False">> \in Text, ExitCode.POLICY)

\* The verdict of a program that reads the JSON object.
JsonProblems ==
  StatusCodes(Json, "status")
    \cup Problem(<<"hostname_match", "False">> \in Json, ExitCode.HOSTNAME_MISMATCH)
    \cup Problem(<<"chain.trusted", "False">> \in Json
                   \/ <<"revocation.status", "REVOKED">> \in Json,
                 ExitCode.UNTRUSTED_OR_REVOKED)
    \cup Problem(<<"pin_match", "False">> \in Json, ExitCode.PIN_MISMATCH)
    \cup Problem(<<"expected_san_missing", "False">> \in Json, ExitCode.SAN_MISMATCH)
    \cup Problem(<<"policy.violations", "False">> \in Json, ExitCode.POLICY)

\* The text and the JSON object each show the problem behind the exit code, and
\* none more severe: neither carries the code itself (_check_lines, _result_to_v2).
OutputsExplainTheCode ==
  Reported => MostSevere(TextProblems) = code /\ MostSevere(JsonProblems) = code

\* The alarms an alerting rule would raise over the gauges.
Alarms ==
  Problem(<<"cert_valid", 0>> \in Gauges, ExitCode.INVALID)
    \cup Problem(<<"hostname_match", 0>> \in Gauges, ExitCode.HOSTNAME_MISMATCH)
    \cup Problem(<<"chain_trusted", 0>> \in Gauges \/ <<"cert_revoked", 1>> \in Gauges,
                 ExitCode.UNTRUSTED_OR_REVOKED)
    \cup Problem(<<"policy_ok", 0>> \in Gauges, ExitCode.POLICY)

\* No alarm without a code at least as severe, and the gauges alarm for the code
\* itself wherever they have one for it: pins, expected names, the critical
\* window and a validity to come have none (format_prometheus).
AlarmsMatchTheCode ==
  Reported =>
    /\ \A a \in Alarms : AtLeastAsSevere(code, a)
    /\ code \in {ExitCode.HOSTNAME_MISMATCH, ExitCode.UNTRUSTED_OR_REVOKED, ExitCode.POLICY}
         => code \in Alarms
    /\ code = ExitCode.INVALID /\ info.status \notin {"CRITICAL", "NOT YET VALID"}
         => code \in Alarms
=============================================================================
