----------------------------- MODULE ExitCodes -----------------------------
(***************************************************************************)
(* The exit codes of certinspect (exit_codes.py): the codes themselves,    *)
(* the date status each one stands for, and the order in which the worst   *)
(* of several codes is picked.  The numbers are labels: 6 is the most      *)
(* severe code, and the runtime error 1 ranks between 5 and 8.             *)
(***************************************************************************)
EXTENDS Integers, FiniteSets

ExitCode == [OK                   |-> 0,
             EXPIRING             |-> 3,
             INVALID              |-> 4,
             HOSTNAME_MISMATCH    |-> 5,
             UNTRUSTED_OR_REVOKED |-> 6,
             PIN_MISMATCH         |-> 7,
             SAN_MISMATCH         |-> 8,
             POLICY               |-> 9]

\* Mutant of RUNTIME_ERROR: the usage error of argparse.
ARGPARSE_ERROR == 2

RUNTIME_ERROR == 1

Codes == {0, 1, 3, 4, 5, 6, 7, 8, 9}

Status == {"VALID", "EXPIRING", "CRITICAL", "EXPIRED", "NOT YET VALID", "INVALID DATES"}

RevocationStatus == {"GOOD", "REVOKED", "UNKNOWN", "UNAVAILABLE"}

EXIT_BY_STATUS == [s \in Status |->
                     IF s = "VALID" THEN ExitCode.OK
                     ELSE IF s = "EXPIRING" THEN ExitCode.EXPIRING
                     ELSE ExitCode.INVALID]

\* Rank 1 is the most severe code.
SeverityOrder == <<ExitCode.UNTRUSTED_OR_REVOKED, ExitCode.PIN_MISMATCH,
                   ExitCode.INVALID, ExitCode.HOSTNAME_MISMATCH, RUNTIME_ERROR,
                   ExitCode.SAN_MISMATCH, ExitCode.POLICY, ExitCode.EXPIRING,
                   ExitCode.OK>>

SeverityRank == [c \in Codes |-> CHOOSE i \in 1..9 : SeverityOrder[i] = c]

AtLeastAsSevere(c, d) == SeverityRank[c] <= SeverityRank[d]

\* most_severe: ExitCode.OK when there is no code at all.
MostSevere(codes) ==
  IF codes = {} THEN ExitCode.OK
  ELSE CHOOSE c \in codes : \A d \in codes : AtLeastAsSevere(c, d)
=============================================================================
