---------------------------- MODULE VerdictProofs ----------------------------
(***************************************************************************)
(* The verdicts of an inspection that hang on time and on other servers    *)
(* are true.  Those of check_revocation, for certificates with any number  *)
(* of CA Issuers URLs and distribution points; and the status, the         *)
(* diagnosis and the limit of the policy, for every validity, schedule and *)
(* length of a day, however much time passes between two readings of the   *)
(* clock.                                                                  *)
(***************************************************************************)
EXTENDS Revocation, Validity, CommonProofs

-----------------------------------------------------------------------------
(* Revocation                                                               *)


RevokedIsTrueWithoutHolds == ~Holds => RevokedIsTrue

\* No verdict without the issuer that signed the certificate.
VerdictIsAnchored == status \in {"GOOD", "REVOKED", "UNKNOWN"} => issuer

\* What the loops know when they stop or go on: no CRL is asked before the OCSP
\* responder, so the last document is the decisive one; a verdict was reached with
\* an issuer, GOOD and REVOKED are the truth, and none is given before the end.
IInv ==
  /\ pc \in {"issuer", "ocsp", "crl", "done"}
  /\ crls \in Seq(Crl \cup {NoAnswer})
  /\ pc \in {"issuer", "ocsp"} => crls = <<>>
  /\ pc # "done" => status = "none"
  /\ GoodIsTrue
  /\ RevokedIsTrueWithoutHolds
  /\ VerdictIsAnchored

\* The invariant holds before the first download.
LEMMA InitIInv == Init => IInv
  BY DEF Init, IInv, GoodIsTrue, RevokedIsTrue, RevokedIsTrueWithoutHolds,
     VerdictIsAnchored

\* A usable OCSP answer tells the truth: GOOD is current unless it has no end.
LEMMA OcspTellsTheTruth ==
  ASSUME NEW a \in OcspAnswer, OcspPossible(a), OcspUsable(a)
  PROVE  /\ a.says = "GOOD" => ~isRevoked \/ a.window = "none"
         /\ a.says = "REVOKED" => isRevoked
  BY DEF OcspPossible, OcspUsable, OcspAnswer, Window

\* So does a usable CRL: absence counts only in a complete one that is current
\* or has no end; an entry counts unless it is a release from hold.
LEMMA CrlTellsTheTruth ==
  ASSUME NEW c \in Crl, CrlPossible(c), c.authentic
  PROVE  /\ Lists(c) /\ ~Holds => isRevoked
         /\ ~Lists(c) /\ ~c.partial /\ c.window # "over" => ~isRevoked \/ c.window = "none"
  BY DEF CrlPossible, Crl, Lists, Window

\* The OCSP step keeps the invariant.
LEMMA AskOcspIInv ==
  ASSUME IInv, NEW a \in OcspAnswer \cup {NoAnswer}, AskOcsp(a)
  PROVE  IInv'
<1>1. /\ UNCHANGED <<isRevoked, issuer, crls>>
      /\ issuer /\ status = "none" /\ crls = <<>> /\ ocsp' = a
  BY DEF AskOcsp, Certificate, IInv
<1>2. CASE OcspVerdict(a) = "UNAVAILABLE"
  BY <1>1, <1>2 DEF AskOcsp, IInv, GoodIsTrue, RevokedIsTrue,
     RevokedIsTrueWithoutHolds, VerdictIsAnchored
<1>3. CASE OcspVerdict(a) # "UNAVAILABLE"
  <2>1. a # NoAnswer /\ a \in OcspAnswer /\ OcspUsable(a) /\ OcspPossible(a)
        /\ OcspVerdict(a) = a.says
    BY <1>3 DEF OcspVerdict, AskOcsp
  <2>2. pc' = "done" /\ status' = a.says
    BY <1>3, <2>1 DEF AskOcsp
  <2>3. /\ a.says = "GOOD" => ~isRevoked \/ a.window = "none"
        /\ a.says = "REVOKED" => isRevoked
    BY <2>1, OcspTellsTheTruth
  <2>4. Decisive' = a
    BY <1>1 DEF Decisive
  <2>. QED
    BY <1>1, <2>2, <2>3, <2>4 DEF IInv, GoodIsTrue, RevokedIsTrue,
       RevokedIsTrueWithoutHolds, VerdictIsAnchored
<1>. QED
  BY <1>2, <1>3

\* So does each round of the CRL loop.
LEMMA FetchCrlIInv ==
  ASSUME IInv, NEW c \in Crl \cup {NoAnswer}, FetchCrl(c)
  PROVE  IInv'
<1>1. UNCHANGED <<isRevoked, issuer>> /\ issuer /\ status = "none" /\ pc = "crl"
  BY DEF FetchCrl, Certificate, IInv
<1>2. crls' \in Seq(Crl \cup {NoAnswer}) /\ Decisive' = c
  <2>1. crls' = Append(crls, c) /\ crls \in Seq(Crl \cup {NoAnswer})
    BY DEF FetchCrl, IInv
  <2>2. crls' # <<>> /\ crls'[Len(crls')] = c /\ crls' \in Seq(Crl \cup {NoAnswer})
    BY <2>1
  <2>. QED
    BY <2>2 DEF Decisive
<1>3. CASE UNCHANGED <<pc, status>>
  BY <1>1, <1>2, <1>3 DEF IInv, GoodIsTrue, RevokedIsTrue,
     RevokedIsTrueWithoutHolds, VerdictIsAnchored
<1>4. CASE CrlUsable(c) /\ Lists(c) /\ Stop("REVOKED")
  <2>1. ~Holds => isRevoked
    BY <1>4, CrlTellsTheTruth DEF CrlUsable, FetchCrl
  <2>2. pc' = "done" /\ status' = "REVOKED"
    BY <1>4 DEF Stop
  <2>. QED
    BY <1>1, <1>2, <2>1, <2>2 DEF IInv, GoodIsTrue, RevokedIsTrue,
       RevokedIsTrueWithoutHolds, VerdictIsAnchored
<1>5. CASE CrlUsable(c) /\ ~Lists(c) /\ ~c.partial /\ Stop(Complete(c))
  <2>1. c.window # "over" => ~isRevoked \/ c.window = "none"
    BY <1>5, CrlTellsTheTruth DEF CrlUsable, FetchCrl
  <2>2. pc' = "done" /\ status' = IF c.window # "over" THEN "GOOD" ELSE "UNAVAILABLE"
    BY <1>5 DEF Stop, Complete
  <2>. QED
    BY <1>1, <1>2, <2>1, <2>2 DEF IInv, GoodIsTrue, RevokedIsTrue,
       RevokedIsTrueWithoutHolds, VerdictIsAnchored
<1>. QED
  BY <1>3, <1>4, <1>5 DEF FetchCrl

\* Every step keeps the invariant.
LEMMA NextIInv == IInv /\ [Next]_vars => IInv'
<1>. SUFFICES ASSUME IInv, [Next]_vars PROVE IInv'
  OBVIOUS
<1>. USE DEF IInv, GoodIsTrue, RevokedIsTrue, RevokedIsTrueWithoutHolds,
     VerdictIsAnchored, Certificate, Decisive
<1>1. CASE FetchIssuer
  BY <1>1 DEF FetchIssuer
<1>2. CASE IssuerKnownOrNot
  BY <1>2 DEF IssuerKnownOrNot
<1>3. CASE \E a \in OcspAnswer \cup {NoAnswer} : AskOcsp(a)
  BY <1>3, AskOcspIInv
<1>4. CASE SkipOcsp
  BY <1>4 DEF SkipOcsp
<1>5. CASE \E c \in Crl \cup {NoAnswer} : FetchCrl(c)
  BY <1>5, FetchCrlIInv
<1>6. CASE NoMoreCrls
  BY <1>6 DEF NoMoreCrls, Stop
<1>7. CASE Done
  BY <1>7 DEF Done, vars
<1>8. CASE UNCHANGED vars
  BY <1>8 DEF vars
<1>. QED
  BY <1>1, <1>2, <1>3, <1>4, <1>5, <1>6, <1>7, <1>8 DEF Next

\* The invariant holds in every reachable state.
THEOREM Invariance == Spec => []IInv
  BY InitIInv, NextIInv, PTL DEF Spec

\* check_revocation never calls a revoked certificate GOOD on the word of a document
\* with an end of validity, whatever its sources answer and however many it asks.
THEOREM GoodIsSound == Spec => []GoodIsTrue
<1>1. IInv => GoodIsTrue
  BY DEF IInv
<1>. QED
  BY <1>1, Invariance, PTL

\* Of a CA that never releases a certificate from hold, it never calls a
\* certificate REVOKED that the CA has not revoked.
THEOREM RevokedIsSound == ASSUME ~Holds PROVE Spec => []RevokedIsTrue
<1>1. IInv => RevokedIsTrue
  BY DEF IInv, RevokedIsTrueWithoutHolds
<1>. QED
  BY <1>1, Invariance, PTL

-----------------------------------------------------------------------------
(* No verdict before every source was asked                                 *)

\* The CRL loop downloads every distribution point once, in order: tried counts
\* them; and what ended it without a verdict is one of the documents it kept.
ExhaustiveInv ==
  /\ crls \in Seq(Crl \cup {NoAnswer})
  /\ pc \in {"issuer", "ocsp"} => crls = <<>>
  /\ pc = "crl" => tried = Len(crls)
  /\ pc # "done" => status = "none"
  /\ UnavailableIsExhaustive

\* The last document of the loop is one it kept.
LEMMA LastOfCrls ==
  ASSUME NEW s \in Seq(Crl \cup {NoAnswer}), NEW c \in Crl \cup {NoAnswer}
  PROVE  /\ Append(s, c) \in Seq(Crl \cup {NoAnswer})
         /\ Len(Append(s, c)) = Len(s) + 1
         /\ \E i \in DOMAIN Append(s, c) : Append(s, c)[i] = c
<1>1. /\ Append(s, c) \in Seq(Crl \cup {NoAnswer}) /\ Len(s) \in Nat
      /\ Len(Append(s, c)) = Len(s) + 1 /\ Append(s, c)[Len(s) + 1] = c
  OBVIOUS
<1>2. Len(s) + 1 \in DOMAIN Append(s, c)
  BY <1>1
<1>. QED
  BY <1>1, <1>2

\* A round of the CRL loop.
LEMMA FetchCrlExhaustive ==
  ASSUME ExhaustiveInv, NEW c \in Crl \cup {NoAnswer}, FetchCrl(c)
  PROVE  ExhaustiveInv'
<1>1. /\ pc = "crl" /\ status = "none" /\ tried' = tried + 1 /\ tried = Len(crls)
      /\ crls' = Append(crls, c)
  BY DEF FetchCrl, ExhaustiveInv
<1>2. /\ crls' \in Seq(Crl \cup {NoAnswer}) /\ Len(crls') = tried'
      /\ \E i \in DOMAIN crls' : crls'[i] = c
  BY <1>1, LastOfCrls DEF ExhaustiveInv
<1>3. CASE UNCHANGED <<pc, status>>
  BY <1>1, <1>2, <1>3 DEF ExhaustiveInv, UnavailableIsExhaustive
<1>4. CASE CrlUsable(c) /\ Lists(c) /\ Stop("REVOKED")
  BY <1>1, <1>2, <1>4 DEF ExhaustiveInv, UnavailableIsExhaustive, Stop
<1>5. CASE CrlUsable(c) /\ ~Lists(c) /\ ~c.partial /\ Stop(Complete(c))
  <2>1. pc' = "done" /\ (status' = "UNAVAILABLE" => c.window = "over")
    BY <1>5 DEF Stop, Complete
  <2>. QED
    BY <1>1, <1>2, <1>5, <2>1 DEF ExhaustiveInv, UnavailableIsExhaustive, CrlUsable
<1>. QED
  BY <1>3, <1>4, <1>5 DEF FetchCrl

\* Every step.
LEMMA NextExhaustive == ExhaustiveInv /\ [Next]_vars => ExhaustiveInv'
<1>. SUFFICES ASSUME ExhaustiveInv, [Next]_vars PROVE ExhaustiveInv'
  OBVIOUS
<1>. USE DEF ExhaustiveInv, UnavailableIsExhaustive, Certificate
<1>1. CASE FetchIssuer
  BY <1>1 DEF FetchIssuer
<1>2. CASE IssuerKnownOrNot
  BY <1>2 DEF IssuerKnownOrNot
<1>3. CASE \E a \in OcspAnswer \cup {NoAnswer} : AskOcsp(a)
  BY <1>3 DEF AskOcsp
<1>4. CASE SkipOcsp
  BY <1>4 DEF SkipOcsp
<1>5. CASE \E c \in Crl \cup {NoAnswer} : FetchCrl(c)
  BY <1>5, FetchCrlExhaustive
<1>6. CASE NoMoreCrls
  BY <1>6 DEF NoMoreCrls, Stop
<1>7. CASE Done
  BY <1>7 DEF Done, vars, CrlUsable
<1>8. CASE UNCHANGED vars
  BY <1>8 DEF vars, CrlUsable
<1>. QED
  BY <1>1, <1>2, <1>3, <1>4, <1>5, <1>6, <1>7, <1>8 DEF Next

\* With the issuer known, check_revocation gives up only after every distribution
\* point was tried, or on a complete CRL that is out of date.
THEOREM UnavailableIsLast == Spec => []UnavailableIsExhaustive
<1>1. Init => ExhaustiveInv
  BY DEF Init, ExhaustiveInv, UnavailableIsExhaustive
<1>2. ExhaustiveInv => UnavailableIsExhaustive
  BY DEF ExhaustiveInv
<1>. QED
  BY <1>1, <1>2, NextExhaustive, PTL DEF Spec

-----------------------------------------------------------------------------
(* Time and validity                                                        *)

\* timedelta rounds down.
LEMMA Rounding ==
  ASSUME NEW x \in Int, NEW d \in Nat \ {0}
  PROVE  x \div d \in Int /\ d * (x \div d) <= x /\ x < d * (x \div d) + d
  OBVIOUS

LEMMA Multiples ==
  /\ \A a, b \in Int, d \in Nat \ {0} : a < b => d * a + d <= d * b
  /\ \A a, b \in Int, d \in Nat : d * a \in Int /\ (a <= b => d * a <= d * b)
                                  /\ (a - b) * d = d * a - d * b /\ a * d = d * a
  OBVIOUS

\* The days left are below a limit when less time is left than so many days.
LEMMA DaysBelow ==
  ASSUME NEW x \in Int, NEW k \in Int
  PROVE  /\ x \div Day \in Int
         /\ x \div Day < k <=> x < Day * k
  <1>. DEFINE q == x \div Day
  <1>1. Day \in Nat \ {0}
    BY ValidityAssumption
  <1>2. q \in Int /\ Day * q <= x /\ x < Day * q + Day /\ Day * q \in Int /\ Day * k \in Int
    BY <1>1, Rounding, Multiples
  <1>. HIDE DEF q
  <1>3. q < k => Day * q + Day <= Day * k
    BY <1>1, <1>2, Multiples
  <1>4. k <= q => Day * k <= Day * q
    BY <1>1, <1>2, Multiples
  <1>5. q < k <=> x < Day * k
    BY <1>1, <1>2, <1>3, <1>4
  <1>. QED BY <1>2, <1>5 DEF q

LEMMA DaysAreNegative ==
  ASSUME NEW x \in Int
  PROVE  x \div Day \in Int /\ (x \div Day < 0 <=> x < 0)
  <1>1. Day * 0 = 0
    BY ValidityAssumption
  <1>. QED BY <1>1, DaysBelow

LEMMA LimitTypes ==
  /\ Day \in Nat \ {0} /\ Gap \in Nat /\ Horizon \in Nat
  /\ \A w \in Windows : w.before \in Int /\ w.after \in Int
  /\ \A l \in LimitSets : /\ l.warn \in Int /\ l.critical \in Int \cup {Unset} /\ l.verify \in BOOLEAN
                          /\ l.critical # Unset => l.critical <= l.warn
  BY ValidityAssumption DEF Period, Limits

\* The status that so many days give a certificate whose validity has begun.
Rating(days) ==
  IF days < 0 THEN "EXPIRED"
  ELSE IF limits.critical # Unset /\ days < limits.critical THEN "CRITICAL"
  ELSE IF days < limits.warn THEN "EXPIRING" ELSE "VALID"

Rated == report.status \in Dated \ {"NOT_YET_VALID"} => report.status = Rating(report.days)

\* The days are those of the last reading by analyze.
Counted ==
  /\ now <= began + Gap
  /\ step # "analyze" => report.days = (leaf.after - began) \div Day

\* An expired leaf fails the verification and is named by the diagnosis; what else
\* the diagnosis calls expired is still expired when the chain is looked at again.
Explained ==
  /\ report.status = "EXPIRED" => step # "analyze"
  /\ report.status = "EXPIRED" /\ step = "diagnose" => report.trusted = FALSE
  /\ report.status = "EXPIRED" /\ step \in {"warn", "policy", "reported"} /\ limits.verify =>
       report.trusted = FALSE /\ report.diagnosis = "EXPIRED_IN_CHAIN"
  /\ report.diagnosis = "EXPIRED_IN_CHAIN" =>
       \/ HasEnded(leaf)
       \/ step = "warn" /\ HasEnded(intermediate)
       \/ step \in {"policy", "reported"} /\ report.warning = "expired"

\* A certificate found VALID had the warning window left then.
Announced ==
  last.status = "VALID" =>
    \E t \in Int :
      /\ last.days = (leaf.after - t) \div Day /\ last.days >= limits.warn
      /\ IF step = "analyze" THEN t = began ELSE t <= began /\ began <= t + Gap

TimeInv ==
  ValidityTypeOK /\ Counted /\ Rated /\ Explained /\ CapIsTheTightestInForce /\ Announced

LEMMA TimeAtFirst == ValidityInit => TimeInv
  <1>. SUFFICES ASSUME ValidityInit PROVE TimeInv
    OBVIOUS
  <1>1. ValidityTypeOK
    BY LimitTypes DEF ValidityInit, ValidityTypeOK, Report, Blank, Dated
  <1>2. Counted
    BY LimitTypes DEF ValidityInit, Counted
  <1>3. Rated /\ Explained /\ CapIsTheTightestInForce /\ Announced
    BY DEF ValidityInit, Blank, Rated, Dated, Explained, CapIsTheTightestInForce, Reported, Announced
  <1>. QED BY <1>1, <1>2, <1>3 DEF TimeInv

\* What the invariant says of the types.
LEMMA TimeTypes ==
  ASSUME TimeInv
  PROVE  /\ leaf \in Windows /\ intermediate \in Windows /\ limits \in LimitSets
         /\ leaf.after \in Int /\ leaf.before \in Int /\ intermediate.after \in Int
         /\ now \in Int /\ began \in Int /\ now >= 0 /\ began >= 0 /\ began <= now
         /\ limits.warn \in Int /\ limits.critical \in Int \cup {Unset} /\ limits.verify \in BOOLEAN
         /\ limits.critical # Unset => limits.critical <= limits.warn
         /\ report \in Report /\ last \in Report /\ report.days \in Int /\ last.days \in Int
  BY LimitTypes DEF TimeInv, ValidityTypeOK, Report

\* The fields of a report, one replaced.
LEMMA ReplacedField ==
  ASSUME NEW r \in Report
  PROVE  /\ \A x \in Dated \cup {"INVALID_DATES", "None"} : [r EXCEPT !.status = x] \in Report
         /\ \A x \in BOOLEAN \cup {Unset} : [r EXCEPT !.trusted = x] \in Report
         /\ \A x \in {"None", "EXPIRED_IN_CHAIN", "OTHER"} : [r EXCEPT !.diagnosis = x] \in Report
         /\ \A x \in {"None", "expired", "expires"} : [r EXCEPT !.warning = x] \in Report
         /\ \A x \in Nat : [r EXCEPT !.cap = x] \in Report
  BY DEF Report

LEMMA BlankReport ==
  /\ Blank \in Report
  /\ \A n \in Int : [Blank EXCEPT !.days = n] \in Report
  <1>1. Blank \in Report
    BY DEF Blank, Report, Dated
  <1>2. ASSUME NEW n \in Int PROVE [Blank EXCEPT !.days = n] \in Report
    BY <1>1, <1>2 DEF Report
  <1>. QED BY <1>1, <1>2

LEMMA AnalyzeKeepsTime == ASSUME TimeInv, Analyze PROVE TimeInv'
  <1>1. /\ step = "analyze" /\ step' = "status" /\ began' = now
        /\ report' = [Blank EXCEPT !.days = DaysLeft(leaf)]
        /\ UNCHANGED <<leaf, intermediate, limits, now, last>>
    BY DEF Analyze
  <1>2. DaysLeft(leaf) = (leaf.after - now) \div Day /\ DaysLeft(leaf) \in Int
    BY TimeTypes, DaysAreNegative DEF DaysLeft
  <1>3. ValidityTypeOK'
    BY <1>1, <1>2, BlankReport DEF TimeInv, ValidityTypeOK
  <1>4. /\ report'.days = DaysLeft(leaf) /\ report'.status = "None"
        /\ report'.diagnosis = "None"
    BY <1>1 DEF Blank
  <1>5. Counted'
    BY <1>1, <1>2, <1>4, TimeTypes, LimitTypes DEF Counted
  <1>6. Rated' /\ Explained' /\ CapIsTheTightestInForce'
    BY <1>1, <1>4 DEF Rated, Dated, Explained, CapIsTheTightestInForce, Reported
  <1>7. Announced'
    <2>1. SUFFICES ASSUME last.status = "VALID" PROVE Announced'
      BY <1>1 DEF Announced
    <2>2. PICK t \in Int : /\ last.days = (leaf.after - t) \div Day /\ last.days >= limits.warn
                           /\ t = began
      BY <1>1, <2>1 DEF TimeInv, Announced
    <2>3. t <= began' /\ began' <= t + Gap
      BY <1>1, <2>2, TimeTypes DEF TimeInv, Counted
    <2>. QED BY <1>1, <2>2, <2>3 DEF Announced
  <1>. QED BY <1>3, <1>5, <1>6, <1>7 DEF TimeInv

\* The status of the days, if the dates are in order and the validity has begun.
LEMMA StatusIsRating ==
  ASSUME NEW days
  PROVE  /\ StatusOf(days) \in Dated \cup {"INVALID_DATES"}
         /\ StatusOf(days) \in Dated \ {"NOT_YET_VALID"} => StatusOf(days) = Rating(days)
  BY DEF StatusOf, Rating, Dated

LEMMA GiveStatusKeepsTime == ASSUME TimeInv, GiveStatus PROVE TimeInv'
  <1>1. /\ step = "status" /\ step' = IF limits.verify THEN "verify" ELSE "warn"
        /\ report' = [report EXCEPT !.status = StatusOf(report.days)]
        /\ UNCHANGED <<leaf, intermediate, limits, now, began, last>>
    BY DEF GiveStatus
  <1>2. ValidityTypeOK'
    BY <1>1, StatusIsRating, ReplacedField DEF TimeInv, ValidityTypeOK
  <1>3. /\ report'.days = report.days /\ report'.status = StatusOf(report.days)
        /\ report'.diagnosis = report.diagnosis
    BY <1>1, TimeTypes DEF Report
  <1>4. Counted' /\ CapIsTheTightestInForce' /\ Announced'
    BY <1>1, <1>3 DEF TimeInv, Counted, CapIsTheTightestInForce, Reported, Announced
  <1>5. Rating(report.days)' = Rating(report.days)
    BY <1>1, <1>3 DEF Rating
  <1>6. Rated'
    BY <1>1, <1>3, <1>5, StatusIsRating DEF Rated
  <1>7. Explained'
    BY <1>1, <1>3 DEF TimeInv, Explained, HasEnded
  <1>. QED BY <1>2, <1>4, <1>6, <1>7 DEF TimeInv

\* An expired leaf has ended, at the analysis already.
LEMMA ExpiredHasEnded ==
  ASSUME TimeInv, report.status = "EXPIRED"
  PROVE  HasEnded(leaf)
  <1>1. Rating(report.days) = "EXPIRED"
    BY DEF TimeInv, Rated, Dated
  <1>2. report.days < 0
    BY <1>1 DEF Rating
  <1>3. report.days = (leaf.after - began) \div Day
    BY DEF TimeInv, Explained, Counted
  <1>4. leaf.after - began < 0
    BY <1>2, <1>3, TimeTypes, DaysAreNegative
  <1>. QED BY <1>4, TimeTypes DEF HasEnded

LEMMA VerifyKeepsTime == ASSUME TimeInv, NEW ok \in BOOLEAN, Verify(ok) PROVE TimeInv'
  <1>1. /\ step = "verify" /\ step' = IF ok THEN "warn" ELSE "diagnose"
        /\ ok => leaf.after >= now
        /\ report' = [report EXCEPT !.trusted = ok]
        /\ UNCHANGED <<leaf, intermediate, limits, now, began, last>>
    BY TimeTypes DEF Verify, InWindow
  <1>2. ValidityTypeOK'
    BY <1>1, ReplacedField DEF TimeInv, ValidityTypeOK
  <1>3. /\ report'.days = report.days /\ report'.status = report.status
        /\ report'.diagnosis = report.diagnosis /\ report'.trusted = ok
    BY <1>1, TimeTypes DEF Report
  <1>4. Counted' /\ Rated' /\ CapIsTheTightestInForce' /\ Announced'
    BY <1>1, <1>3 DEF TimeInv, Counted, Rated, Rating, CapIsTheTightestInForce, Reported, Announced
  <1>5. report.status = "EXPIRED" => ok = FALSE
    BY <1>1, ExpiredHasEnded, TimeTypes DEF HasEnded
  <1>6. Explained'
    BY <1>1, <1>3, <1>5 DEF TimeInv, Explained, HasEnded
  <1>. QED BY <1>2, <1>4, <1>6 DEF TimeInv

LEMMA DiagnoseKeepsTime == ASSUME TimeInv, Diagnose PROVE TimeInv'
  <1>1. /\ step = "diagnose" /\ step' = "warn"
        /\ report' = [report EXCEPT !.diagnosis = Diagnosis]
        /\ UNCHANGED <<leaf, intermediate, limits, now, began, last>>
    BY DEF Diagnose
  <1>2. Diagnosis \in {"None", "EXPIRED_IN_CHAIN", "OTHER"}
    BY DEF Diagnosis
  <1>3. ValidityTypeOK'
    BY <1>1, <1>2, ReplacedField DEF TimeInv, ValidityTypeOK
  <1>4. /\ report'.days = report.days /\ report'.status = report.status
        /\ report'.diagnosis = Diagnosis /\ report'.trusted = report.trusted
    BY <1>1, TimeTypes DEF Report
  <1>5. Counted' /\ Rated' /\ CapIsTheTightestInForce' /\ Announced'
    BY <1>1, <1>4 DEF TimeInv, Counted, Rated, Rating, CapIsTheTightestInForce, Reported, Announced
  <1>6. Explained'
    <2>1. HasEnded(leaf)' = HasEnded(leaf) /\ HasEnded(intermediate)' = HasEnded(intermediate)
      BY <1>1 DEF HasEnded
    <2>2. report'.status = "EXPIRED" =>
            report'.trusted = FALSE /\ report'.diagnosis = "EXPIRED_IN_CHAIN"
      BY <1>1, <1>4, ExpiredHasEnded DEF TimeInv, Explained, Diagnosis
    <2>3. report'.diagnosis = "EXPIRED_IN_CHAIN" => HasEnded(leaf) \/ HasEnded(intermediate)
      BY <1>4 DEF Diagnosis
    <2>. QED BY <1>1, <2>1, <2>2, <2>3 DEF Explained
  <1>. QED BY <1>3, <1>5, <1>6 DEF TimeInv

LEMMA WarnKeepsTime == ASSUME TimeInv, Warn PROVE TimeInv'
  <1>1. /\ step = "warn" /\ step' = "policy"
        /\ report' = [report EXCEPT !.warning = ChainWarning]
        /\ UNCHANGED <<leaf, intermediate, limits, now, began, last>>
    BY DEF Warn
  <1>2. ChainWarning \in {"None", "expired", "expires"}
    BY DEF ChainWarning
  <1>3. ValidityTypeOK'
    BY <1>1, <1>2, ReplacedField DEF TimeInv, ValidityTypeOK
  <1>4. /\ report'.days = report.days /\ report'.status = report.status
        /\ report'.diagnosis = report.diagnosis /\ report'.trusted = report.trusted
        /\ report'.warning = ChainWarning
    BY <1>1, TimeTypes DEF Report
  <1>5. Counted' /\ Rated' /\ CapIsTheTightestInForce' /\ Announced'
    BY <1>1, <1>4 DEF TimeInv, Counted, Rated, Rating, CapIsTheTightestInForce, Reported, Announced
  <1>6. HasEnded(intermediate) => ChainWarning = "expired"
    <2>1. DaysLeft(intermediate) < 0 <=> intermediate.after - now < 0
      BY TimeTypes, DaysAreNegative DEF DaysLeft
    <2>. QED BY <2>1, TimeTypes DEF HasEnded, ChainWarning
  <1>7. Explained'
    BY <1>1, <1>4, <1>6 DEF TimeInv, Explained, HasEnded
  <1>. QED BY <1>3, <1>5, <1>7 DEF TimeInv

LEMMA ScheduleTypes ==
  /\ Len(Schedule) \in Nat
  /\ \A i \in 1..Len(Schedule) : Schedule[i].limit \in Nat /\ Schedule[i].start \in Int
  /\ \A i, j \in 1..Len(Schedule) : i < j => Schedule[i].limit <= Schedule[j].limit
  <1>1. Schedule \in Seq([start : Int, limit : Nat])
    BY ValidityAssumption
  <1>2. Len(Schedule) \in Nat
    BY <1>1, LenProperties
  <1>3. ASSUME NEW i \in 1..Len(Schedule)
        PROVE  Schedule[i].limit \in Nat /\ Schedule[i].start \in Int
    <2>1. Schedule[i] \in [start : Int, limit : Nat]
      BY ONLY <1>1, <1>3, ElementOfSeq
    <2>. QED BY ONLY <2>1
  <1>. QED BY <1>2, <1>3, ValidityAssumption

\* The limit applied is one of the schedule, and none in force is tighter.
LEMMA TightestLimit ==
  ASSUME now \in Int
  PROVE  /\ CabForumMax \in Nat
         /\ \A i \in 1..Len(Schedule) : Schedule[i].start <= now => CabForumMax <= Schedule[i].limit
  <1>2. CASE InForce = {}
    BY <1>2 DEF CabForumMax, InForce, CAB_FORUM_DEFAULT
  <1>3. CASE InForce # {}
    <2>. DEFINE m == CHOOSE i \in InForce : \A j \in InForce : i <= j
    <2>1. InForce \subseteq Nat /\ InForce \subseteq 1..Len(Schedule)
      BY DEF InForce
    <2>2. \E i \in InForce : \A j \in InForce : i <= j
      BY <1>3, <2>1, LeastNatural
    <2>3. m \in InForce /\ \A j \in InForce : m <= j
      BY <2>2
    <2>4. CabForumMax = Schedule[m].limit
      BY <1>3 DEF CabForumMax
    <2>. HIDE DEF m
    <2>5. ASSUME NEW i \in 1..Len(Schedule), Schedule[i].start <= now
          PROVE  Schedule[m].limit <= Schedule[i].limit
      <3>1. i \in InForce
        BY <2>5 DEF InForce
      <3>2. m = i \/ m < i
        BY <2>1, <2>3, <3>1
      <3>. QED BY ScheduleTypes, <2>1, <2>3, <3>2
    <2>. QED BY ScheduleTypes, <2>1, <2>3, <2>4, <2>5
  <1>. QED BY <1>2, <1>3

LEMMA CheckPolicyKeepsTime == ASSUME TimeInv, CheckPolicy PROVE TimeInv'
  <1>1. /\ step = "policy" /\ step' = "reported"
        /\ report' = [report EXCEPT !.cap = CabForumMax]
        /\ UNCHANGED <<leaf, intermediate, limits, now, began, last>>
    BY DEF CheckPolicy
  <1>2. ValidityTypeOK'
    BY <1>1, TightestLimit, TimeTypes, ReplacedField DEF TimeInv, ValidityTypeOK
  <1>3. /\ report'.days = report.days /\ report'.status = report.status
        /\ report'.diagnosis = report.diagnosis /\ report'.trusted = report.trusted
        /\ report'.warning = report.warning /\ report'.cap = CabForumMax
    BY <1>1, TimeTypes DEF Report
  <1>4. Counted' /\ Rated' /\ Announced'
    BY <1>1, <1>3 DEF TimeInv, Counted, Rated, Rating, Announced
  <1>5. Explained'
    BY <1>1, <1>3 DEF TimeInv, Explained, HasEnded
  <1>6. CapIsTheTightestInForce'
    <2>1. ASSUME NEW i \in 1..Len(Schedule), Schedule[i].start <= began
          PROVE  CabForumMax <= Schedule[i].limit
      <3>1. Schedule[i].start \in Int
        BY ScheduleTypes
      <3>2. Schedule[i].start <= now
        BY <2>1, <3>1, TimeTypes
      <3>. QED BY <3>2, TightestLimit, TimeTypes
    <2>. QED BY <1>1, <1>3, <2>1 DEF CapIsTheTightestInForce, Reported
  <1>. QED BY <1>2, <1>4, <1>5, <1>6 DEF TimeInv

LEMMA AgainKeepsTime == ASSUME TimeInv, Again PROVE TimeInv'
  <1>1. /\ step = "reported" /\ step' = "analyze" /\ last' = report /\ report' = Blank
        /\ UNCHANGED <<leaf, intermediate, limits, now, began>>
    BY DEF Again
  <1>2. ValidityTypeOK'
    BY <1>1, BlankReport DEF TimeInv, ValidityTypeOK
  <1>3. report'.status = "None" /\ report'.diagnosis = "None"
    BY <1>1 DEF Blank
  <1>4. Counted' /\ Rated' /\ Explained' /\ CapIsTheTightestInForce'
    BY <1>1, <1>3 DEF TimeInv, Counted, Rated, Dated, Explained, CapIsTheTightestInForce, Reported
  <1>5. ASSUME report.status = "VALID"
        PROVE  report.days = (leaf.after - began) \div Day /\ report.days >= limits.warn
    <2>1. Rating(report.days) = "VALID"
      BY <1>5 DEF TimeInv, Rated, Dated
    <2>2. ~(report.days < limits.warn)
      BY <2>1 DEF Rating
    <2>. QED BY <1>1, <2>2, TimeTypes DEF TimeInv, Counted
  <1>6. Announced'
    BY <1>1, <1>5, TimeTypes DEF Announced
  <1>. QED BY <1>2, <1>4, <1>6 DEF TimeInv

LEMMA TickKeepsTime == ASSUME TimeInv, Tick PROVE TimeInv'
  <1>1. /\ now < Horizon /\ now < began + Gap /\ now' = now + 1
        /\ UNCHANGED <<leaf, intermediate, limits, step, began, report, last>>
    BY DEF Tick
  <1>2. ValidityTypeOK'
    BY <1>1, LimitTypes DEF TimeInv, ValidityTypeOK
  <1>3. Counted' /\ Rated' /\ CapIsTheTightestInForce' /\ Announced'
    BY <1>1, TimeTypes, LimitTypes
       DEF TimeInv, Counted, Rated, Rating, CapIsTheTightestInForce, Reported, Announced
  <1>4. (HasEnded(leaf) => HasEnded(leaf)') /\ (HasEnded(intermediate) => HasEnded(intermediate)')
    BY <1>1, TimeTypes DEF HasEnded
  <1>5. Explained'
    BY <1>1, <1>4 DEF TimeInv, Explained
  <1>. QED BY <1>2, <1>3, <1>5 DEF TimeInv

\* The inductive invariant of repeated inspections.
THEOREM TimeIsKept == ValiditySpec => []TimeInv
  <1>1. TimeInv /\ [ValidityNext]_validityVars => TimeInv'
    <2>. SUFFICES ASSUME TimeInv, [ValidityNext]_validityVars PROVE TimeInv'
      OBVIOUS
    <2>1. CASE UNCHANGED validityVars
      BY <2>1 DEF validityVars, TimeInv, ValidityTypeOK, Counted, Rated, Rating, Explained,
         HasEnded, CapIsTheTightestInForce, Reported, Announced
    <2>. QED
      BY <2>1, AnalyzeKeepsTime, GiveStatusKeepsTime, VerifyKeepsTime, DiagnoseKeepsTime,
         WarnKeepsTime, CheckPolicyKeepsTime, AgainKeepsTime, TickKeepsTime DEF ValidityNext
  <1>. QED BY <1>1, TimeAtFirst, PTL DEF ValiditySpec

\* An expired certificate is never trusted and its failure is put down to the expiry,
\* whenever the clock is read (certificate_status, diagnose_chain, chain_expiry_warnings).
THEOREM ExpiryIsSound == ValiditySpec => []ExpiryIsExplained
  <1>1. TimeInv => ExpiryIsExplained
    BY DEF TimeInv, Explained, ExpiryIsExplained, Reported
  <1>. QED BY <1>1, TimeIsKept, PTL

\* No limit in force at the analysis is tighter than the one applied
\* (cab_forum_max_validity).
THEOREM CapIsSound == ValiditySpec => []CapIsTheTightestInForce
  <1>1. TimeInv => CapIsTheTightestInForce
    BY DEF TimeInv
  <1>. QED BY <1>1, TimeIsKept, PTL

\* Nothing in the code refuses a negative --critical-days.
SensibleWindows == \A l \in LimitSets : l.critical # Unset => l.critical >= 0

\* With critical windows that are not negative, the outputs that compare the days anew
\* agree with the status (format_nagios, _expiry_lines, format_prometheus).
THEOREM OutputsAgreeInTime == SensibleWindows => (ValiditySpec => []OutputsAgree)
  <1>1. ASSUME SensibleWindows, TimeInv, Reported, report.status \in Dated \ {"NOT_YET_VALID"}
        PROVE  /\ PerfdataRating(report) = StatusRating(report.status)
               /\ (ExpiryLine(report) = "WARNING") = (report.status = "EXPIRING")
               /\ (ExpiryLine(report) = "CRITICAL") = (report.status = "CRITICAL")
               /\ CertValid(report) = 0 <=> report.days < 0
    <2>. DEFINE d == report.days
                w == limits.warn
                c == limits.critical
                s == report.status
    <2>1. /\ d \in Int /\ w \in Int /\ c \in Int \cup {Unset}
          /\ c # Unset => c <= w /\ c >= 0
      BY <1>1, TimeTypes DEF SensibleWindows
    <2>2. s = IF d < 0 THEN "EXPIRED"
              ELSE IF c # Unset /\ d < c THEN "CRITICAL"
              ELSE IF d < w THEN "EXPIRING" ELSE "VALID"
      BY <1>1 DEF TimeInv, Rated, Rating
    <2>3. PerfdataRating(report) = IF d < (IF c = Unset THEN 0 ELSE c) THEN "CRITICAL"
                                   ELSE IF d < w THEN "WARNING" ELSE "OK"
      BY DEF PerfdataRating, Below
    <2>4. ExpiryLine(report) = IF s = "CRITICAL" THEN "CRITICAL"
                               ELSE IF 0 <= d /\ d < w THEN "WARNING" ELSE "None"
      BY <2>2 DEF ExpiryLine
    <2>5. StatusRating(s) = IF s = "VALID" THEN "OK"
                            ELSE IF s = "EXPIRING" THEN "WARNING" ELSE "CRITICAL"
      BY DEF StatusRating
    <2>6. CertValid(report) = IF s = "EXPIRED" THEN 0 ELSE 1
      BY <2>2 DEF CertValid
    <2>. HIDE DEF d, w, c, s
    <2>7. CASE d < 0
      BY <2>1, <2>2, <2>3, <2>4, <2>5, <2>6, <2>7 DEF d, s
    <2>8. CASE ~(d < 0) /\ c # Unset /\ d < c
      BY <2>1, <2>2, <2>3, <2>4, <2>5, <2>6, <2>8 DEF d, s
    <2>9. CASE ~(d < 0) /\ (c = Unset \/ ~(d < c))
      BY <2>1, <2>2, <2>3, <2>4, <2>5, <2>6, <2>9 DEF d, s
    <2>. QED BY <2>7, <2>8, <2>9
  <1>. SUFFICES ASSUME SensibleWindows PROVE ValiditySpec => []OutputsAgree
    OBVIOUS
  <1>2. TimeInv => OutputsAgree
    BY <1>1 DEF OutputsAgree
  <1>. QED BY <1>2, TimeIsKept, PTL

\* Inspected often enough, no certificate expires or turns critical unannounced
\* (certificate_status).
THEOREM ExpiryIsAnnounced == ValiditySpec => NoSurpriseExpiry
  <1>1. ASSUME TimeInv, [ValidityNext]_validityVars, report'.status # report.status,
               last.status = "VALID"
        PROVE  /\ Gap <= limits.warn * Day => report'.status # "EXPIRED"
               /\ limits.critical # Unset /\ Gap <= (limits.warn - limits.critical) * Day
                    => report'.status # "CRITICAL"
    <2>1. CASE GiveStatus
      <3>1. step = "status" /\ report'.status = StatusOf(report.days)
        BY <2>1, <1>1, TimeTypes DEF GiveStatus, Report
      <3>2. report.days = (leaf.after - began) \div Day
        BY <1>1, <3>1 DEF TimeInv, Counted
      <3>3. PICK t \in Int : /\ last.days = (leaf.after - t) \div Day /\ last.days >= limits.warn
                             /\ t <= began /\ began <= t + Gap
        BY <1>1, <3>1 DEF TimeInv, Announced
      <3>4. Day * limits.warn <= leaf.after - t /\ Day * limits.warn \in Int
        <4>1. ~(last.days < limits.warn)
          BY <3>3, <1>1, TimeTypes
        <4>2. ~(leaf.after - t < Day * limits.warn)
          BY <3>3, <4>1, <1>1, TimeTypes, DaysBelow
        <4>. QED BY <4>2, <1>1, TimeTypes, LimitTypes, Multiples
      <3>5. ASSUME Gap <= limits.warn * Day PROVE report'.status # "EXPIRED"
        <4>1. leaf.after - began >= 0
          <5>1. limits.warn * Day = Day * limits.warn
            BY <1>1, TimeTypes, LimitTypes, Multiples
          <5>. QED BY <3>3, <3>4, <3>5, <5>1, <1>1, TimeTypes, LimitTypes
        <4>2. ~(report.days < 0)
          BY <3>2, <4>1, <1>1, TimeTypes, DaysAreNegative
        <4>. QED BY <3>1, <4>2 DEF StatusOf
      <3>6. ASSUME limits.critical # Unset, Gap <= (limits.warn - limits.critical) * Day
            PROVE  report'.status # "CRITICAL"
        <4>1. limits.critical \in Int
          BY <3>6, <1>1, TimeTypes
        <4>2. (limits.warn - limits.critical) * Day = Day * limits.warn - Day * limits.critical
              /\ Day * limits.critical \in Int
          BY <4>1, <1>1, TimeTypes, LimitTypes, Multiples
        <4>3. ~(leaf.after - began < Day * limits.critical)
          <5>1. /\ began \in Int /\ leaf.after \in Int /\ Gap \in Int
                /\ Gap <= Day * limits.warn - Day * limits.critical
            BY <3>6, <4>2, <1>1, TimeTypes, LimitTypes
          <5>2. /\ Day * limits.warn <= leaf.after - t /\ began <= t + Gap
                /\ Day * limits.warn \in Int /\ Day * limits.critical \in Int
            BY <3>3, <3>4, <4>2
          <5>. QED BY ONLY <5>1, <5>2, t \in Int
        <4>4. ~(report.days < limits.critical)
          BY <3>2, <4>1, <4>3, <1>1, TimeTypes, DaysBelow
        <4>. QED BY <3>1, <4>4 DEF StatusOf
      <3>. QED BY <3>5, <3>6
    <2>2. CASE Analyze \/ Again
      <3>1. report'.status = "None"
        BY <2>2 DEF Analyze, Again, Blank
      <3>. QED BY <3>1
    <2>3. CASE (\E ok \in BOOLEAN : Verify(ok)) \/ Diagnose \/ Warn \/ CheckPolicy \/ Tick
                 \/ UNCHANGED validityVars
      <3>1. report'.status = report.status
        BY <2>3, <1>1, TimeTypes DEF Verify, Diagnose, Warn, CheckPolicy, Tick, validityVars, Report
      <3>. QED BY <1>1, <3>1
    <2>. QED BY <1>1, <2>1, <2>2, <2>3 DEF ValidityNext
  <1>2. TimeInv /\ [ValidityNext]_validityVars =>
          [report'.status # report.status /\ last.status = "VALID" =>
             /\ Gap <= limits.warn * Day => report'.status # "EXPIRED"
             /\ limits.critical # Unset /\ Gap <= (limits.warn - limits.critical) * Day
                  => report'.status # "CRITICAL"]_validityVars
    BY <1>1
  <1>. QED BY <1>2, TimeIsKept, PTL DEF ValiditySpec, NoSurpriseExpiry
=============================================================================
