----------------------------- MODULE Revocation -----------------------------
(***************************************************************************)
(* check_revocation (revocation.py): find an issuer whose key can vouch    *)
(* for answers, ask the first OCSP responder, and fall back to the CRL     *)
(* distribution points one after the other.                                *)
(*                                                                         *)
(* Every download is a choice: it fails, it is garbage, or it is one of    *)
(* the documents that exist.  What is wrong with a document (another       *)
(* issuer, a bad signature, a scope or an extension that rules it out, a   *)
(* replayed answer for another certificate) is one flag, authentic; the    *)
(* rest is what a verdict may depend on.                                   *)
(***************************************************************************)
EXTENDS Integers, Sequences, FiniteSets

CONSTANTS
  MaxIssuerUrls,  \* bound: CA Issuers URLs of the certificate
  MaxCrlUrls,     \* bound: HTTP distribution points of the certificate
  Holds,          \* the CA releases certificates it had put on hold
  NoAnswer        \* a failed or unparsable download

ASSUME RevocationAssumption ==
  MaxIssuerUrls \in Nat /\ MaxCrlUrls \in Nat /\ Holds \in BOOLEAN

\* The validity window of a document at the time of the check.  Without a
\* nextUpdate there is none, and the freshness tests let the document pass.
Window == {"current", "over", "none"}

\* An OCSP answer: says is the certificate status, successful the response's.
OcspAnswer == [successful : BOOLEAN, authentic : BOOLEAN, window : Window,
               says : {"GOOD", "REVOKED", "UNKNOWN"}]

\* A CRL: entry, what it says of the serial; partial, a delta or a CRL limited
\* to some reasons.  A delta names what was released from hold, too.
Crl == {c \in [authentic : BOOLEAN, window : Window, partial : BOOLEAN,
               entry : {"absent", "revoked", "released"}] :
          c.entry = "released" => c.partial /\ Holds}

VARIABLES
  isRevoked,   \* whether the CA has revoked the certificate (the truth)
  ocspUrl,     \* the certificate names an OCSP responder
  issuerUrls,  \* how many CA Issuers URLs it carries
  crlUrls,     \* how many CRL distribution points
  pc,          \* the next step
  issuer,      \* an issuer that signed the certificate is known
  tried,       \* URLs of the current list that were fetched
  crls,        \* what each CRL download gave
  ocsp,        \* what the responder answered
  status       \* the verdict, "none" before

vars == <<isRevoked, ocspUrl, issuerUrls, crlUrls, pc, issuer, tried, crls, ocsp, status>>

TypeOK ==
  /\ isRevoked \in BOOLEAN /\ ocspUrl \in BOOLEAN
  /\ issuerUrls \in 0..MaxIssuerUrls /\ crlUrls \in 0..MaxCrlUrls
  /\ pc \in {"issuer", "ocsp", "crl", "done"}
  /\ issuer \in BOOLEAN
  /\ tried \in 0..MaxIssuerUrls \cup 0..MaxCrlUrls
  /\ crls \in Seq(Crl \cup {NoAnswer}) /\ Len(crls) <= MaxCrlUrls
  /\ ocsp \in OcspAnswer \cup {NoAnswer}
  /\ status \in {"none", "GOOD", "REVOKED", "UNKNOWN", "UNAVAILABLE"}

\* What an honest CA can have published: only a revoked certificate is listed
\* or said to be revoked, and whoever is current knows of the revocation.  A
\* document that is not authentic may say anything.
OcspPossible(a) ==
  a.authentic => /\ a.says = "REVOKED" => isRevoked
                 /\ a.says = "GOOD" /\ a.window = "current" => ~isRevoked

CrlPossible(c) ==
  c.authentic => /\ c.entry = "revoked" => isRevoked
                 /\ c.entry = "released" => ~isRevoked
                 /\ c.entry = "absent" /\ c.window = "current" /\ ~c.partial => ~isRevoked

Init ==
  /\ isRevoked \in BOOLEAN /\ ocspUrl \in BOOLEAN
  /\ issuerUrls \in 0..MaxIssuerUrls /\ crlUrls \in 0..MaxCrlUrls
  /\ pc = "issuer"
  /\ issuer \in BOOLEAN     \* the issuer of the verified chain, if it signed cert
  /\ tried = 0
  /\ crls = <<>> /\ ocsp = NoAnswer
  /\ status = "none"

Certificate == <<isRevoked, ocspUrl, issuerUrls, crlUrls>>

-----------------------------------------------------------------------------
(* _fetch_issuer: a download counts only if it really signed the certificate *)

FetchIssuer ==
  /\ pc = "issuer" /\ ~issuer /\ tried < issuerUrls
  /\ issuer' \in BOOLEAN
  /\ tried' = tried + 1
  /\ UNCHANGED <<Certificate, pc, crls, ocsp, status>>

IssuerKnownOrNot ==
  /\ pc = "issuer" /\ (issuer \/ tried = issuerUrls)
  /\ pc' = "ocsp"
  /\ UNCHANGED <<Certificate, issuer, tried, crls, ocsp, status>>

-----------------------------------------------------------------------------
(* _check_ocsp                                                              *)

\* Mutant of OcspUsable: freshness is not asked for.
OcspUsableStale(a) == a.successful /\ a.authentic

\* _authenticate_ocsp_response, and freshness for a GOOD answer only.
OcspUsable(a) ==
  /\ a.successful /\ a.authentic
  /\ a.says = "GOOD" => a.window # "over"

OcspVerdict(a) == IF a # NoAnswer /\ OcspUsable(a) THEN a.says ELSE "UNAVAILABLE"

AskOcsp(a) ==
  /\ pc = "ocsp" /\ ocspUrl /\ issuer
  /\ a # NoAnswer => OcspPossible(a)
  /\ ocsp' = a
  /\ IF OcspVerdict(a) # "UNAVAILABLE"
     THEN pc' = "done" /\ status' = OcspVerdict(a)
     ELSE pc' = "crl" /\ UNCHANGED status
  /\ tried' = 0
  /\ UNCHANGED <<Certificate, issuer, crls>>

SkipOcsp ==
  /\ pc = "ocsp" /\ ~(ocspUrl /\ issuer)
  /\ pc' = "crl" /\ tried' = 0
  /\ UNCHANGED <<Certificate, issuer, crls, ocsp, status>>

-----------------------------------------------------------------------------
(* _check_crl                                                               *)

Stop(s) == pc' = "done" /\ status' = s

\* Mutant of CrlUsable: the signature is not verified.
CrlUsableUnsigned(c) == c # NoAnswer

CrlUsable(c) == c # NoAnswer /\ c.authentic

\* The serial has an entry; its reason is not looked at.
Lists(c) == c.entry # "absent"

\* What a complete CRL without the serial proves.
Complete(c) == IF c.window # "over" THEN "GOOD" ELSE "UNAVAILABLE"

\* Mutant of FetchCrl: a partial CRL ends the loop.
FetchCrlPartialStops(c) ==
  /\ pc = "crl" /\ issuer /\ tried < crlUrls
  /\ c # NoAnswer => CrlPossible(c)
  /\ crls' = Append(crls, c)
  /\ tried' = tried + 1
  /\ \/ ~CrlUsable(c) /\ UNCHANGED <<pc, status>>
     \/ CrlUsable(c) /\ Lists(c) /\ Stop("REVOKED")
     \/ CrlUsable(c) /\ ~Lists(c) /\ Stop(IF c.window # "over" /\ ~c.partial THEN "GOOD" ELSE "UNAVAILABLE")
  /\ UNCHANGED <<Certificate, issuer, ocsp>>

\* A CRL that lists the certificate proves its revocation, stale or partial;
\* only a complete and current one proves that it is not revoked.
FetchCrl(c) ==
  /\ pc = "crl" /\ issuer /\ tried < crlUrls
  /\ c # NoAnswer => CrlPossible(c)
  /\ crls' = Append(crls, c)
  /\ tried' = tried + 1
  /\ \/ ~CrlUsable(c) /\ UNCHANGED <<pc, status>>
     \/ CrlUsable(c) /\ Lists(c) /\ Stop("REVOKED")
     \/ CrlUsable(c) /\ ~Lists(c) /\ c.partial /\ UNCHANGED <<pc, status>>
     \/ CrlUsable(c) /\ ~Lists(c) /\ ~c.partial /\ Stop(Complete(c))
  /\ UNCHANGED <<Certificate, issuer, ocsp>>

NoMoreCrls ==
  /\ pc = "crl" /\ (~issuer \/ tried = crlUrls)
  /\ Stop("UNAVAILABLE")
  /\ UNCHANGED <<Certificate, issuer, tried, crls, ocsp>>

Done == pc = "done" /\ UNCHANGED vars

Next ==
  \/ FetchIssuer \/ IssuerKnownOrNot
  \/ (\E a \in OcspAnswer \cup {NoAnswer} : AskOcsp(a))
  \/ SkipOcsp
  \/ (\E c \in Crl \cup {NoAnswer} : FetchCrl(c))
  \/ NoMoreCrls
  \/ Done

Spec == Init /\ [][Next]_vars

-----------------------------------------------------------------------------
(* Properties                                                               *)

\* The document that gave the verdict.
Decisive == IF crls = <<>> THEN ocsp ELSE crls[Len(crls)]

\* GOOD is never said of a revoked certificate, whatever stale, partial, forged
\* or failed answers came before the one that decided (check_revocation); only
\* a document that states no end of its validity can be outdated.
GoodIsTrue == status = "GOOD" => ~isRevoked \/ Decisive.window = "none"

\* "REVOKED: the certificate is confirmed revoked" (revocation.py:405): it is
\* never said of a certificate its CA has not revoked.
RevokedIsTrue == status = "REVOKED" => isRevoked

\* A soft failure is not final while a source that was never asked may know: all
\* distribution points were tried, or a complete but stale CRL ended the loop.
UnavailableIsExhaustive ==
  status = "UNAVAILABLE" /\ issuer =>
    \/ Len(crls) = crlUrls
    \/ \E i \in DOMAIN crls : CrlUsable(crls[i]) /\ ~crls[i].partial /\ crls[i].window = "over"
=============================================================================
