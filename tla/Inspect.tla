------------------------------ MODULE Inspect ------------------------------
(***************************************************************************)
(* The inspection of one source, cli._inspect: fetch a certificate (a file *)
(* or a TLS handshake), analyse and export it, verify its chain over a     *)
(* SECOND handshake, query its revocation, run the opted-in checks and     *)
(* fold every verdict into one exit code.                                  *)
(*                                                                         *)
(* The two handshakes are the hard part: several backends answer for one   *)
(* name (a load balancer, a server mid-rotation), so each handshake may    *)
(* meet another backend, fail transiently and be retried, or fail for      *)
(* good.  The verdicts on the report must still be those of one and the    *)
(* same certificate.                                                       *)
(***************************************************************************)
EXTENDS ExitCodes, Sequences

CONSTANTS
  Certs,         \* the certificates that exist
  Fact,          \* what the checks see of each: [Certs -> CertFact]
  Backends,      \* the servers answering for the target
  Sends,         \* the chain each backend presents, leaf first
  Bundles,       \* the certificate sequences a --file may hold
  VerifiedPath,  \* the verifier: the path it builds from a chain, <<>> if none
  OptionSets,    \* the InspectOptions of interest
  NoCert         \* no certificate yet

CertFact == [status       : Status,
             matches      : BOOLEAN,   \* a SAN or CN covers the checked name
             pinned       : BOOLEAN,   \* its fingerprint is the --pin one
             hasSans      : BOOLEAN,   \* every --expect-san name is covered
             policyOk     : BOOLEAN,   \* none of the opted-in policies is broken
             revocation   : SUBSET RevocationStatus, \* answers OCSP/CRL may give
             expired      : BOOLEAN,   \* not_valid_after < now
             expiresSoon  : BOOLEAN,   \* within --days, or expired
             aia          : BOOLEAN,   \* carries a CA Issuers URL
             subject      : STRING,
             issuer       : STRING]

\* exposesChain is the interpreter's: the chains are visible from Python 3.13 on.
Options == [source : {"host", "file"}, retries : Int, exposesChain : BOOLEAN,
            verify : BOOLEAN, chain : BOOLEAN, export : BOOLEAN, pin : BOOLEAN,
            expectSan : BOOLEAN, policy : BOOLEAN, requireRevocation : BOOLEAN]

Chains == {Sends[b] : b \in Backends} \cup Bundles

\* The leaf of a verified path is the leaf that was presented.
ASSUME VerifierAssumption ==
  /\ Sends \in [Backends -> Seq(Certs) \ {<<>>}]
  /\ Bundles \subseteq Seq(Certs) \ {<<>>}
  /\ VerifiedPath \in [Chains -> Seq(Certs)]
  /\ \A ch \in Chains : VerifiedPath[ch] # <<>> => VerifiedPath[ch][1] = ch[1]

ASSUME FactAssumption ==
  /\ Fact \in [Certs -> CertFact]
  /\ NoCert \notin Certs

\* _validate_args refuses --require-revocation-check with --file or --no-verify.
ASSUME OptionsAssumption ==
  /\ OptionSets \subseteq Options
  /\ \A o \in OptionSets : o.requireRevocation => o.source = "host" /\ o.verify

VARIABLES
  opts,       \* the options of this run
  pc,         \* the next step of _inspect, or how it ended
  tries,      \* retries left in the current retry_network loop
  der,        \* the certificates read: the peer chain or the file's content
  cert,       \* the inspected certificate
  presented,  \* conn["chain"], or file_bundle for a file; <<>> when unknown
  verified,   \* the verified chain, leaf first
  info,       \* the report
  codes,      \* the exit codes collected so far
  exported,   \* what --export wrote
  code        \* the exit code of the source once it ended

vars == <<opts, pc, tries, der, cert, presented, verified, info, codes, exported, code>>

Verdict == {"None", "True", "False"}
ToVerdict(b) == IF b THEN "True" ELSE "False"

Diagnosis == {"None", "EXPIRED_IN_CHAIN", "UNTRUSTED_ROOT", "CHAIN_MISMATCH",
              "INCOMPLETE_CHAIN"}

Info == [status : Status \cup {"None"}, hostname_match : Verdict,
         chain_trusted : Verdict, chain_diagnosis : Diagnosis,
         chain_warnings : SUBSET Certs,
         revocation_status : RevocationStatus \cup {"None"},
         pin_match : Verdict, sans_covered : Verdict, policy_met : Verdict]

TypeOK ==
  /\ opts \in OptionSets
  /\ pc \in {"fetch", "load", "export", "assess", "verify", "revocation", "finish",
             "done", "failed", "crashed"}
  /\ tries \in Int
  /\ der \in Seq(Certs)
  /\ cert \in Certs \cup {NoCert}
  /\ presented \in Seq(Certs)
  /\ verified \in Seq(Certs)
  /\ info \in Info
  /\ codes \subseteq Codes
  /\ exported \in Certs \cup {NoCert}
  /\ code \in Codes \cup {-1}

-----------------------------------------------------------------------------
(* The pure helpers of the pipeline.                                       *)

\* diagnose_chain: the likely reason a presented chain did not verify.
DiagnoseChain(chain) ==
  IF chain = <<>> THEN "None"
  ELSE LET leaf == chain[1]
           intermediates == {chain[i] : i \in 2..Len(chain)}
       IN IF \E c \in intermediates \cup {leaf} : Fact[c].expired THEN "EXPIRED_IN_CHAIN"
          ELSE IF \E c \in intermediates : Fact[c].subject = Fact[leaf].issuer
          THEN "UNTRUSTED_ROOT"
          ELSE IF intermediates # {} THEN "CHAIN_MISMATCH"
          ELSE IF Fact[leaf].aia THEN "INCOMPLETE_CHAIN" ELSE "UNTRUSTED_ROOT"

\* chain_expiry_warnings: the leaf is skipped.
ChainExpiryWarnings(chain) ==
  {c \in {chain[i] : i \in 2..Len(chain)} : Fact[c].expiresSoon}

\* ssock.get_unverified_chain() and get_verified_chain() exist from 3.13 on;
\* before, the verified chain is just the peer's leaf.
PresentedBy(chain)  == IF opts.exposesChain THEN chain ELSE <<>>
VerifiedFrom(chain) == IF opts.exposesChain THEN VerifiedPath[chain]
                       ELSE IF VerifiedPath[chain] = <<>> THEN <<>> ELSE <<chain[1]>>

\* Mutant of SameLeaf: whatever leaf was verified.
AnyLeaf(path, c) == TRUE

\* The guard of _check_chain against a leaf that is not the inspected one.
SameLeaf(path, c) == path[1] = c

\* Mutant of RevocationProven: a soft failure passes.
NotRevoked(status) == status # "REVOKED"

RevocationProven(status) == status = "GOOD"

\* _check_policy: the opted-in policies, revocation included.
PolicyMet(c, status) ==
  /\ opts.policy => Fact[c].policyOk
  /\ opts.requireRevocation => RevocationProven(status)

Problem(failed, problem) == IF failed THEN {problem} ELSE {}

-----------------------------------------------------------------------------
(* How a run ends: _run turns OSError, SSLError and ValueError into the     *)
(* runtime error; any other exception leaves it uncaught.                   *)

Fail == pc' = "failed" /\ code' = RUNTIME_ERROR

-----------------------------------------------------------------------------
Init ==
  /\ opts \in OptionSets
  /\ pc = "fetch"
  /\ tries = opts.retries
  /\ der = <<>> /\ cert = NoCert
  /\ presented = <<>> /\ verified = <<>>
  /\ info = [status |-> "None", hostname_match |-> "None", chain_trusted |-> "None",
             chain_diagnosis |-> "None", chain_warnings |-> {},
             revocation_status |-> "None", pin_match |-> "None",
             sans_covered |-> "None", policy_met |-> "None"]
  /\ codes = {} /\ exported = NoCert /\ code = -1

-----------------------------------------------------------------------------
(* retry_network, shared by the two handshakes.                             *)

Dialing == pc \in {"fetch", "verify"} /\ opts.source = "host" /\ (pc = "verify" => opts.verify)

\* TimeoutError, ConnectionError, gaierror: dial again, or give up.
TransientError ==
  /\ Dialing /\ tries >= 0
  /\ \/ /\ tries > 0
        /\ tries' = tries - 1
        /\ UNCHANGED <<pc, code>>
     \/ /\ tries = 0
        /\ Fail
        /\ UNCHANGED tries
  /\ UNCHANGED <<opts, der, cert, presented, verified, info, codes, exported>>

\* A refused proxy tunnel, a STARTTLS refusal, any other TLS error.
HardError ==
  /\ Dialing /\ tries >= 0
  /\ Fail
  /\ UNCHANGED <<opts, tries, der, cert, presented, verified, info, codes, exported>>

\* range(retries, -1, -1) is empty for a negative count: retry_network returns
\* None and the caller's unpacking raises a TypeError nobody catches.
NeverDials ==
  /\ Dialing /\ tries < 0
  /\ pc' = "crashed"
  /\ UNCHANGED <<opts, tries, der, cert, presented, verified, info, codes, exported, code>>

-----------------------------------------------------------------------------
(* _fetch_source                                                            *)

FetchHost(b) ==
  /\ pc = "fetch" /\ opts.source = "host" /\ tries >= 0
  /\ der' = Sends[b]
  /\ presented' = PresentedBy(Sends[b])
  /\ pc' = "load"
  /\ UNCHANGED <<opts, tries, cert, verified, info, codes, exported, code>>

FetchFile(bundle) ==
  /\ pc = "fetch" /\ opts.source = "file"
  /\ der' = bundle
  /\ pc' = "load"
  /\ UNCHANGED <<opts, tries, cert, presented, verified, info, codes, exported, code>>

FileUnreadable ==
  /\ pc = "fetch" /\ opts.source = "file"
  /\ Fail
  /\ UNCHANGED <<opts, tries, der, cert, presented, verified, info, codes, exported>>

-----------------------------------------------------------------------------
(* load_certificate, --export and the leaf's own verdicts                   *)

Load ==
  /\ pc = "load"
  /\ \/ cert' = der[1] /\ pc' = "export" /\ UNCHANGED code
     \/ Fail /\ UNCHANGED cert            \* neither DER nor PEM
  /\ UNCHANGED <<opts, tries, der, presented, verified, info, codes, exported>>

Export ==
  /\ pc = "export"
  /\ \/ ~opts.export /\ pc' = "assess" /\ UNCHANGED <<exported, code>>
     \/ opts.export /\ exported' = cert /\ pc' = "assess" /\ UNCHANGED code
     \/ opts.export /\ Fail /\ UNCHANGED exported   \* the path cannot be written
  /\ UNCHANGED <<opts, tries, der, cert, presented, verified, info, codes>>

\* Mutant of HostnameMatch: the name is matched only when the chain is verified.
MatchIfVerified ==
  IF opts.source = "host" /\ opts.verify THEN ToVerdict(Fact[cert].matches) ELSE "None"

\* The names are those of a host; a file is not matched.
HostnameMatch == IF opts.source = "host" THEN ToVerdict(Fact[cert].matches) ELSE "None"

Assess ==
  /\ pc = "assess"
  /\ info' = [info EXCEPT !.hostname_match = HostnameMatch, !.status = Fact[cert].status]
  /\ codes' = codes \cup {EXIT_BY_STATUS[Fact[cert].status]}
                    \cup Problem(HostnameMatch = "False", ExitCode.HOSTNAME_MISMATCH)
  /\ \/ /\ presented' = IF opts.source = "file" /\ (opts.verify \/ opts.chain)
                        THEN der ELSE presented
        /\ pc' = "verify"
        /\ UNCHANGED code
     \/ /\ opts.source = "file" /\ (opts.verify \/ opts.chain)
        /\ Fail                          \* a later certificate of the bundle is malformed
        /\ UNCHANGED presented
  /\ tries' = opts.retries
  /\ UNCHANGED <<opts, der, cert, verified, exported>>

-----------------------------------------------------------------------------
(* _check_chain                                                             *)

SkipVerify ==
  /\ pc = "verify" /\ ~opts.verify
  /\ pc' = "finish"
  /\ UNCHANGED <<opts, tries, der, cert, presented, verified, info, codes, exported, code>>

\* The end of _check_chain, for a path ("trusted") or <<>> (not trusted).
RecordChain(path) ==
  IF path # <<>>
  THEN /\ info' = [info EXCEPT !.chain_trusted = "True"]
       /\ verified' = path
       /\ codes' = codes
  ELSE /\ info' = [info EXCEPT !.chain_trusted = "False",
                               !.chain_diagnosis = DiagnoseChain(presented)]
       /\ verified' = <<>>
       /\ codes' = codes \cup {ExitCode.UNTRUSTED_OR_REVOKED}

VerifyFile ==
  /\ pc = "verify" /\ opts.verify /\ opts.source = "file"
  /\ RecordChain(VerifiedPath[presented])
  /\ pc' = "finish"
  /\ UNCHANGED <<opts, tries, der, cert, presented, exported, code>>

\* The trust store or the names of the leaf cannot be read.
VerifyFileFails ==
  /\ pc = "verify" /\ opts.verify /\ opts.source = "file"
  /\ Fail
  /\ UNCHANGED <<opts, tries, der, cert, presented, verified, info, codes, exported>>

\* The second handshake: a verified path for another leaf is not a verdict on
\* the inspected certificate.
VerifyHost(b) ==
  /\ pc = "verify" /\ opts.verify /\ opts.source = "host" /\ tries >= 0
  /\ LET path == VerifiedFrom(Sends[b])
     IN RecordChain(IF path # <<>> /\ SameLeaf(path, cert) THEN path ELSE <<>>)
  /\ pc' = "revocation"
  /\ UNCHANGED <<opts, tries, der, cert, presented, exported, code>>

-----------------------------------------------------------------------------
(* _check_revocation: any answer the responders of this certificate may give *)

CheckRevocation(status) ==
  /\ pc = "revocation"
  /\ status \in Fact[cert].revocation
  /\ info' = [info EXCEPT !.revocation_status = status]
  /\ codes' = codes \cup Problem(status = "REVOKED", ExitCode.UNTRUSTED_OR_REVOKED)
  /\ pc' = "finish"
  /\ UNCHANGED <<opts, tries, der, cert, presented, verified, exported, code>>

-----------------------------------------------------------------------------
(* Chain warnings, the opt-in checks and most_severe                        *)

\* Mutant of FinalCodes: the policy code is not collected.
CodesWithoutPolicy(met) ==
  codes \cup Problem(opts.pin /\ ~Fact[cert].pinned, ExitCode.PIN_MISMATCH)
        \cup Problem(opts.expectSan /\ ~Fact[cert].hasSans, ExitCode.SAN_MISMATCH)

FinalCodes(met) ==
  codes \cup Problem(opts.pin /\ ~Fact[cert].pinned, ExitCode.PIN_MISMATCH)
        \cup Problem(opts.expectSan /\ ~Fact[cert].hasSans, ExitCode.SAN_MISMATCH)
        \cup Problem(~met, ExitCode.POLICY)

Finish ==
  /\ pc = "finish"
  /\ LET met == PolicyMet(cert, info.revocation_status)
     IN /\ info' = [info EXCEPT
             !.chain_warnings = ChainExpiryWarnings(IF verified # <<>> THEN verified
                                                    ELSE presented),
             !.pin_match    = IF opts.pin THEN ToVerdict(Fact[cert].pinned) ELSE "None",
             !.sans_covered = IF opts.expectSan THEN ToVerdict(Fact[cert].hasSans)
                              ELSE "None",
             !.policy_met   = IF opts.policy \/ opts.requireRevocation
                              THEN ToVerdict(met) ELSE "None"]
        /\ codes' = FinalCodes(met)
        /\ code' = MostSevere(FinalCodes(met))
  /\ pc' = "done"
  /\ UNCHANGED <<opts, tries, der, cert, presented, verified, exported>>

Ended == pc \in {"done", "failed", "crashed"}

Terminated == Ended /\ UNCHANGED vars

Next ==
  \/ TransientError \/ HardError \/ NeverDials
  \/ (\E b \in Backends : FetchHost(b))
  \/ (\E bundle \in Bundles : FetchFile(bundle))
  \/ FileUnreadable \/ Load \/ Export \/ Assess
  \/ SkipVerify \/ VerifyFile \/ VerifyFileFails
  \/ (\E b \in Backends : VerifyHost(b))
  \/ (\E status \in RevocationStatus : CheckRevocation(status))
  \/ Finish
  \/ Terminated

Spec == Init /\ [][Next]_vars

-----------------------------------------------------------------------------
(* Properties                                                               *)

Reported == pc = "done"

\* Some chain with this leaf really leads to a trusted root.
Vouched(c) == \E ch \in Chains : ch[1] = c /\ VerifiedPath[ch] # <<>>

\* "Chain trusted: True" is a statement about the certificate on the report,
\* whichever backend answered the verification handshake (_check_chain).
TrustIsOfTheInspectedCert == info.chain_trusted = "True" => Vouched(cert)

\* A chain warning names a certificate of a chain that carries the reported
\* leaf, never an intermediate of another backend's certificate (_inspect's
\* fallback from the verified to the presented chain).
WarningsAreOfItsChain ==
  \A w \in info.chain_warnings :
    \E ch \in Chains : /\ ch[1] = cert
                       /\ w \in {ch[i] : i \in 1..Len(ch)}
                                \cup {VerifiedPath[ch][i] : i \in 1..Len(VerifiedPath[ch])}

\* The codes the fields of a report stand for.
ShownProblems ==
  {EXIT_BY_STATUS[info.status]}
    \cup Problem(info.hostname_match = "False", ExitCode.HOSTNAME_MISMATCH)
    \cup Problem(info.chain_trusted = "False" \/ info.revocation_status = "REVOKED",
                 ExitCode.UNTRUSTED_OR_REVOKED)
    \cup Problem(info.pin_match = "False", ExitCode.PIN_MISMATCH)
    \cup Problem(info.sans_covered = "False", ExitCode.SAN_MISMATCH)
    \cup Problem(info.policy_met = "False", ExitCode.POLICY)

\* The exit code and the report never disagree: the code is the worst problem
\* the report shows, so a consumer of either sees the same verdict.
CodeIsWorstShown == Reported => code = MostSevere(ShownProblems)

\* Exit code 0 is earned on every axis the run was asked to look at, by the one
\* certificate it reports, whatever backends answered in between.
OkIsEarned ==
  Reported /\ code = ExitCode.OK =>
    /\ Fact[cert].status = "VALID"
    /\ opts.source = "host" => Fact[cert].matches
    /\ opts.verify => Vouched(cert)
    /\ opts.pin => Fact[cert].pinned
    /\ opts.expectSan => Fact[cert].hasSans
    /\ opts.policy => Fact[cert].policyOk
    /\ opts.requireRevocation => "GOOD" \in Fact[cert].revocation

\* --require-revocation-check: a report below the policy code's severity rests
\* on a GOOD answer; no soft-fail (UNAVAILABLE, UNKNOWN) slips through.
RequiredRevocationIsProven ==
  Reported /\ opts.requireRevocation /\ code \in {ExitCode.OK, ExitCode.EXPIRING} =>
    info.revocation_status = "GOOD"

\* parser.py:187-190: UNTRUSTED_ROOT "the chain is complete but its anchor is
\* not trusted", said of the chain the report diagnoses (several certificates
\* presented, so not the leaf-only case).
DiagnosisIsOfTheChain ==
  info.chain_diagnosis = "UNTRUSTED_ROOT" /\ Len(presented) > 1 =>
    VerifiedPath[presented] = <<>>
=============================================================================
