--------------------------- MODULE InspectProofs ---------------------------
(***************************************************************************)
(* What an inspection guarantees for every set of certificates, backends,  *)
(* files and options.  The inductive invariant ties the report to the      *)
(* certificate and the collected codes to the report at every step.        *)
(***************************************************************************)
EXTENDS Report, CommonProofs

USE DEF Reported, Ended

\* The chosen Next disjuncts, as one action each.
FetchStep      == (\E b \in Backends : FetchHost(b)) \/ (\E bundle \in Bundles : FetchFile(bundle))
FailingStep    == TransientError \/ HardError \/ NeverDials \/ FileUnreadable \/ VerifyFileFails
VerifyHostStep == \E b \in Backends : VerifyHost(b)
RevocationStep == \E status \in RevocationStatus : CheckRevocation(status)

-----------------------------------------------------------------------------
\* The codes of exit_codes.py, as the provers need them: numbers in Codes.
LEMMA ExitCodeTypes ==
  /\ \A s \in Status : EXIT_BY_STATUS[s] \in Codes
  /\ ExitCode.OK = 0 /\ ExitCode.HOSTNAME_MISMATCH = 5 /\ ExitCode.UNTRUSTED_OR_REVOKED = 6
  /\ ExitCode.PIN_MISMATCH = 7 /\ ExitCode.SAN_MISMATCH = 8 /\ ExitCode.POLICY = 9
  /\ RUNTIME_ERROR = 1
PROOF BY DEF EXIT_BY_STATUS, ExitCode, Codes, Status, RUNTIME_ERROR

\* The exit code 0 stands for the status VALID alone.
LEMMA OkStatus ==
  ASSUME NEW s \in Status, EXIT_BY_STATUS[s] = 0
  PROVE  s = "VALID"
PROOF
  <1>1. ExitCode.OK = 0 /\ ExitCode.EXPIRING = 3 /\ ExitCode.INVALID = 4
    BY DEF ExitCode
  <1>2. s # "VALID" => EXIT_BY_STATUS[s] \in {3, 4}
    BY <1>1 DEF EXIT_BY_STATUS
  <1> QED BY <1>2

\* A problem adds one code or none.
LEMMA ProblemType ==
  ASSUME NEW b \in BOOLEAN, NEW c \in Codes
  PROVE  Problem(b, c) \subseteq Codes
PROOF BY DEF Problem

\* diagnose_chain returns one of its codes, or nothing.
LEMMA DiagnoseChainType == \A ch : DiagnoseChain(ch) \in Diagnosis
PROOF BY DEF DiagnoseChain, Diagnosis

\* Every chain that is presented or bundled has a leaf, and a verified path keeps it.
LEMMA ChainFacts ==
  /\ \A b \in Backends : Sends[b] \in Chains /\ Sends[b] \in Seq(Certs) /\ Sends[b] # <<>>
                         /\ Sends[b][1] \in Certs
  /\ \A ch \in Bundles : ch \in Chains /\ ch \in Seq(Certs) /\ ch # <<>> /\ ch[1] \in Certs
  /\ \A ch \in Chains : /\ VerifiedPath[ch] \in Seq(Certs)
                        /\ VerifiedPath[ch] # <<>> => VerifiedPath[ch][1] = ch[1]
PROOF
  <1>1. \A s \in Seq(Certs) \ {<<>>} : s[1] \in Certs
    OBVIOUS
  <1> QED BY <1>1, VerifierAssumption DEF Chains

\* What the verification handshake returns on either interpreter: nothing, or a
\* path for a chain that really verifies, with the leaf that was presented.
LEMMA VerifiedFromType ==
  ASSUME NEW b \in Backends
  PROVE  /\ VerifiedFrom(Sends[b]) \in Seq(Certs)
         /\ VerifiedFrom(Sends[b]) # <<>> =>
              /\ VerifiedPath[Sends[b]] # <<>>
              /\ VerifiedFrom(Sends[b])[1] = Sends[b][1]
PROOF
  <1>1. CASE opts.exposesChain BY <1>1, ChainFacts DEF VerifiedFrom
  <1>2. CASE ~opts.exposesChain
    <2>1. <<Sends[b][1]>> \in Seq(Certs) /\ <<Sends[b][1]>>[1] = Sends[b][1]
      BY ChainFacts
    <2> QED BY <1>2, <2>1, ChainFacts DEF VerifiedFrom
  <1> QED BY <1>1, <1>2

-----------------------------------------------------------------------------
(* Type correctness.                                                        *)

\* Collecting a problem keeps the codes exit codes.
LEMMA CodesGrow ==
  ASSUME TypeOK, NEW b \in BOOLEAN, NEW c \in Codes
  PROVE  codes \cup Problem(b, c) \subseteq Codes
PROOF BY ProblemType DEF TypeOK

\* The end of _check_chain keeps the types of what it writes.
LEMMA RecordChainType ==
  ASSUME TypeOK, NEW path \in Seq(Certs), RecordChain(path)
  PROVE  info' \in Info /\ verified' \in Seq(Certs) /\ codes' \subseteq Codes
PROOF
  <1>1. DiagnoseChain(presented) \in Diagnosis BY DiagnoseChainType
  <1>2. {6} \subseteq Codes /\ ExitCode.UNTRUSTED_OR_REVOKED = 6
    BY ExitCodeTypes DEF Codes
  <1> QED BY <1>1, <1>2 DEF RecordChain, TypeOK, Info, Verdict

\* So do the opt-in checks.
LEMMA FinalCodesType ==
  ASSUME TypeOK, NEW met \in BOOLEAN, cert \in Certs
  PROVE  FinalCodes(met) \subseteq Codes
PROOF
  <1>1. opts \in Options /\ Fact[cert] \in CertFact
    BY OptionsAssumption, FactAssumption DEF TypeOK
  <1>2. /\ (opts.pin /\ ~Fact[cert].pinned) \in BOOLEAN
        /\ (opts.expectSan /\ ~Fact[cert].hasSans) \in BOOLEAN
    BY <1>1 DEF Options, CertFact
  <1>3. {7, 8, 9} \subseteq Codes BY DEF Codes
  <1> QED BY <1>2, <1>3, ExitCodeTypes DEF FinalCodes, Problem, TypeOK

-----------------------------------------------------------------------------
(* The inductive invariant.                                                 *)

Loaded   == pc \in {"export", "assess", "verify", "revocation", "finish", "done"}
Assessed == pc \in {"verify", "revocation", "finish", "done"}

\* What has been read is a chain that exists, and it starts with the certificate.
Reading ==
  /\ pc = "load" => der \in Chains
  /\ Loaded => der \in Chains /\ cert = der[1] /\ cert \in Certs
  /\ pc \in {"fetch", "load"} => cert = NoCert
  /\ presented # <<>> /\ (pc = "load" \/ Loaded) => presented = der
  /\ pc = "fetch" => presented = <<>>
  /\ pc \in {"verify", "finish", "done"} /\ opts.verify /\ opts.source = "file" =>
       presented = der

\* Nothing is on the report before its check ran.
Unreported ==
  /\ pc \in {"fetch", "load", "export", "assess"} =>
       codes = {} /\ info.chain_trusted = "None" /\ info.chain_warnings = {}
       /\ info.revocation_status = "None" /\ info.pin_match = "None"
       /\ info.sans_covered = "None" /\ info.policy_met = "None" /\ verified = <<>>
  /\ pc \in {"verify", "revocation", "finish"} =>
       info.pin_match = "None" /\ info.sans_covered = "None" /\ info.policy_met = "None"
  /\ pc # "done" => info.chain_warnings = {}
  /\ pc = "verify" => info.chain_trusted = "None" /\ info.revocation_status = "None"
                      /\ verified = <<>>
  /\ pc = "revocation" => info.revocation_status = "None" /\ opts.verify
                          /\ opts.source = "host"

\* Each verdict is the inspected certificate's.
Verdicts ==
  /\ info.chain_trusted = "True" => Vouched(cert)
  /\ Assessed => info.status = Fact[cert].status /\ info.hostname_match = HostnameMatch
  /\ pc \in {"revocation", "finish", "done"} /\ opts.verify =>
       info.chain_trusted \in {"True", "False"}
  /\ pc \in {"finish", "done"} /\ opts.verify /\ opts.source = "host" =>
       info.revocation_status \in Fact[cert].revocation
  /\ pc = "done" =>
       /\ opts.pin => info.pin_match = ToVerdict(Fact[cert].pinned)
       /\ opts.expectSan => info.sans_covered = ToVerdict(Fact[cert].hasSans)
       /\ opts.policy \/ opts.requireRevocation =>
            info.policy_met = ToVerdict(PolicyMet(cert, info.revocation_status))

\* The verified chain is a path of the certificate's own chain.
Paths ==
  Loaded /\ verified # <<>> =>
    \E ch \in Chains : ch[1] = cert /\ (verified = VerifiedPath[ch] \/ verified = <<cert>>)

\* The codes collected are those of the report, and most_severe picked one.
CodesAgree ==
  /\ Assessed => codes = ShownProblems
  /\ pc = "done" => code = MostSevere(codes)

Exporting == pc \in {"assess", "verify", "revocation", "finish", "done"} /\ opts.export =>
               exported = cert

\* The inductive strengthening of what the runs check.
IInv ==
  /\ TypeOK
  /\ Reading
  /\ Unreported
  /\ Verdicts
  /\ Paths
  /\ CodesAgree
  /\ Exporting
  /\ WarningsAreOfItsChain

\* The options of a run have their types, and _validate_args has passed them.
LEMMA Typing ==
  ASSUME TypeOK
  PROVE  /\ opts \in Options /\ opts.source \in {"host", "file"} /\ opts.retries \in Int
         /\ opts.verify \in BOOLEAN /\ opts.pin \in BOOLEAN /\ opts.expectSan \in BOOLEAN
         /\ opts.policy \in BOOLEAN /\ opts.requireRevocation \in BOOLEAN
         /\ opts.export \in BOOLEAN /\ opts.chain \in BOOLEAN
         /\ opts.requireRevocation => opts.source = "host" /\ opts.verify
         /\ RUNTIME_ERROR \in Codes /\ -1 \notin Codes
PROOF BY OptionsAssumption DEF TypeOK, Options, RUNTIME_ERROR, Codes

\* What the checks see of a certificate has its type.
LEMMA FactTyping ==
  ASSUME NEW c \in Certs
  PROVE  /\ Fact[c].status \in Status
         /\ Fact[c].matches \in BOOLEAN /\ Fact[c].pinned \in BOOLEAN
         /\ Fact[c].hasSans \in BOOLEAN /\ Fact[c].policyOk \in BOOLEAN
         /\ Fact[c].revocation \in SUBSET RevocationStatus
PROOF BY FactAssumption DEF CertFact

\* The invariant holds before anything was read.
LEMMA InitIInv == ASSUME Init PROVE IInv
PROOF
  <1>1. opts \in Options
    BY OptionsAssumption DEF Init
  <1>2. TypeOK
    BY <1>1 DEF Init, TypeOK, Options, Info, Verdict, Diagnosis, Codes
  <1> QED
    BY <1>2 DEF Init, IInv, Reading, Unreported, Verdicts, Paths, CodesAgree, Exporting,
                Loaded, Assessed, WarningsAreOfItsChain

\* A step that fails, retries or crashes leaves the report and what was read alone.
LEMMA FailingIInv == ASSUME IInv, FailingStep PROVE IInv'
PROOF
  <1>1. /\ pc' = "failed" \/ pc' = "crashed" \/ pc' = pc
        /\ pc # "done"
        /\ code' \in Codes \cup {-1} /\ tries' \in Int
        /\ UNCHANGED <<opts, der, cert, presented, verified, info, codes, exported>>
    BY Typing DEF FailingStep, TransientError, HardError, NeverDials, FileUnreadable,
                  VerifyFileFails, Dialing, Fail, IInv, TypeOK
  <1>2. TypeOK' BY <1>1 DEF IInv, TypeOK
  <1>3. /\ Vouched(cert)' <=> Vouched(cert)
        /\ HostnameMatch' = HostnameMatch
        /\ ShownProblems' = ShownProblems
    BY <1>1 DEF Vouched, HostnameMatch, ShownProblems
  <1>4. WarningsAreOfItsChain' BY <1>1 DEF IInv, WarningsAreOfItsChain
  <1>5. Reading' /\ Unreported' /\ Paths' /\ Exporting'
    BY <1>1 DEF IInv, Reading, Unreported, Paths, Exporting, Loaded, Assessed
  <1>6. Verdicts' /\ CodesAgree'
    BY <1>1, <1>3 DEF IInv, Verdicts, CodesAgree, Assessed
  <1> QED BY <1>2, <1>4, <1>5, <1>6 DEF IInv

\* Reading a chain or a file keeps the invariant.
LEMMA FetchIInv == ASSUME IInv, FetchStep PROVE IInv'
PROOF
  <1>1. /\ pc = "fetch" /\ pc' = "load"
        /\ der' \in Chains /\ der' \in Seq(Certs)
        /\ presented' \in Seq(Certs) /\ (presented' # <<>> => presented' = der')
        /\ UNCHANGED <<opts, tries, cert, verified, info, codes, exported, code>>
    BY ChainFacts DEF FetchStep, FetchHost, FetchFile, PresentedBy, IInv, TypeOK, Reading
  <1>2. TypeOK' BY <1>1 DEF IInv, TypeOK
  <1>3. Reading' /\ Unreported' /\ Paths' /\ Exporting' /\ CodesAgree'
    BY <1>1 DEF IInv, Reading, Unreported, Paths, Exporting, CodesAgree, Loaded, Assessed
  <1>4. Verdicts' /\ WarningsAreOfItsChain'
    BY <1>1 DEF IInv, Unreported, Verdicts, Assessed, WarningsAreOfItsChain
  <1> QED BY <1>2, <1>3, <1>4 DEF IInv

\* Loading the certificate, the first of what was read, keeps it.
LEMMA LoadIInv == ASSUME IInv, Load PROVE IInv'
PROOF
  <1>1. /\ pc = "load" /\ pc' \in {"export", "failed"}
        /\ der[1] \in Certs /\ cert' \in {cert, der[1]}
        /\ pc' = "export" => cert' = der[1]
        /\ code' \in Codes \cup {-1}
        /\ UNCHANGED <<opts, tries, der, presented, verified, info, codes, exported>>
    BY ChainFacts, Typing, VerifierAssumption DEF Load, Fail, IInv, TypeOK, Reading, Chains
  <1>2. TypeOK' BY <1>1 DEF IInv, TypeOK
  <1>3. Reading' /\ Unreported' /\ Paths' /\ Exporting' /\ CodesAgree'
    BY <1>1 DEF IInv, Reading, Unreported, Paths, Exporting, CodesAgree, Loaded, Assessed
  <1>4. Verdicts' /\ WarningsAreOfItsChain'
    BY <1>1 DEF IInv, Unreported, Verdicts, Assessed, WarningsAreOfItsChain
  <1> QED BY <1>2, <1>3, <1>4 DEF IInv

\* Exporting keeps it.
LEMMA ExportIInv == ASSUME IInv, Export PROVE IInv'
PROOF
  <1>1. /\ pc = "export" /\ pc' \in {"assess", "failed"}
        /\ exported' \in Certs \cup {NoCert}
        /\ pc' = "assess" /\ opts.export => exported' = cert
        /\ code' \in Codes \cup {-1}
        /\ UNCHANGED <<opts, tries, der, cert, presented, verified, info, codes>>
    BY Typing DEF Export, Fail, IInv, TypeOK, Reading, Loaded
  <1>2. TypeOK' BY <1>1 DEF IInv, TypeOK
  <1>3. Reading' /\ Unreported' /\ Paths' /\ Exporting' /\ CodesAgree'
    BY <1>1 DEF IInv, Reading, Unreported, Paths, Exporting, CodesAgree, Loaded, Assessed
  <1>4. Verdicts' /\ WarningsAreOfItsChain'
    BY <1>1 DEF IInv, Unreported, Verdicts, Assessed, WarningsAreOfItsChain
  <1> QED BY <1>2, <1>3, <1>4 DEF IInv

\* The leaf's own verdicts and their codes agree.
LEMMA AssessIInv == ASSUME IInv, Assess PROVE IInv'
PROOF
  <1>1. /\ pc = "assess" /\ pc' \in {"verify", "failed"}
        /\ cert \in Certs /\ der \in Chains /\ cert = der[1]
        /\ info' = [info EXCEPT !.hostname_match = HostnameMatch, !.status = Fact[cert].status]
        /\ codes' = {EXIT_BY_STATUS[Fact[cert].status]}
                       \cup Problem(HostnameMatch = "False", ExitCode.HOSTNAME_MISMATCH)
        /\ code' \in Codes \cup {-1} /\ tries' \in Int
        /\ presented' \in {presented, der}
        /\ pc' = "verify" /\ opts.verify /\ opts.source = "file" => presented' = der
        /\ UNCHANGED <<opts, der, cert, verified, exported>>
    BY Typing DEF Assess, Fail, IInv, TypeOK, Reading, Unreported, Loaded
  <1>2. HostnameMatch \in Verdict /\ HostnameMatch' = HostnameMatch
    BY <1>1 DEF HostnameMatch, ToVerdict, Verdict
  <1>3. /\ info' \in Info
        /\ info'.status = Fact[cert].status /\ info'.hostname_match = HostnameMatch
        /\ info'.chain_trusted = "None" /\ info'.chain_warnings = {}
        /\ info'.revocation_status = "None" /\ info'.pin_match = "None"
        /\ info'.sans_covered = "None" /\ info'.policy_met = "None"
    BY <1>1, <1>2, FactTyping DEF IInv, TypeOK, Info, Unreported
  <1>4. codes' \subseteq Codes
    BY <1>1, FactTyping, ExitCodeTypes DEF Problem, Codes
  <1>5. TypeOK' BY <1>1, <1>3, <1>4 DEF IInv, TypeOK
  <1>6. ShownProblems' = codes'
    BY <1>1, <1>2, <1>3 DEF ShownProblems, Problem
  <1>7. Reading' /\ Unreported' /\ Paths' /\ Exporting' /\ CodesAgree'
    BY <1>1, <1>3, <1>6
       DEF IInv, Reading, Unreported, Paths, Exporting, CodesAgree, Loaded, Assessed
  <1>8. Verdicts' /\ WarningsAreOfItsChain'
    BY <1>1, <1>2, <1>3 DEF IInv, Unreported, Verdicts, Assessed, WarningsAreOfItsChain
  <1> QED BY <1>5, <1>7, <1>8 DEF IInv

\* Leaving the verification out keeps the invariant.
LEMMA SkipVerifyIInv == ASSUME IInv, SkipVerify PROVE IInv'
PROOF
  <1>1. /\ pc = "verify" /\ pc' = "finish" /\ ~opts.verify
        /\ UNCHANGED <<opts, tries, der, cert, presented, verified, info, codes, exported, code>>
    BY DEF SkipVerify
  <1>2. TypeOK' BY <1>1 DEF IInv, TypeOK
  <1>3. /\ Vouched(cert)' <=> Vouched(cert)
        /\ HostnameMatch' = HostnameMatch /\ ShownProblems' = ShownProblems
    BY <1>1 DEF Vouched, HostnameMatch, ShownProblems
  <1>4. Reading' /\ Unreported' /\ Paths' /\ Exporting' /\ CodesAgree'
    BY <1>1, <1>3 DEF IInv, Reading, Unreported, Paths, Exporting, CodesAgree, Loaded, Assessed
  <1>5. Verdicts' /\ WarningsAreOfItsChain'
    BY <1>1, <1>3 DEF IInv, Verdicts, Assessed, WarningsAreOfItsChain
  <1> QED BY <1>2, <1>4, <1>5 DEF IInv

\* The common end of the two verifications: a path recorded as trusted starts
\* with the inspected certificate and vouches for it.
LEMMA RecordChainIInv ==
  ASSUME IInv, pc = "verify", opts.verify, NEW path \in Seq(Certs), RecordChain(path),
         path # <<>> => /\ Vouched(cert)
                        /\ \E ch \in Chains : ch[1] = cert
                                            /\ (path = VerifiedPath[ch] \/ path = <<cert>>),
         pc' = IF opts.source = "host" THEN "revocation" ELSE "finish",
         UNCHANGED <<opts, tries, der, cert, presented, exported, code>>
  PROVE  IInv'
PROOF
  <1>1. /\ info.chain_trusted = "None" /\ info.revocation_status = "None"
        /\ info.pin_match = "None" /\ info.sans_covered = "None" /\ info.policy_met = "None"
        /\ info.chain_warnings = {} /\ info \in Info /\ cert \in Certs
        /\ codes = ShownProblems
    BY DEF IInv, Unreported, TypeOK, Reading, Loaded, CodesAgree, Assessed
  <1>2. info' \in Info /\ verified' \in Seq(Certs) /\ codes' \subseteq Codes
    BY RecordChainType DEF IInv
  <1>3. /\ info'.status = info.status /\ info'.hostname_match = info.hostname_match
        /\ info'.chain_warnings = {}
        /\ info'.revocation_status = "None" /\ info'.pin_match = "None"
        /\ info'.sans_covered = "None" /\ info'.policy_met = "None"
        /\ info'.chain_trusted = IF path # <<>> THEN "True" ELSE "False"
        /\ verified' = path
        /\ codes' = codes \cup Problem(path = <<>>, ExitCode.UNTRUSTED_OR_REVOKED)
    BY <1>1 DEF RecordChain, Info, Problem
  <1>4. TypeOK' BY <1>2 DEF IInv, TypeOK
  <1>5. HostnameMatch' = HostnameMatch /\ (Vouched(cert)' <=> Vouched(cert))
    BY DEF HostnameMatch, Vouched
  <1>6. ShownProblems' = codes'
    BY <1>1, <1>3 DEF ShownProblems, Problem
  <1>7. Reading' /\ Unreported' /\ Exporting'
    BY <1>3 DEF IInv, Reading, Unreported, Exporting, Loaded, Assessed
  <1>8. Verdicts' BY <1>3, <1>5 DEF IInv, Verdicts, Assessed
  <1>9. Paths' BY <1>3 DEF Paths
  <1>10. CodesAgree' /\ WarningsAreOfItsChain'
    BY <1>3, <1>6 DEF CodesAgree, WarningsAreOfItsChain
  <1> QED BY <1>4, <1>7, <1>8, <1>9, <1>10 DEF IInv

\* The offline verification of a file keeps the invariant.
LEMMA VerifyFileIInv == ASSUME IInv, VerifyFile PROVE IInv'
PROOF
  <1>1. /\ pc = "verify" /\ opts.verify /\ opts.source = "file" /\ pc' = "finish"
        /\ presented = der /\ der \in Chains /\ der[1] = cert
        /\ UNCHANGED <<opts, tries, der, cert, presented, exported, code>>
    BY DEF VerifyFile, IInv, Reading, Loaded
  <1>2. PICK path \in Seq(Certs) : RecordChain(path) /\ path = VerifiedPath[presented]
    BY <1>1, ChainFacts DEF VerifyFile
  <1>3. ASSUME path # <<>>
        PROVE  /\ Vouched(cert)
               /\ \E ch \in Chains : ch[1] = cert
                                   /\ (path = VerifiedPath[ch] \/ path = <<cert>>)
    BY <1>1, <1>2, <1>3 DEF Vouched
  <1>4. pc' = IF opts.source = "host" THEN "revocation" ELSE "finish"
    BY <1>1
  <1>5. /\ pc = "verify" /\ opts.verify /\ RecordChain(path)
        /\ UNCHANGED <<opts, tries, der, cert, presented, exported, code>>
    BY <1>1, <1>2
  <1> QED BY <1>2, <1>3, <1>4, <1>5, RecordChainIInv

\* So does the second handshake, whichever backend answers it (the same-leaf guard).
LEMMA VerifyHostIInv == ASSUME IInv, VerifyHostStep PROVE IInv'
PROOF
  <1>1. PICK b \in Backends : VerifyHost(b)
    BY DEF VerifyHostStep
  <1> DEFINE found == VerifiedFrom(Sends[b])
  <1>2. /\ pc = "verify" /\ opts.verify /\ opts.source = "host" /\ pc' = "revocation"
        /\ UNCHANGED <<opts, tries, der, cert, presented, exported, code>>
    BY <1>1 DEF VerifyHost
  <1>3. PICK path \in Seq(Certs) :
           /\ RecordChain(path)
           /\ path = IF found # <<>> /\ SameLeaf(found, cert) THEN found ELSE <<>>
    <2>1. RecordChain(IF found # <<>> /\ SameLeaf(found, cert) THEN found ELSE <<>>)
      BY <1>1 DEF VerifyHost
    <2>2. (IF found # <<>> /\ SameLeaf(found, cert) THEN found ELSE <<>>) \in Seq(Certs)
      BY VerifiedFromType
    <2> QED BY <2>1, <2>2
  <1>4. ASSUME path # <<>>
        PROVE  /\ Vouched(cert)
               /\ \E ch \in Chains : ch[1] = cert
                                   /\ (path = VerifiedPath[ch] \/ path = <<cert>>)
    <2>1. found # <<>> /\ found[1] = cert /\ path = found
      BY <1>3, <1>4 DEF SameLeaf
    <2>2. VerifiedPath[Sends[b]] # <<>> /\ Sends[b][1] = cert /\ Sends[b] \in Chains
      BY <2>1, VerifiedFromType, ChainFacts
    <2>3. path = VerifiedPath[Sends[b]] \/ path = <<cert>>
      BY <2>1, <2>2 DEF VerifiedFrom
    <2> QED BY <2>2, <2>3 DEF Vouched
  <1>5. pc' = IF opts.source = "host" THEN "revocation" ELSE "finish"
    BY <1>2
  <1> QED BY <1>2, <1>3, <1>4, <1>5, RecordChainIInv

\* So does the revocation verdict with its code.
LEMMA RevocationIInv == ASSUME IInv, RevocationStep PROVE IInv'
PROOF
  <1>1. PICK status \in RevocationStatus : CheckRevocation(status)
    BY DEF RevocationStep
  <1>2. /\ pc = "revocation" /\ pc' = "finish" /\ status \in Fact[cert].revocation
        /\ info' = [info EXCEPT !.revocation_status = status]
        /\ codes' = codes \cup Problem(status = "REVOKED", ExitCode.UNTRUSTED_OR_REVOKED)
        /\ UNCHANGED <<opts, tries, der, cert, presented, verified, exported, code>>
    BY <1>1 DEF CheckRevocation
  <1>3. /\ info.revocation_status = "None" /\ info \in Info /\ cert \in Certs
        /\ info.pin_match = "None" /\ info.sans_covered = "None" /\ info.policy_met = "None"
        /\ opts.verify /\ opts.source = "host" /\ codes = ShownProblems
    BY <1>2 DEF IInv, Unreported, TypeOK, Reading, Loaded, CodesAgree, Assessed
  <1>4. /\ info' \in Info /\ info'.revocation_status = status
        /\ info'.status = info.status /\ info'.hostname_match = info.hostname_match
        /\ info'.chain_trusted = info.chain_trusted
        /\ info'.chain_warnings = info.chain_warnings
        /\ info'.pin_match = "None" /\ info'.sans_covered = "None"
        /\ info'.policy_met = "None"
    BY <1>2, <1>3 DEF Info
  <1>5. TypeOK' BY <1>2, <1>4, ExitCodeTypes DEF IInv, TypeOK, Problem, Codes
  <1>6. HostnameMatch' = HostnameMatch /\ (Vouched(cert)' <=> Vouched(cert))
    BY <1>2 DEF HostnameMatch, Vouched
  <1>7. ShownProblems' = codes'
    BY <1>2, <1>3, <1>4 DEF ShownProblems, Problem
  <1>8. Reading' /\ Unreported' /\ Exporting' /\ Paths'
    BY <1>2, <1>3, <1>4
       DEF IInv, Reading, Unreported, Exporting, Paths, Loaded, Assessed
  <1>9. Verdicts' BY <1>2, <1>3, <1>4, <1>6 DEF IInv, Verdicts, Assessed
  <1>10. CodesAgree' /\ WarningsAreOfItsChain'
    BY <1>2, <1>4, <1>7 DEF IInv, CodesAgree, WarningsAreOfItsChain
  <1> QED BY <1>5, <1>8, <1>9, <1>10 DEF IInv

\* The chain whose warnings are reported is a chain of the inspected certificate.
LEMMA WarnedChain ==
  ASSUME IInv, pc = "finish",
         NEW w \in ChainExpiryWarnings(IF verified # <<>> THEN verified ELSE presented)
  PROVE  /\ w \in Certs
         /\ \E ch \in Chains : /\ ch[1] = cert
                              /\ w \in {ch[i] : i \in 1..Len(ch)}
                                   \cup {VerifiedPath[ch][i] : i \in 1..Len(VerifiedPath[ch])}
PROOF
  <1>1. der \in Chains /\ cert = der[1] /\ cert \in Certs /\ verified \in Seq(Certs)
        /\ presented \in Seq(Certs) /\ (presented # <<>> => presented = der)
    BY DEF IInv, Reading, Loaded, TypeOK
  <1>2. CASE verified # <<>>
    <2>1. PICK i \in 2..Len(verified) : w = verified[i]
      BY <1>2 DEF ChainExpiryWarnings
    <2>2. PICK ch \in Chains :
             ch[1] = cert /\ (verified = VerifiedPath[ch] \/ verified = <<cert>>)
      BY <1>2 DEF IInv, Paths, Loaded
    <2>3. CASE verified = VerifiedPath[ch]
      BY <1>1, <2>1, <2>2, <2>3
    <2>4. CASE verified = <<cert>>
      <3>1. Len(<<cert>>) = 1 OBVIOUS
      <3> QED BY <2>1, <2>4, <3>1
    <2> QED BY <2>2, <2>3, <2>4
  <1>3. CASE verified = <<>>
    <2>1. PICK i \in 2..Len(presented) : w = presented[i]
      BY <1>3 DEF ChainExpiryWarnings
    <2>2. presented # <<>> BY <2>1, <1>1
    <2> QED BY <1>1, <2>1, <2>2
  <1> QED BY <1>2, <1>3

\* So do the opt-in checks and the choice of the exit code.
LEMMA FinishIInv == ASSUME IInv, Finish PROVE IInv'
PROOF
  <1> DEFINE met == PolicyMet(cert, info.revocation_status)
             warned == ChainExpiryWarnings(IF verified # <<>> THEN verified ELSE presented)
  <1>1. /\ pc = "finish" /\ pc' = "done"
        /\ codes' = FinalCodes(met) /\ code' = MostSevere(codes')
        /\ UNCHANGED <<opts, tries, der, cert, presented, verified, exported>>
    BY DEF Finish
  <1>2. /\ info \in Info /\ cert \in Certs /\ codes = ShownProblems /\ codes \subseteq Codes
        /\ info.pin_match = "None" /\ info.sans_covered = "None" /\ info.policy_met = "None"
    BY <1>1 DEF IInv, Unreported, TypeOK, Reading, Loaded, CodesAgree, Assessed
  <1>3. met \in BOOLEAN
    BY <1>2, FactTyping, Typing DEF PolicyMet, IInv
  <1>4. warned \subseteq Certs
    BY <1>1, WarnedChain
  <1>5. /\ info'.chain_warnings = warned
        /\ info'.pin_match = IF opts.pin THEN ToVerdict(Fact[cert].pinned) ELSE "None"
        /\ info'.sans_covered = IF opts.expectSan THEN ToVerdict(Fact[cert].hasSans) ELSE "None"
        /\ info'.policy_met = IF opts.policy \/ opts.requireRevocation
                              THEN ToVerdict(met) ELSE "None"
        /\ info'.status = info.status /\ info'.hostname_match = info.hostname_match
        /\ info'.chain_trusted = info.chain_trusted
        /\ info'.revocation_status = info.revocation_status
    BY <1>2 DEF Finish, Info
  <1>6. info' \in Info
    <2>1. \A b : ToVerdict(b) \in Verdict /\ "None" \in Verdict
      BY DEF ToVerdict, Verdict
    <2>2. info' = [info EXCEPT
             !.chain_warnings = warned,
             !.pin_match    = IF opts.pin THEN ToVerdict(Fact[cert].pinned) ELSE "None",
             !.sans_covered = IF opts.expectSan THEN ToVerdict(Fact[cert].hasSans)
                              ELSE "None",
             !.policy_met   = IF opts.policy \/ opts.requireRevocation
                              THEN ToVerdict(met) ELSE "None"]
      BY DEF Finish
    <2> HIDE DEF met, warned
    <2> QED BY <2>1, <2>2, <1>2, <1>4 DEF Info
  <1>7. codes' \subseteq Codes
    BY <1>1, <1>2, <1>3, FinalCodesType DEF IInv
  <1>8. TypeOK'
    BY <1>1, <1>6, <1>7, MostSevereType DEF IInv, TypeOK
  <1>9. HostnameMatch' = HostnameMatch /\ (Vouched(cert)' <=> Vouched(cert))
    BY <1>1 DEF HostnameMatch, Vouched
  <1>10. ~(opts.policy \/ opts.requireRevocation) => met
    BY Typing DEF PolicyMet, IInv
  <1>11. ShownProblems' = codes'
    <2>1. (info'.pin_match = "False") <=> (opts.pin /\ ~Fact[cert].pinned)
      BY <1>5, <1>2, FactTyping DEF ToVerdict
    <2>2. (info'.sans_covered = "False") <=> (opts.expectSan /\ ~Fact[cert].hasSans)
      BY <1>5, <1>2, FactTyping DEF ToVerdict
    <2>3. (info'.policy_met = "False") <=> ~met
      BY <1>5, <1>3, <1>10 DEF ToVerdict
    <2>4. codes = {EXIT_BY_STATUS[info.status]}
                    \cup Problem(info.hostname_match = "False", ExitCode.HOSTNAME_MISMATCH)
                    \cup Problem(info.chain_trusted = "False"
                                   \/ info.revocation_status = "REVOKED",
                                 ExitCode.UNTRUSTED_OR_REVOKED)
      BY <1>2 DEF ShownProblems, Problem
    <2> HIDE DEF met
    <2> QED BY <1>1, <1>5, <2>1, <2>2, <2>3, <2>4 DEF ShownProblems, FinalCodes, Problem
  <1>12. Reading' /\ Unreported' /\ Exporting' /\ Paths'
    BY <1>1 DEF IInv, Reading, Unreported, Exporting, Paths, Loaded, Assessed
  <1>13. Verdicts'
    <2>1. PolicyMet(cert, info.revocation_status)' <=> met
      BY <1>1, <1>5 DEF PolicyMet
    <2>2. ToVerdict(PolicyMet(cert, info.revocation_status))' = ToVerdict(met)
      BY <2>1 DEF ToVerdict
    <2> HIDE DEF met
    <2> QED BY <1>1, <1>5, <1>9, <2>2 DEF IInv, Verdicts, Assessed
  <1>14. WarningsAreOfItsChain'
    BY <1>1, <1>5, WarnedChain DEF WarningsAreOfItsChain
  <1>15. CodesAgree'
    BY <1>1, <1>11 DEF CodesAgree
  <1> QED BY <1>8, <1>12, <1>13, <1>14, <1>15 DEF IInv

-----------------------------------------------------------------------------
(* The theorems.                                                            *)

\* Every step keeps the invariant.
LEMMA NextIInv == ASSUME IInv, [Next]_vars PROVE IInv'
PROOF
  <1>1. CASE FailingStep BY <1>1, FailingIInv
  <1>2. CASE FetchStep BY <1>2, FetchIInv
  <1>3. CASE Load BY <1>3, LoadIInv
  <1>4. CASE Export BY <1>4, ExportIInv
  <1>5. CASE Assess BY <1>5, AssessIInv
  <1>6. CASE SkipVerify BY <1>6, SkipVerifyIInv
  <1>7. CASE VerifyFile BY <1>7, VerifyFileIInv
  <1>8. CASE VerifyHostStep BY <1>8, VerifyHostIInv
  <1>9. CASE RevocationStep BY <1>9, RevocationIInv
  <1>10. CASE Finish BY <1>10, FinishIInv
  <1>11. CASE Terminated \/ UNCHANGED vars
    <2>1. UNCHANGED vars BY <1>11 DEF Terminated
    <2> USE <2>1 DEF vars
    <2>2. /\ Vouched(cert)' <=> Vouched(cert)
          /\ HostnameMatch' = HostnameMatch /\ ShownProblems' = ShownProblems
          /\ ToVerdict(PolicyMet(cert, info.revocation_status))'
               = ToVerdict(PolicyMet(cert, info.revocation_status))
      BY DEF Vouched, HostnameMatch, ShownProblems, PolicyMet
    <2>3. Reading' /\ Unreported' /\ Paths' /\ Exporting' /\ TypeOK'
      BY DEF IInv, Reading, Unreported, Paths, Exporting, Loaded, Assessed, TypeOK
    <2>4. Verdicts' /\ CodesAgree' /\ WarningsAreOfItsChain'
      BY <2>2 DEF IInv, Verdicts, CodesAgree, Assessed, WarningsAreOfItsChain
    <2> QED BY <2>3, <2>4 DEF IInv
  <1> QED
    BY <1>1, <1>2, <1>3, <1>4, <1>5, <1>6, <1>7, <1>8, <1>9, <1>10, <1>11
       DEF Next, FailingStep, FetchStep, VerifyHostStep, RevocationStep

\* The inductive invariant holds in every reachable state.
THEOREM Inductive == Spec => []IInv
PROOF
  <1>1. Init => IInv BY InitIInv
  <1>2. IInv /\ [Next]_vars => IInv' BY NextIInv
  <1> QED BY <1>1, <1>2, PTL DEF Spec

\* Every variable of the pipeline keeps its type.
THEOREM TypeCorrect == Spec => []TypeOK
PROOF
  <1>1. IInv => TypeOK BY DEF IInv
  <1> QED BY <1>1, Inductive, PTL

\* "Chain trusted: True" is always a verdict on the reported certificate, for
\* any set of backends answering the two handshakes (_check_chain).
THEOREM TrustIsSound == Spec => []TrustIsOfTheInspectedCert
PROOF
  <1>1. IInv => TrustIsOfTheInspectedCert
    BY DEF IInv, Verdicts, TrustIsOfTheInspectedCert
  <1> QED BY <1>1, Inductive, PTL

\* A chain warning never names another certificate's intermediate (_inspect).
THEOREM WarningsAreSound == Spec => []WarningsAreOfItsChain
PROOF
  <1>1. IInv => WarningsAreOfItsChain BY DEF IInv
  <1> QED BY <1>1, Inductive, PTL

\* The exit code of a report is the worst problem the report shows (_inspect).
THEOREM CodeAgreesWithReport == Spec => []CodeIsWorstShown
PROOF
  <1>1. IInv => CodeIsWorstShown
    BY DEF IInv, CodesAgree, Assessed, CodeIsWorstShown
  <1> QED BY <1>1, Inductive, PTL

\* --require-revocation-check never lets a soft-fail pass (_check_policy).
THEOREM RevocationIsRequired == Spec => []RequiredRevocationIsProven
PROOF
  <1>1. ASSUME IInv PROVE RequiredRevocationIsProven
    <2> SUFFICES ASSUME pc = "done", opts.requireRevocation, info.revocation_status # "GOOD"
                 PROVE  code \notin {0, 3}
      BY DEF RequiredRevocationIsProven, ExitCode
    <2>1. cert \in Certs /\ codes = ShownProblems /\ code = MostSevere(codes)
          /\ codes \subseteq Codes /\ info.policy_met = ToVerdict(PolicyMet(cert, info.revocation_status))
      BY <1>1 DEF IInv, Reading, Loaded, CodesAgree, Assessed, Verdicts, TypeOK
    <2>2. info.policy_met = "False"
      BY <2>1 DEF PolicyMet, RevocationProven, ToVerdict
    <2>3. 9 \in codes
      BY <2>1, <2>2 DEF ShownProblems, Problem, ExitCode
    <2>4. AtLeastAsSevere(code, 9) /\ code \in Codes
      BY <2>1, <2>3, MostSevereWins
    <2>5. SeverityRank[9] = 7 /\ SeverityRank[3] = 8 /\ SeverityRank[0] = 9
      <3>1. \A i \in 1..9 : /\ SeverityOrder[i] = 9 => i = 7
                            /\ SeverityOrder[i] = 3 => i = 8
        BY DEF SeverityOrder, ExitCode, RUNTIME_ERROR
      <3> QED BY <3>1, RankOfCode DEF Codes
    <2> QED BY <2>4, <2>5 DEF AtLeastAsSevere
  <1> QED BY <1>1, Inductive, PTL

\* Exit code 0 is earned by the reported certificate on every axis that was
\* asked for, whatever backends answered (_inspect as a whole).
THEOREM OkIsSound == Spec => []OkIsEarned
PROOF
  <1>1. ASSUME IInv PROVE OkIsEarned
    <2> SUFFICES ASSUME pc = "done", code = 0
                 PROVE  /\ Fact[cert].status = "VALID"
                        /\ opts.source = "host" => Fact[cert].matches
                        /\ opts.verify => Vouched(cert)
                        /\ opts.pin => Fact[cert].pinned
                        /\ opts.expectSan => Fact[cert].hasSans
                        /\ opts.policy => Fact[cert].policyOk
                        /\ opts.requireRevocation => "GOOD" \in Fact[cert].revocation
      BY DEF OkIsEarned, ExitCode
    <2>1. cert \in Certs /\ codes = ShownProblems /\ code = MostSevere(codes)
          /\ codes \subseteq Codes
      BY <1>1 DEF IInv, Reading, Loaded, CodesAgree, Assessed, TypeOK
    <2>2. ShownProblems \subseteq {0}
      BY <2>1, OkIsAlone DEF ExitCode
    <2>3. /\ EXIT_BY_STATUS[info.status] = 0
          /\ info.hostname_match # "False" /\ info.chain_trusted # "False"
          /\ info.pin_match # "False" /\ info.sans_covered # "False"
          /\ info.policy_met # "False"
      BY <2>2, ExitCodeTypes DEF ShownProblems, Problem
    <2>4. Fact[cert].status = "VALID"
      BY <1>1, <2>1, <2>3, FactTyping, OkStatus DEF IInv, Verdicts, Assessed
    <2>5. opts.source = "host" => Fact[cert].matches
      BY <1>1, <2>1, <2>3, FactTyping DEF IInv, Verdicts, Assessed, HostnameMatch, ToVerdict
    <2>6. opts.verify => Vouched(cert)
      BY <1>1, <2>3 DEF IInv, Verdicts
    <2>7. opts.pin => Fact[cert].pinned
      BY <1>1, <2>3 DEF IInv, Verdicts, ToVerdict
    <2>8. opts.expectSan => Fact[cert].hasSans
      BY <1>1, <2>3 DEF IInv, Verdicts, ToVerdict
    <2>9. (opts.policy => Fact[cert].policyOk)
            /\ (opts.requireRevocation => info.revocation_status = "GOOD")
      BY <1>1, <2>3 DEF IInv, Verdicts, ToVerdict, PolicyMet, RevocationProven
    <2>10. opts.requireRevocation => info.revocation_status \in Fact[cert].revocation
      BY <1>1, Typing DEF IInv, Verdicts
    <2> QED BY <2>4, <2>5, <2>6, <2>7, <2>8, <2>9, <2>10
  <1> QED BY <1>1, Inductive, PTL

-----------------------------------------------------------------------------
(* The outputs.                                                             *)

\* What the entry of an optional field shows: its own label, when it is there.
LEMMA EntryShows ==
  ASSUME NEW shown \in BOOLEAN, NEW label, NEW value, NEW x, NEW y
  PROVE  <<x, y>> \in Entry(shown, label, value) <=> shown /\ x = label /\ y = value
PROOF BY DEF Entry

\* What a reader finds in the text: the status, and each verdict that is "False".
LEMMA TextShows ==
  ASSUME info \in Info
  PROVE  /\ \A x : <<"Status", x>> \in Text <=> x = info.status
         /\ <<"Hostname_match", "False">> \in Text <=> info.hostname_match = "False"
         /\ <<"Chain_trusted", "False">> \in Text <=> info.chain_trusted = "False"
         /\ <<"Revocation", "REVOKED">> \in Text <=> info.revocation_status = "REVOKED"
         /\ <<"Pin_match", "False">> \in Text <=> info.pin_match = "False"
         /\ <<"Expected_SAN", "False">> \in Text <=> info.sans_covered = "False"
         /\ <<"Policy", "False">> \in Text <=> info.policy_met = "False"
PROOF
  <1>1. ASSUME NEW l, NEW x, l \notin {"TLS_version", "Certificate_chain"}
        PROVE  <<l, x>> \in Text <=> \/ l = "Status" /\ x = info.status
                                     \/ <<l, x>> \in CheckLines
    <2>1. <<l, x>> \notin ExtensionLines BY <1>1 DEF ExtensionLines, Entry
    <2>2. <<l, x>> \notin ChainLines BY <1>1 DEF ChainLines
    <2>3. <<l, x>> \in {<<"Status", info.status>>} <=> l = "Status" /\ x = info.status
      OBVIOUS
    <2> QED BY <2>1, <2>2, <2>3 DEF Text
  <1>2. ASSUME NEW l, NEW x, l \notin {"WARNING", "Chain_diagnosis"}
        PROVE  <<l, x>> \in CheckLines <=>
                 \/ l = "Hostname_match" /\ Ran(x) /\ x = info.hostname_match
                 \/ l = "Expected_SAN" /\ Ran(x) /\ x = info.sans_covered
                 \/ l = "Policy" /\ Ran(x) /\ x = info.policy_met
                 \/ l = "Chain_trusted" /\ Ran(x) /\ x = info.chain_trusted
                 \/ l = "Revocation" /\ Ran(x) /\ x = info.revocation_status
                 \/ l = "Pin_match" /\ Ran(x) /\ x = info.pin_match
    <2>1. <<l, x>> \notin {<<"WARNING", w>> : w \in info.chain_warnings} BY <1>2
    <2>2. \A v : Ran(v) \in BOOLEAN BY DEF Ran
    <2>3. ~ (<<l, x>> \in Entry(Ran(info.chain_diagnosis), "Chain_diagnosis",
                               info.chain_diagnosis))
      BY <1>2, <2>2, EntryShows
    <2>4. <<l, x>> \in CheckLines <=>
            \/ <<l, x>> \in Entry(Ran(info.hostname_match), "Hostname_match",
                                 info.hostname_match)
            \/ <<l, x>> \in Entry(Ran(info.sans_covered), "Expected_SAN", info.sans_covered)
            \/ <<l, x>> \in Entry(Ran(info.policy_met), "Policy", info.policy_met)
            \/ <<l, x>> \in Entry(Ran(info.chain_trusted), "Chain_trusted",
                                 info.chain_trusted)
            \/ <<l, x>> \in Entry(Ran(info.revocation_status), "Revocation",
                                 info.revocation_status)
            \/ <<l, x>> \in Entry(Ran(info.pin_match), "Pin_match", info.pin_match)
      BY <2>1, <2>3 DEF CheckLines
    <2> QED BY <2>2, <2>4, EntryShows
  <1>3. ASSUME NEW x PROVE <<"Status", x>> \in Text <=> x = info.status
    BY <1>1, <1>2
  <1>4. <<"Hostname_match", "False">> \in Text <=> info.hostname_match = "False"
    BY <1>1, <1>2 DEF Ran
  <1>5. <<"Chain_trusted", "False">> \in Text <=> info.chain_trusted = "False"
    BY <1>1, <1>2 DEF Ran
  <1>6. <<"Revocation", "REVOKED">> \in Text <=> info.revocation_status = "REVOKED"
    BY <1>1, <1>2 DEF Ran
  <1>7. <<"Pin_match", "False">> \in Text <=> info.pin_match = "False"
    BY <1>1, <1>2 DEF Ran
  <1>8. <<"Expected_SAN", "False">> \in Text <=> info.sans_covered = "False"
    BY <1>1, <1>2 DEF Ran
  <1>9. <<"Policy", "False">> \in Text <=> info.policy_met = "False"
    BY <1>1, <1>2 DEF Ran
  <1> QED BY <1>3, <1>4, <1>5, <1>6, <1>7, <1>8, <1>9

\* What a program finds in the JSON object: a section that is left out hides
\* no verdict.
LEMMA JsonShows ==
  ASSUME info \in Info
  PROVE  /\ \A x : <<"status", x>> \in Json <=> x = info.status
         /\ <<"hostname_match", "False">> \in Json <=> info.hostname_match = "False"
         /\ <<"chain.trusted", "False">> \in Json <=> info.chain_trusted = "False"
         /\ <<"revocation.status", "REVOKED">> \in Json <=> info.revocation_status = "REVOKED"
         /\ <<"pin_match", "False">> \in Json <=> info.pin_match = "False"
         /\ <<"expected_san_missing", "False">> \in Json <=> info.sans_covered = "False"
         /\ <<"policy.violations", "False">> \in Json <=> info.policy_met = "False"
PROOF
  <1>1. ASSUME NEW l, NEW x, l \notin {"chain.diagnosis", "chain.warnings", "chain.certificates"}
        PROVE  <<l, x>> \in ChainSection <=>
                 l = "chain.trusted" /\ Ran(x) /\ x = info.chain_trusted
    <2>1. Ran(info.chain_trusted) \in BOOLEAN BY DEF Ran
    <2>2. /\ <<l, x>> \notin {<<"chain.warnings", info.chain_warnings>>}
          /\ <<l, x>> \notin {<<"chain.certificates", c>> : c \in ChainSummary}
          /\ ~ (<<l, x>> \in Entry(Ran(info.chain_trusted), "chain.diagnosis",
                                   info.chain_diagnosis))
      BY <1>1, <2>1, EntryShows
    <2>3. <<l, x>> \in Entry(Ran(info.chain_trusted), "chain.trusted", info.chain_trusted)
            <=> l = "chain.trusted" /\ Ran(info.chain_trusted) /\ x = info.chain_trusted
      BY <2>1, EntryShows
    <2>4. <<l, x>> \in ChainSection <=>
            <<l, x>> \in Entry(Ran(info.chain_trusted), "chain.trusted", info.chain_trusted)
      BY <2>2, <2>3 DEF ChainSection
    <2> QED BY <2>3, <2>4
  <1>2. ASSUME NEW l, NEW x,
               l \notin {"connection", "chain.diagnosis", "chain.warnings", "chain.certificates"}
        PROVE  <<l, x>> \in Json <=>
                 \/ l = "status" /\ x = info.status
                 \/ l = "hostname_match" /\ x = info.hostname_match
                 \/ l = "chain.trusted" /\ Ran(x) /\ x = info.chain_trusted
                 \/ l = "revocation.status" /\ Ran(x) /\ x = info.revocation_status
                 \/ l = "policy.violations" /\ Ran(x) /\ x = info.policy_met
                 \/ l = "pin_match" /\ Ran(x) /\ x = info.pin_match
                 \/ l = "expected_san_missing" /\ Ran(x) /\ x = info.sans_covered
    <2>1. \A v : Ran(v) \in BOOLEAN BY DEF Ran
    <2>2. <<l, x>> \notin Entry(opts.source = "host", "connection", "negotiated")
      BY <1>2 DEF Entry
    <2>3. <<l, x>> \in Json <=>
            \/ <<l, x>> \in {<<"status", info.status>>, <<"hostname_match", info.hostname_match>>}
            \/ <<l, x>> \in ChainSection
            \/ <<l, x>> \in Entry(Ran(info.revocation_status), "revocation.status",
                                 info.revocation_status)
            \/ <<l, x>> \in Entry(Ran(info.policy_met), "policy.violations", info.policy_met)
            \/ <<l, x>> \in Entry(Ran(info.pin_match), "pin_match", info.pin_match)
            \/ <<l, x>> \in Entry(Ran(info.sans_covered), "expected_san_missing",
                                 info.sans_covered)
      BY <2>2 DEF Json
    <2>4. <<l, x>> \in ChainSection <=>
            l = "chain.trusted" /\ Ran(x) /\ x = info.chain_trusted
      BY <1>1, <1>2
    <2> QED BY <2>1, <2>3, <2>4, EntryShows
  <1>3. ASSUME NEW x PROVE <<"status", x>> \in Json <=> x = info.status
    BY <1>2
  <1>4. <<"hostname_match", "False">> \in Json <=> info.hostname_match = "False"
    BY <1>2
  <1>5. <<"chain.trusted", "False">> \in Json <=> info.chain_trusted = "False"
    BY <1>2 DEF Ran
  <1>6. <<"revocation.status", "REVOKED">> \in Json <=> info.revocation_status = "REVOKED"
    BY <1>2 DEF Ran
  <1>7. <<"pin_match", "False">> \in Json <=> info.pin_match = "False"
    BY <1>2 DEF Ran
  <1>8. <<"expected_san_missing", "False">> \in Json <=> info.sans_covered = "False"
    BY <1>2 DEF Ran
  <1>9. <<"policy.violations", "False">> \in Json <=> info.policy_met = "False"
    BY <1>2 DEF Ran
  <1> QED BY <1>3, <1>4, <1>5, <1>6, <1>7, <1>8, <1>9

\* What an alerting rule finds in the gauges.
LEMMA GaugesShow ==
  /\ <<"cert_valid", 0>> \in Gauges <=> info.status \in {"EXPIRED", "INVALID DATES"}
  /\ <<"hostname_match", 0>> \in Gauges <=> Ran(info.hostname_match) /\ info.hostname_match # "True"
  /\ <<"chain_trusted", 0>> \in Gauges <=> Ran(info.chain_trusted) /\ info.chain_trusted # "True"
  /\ <<"cert_revoked", 1>> \in Gauges <=> info.revocation_status = "REVOKED"
  /\ <<"policy_ok", 0>> \in Gauges <=> Ran(info.policy_met) /\ info.policy_met # "True"
PROOF
  <1> DEFINE valid == info.status \notin {"EXPIRED", "INVALID DATES"}
  <1>1. \A v : Ran(v) \in BOOLEAN BY DEF Ran
  <1>2. Gauges = {<<"up", 1>>, <<"cert_valid", ToGauge(valid)>>}
                   \cup Entry(Ran(info.hostname_match), "hostname_match",
                              ToGauge(info.hostname_match = "True"))
                   \cup Entry(Ran(info.chain_trusted), "chain_trusted",
                              ToGauge(info.chain_trusted = "True"))
                   \cup RevokedGauge
                   \cup Entry(Ran(info.policy_met), "policy_ok",
                              ToGauge(info.policy_met = "True"))
    BY Zenon DEF Gauges
  <1>3. valid \in BOOLEAN OBVIOUS
  <1> HIDE DEF valid
  <1>4. ASSUME NEW l, NEW x, l # "up"
        PROVE  <<l, x>> \in Gauges <=>
                 \/ l = "cert_valid" /\ x = (IF valid THEN 1 ELSE 0)
                 \/ l = "hostname_match" /\ Ran(info.hostname_match)
                      /\ x = (IF info.hostname_match = "True" THEN 1 ELSE 0)
                 \/ l = "chain_trusted" /\ Ran(info.chain_trusted)
                      /\ x = (IF info.chain_trusted = "True" THEN 1 ELSE 0)
                 \/ l = "cert_revoked" /\ info.revocation_status \in {"GOOD", "REVOKED"}
                      /\ x = (IF info.revocation_status = "REVOKED" THEN 1 ELSE 0)
                 \/ l = "policy_ok" /\ Ran(info.policy_met)
                      /\ x = (IF info.policy_met = "True" THEN 1 ELSE 0)
    BY <1>1, <1>2, <1>4 DEF RevokedGauge, Entry, ToGauge
  <1>5. <<"cert_valid", 0>> \in Gauges <=> ~valid BY <1>1, <1>3, <1>4
  <1>6. <<"hostname_match", 0>> \in Gauges
          <=> Ran(info.hostname_match) /\ info.hostname_match # "True"
    BY <1>1, <1>4
  <1>7. <<"chain_trusted", 0>> \in Gauges
          <=> Ran(info.chain_trusted) /\ info.chain_trusted # "True"
    BY <1>1, <1>4
  <1>8. <<"cert_revoked", 1>> \in Gauges <=> info.revocation_status = "REVOKED"
    BY <1>1, <1>4
  <1>9. <<"policy_ok", 0>> \in Gauges <=> Ran(info.policy_met) /\ info.policy_met # "True"
    BY <1>1, <1>4
  <1>10. ~valid <=> info.status \in {"EXPIRED", "INVALID DATES"}
    BY Zenon DEF valid
  <1> QED BY <1>5, <1>6, <1>7, <1>8, <1>9, <1>10, Zenon

\* The chosen code is one of the problems shown, and none of them is more severe.
LEMMA WorstShown ==
  ASSUME IInv, Reported
  PROVE  /\ info \in Info /\ info.status \in Status
         /\ ShownProblems \subseteq Codes
         /\ code \in ShownProblems /\ code = MostSevere(ShownProblems)
         /\ \A d \in ShownProblems : AtLeastAsSevere(code, d)
PROOF
  <1>1. /\ info \in Info /\ cert \in Certs /\ codes \subseteq Codes
        /\ info.status = Fact[cert].status /\ codes = ShownProblems
        /\ code = MostSevere(codes)
    BY DEF IInv, TypeOK, Reading, Loaded, Verdicts, Assessed, CodesAgree
  <1>2. info.status \in Status BY <1>1, FactTyping
  <1>3. ShownProblems # {} BY DEF ShownProblems
  <1> QED BY <1>1, <1>2, <1>3, MostSevereWins

\* Whoever reads only the text, or only the JSON object, reaches the verdict of
\* the exit code, whatever options left parts of the report out (_check_lines,
\* _result_to_v2).
THEOREM OutputsAreSound == Spec => []OutputsExplainTheCode
PROOF
  <1>1. ASSUME IInv PROVE OutputsExplainTheCode
    <2> SUFFICES ASSUME Reported
                 PROVE  MostSevere(TextProblems) = code /\ MostSevere(JsonProblems) = code
      BY DEF OutputsExplainTheCode
    <2>1. info \in Info /\ info.status \in Status /\ code = MostSevere(ShownProblems)
      BY <1>1, WorstShown
    <2>2. StatusCodes(Text, "Status") = {EXIT_BY_STATUS[info.status]}
      BY <2>1, TextShows DEF StatusCodes
    <2>3. StatusCodes(Json, "status") = {EXIT_BY_STATUS[info.status]}
      BY <2>1, JsonShows DEF StatusCodes
    <2>4. TextProblems = ShownProblems
      BY <2>1, <2>2, TextShows DEF TextProblems, ShownProblems, Problem
    <2>5. JsonProblems = ShownProblems
      BY <2>1, <2>3, JsonShows DEF JsonProblems, ShownProblems, Problem
    <2> QED BY <2>1, <2>4, <2>5
  <1> QED BY <1>1, Inductive, PTL

\* An alerting rule over the gauges raises no alarm that outranks the exit code,
\* and raises the one of the code itself where there is one (format_prometheus).
THEOREM AlarmsAreSound == Spec => []AlarmsMatchTheCode
PROOF
  <1>1. ASSUME IInv PROVE AlarmsMatchTheCode
    <2> SUFFICES ASSUME Reported PROVE AlarmsMatchTheCode
      BY DEF AlarmsMatchTheCode
    <2>1. /\ info \in Info /\ info.status \in Status /\ code \in ShownProblems
          /\ \A d \in ShownProblems : AtLeastAsSevere(code, d)
      BY <1>1, WorstShown
    <2> DEFINE Bad == info.status \in {"EXPIRED", "INVALID DATES"}
               Untold == info.status \in {"CRITICAL", "NOT YET VALID"}
               s == EXIT_BY_STATUS[info.status]
    <2>2. /\ Bad => s = 4
          /\ s = 4 /\ ~Untold => Bad
          /\ s \in {0, 3, 4}
      <3>1. ExitCode.OK = 0 /\ ExitCode.EXPIRING = 3 /\ ExitCode.INVALID = 4
        BY DEF ExitCode
      <3>2. Bad => s = 4
        BY <2>1, <3>1, Zenon DEF EXIT_BY_STATUS, Status
      <3>3. s \in {0, 3, 4}
        BY <2>1, <3>1, Zenon DEF EXIT_BY_STATUS, Status
      <3>4. info.status = "VALID" => s = 0
        BY <2>1, <3>1, Zenon DEF EXIT_BY_STATUS, Status
      <3>5. info.status = "EXPIRING" => s = 3
        BY <2>1, <3>1, Zenon DEF EXIT_BY_STATUS, Status
      <3>6. Bad \/ Untold \/ info.status = "VALID" \/ info.status = "EXPIRING"
        BY <2>1, Zenon DEF Status
      <3> HIDE DEF Bad, Untold, s
      <3> QED BY <3>2, <3>3, <3>4, <3>5, <3>6
    <2>3. /\ <<"cert_valid", 0>> \in Gauges <=> Bad
          /\ <<"hostname_match", 0>> \in Gauges <=> info.hostname_match = "False"
          /\ <<"chain_trusted", 0>> \in Gauges <=> info.chain_trusted = "False"
          /\ <<"cert_revoked", 1>> \in Gauges <=> info.revocation_status = "REVOKED"
          /\ <<"policy_ok", 0>> \in Gauges <=> info.policy_met = "False"
      <3>1. \A v \in Verdict : Ran(v) /\ v # "True" <=> v = "False"
        BY DEF Verdict, Ran
      <3>2. info.hostname_match \in Verdict /\ info.chain_trusted \in Verdict
            /\ info.policy_met \in Verdict
        BY <2>1 DEF Info
      <3> HIDE DEF Bad
      <3>3. <<"cert_valid", 0>> \in Gauges <=> Bad
        BY GaugesShow, Zenon DEF Bad
      <3> QED BY <3>1, <3>2, <3>3, GaugesShow
    <2>4. ExitCode.INVALID = 4 BY DEF ExitCode
    <2>5. Alarms = Problem(Bad, 4) \cup Problem(info.hostname_match = "False", 5)
                     \cup Problem(info.chain_trusted = "False"
                                    \/ info.revocation_status = "REVOKED", 6)
                     \cup Problem(info.policy_met = "False", 9)
      <3> HIDE DEF Bad
      <3> QED BY <2>3, <2>4, ExitCodeTypes DEF Alarms, Problem
    <2>6. ShownProblems = {s} \cup Problem(info.hostname_match = "False", 5)
                     \cup Problem(info.chain_trusted = "False"
                                    \/ info.revocation_status = "REVOKED", 6)
                     \cup Problem(info.pin_match = "False", 7)
                     \cup Problem(info.sans_covered = "False", 8)
                     \cup Problem(info.policy_met = "False", 9)
      BY ExitCodeTypes DEF ShownProblems
    <2> HIDE DEF Bad, Untold, s
    <2>7. Alarms \subseteq ShownProblems
      BY <2>2, <2>5, <2>6 DEF Problem
    <2>8. code \in {5, 6, 9} => code \in Alarms
      BY <2>1, <2>2, <2>5, <2>6 DEF Problem
    <2>9. code = 4 /\ ~Untold => code \in Alarms
      BY <2>1, <2>2, <2>5, <2>6 DEF Problem
    <2>10. /\ \A a \in Alarms : AtLeastAsSevere(code, a)
           /\ code \in {ExitCode.HOSTNAME_MISMATCH, ExitCode.UNTRUSTED_OR_REVOKED,
                        ExitCode.POLICY} => code \in Alarms
           /\ code = ExitCode.INVALID /\ ~Untold => code \in Alarms
      BY <2>1, <2>4, <2>7, <2>8, <2>9, ExitCodeTypes
    <2> QED BY <2>10, Zenon DEF AlarmsMatchTheCode, Untold
  <1> QED BY <1>1, Inductive, PTL
=============================================================================
