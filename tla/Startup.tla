------------------------------ MODULE Startup ------------------------------
(***************************************************************************)
(* What main does before the first inspection: the options (Options), then *)
(* either the Certificate Transparency inventory of --discover-only, after *)
(* which the process exits, or the targets of --input, --discover and the  *)
(* command line.  The lookups of several domains run in the pool of _map   *)
(* (OrderedMap, item i being the i-th domain); what a response means is    *)
(* Discovery.  In state "inspect" the run goes on as Batch describes.      *)
(***************************************************************************)
EXTENDS Options, OrderedMap, Discovery, ExitCodes

Seqs == INSTANCE SequencesExt

CONSTANTS
  NoAnswer,      \* a query that failed, or no JSON array (OSError, ValueError)
  Missing,       \* an --input that cannot be opened
  Undecodable,   \* an --input that is not UTF-8
  InputContents, \* what --input may hold: lines, Missing or Undecodable
  Ignored,       \* the blank and the comment lines
  Stdin          \* "-"

USAGE_ERROR == 2

\* Bound: a run names no domain or as many as the pool has items.
ASSUME StartupAssumption ==
  /\ \A content \in InputContents \ {Missing, Undecodable} :
       content \in Seq(Elements \cup Ignored)
  /\ \A s \in Scenarios :
       /\ s.config # Unreadable /\ Given(s.config, "discover")
            => Entries(s.config.discover) \subseteq DOMAIN Under
       /\ Given(s.cli, "discover") => Entries(s.cli.discover) \subseteq DOMAIN Under
  /\ \A s \in Scenarios :
       LET n == (IF s.config # Unreadable /\ Given(s.config, "discover")
                 THEN Len(s.config.discover) ELSE 0)
                + (IF Given(s.cli, "discover") THEN Len(s.cli.discover) ELSE 0)
       IN n \in {0, N}
  /\ \A i \in 1..N : \A a \in Answers[i] \ {NoAnswer} :
       a \in Seq(Entries(a)) /\ \A r \in Entries(a) : IsRecord(r)

VARIABLES
  extra,       \* the targets of --input
  hosts,       \* the host targets
  files,       \* the file targets
  defaultPort, \* the port of the targets that name none
  inventory,   \* the rows of --discover-only
  blamed,      \* the domain a failed discovery names, by position, or 0
  exit         \* the exit code, -1 before the process exits here

startVars == <<extra, hosts, files, defaultPort, inventory, blamed, exit>>
vars      == <<optVars, poolVars, startVars>>

Ended == pc \in {"inspect", "exited", "usage error", "crashed", "completed"}

TypeOK ==
  /\ pc \in {"config", "parse", "profile", "validate", "accepted", "lookup", "inventory",
             "collect", "targets"} \/ Ended
  /\ IsLayer(cli) /\ (config # Unreadable => IsLayer(config))
  /\ DOMAIN args = Names /\ \A n \in Names : args[n] \in Value(n)
  /\ PoolTypeOK
  /\ extra \in Seq(Elements) /\ files \in Seq(Elements)
  /\ hosts \in Seq(Elements \cup Entries(SortedNames))
  /\ defaultPort \in Int \cup {Unset} /\ (pc = "inspect" => defaultPort # Unset)
  /\ blamed \in 0..N /\ (blamed # 0 => exit = RUNTIME_ERROR)
  /\ exit \in {-1, ExitCode.OK, RUNTIME_ERROR, USAGE_ERROR, ExitCode.POLICY}

ExitWith(code) == pc' = "exited" /\ exit' = code

\* A run without --discover leaves the pool alone.
Init ==
  /\ OptionsInit
  /\ PoolInit
  /\ (~Given(cli, "discover") /\ (config = Unreadable \/ ~Given(config, "discover")))
       => workers = 1
  /\ extra = <<>> /\ hosts = <<>> /\ files = <<>> /\ defaultPort = Unset
  /\ inventory = <<>> /\ blamed = 0 /\ exit = -1

SetOptions ==
  /\ OptionsStep
  /\ UNCHANGED <<poolVars, startVars>>

-----------------------------------------------------------------------------
(* _run_discover_only and _collect_targets up to the lookups                *)

StartInventory ==
  /\ pc = "accepted" /\ args.discover_only
  /\ pc' = "lookup"
  /\ UNCHANGED <<config, cli, args, poolVars, startVars>>

\* The lines of --input, if one is given.  Only an OSError is caught.
ReadInput ==
  /\ pc = "accepted" /\ ~args.discover_only
  /\ \E content \in IF args.input = Unset THEN {<<>>} ELSE InputContents :
       \/ content = Missing /\ ExitWith(RUNTIME_ERROR) /\ UNCHANGED extra
       \/ content = Undecodable /\ pc' = "crashed" /\ UNCHANGED <<extra, exit>>
       \/ /\ content \notin {Missing, Undecodable}
          /\ extra' = Select(content, Entries(content) \ Ignored)
          /\ pc' = IF args.discover = <<>> THEN "collect" ELSE "lookup"
          /\ UNCHANGED exit
  /\ UNCHANGED <<config, cli, args, poolVars, hosts, files, defaultPort, inventory, blamed>>

-----------------------------------------------------------------------------
(* _discover                                                                *)

LookUp ==
  /\ pc = "lookup"
  /\ PoolStep
  /\ UNCHANGED <<optVars, startVars>>

\* A record that is no JSON object has no get(): an AttributeError.
LookupRaised ==
  /\ pc = "lookup" /\ main = "raised"
  /\ pc' = "crashed"
  /\ UNCHANGED <<config, cli, args, poolVars, startVars>>

\* The answers are reported in the order of the domains, up to the first failure.
ReportLookups ==
  /\ pc = "lookup" /\ main = "returned"
  /\ LET failed == {i \in Item : result[i] = NoAnswer}
     IN IF failed = {}
        THEN /\ pc' = IF args.discover_only THEN "inventory" ELSE "collect"
             /\ UNCHANGED <<blamed, exit>>
        ELSE /\ blamed' = CHOOSE i \in failed : \A j \in failed : i <= j
             /\ ExitWith(RUNTIME_ERROR)
  /\ UNCHANGED <<config, cli, args, poolVars, extra, hosts, files, defaultPort, inventory>>

-----------------------------------------------------------------------------
(* The inventory of --discover-only                                         *)

Row(i, cert) ==
  [domain |-> i, cert |-> cert,
   unexpected |-> args.expect_issuer # <<>> /\ ~IssuerIsExpected(cert.issuer, args.expect_issuer)]

RowsOf(i) ==
  LET certs == discover_certificates(result[i], args.discover[i])
  IN [n \in DOMAIN certs |-> Row(i, certs[n])]

\* Mutant of RunDiscoverOnly: the exit code is the number of flagged certificates.
RunDiscoverOnlyCounting ==
  /\ pc = "inventory"
  /\ inventory' = Seqs!FlattenSeq([i \in Item |-> RowsOf(i)])
  /\ ExitWith(IF args.exit_zero THEN ExitCode.OK
              ELSE Cardinality({n \in DOMAIN inventory' : inventory'[n].unexpected}))
  /\ UNCHANGED <<config, cli, args, poolVars, extra, hosts, files, defaultPort, blamed>>

RunDiscoverOnly ==
  /\ pc = "inventory"
  /\ inventory' = Seqs!FlattenSeq([i \in Item |-> RowsOf(i)])
  /\ ExitWith(IF ~args.exit_zero /\ \E n \in DOMAIN inventory' : inventory'[n].unexpected
              THEN ExitCode.POLICY ELSE ExitCode.OK)
  /\ UNCHANGED <<config, cli, args, poolVars, extra, hosts, files, defaultPort, blamed>>

-----------------------------------------------------------------------------
(* _collect_targets after the lookups, and _default_port                    *)

DiscoveredTargets ==
  IF args.discover = <<>> THEN <<>>
  ELSE Seqs!FlattenSeq([i \in Item |-> discover_hostnames(result[i], args.discover[i])])

\* What an inspection may be started with.
Inspectable(h, f) ==
  /\ (h = <<>>) # (f = <<>>)
  /\ Cardinality({n \in DOMAIN f : f[n] = Stdin}) <= 1
  /\ args.export => Len(h) + Len(f) <= 1

CollectTargets ==
  /\ pc = "collect"
  /\ LET h == args.target \o extra \o DiscoveredTargets
     IN IF Inspectable(h, args.file)
        THEN hosts' = h /\ files' = args.file /\ pc' = "targets" /\ UNCHANGED exit
        ELSE pc' = "usage error" /\ exit' = USAGE_ERROR /\ UNCHANGED <<hosts, files>>
  /\ UNCHANGED <<config, cli, args, poolVars, extra, defaultPort, inventory, blamed>>

STARTTLS_PORTS == [smtp |-> 587, imap |-> 143, pop3 |-> 110, ftp |-> 21]

\* A protocol only a config file can name is a KeyError, unless a port is given.
ChoosePort ==
  /\ pc = "targets"
  /\ IF args.starttls = Unset \/ args.port # 443
     THEN defaultPort' = args.port /\ pc' = "inspect"
     ELSE IF args.starttls \in DOMAIN STARTTLS_PORTS
     THEN defaultPort' = STARTTLS_PORTS[args.starttls] /\ pc' = "inspect"
     ELSE pc' = "crashed" /\ UNCHANGED defaultPort
  /\ UNCHANGED <<config, cli, args, poolVars, extra, hosts, files, inventory, blamed, exit>>

-----------------------------------------------------------------------------
Next ==
  \/ SetOptions
  \/ StartInventory \/ ReadInput
  \/ LookUp \/ LookupRaised \/ ReportLookups
  \/ RunDiscoverOnly
  \/ CollectTargets \/ ChoosePort
  \/ Ended /\ UNCHANGED vars

Spec == Init /\ [][Next]_vars

-----------------------------------------------------------------------------
(* Properties                                                               *)

\* When the inspections start, the options and the targets together are such
\* that every check asked for can be made: whichever of the config file, the
\* command line and the profile set an option, what _validate_args and
\* _collect_targets refuse for one source is refused for all.
StartsSoundly ==
  pc = "inspect" =>
    /\ hosts = <<>> <=> files # <<>>
    /\ args.export => Len(hosts) + Len(files) <= 1
    /\ args.require_revocation_check \/ args.state_file \/ args.min_tls_version # Unset
         => files = <<>>
    /\ args.require_revocation_check \/ args.cafile => args.verify
    /\ args.only_changed => args.state_file
    /\ args.critical_days # Unset => args.critical_days <= args.days
    /\ args.expect_issuer = <<>> /\ ~args.discover_only

Answered(i) == answer[i] \notin {NoAnswer, Raised}

\* "The first failed domain aborts" (_discover): whatever the order in which the
\* lookups end, the failure reported is the one of the first failed domain, and a
\* run goes on only with every domain answered, each host name found being a
\* target and no other name.
DiscoveryIsAllOrNothing ==
  /\ blamed # 0 => ~Answered(blamed) /\ \A i \in 1..(blamed - 1) : Answered(i)
  /\ inventory # <<>> => \A i \in Item : Answered(i)
  /\ pc = "inspect" /\ args.discover # <<>> =>
       /\ \A i \in Item : Answered(i)
       /\ Entries(hosts) = Entries(args.target) \cup Entries(extra)
            \cup UNION {{NameOf[id] : id \in UNION {r.identities : r \in Entries(answer[i])}}
                          \cap (Under[args.discover[i]] \ Wildcards) : i \in Item}

Inventoried == pc = "exited" /\ args.discover_only /\ blamed = 0

\* The records of domain i that have a name under it.
LoggedFor(i) ==
  {r \in Entries(answer[i]) :
     \E id \in r.identities : NameOf[id] \in Under[args.discover[i]]}

\* The names of a record under domain i.
NamesFor(i, r) == {NameOf[id] : id \in r.identities} \cap Under[args.discover[i]]

\* Two records of one certificate; those without a serial number go by their names.
SameCertificate(i, r, s) ==
  IF r.serial = NoSerial \/ s.serial = NoSerial
  THEN r.serial = s.serial /\ NamesFor(i, r) = NamesFor(i, s)
  ELSE r.issuer = s.issuer /\ r.serial = s.serial

\* "This keeps one entry per certificate (deduplicated by issuer and serial number)
\* ... and keeps wildcard names" (discover_certificates): every certificate that
\* crt.sh has logged for a domain is listed exactly once, with all the names, the
\* issuer and the expiry of one of its records, and the rows of one domain come
\* "soonest expiry first".  The rows of several domains follow each other unmerged:
\* the inventory as a whole is not sorted, though the docstring of _run_discover_only
\* (cli.py:515), the help of --discover-only and its README entry say so.
InventoryIsComplete ==
  Inventoried =>
    \A i \in Item :
      LET rows == {n \in DOMAIN inventory : inventory[n].domain = i}
      IN /\ \E record \in [rows -> LoggedFor(i)] :
              /\ \A n \in rows :
                   /\ inventory[n].cert.issuer = record[n].issuer
                   /\ inventory[n].cert.not_after = record[n].not_after
                   /\ Entries(inventory[n].cert.hostnames) = NamesFor(i, record[n])
              /\ \A m, n \in rows : m # n => ~SameCertificate(i, record[m], record[n])
              /\ \A r \in LoggedFor(i) : \E n \in rows : SameCertificate(i, record[n], r)
         /\ \A m, n \in rows :
              m < n => inventory[m].cert.not_after <= inventory[n].cert.not_after

\* "Flag any certificate whose issuer matches none of these substrings ... and exit
\* 9 - a Certificate Transparency mis-issuance check" (README, --expect-issuer): the
\* exit code is 9 only if some logged certificate is from an unexpected issuer, and
\* it is 9 if such a certificate has a serial number.
MisissuanceIsFlagged ==
  Inventoried /\ ~args.exit_zero =>
    LET unexpected == {r \in UNION {LoggedFor(i) : i \in Item} :
                         \A t \in Entries(args.expect_issuer) : r.issuer \notin Matches[t]}
    IN /\ exit = ExitCode.POLICY => args.expect_issuer # <<>> /\ unexpected # {}
       /\ args.expect_issuer # <<>> /\ (\E r \in unexpected : r.serial # NoSerial)
            => exit = ExitCode.POLICY
=============================================================================
