------------------------------ MODULE Options ------------------------------
(***************************************************************************)
(* From the config file, the command line and the profile to the options   *)
(* a run works with: load_config, argparse's set_defaults and parse_args,  *)
(* --print-completion, _apply_profile and _validate_args; and what the     *)
(* later code makes of several options together: the validity limit, the   *)
(* output format, the port, the policy violations.                         *)
(*                                                                         *)
(* Three layers write the same options one after the other, each with its  *)
(* own idea of which values the others meant to be final.  argparse checks *)
(* choices and exclusive groups of the command line only.                  *)
(***************************************************************************)
EXTENDS Integers, Sequences

CONSTANTS
  Unset,      \* None
  Unreadable, \* a config file that is missing, no TOML, or has an unknown key
  Scenarios,  \* the config files and command lines of interest, in pairs
  CertFacts,  \* what the policies see of a certificate and its handshake
  CabForum,   \* the CA/Browser Forum maximum in effect today, in days
  Elements    \* the members of the list options: targets, files, names, domains

\* Options that only matter by being given or not are switches; an empty string
\* counts as not given.
Switches == {"verify", "json", "csv", "cab_forum", "fail_weak", "require_sct",
             "require_must_staple", "require_revocation_check", "no_proxy",
             "discover_only", "only_changed", "exit_zero", "cafile", "servername",
             "client_cert", "client_key", "proxy", "state_file", "export",
             "print_completion"}
Lists    == {"target", "file", "field", "expect_san", "discover", "expect_issuer"}
Numbers  == {"days", "critical_days", "port", "not_after_max", "min_key_size",
             "min_tls_version"}
Enumerated == {"profile", "exporter", "starttls", "input"}
Names    == Switches \cup Lists \cup Numbers \cup Enumerated

Profile == {"lenient", "standard", "strict"}

Value(n) == CASE n \in Switches   -> BOOLEAN
              [] n \in Lists      -> Seq(Elements)
              [] n \in Numbers    -> Int \cup {Unset}
              [] OTHER            -> STRING \cup {Unset}

\* A layer gives some of the options a value; there is no way to give None.
IsLayer(l) == DOMAIN l \subseteq Names /\ \A n \in DOMAIN l : l[n] \in Value(n) \ {Unset}

Given(l, n) == n \in DOMAIN l

\* _CONFIG_EXCLUSIVE_GROUPS, and the mutually exclusive groups of build_parser.
ExclusiveGroups == {{"json", "field", "csv", "exporter"}, {"not_after_max", "cab_forum"}}

IsExclusive(l) == \A g \in ExclusiveGroups : \A m, n \in g \cap DOMAIN l : m = n

CertFact == [validity_days : Nat, sized_key : BOOLEAN, key_size : Nat, weak : BOOLEAN,
             sct : BOOLEAN, must_staple : BOOLEAN, tls : Nat \cup {Unset}, good : BOOLEAN]

\* argparse has accepted the command lines; targets are no config key.
ASSUME OptionsAssumption ==
  /\ CabForum \in Nat
  /\ Unset \notin Int
  /\ CertFacts \subseteq CertFact
  /\ \A s \in Scenarios :
       /\ s.config # Unreadable => IsLayer(s.config) /\ ~Given(s.config, "target")
       /\ IsLayer(s.cli) /\ IsExclusive(s.cli)
       /\ \A n \in (Enumerated \ {"input"}) : Given(s.cli, n) => s.cli[n] # "other"

VARIABLES
  pc,      \* the layer to apply next, or what comes after the options
  config,  \* what the config file sets
  cli,     \* the flags given explicitly
  args     \* the options so far

optVars == <<pc, config, cli, args>>

\* The defaults of build_parser.
Default == [n \in Names |-> IF n \in Switches THEN n = "verify"
                           ELSE IF n \in Lists  THEN <<>>
                           ELSE IF n = "days"    THEN 30
                           ELSE IF n = "port"    THEN 443
                           ELSE Unset]

OptionsInit ==
  /\ pc = "config"
  /\ \E s \in Scenarios : config = s.config /\ cli = s.cli
  /\ args = Default

-----------------------------------------------------------------------------
\* set_defaults: a key of the file replaces the default.
LoadConfig ==
  /\ pc = "config"
  /\ IF config # Unreadable /\ IsExclusive(config)
     THEN /\ args' = [n \in Names |-> IF Given(config, n) THEN config[n] ELSE args[n]]
          /\ pc' = "parse"
     ELSE pc' = "usage error" /\ UNCHANGED args
  /\ UNCHANGED <<config, cli>>

\* A flag replaces the value; the flags of a list append to it.
ParseArgs ==
  /\ pc = "parse"
  /\ args' = [n \in Names |-> IF ~Given(cli, n) THEN args[n]
                              ELSE IF n \in Lists THEN args[n] \o cli[n] ELSE cli[n]]
  /\ pc' = IF args'.print_completion THEN "completed" ELSE "profile"
  /\ UNCHANGED <<config, cli>>

-----------------------------------------------------------------------------
(* POLICY_PROFILES and _apply_profile                                       *)

\* Mutant of Preset: the middle tier misses a check.
PresetWithoutWeak ==
  [lenient  |-> [min_tls_version |-> 4, min_key_size |-> Unset,
                 fail_weak |-> TRUE, require_sct |-> FALSE, cab_forum |-> FALSE],
   standard |-> [min_tls_version |-> 4, min_key_size |-> 2048,
                 fail_weak |-> FALSE, require_sct |-> FALSE, cab_forum |-> FALSE],
   strict   |-> [min_tls_version |-> 5, min_key_size |-> 2048,
                 fail_weak |-> TRUE, require_sct |-> TRUE, cab_forum |-> TRUE]]

\* The ranks of tls_version_rank: 4 is TLSv1.2, 5 is TLSv1.3.
Preset ==
  [lenient  |-> [min_tls_version |-> 4, min_key_size |-> Unset,
                 fail_weak |-> TRUE, require_sct |-> FALSE, cab_forum |-> FALSE],
   standard |-> [min_tls_version |-> 4, min_key_size |-> 2048,
                 fail_weak |-> TRUE, require_sct |-> FALSE, cab_forum |-> FALSE],
   strict   |-> [min_tls_version |-> 5, min_key_size |-> 2048,
                 fail_weak |-> TRUE, require_sct |-> TRUE, cab_forum |-> TRUE]]

\* Mutant of Filled: a limit of 0 counts as unset.
FilledOverZero(value, preset) == IF value \in {Unset, 0} THEN preset ELSE value

Filled(value, preset) == IF value = Unset THEN preset ELSE value

\* The TLS floor is left out for files, which have no handshake.
WithProfile(a, p) ==
  [a EXCEPT !.min_key_size = Filled(@, Preset[p].min_key_size),
            !.min_tls_version = IF a.file # <<>> THEN @
                                ELSE Filled(@, Preset[p].min_tls_version),
            !.fail_weak = @ \/ Preset[p].fail_weak,
            !.require_sct = @ \/ Preset[p].require_sct,
            !.cab_forum = @ \/ (Preset[p].cab_forum /\ a.not_after_max = Unset)]

\* An unknown profile, which only a config file can name, is a KeyError.
ApplyProfile ==
  /\ pc = "profile"
  /\ IF args.profile \in {Unset} \cup Profile
     THEN /\ args' = IF args.profile = Unset THEN args ELSE WithProfile(args, args.profile)
          /\ pc' = "validate"
     ELSE pc' = "crashed" /\ UNCHANGED args
  /\ UNCHANGED <<config, cli>>

-----------------------------------------------------------------------------
(* _validate_args                                                           *)

HostOnly == {"servername", "require_revocation_check", "client_cert", "proxy", "no_proxy",
             "state_file"}

\* Mutant of Consistent: required and disabled checks are not compared.
ConsistentWithoutRevocation(a) ==
  /\ a.critical_days # Unset => a.critical_days <= a.days
  /\ a.cafile => a.verify
  /\ a.client_key => a.client_cert
  /\ ~(a.proxy /\ a.no_proxy)
  /\ a.discover_only => a.discover # <<>>
  /\ a.expect_issuer # <<>> => a.discover_only
  /\ a.only_changed => a.state_file

\* The options that need, bound or exclude each other.
Consistent(a) ==
  /\ a.critical_days # Unset => a.critical_days <= a.days
  /\ a.cafile \/ a.require_revocation_check => a.verify
  /\ a.client_key => a.client_cert
  /\ ~(a.proxy /\ a.no_proxy)
  /\ a.discover_only => a.discover # <<>>
  /\ a.expect_issuer # <<>> => a.discover_only
  /\ a.only_changed => a.state_file

\* What makes sense for hosts only.
FitsFiles(a) ==
  a.file # <<>> => /\ \A n \in HostOnly : ~a[n]
                   /\ a.min_tls_version = Unset
                   /\ a.discover = <<>>

Acceptable(a) == Consistent(a) /\ FitsFiles(a)

Validate ==
  /\ pc = "validate"
  /\ pc' = IF Acceptable(args) THEN "accepted" ELSE "usage error"
  /\ UNCHANGED <<config, cli, args>>

OptionsStep == LoadConfig \/ ParseArgs \/ ApplyProfile \/ Validate

-----------------------------------------------------------------------------
(* _check_policy and policy_violations                                      *)

ValidityCap(a) == IF a.cab_forum THEN CabForum ELSE a.not_after_max

Policies == {"validity", "key size", "weak", "sct", "must staple", "tls", "revocation"}

Violations(a, c) ==
  {v \in Policies :
     \/ v = "validity" /\ ValidityCap(a) # Unset /\ c.validity_days > ValidityCap(a)
     \/ v = "key size" /\ a.min_key_size # Unset /\ c.sized_key /\ c.key_size < a.min_key_size
     \/ v = "weak" /\ a.fail_weak /\ c.weak
     \/ v = "sct" /\ a.require_sct /\ ~c.sct
     \/ v = "must staple" /\ a.require_must_staple /\ ~c.must_staple
     \/ v = "tls" /\ a.min_tls_version # Unset /\ c.tls # Unset /\ c.tls < a.min_tls_version
     \/ v = "revocation" /\ a.require_revocation_check /\ ~c.good}

\* The order in which render asks for the formats; an exporter of the config
\* file that is neither falls through to the text.
OutputFormat(a) ==
  CASE a.exporter \in {"nagios", "prometheus"} -> a.exporter
    [] a.field # <<>>                          -> "field"
    [] a.csv                                   -> "csv"
    [] a.json                                  -> "json"
    [] OTHER                                   -> "text"

-----------------------------------------------------------------------------
(* Properties                                                               *)

\* The config file switches the CA/Browser Forum limit on.
FileAsksCabForum == Given(config, "cab_forum") /\ config.cab_forum

\* "Explicit policy flags still override the profile" (README, Policy profiles),
\* the profile itself given on either side: a limit from the command line is the
\* limit in force, looser than the preset's or not.  The one exception is a config
\* file that says cab_forum = true, which beats the explicit validity limit
\* (_check_policy); that it should not is ExplicitFlagWins.
ExplicitLimitsSurvive ==
  pc = "accepted" =>
    /\ \A n \in {"min_key_size", "min_tls_version", "not_after_max"} :
         Given(cli, n) => args[n] = cli[n]
    /\ Given(cli, "not_after_max") =>
         ValidityCap(args) = IF FileAsksCabForum THEN CabForum ELSE cli.not_after_max

\* "Each stricter tier is a superset of the one below it" (POLICY_PROFILES): with
\* the same explicit options, whoever passes a tier passes every lower one.
TiersAreNested ==
  pc = "accepted" /\ args.profile = Unset =>
    \A c \in CertFacts :
      /\ Violations(args, c) \subseteq Violations(WithProfile(args, "lenient"), c)
      /\ Violations(WithProfile(args, "lenient"), c)
           \subseteq Violations(WithProfile(args, "standard"), c)
      /\ Violations(WithProfile(args, "standard"), c)
           \subseteq Violations(WithProfile(args, "strict"), c)

\* "An explicit command-line flag always overrides the config value" (README,
\* Configuration file): the validity limit and the output format in force are
\* those of the command line when it gives them.
ExplicitFlagWins ==
  pc = "accepted" =>
    /\ Given(cli, "not_after_max") => ValidityCap(args) = cli.not_after_max
    /\ Given(cli, "csv") => OutputFormat(args) = "csv"
    /\ Given(cli, "json") => OutputFormat(args) = "json"
=============================================================================
