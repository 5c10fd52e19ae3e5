--------------------------- MODULE StartupProofs ---------------------------
(***************************************************************************)
(* What the first inspection can rely on for every config file, command    *)
(* line, profile, --input and answer of crt.sh: the options, the targets,  *)
(* the lookups of several domains that end in any order; and, for a run    *)
(* that makes none, the inventory of --discover-only.                      *)
(*                                                                         *)
(* SoundInv carries what was validated, LimitsInv the limits of the        *)
(* command line, LayersInv the types of the options, LookupInv what the    *)
(* pool found, TargetsInv the targets and InventoryInv the inventory.      *)
(***************************************************************************)
EXTENDS Startup, OrderedMapProofs, CommonProofs

\* The actions of Startup proper leave the options as they are.
TargetStep ==
  \/ StartInventory \/ ReadInput \/ LookUp \/ LookupRaised \/ ReportLookups
  \/ RunDiscoverOnly \/ CollectTargets \/ ChoosePort

\* Where the options are known to have passed _validate_args.
Validated == {"accepted", "lookup", "inventory", "collect", "targets", "inspect"}

\* Where the targets are known to have passed _collect_targets.
Gathered == {"targets", "inspect"}

SoundInv ==
  /\ pc \in Validated => Acceptable(args)
  /\ pc \in {"collect", "targets", "inspect"} => ~args.discover_only
  /\ pc \in Gathered => Inspectable(hosts, files) /\ files = args.file

LEMMA OptionsKeepSoundInv ==
  ASSUME SoundInv, SetOptions
  PROVE  SoundInv'
PROOF
  <1>1. CASE LoadConfig \/ ParseArgs \/ ApplyProfile
    <2>1. pc' \in {"parse", "usage error", "completed", "profile", "validate", "crashed"}
      BY <1>1 DEF LoadConfig, ParseArgs, ApplyProfile
    <2> QED BY <2>1 DEF SoundInv, Validated, Gathered
  <1>2. CASE Validate
    <2>1. pc' \in {"accepted", "usage error"} /\ args' = args
          /\ (pc' = "accepted" => Acceptable(args))
      BY <1>2 DEF Validate
    <2>2. pc' = "accepted" => Acceptable(args)'
      BY <2>1 DEF Acceptable, Consistent, FitsFiles
    <2> QED BY <2>1, <2>2 DEF SoundInv, Validated, Gathered
  <1> QED BY <1>1, <1>2 DEF SetOptions, OptionsStep

LEMMA TargetsKeepSoundInv ==
  ASSUME SoundInv, TargetStep
  PROVE  SoundInv'
PROOF
  <1>1. args' = args
    BY DEF TargetStep, StartInventory, ReadInput, LookUp, LookupRaised, ReportLookups,
           RunDiscoverOnly, CollectTargets, ChoosePort, optVars
  <1>2. Acceptable(args)' = Acceptable(args)
    BY <1>1 DEF Acceptable, Consistent, FitsFiles
  <1>3. CASE StartInventory \/ LookUp \/ LookupRaised \/ RunDiscoverOnly
    BY <1>1, <1>2, <1>3 DEF StartInventory, LookUp, LookupRaised, RunDiscoverOnly, SoundInv,
           Validated, Gathered, optVars, startVars, ExitWith
  <1>4. CASE ReadInput
    BY <1>1, <1>2, <1>4 DEF ReadInput, SoundInv, Validated, Gathered, ExitWith
  <1>5. CASE ReportLookups
    <2>1. pc = "lookup" /\ pc' \in {"inventory", "collect", "exited"}
          /\ (pc' = "collect" => ~args.discover_only)
      BY <1>5 DEF ReportLookups, ExitWith
    <2> QED BY <1>1, <1>2, <2>1 DEF SoundInv, Validated, Gathered
  <1>6. CASE CollectTargets
    <2>1. pc = "collect" /\ pc' \in {"targets", "usage error"}
          /\ (pc' = "targets" => Inspectable(hosts', args.file) /\ files' = args.file)
      BY <1>6 DEF CollectTargets
    <2>2. pc' = "targets" => Inspectable(hosts, files)'
      BY <1>1, <2>1 DEF Inspectable
    <2> QED BY <1>1, <1>2, <2>1, <2>2 DEF SoundInv, Validated, Gathered
  <1>7. CASE ChoosePort
    <2>1. pc = "targets" /\ pc' \in {"inspect", "crashed"} /\ UNCHANGED <<hosts, files>>
      BY <1>7 DEF ChoosePort
    <2>2. Inspectable(hosts, files)' = Inspectable(hosts, files)
      BY <1>1, <2>1 DEF Inspectable
    <2> QED BY <1>1, <1>2, <2>1, <2>2 DEF SoundInv, Validated, Gathered
  <1> QED BY <1>3, <1>4, <1>5, <1>6, <1>7 DEF TargetStep

LEMMA SoundInvSuffices == ASSUME SoundInv PROVE StartsSoundly
PROOF BY DEF SoundInv, StartsSoundly, Validated, Gathered, Inspectable, Acceptable,
             Consistent, FitsFiles, HostOnly

LEMMA SoundInvStutters ==
  ASSUME SoundInv, UNCHANGED vars
  PROVE  SoundInv'
PROOF BY DEF SoundInv, vars, optVars, startVars, Acceptable, Consistent, FitsFiles, Inspectable

LEMMA SoundAlways == Spec => []SoundInv
PROOF
  <1>1. Init => SoundInv
    BY DEF Init, OptionsInit, SoundInv, Validated, Gathered
  <1>2. SoundInv /\ [Next]_vars => SoundInv'
    <2> SUFFICES ASSUME SoundInv, [Next]_vars PROVE SoundInv'
      OBVIOUS
    <2>1. CASE SetOptions BY <2>1, OptionsKeepSoundInv
    <2>2. CASE TargetStep BY <2>2, TargetsKeepSoundInv
    <2>3. CASE UNCHANGED vars BY <2>3, SoundInvStutters
    <2> QED BY <2>1, <2>2, <2>3 DEF Next, TargetStep
  <1> QED BY <1>1, <1>2, PTL DEF Spec

\* Whatever set the options, the inspections start with options and targets that
\* make every check asked for possible (_validate_args, _collect_targets).
THEOREM StartIsSound == Spec => []StartsSoundly
PROOF BY SoundAlways, SoundInvSuffices, PTL

-----------------------------------------------------------------------------
(* The limits of the command line.                                          *)

ExplicitLimits == {"min_key_size", "min_tls_version", "not_after_max"}

\* The flags given stand, and next to an explicit maximum only the config file
\* switches the CA/Browser Forum limit on.
Overridden ==
  /\ \A n \in ExplicitLimits : Given(cli, n) => args[n] = cli[n]
  /\ Given(cli, "not_after_max") => (args.cab_forum <=> FileAsksCabForum)

LimitsInv ==
  /\ DOMAIN args = Names
  /\ IsLayer(cli) /\ IsExclusive(cli)
  /\ pc = "config" => args = Default
  /\ pc = "parse" => (args.cab_forum <=> FileAsksCabForum)
  /\ pc \in {"profile", "validate", "accepted"} => Overridden

LEMMA LimitNames ==
  /\ ExplicitLimits \subseteq Names /\ ExplicitLimits \cap Lists = {}
  /\ {"cab_forum", "fail_weak", "require_sct"} \subseteq Names
  /\ "cab_forum" \notin Lists /\ Default["cab_forum"] = FALSE
PROOF BY DEF ExplicitLimits, Names, Numbers, Lists, Switches, Default

LEMMA LimitsHoldAtFirst == Init => LimitsInv
PROOF
  <1> SUFFICES ASSUME Init PROVE LimitsInv
    OBVIOUS
  <1>1. PICK s \in Scenarios : config = s.config /\ cli = s.cli
    BY DEF Init, OptionsInit
  <1>2. IsLayer(cli) /\ IsExclusive(cli) BY <1>1, OptionsAssumption
  <1>3. pc = "config" /\ args = Default BY DEF Init, OptionsInit
  <1>4. DOMAIN args = Names BY <1>3 DEF Default
  <1> QED BY <1>2, <1>3, <1>4 DEF LimitsInv

LEMMA LoadConfigKeepsLimits ==
  ASSUME LimitsInv, LoadConfig
  PROVE  LimitsInv'
PROOF
  <1>1. pc' \in {"parse", "usage error"} /\ UNCHANGED <<config, cli>> BY DEF LoadConfig
  <1>2. IsLayer(cli)' /\ IsExclusive(cli)' BY <1>1 DEF LimitsInv, IsLayer, IsExclusive
  <1>3. DOMAIN args' = Names BY DEF LimitsInv, LoadConfig
  <1>4. pc' = "parse" => (args'.cab_forum <=> FileAsksCabForum)
    <2> SUFFICES ASSUME pc' = "parse" PROVE args'.cab_forum <=> FileAsksCabForum
      OBVIOUS
    <2>1. args'.cab_forum = IF Given(config, "cab_forum") THEN config.cab_forum
                            ELSE args.cab_forum
      BY LimitNames DEF LoadConfig
    <2>2. args.cab_forum = FALSE
      BY LimitNames DEF LimitsInv, LoadConfig
    <2> QED BY <2>1, <2>2 DEF FileAsksCabForum
  <1> QED BY <1>1, <1>2, <1>3, <1>4 DEF LimitsInv, FileAsksCabForum, Given

LEMMA ParseArgsKeepsLimits ==
  ASSUME LimitsInv, ParseArgs
  PROVE  LimitsInv'
PROOF
  <1>1. pc = "parse" /\ pc' \in {"completed", "profile"} /\ UNCHANGED <<config, cli>>
    BY DEF ParseArgs
  <1>2. IsLayer(cli)' /\ IsExclusive(cli)' BY <1>1 DEF LimitsInv, IsLayer, IsExclusive
  <1>3. DOMAIN args' = Names BY DEF ParseArgs
  <1>4. \A n \in ExplicitLimits : Given(cli, n) => args'[n] = cli[n]
    BY LimitNames DEF ParseArgs
  <1>5. Given(cli, "not_after_max") => ~Given(cli, "cab_forum")
    BY DEF LimitsInv, IsExclusive, ExclusiveGroups, Given
  <1>6. Given(cli, "not_after_max") => (args'.cab_forum <=> FileAsksCabForum)
    <2> SUFFICES ASSUME Given(cli, "not_after_max") PROVE args'.cab_forum <=> FileAsksCabForum
      OBVIOUS
    <2>1. args'.cab_forum = args.cab_forum
      BY <1>5, LimitNames DEF ParseArgs
    <2> QED BY <1>1, <2>1 DEF LimitsInv
  <1>7. Overridden' BY <1>1, <1>4, <1>6 DEF Overridden, FileAsksCabForum, Given
  <1> QED BY <1>1, <1>2, <1>3, <1>7 DEF LimitsInv

LEMMA ApplyProfileKeepsLimits ==
  ASSUME LimitsInv, ApplyProfile
  PROVE  LimitsInv'
PROOF
  <1>1. pc = "profile" /\ pc' \in {"validate", "crashed"} /\ UNCHANGED <<config, cli>>
    BY DEF ApplyProfile
  <1>2. IsLayer(cli)' /\ IsExclusive(cli)' BY <1>1 DEF LimitsInv, IsLayer, IsExclusive
  <1>3. args' = args \/ \E p \in Profile : args' = WithProfile(args, p)
    BY DEF ApplyProfile
  <1>4. CASE args' = args
    BY <1>1, <1>2, <1>4 DEF LimitsInv, Overridden, FileAsksCabForum, Given
  <1>5. ASSUME NEW p \in Profile, args' = WithProfile(args, p)
        PROVE  LimitsInv'
    <2>1. DOMAIN args' = Names BY <1>5 DEF WithProfile, LimitsInv
    <2>2. \A n \in ExplicitLimits : Given(cli, n) => args[n] = cli[n] /\ args[n] # Unset
      BY <1>1, LimitNames DEF LimitsInv, Overridden, IsLayer, Given
    <2>3. Given(cli, "min_key_size") => args'.min_key_size = cli.min_key_size
      BY <1>5, <2>2, LimitNames DEF WithProfile, LimitsInv, Filled, ExplicitLimits
    <2>4. Given(cli, "min_tls_version") => args'.min_tls_version = cli.min_tls_version
      BY <1>5, <2>2, LimitNames DEF WithProfile, LimitsInv, Filled, ExplicitLimits
    <2>5. Given(cli, "not_after_max") => args'.not_after_max = cli.not_after_max
      BY <1>5, <2>2, LimitNames DEF WithProfile, LimitsInv, ExplicitLimits
    <2>6. Given(cli, "not_after_max") => args.not_after_max # Unset
      BY <2>2 DEF ExplicitLimits
    <2>7. Given(cli, "not_after_max") => (args'.cab_forum <=> args.cab_forum)
      BY <1>5, <2>6, LimitNames DEF WithProfile, LimitsInv
    <2>8. \A n \in ExplicitLimits : Given(cli, n) => args'[n] = cli[n]
      BY <2>3, <2>4, <2>5 DEF ExplicitLimits
    <2>9. Given(cli, "not_after_max") => (args'.cab_forum <=> FileAsksCabForum)
      BY <1>1, <2>7 DEF LimitsInv, Overridden
    <2>10. Overridden'
      BY <1>1, <2>8, <2>9 DEF Overridden, FileAsksCabForum, Given
    <2> QED BY <1>1, <1>2, <2>1, <2>10 DEF LimitsInv
  <1> QED BY <1>3, <1>4, <1>5

LEMMA ValidateKeepsLimits ==
  ASSUME LimitsInv, Validate
  PROVE  LimitsInv'
PROOF
  <1>1. pc = "validate" /\ pc' \in {"accepted", "usage error"}
        /\ UNCHANGED <<config, cli, args>>
    BY DEF Validate
  <1> QED BY <1>1 DEF LimitsInv, Overridden, FileAsksCabForum, IsLayer, IsExclusive, Given

\* After the options are accepted nobody looks at the layers again.
LEMMA TargetsKeepLimits ==
  ASSUME LimitsInv, TargetStep
  PROVE  LimitsInv'
PROOF
  <1>1. UNCHANGED <<config, cli, args>>
    BY DEF TargetStep, StartInventory, ReadInput, LookUp, LookupRaised, ReportLookups,
           RunDiscoverOnly, CollectTargets, ChoosePort, optVars
  <1>2. pc' = pc \/ pc' \in {"lookup", "exited", "crashed", "collect", "inventory", "targets",
                            "usage error", "inspect"}
    BY DEF TargetStep, StartInventory, ReadInput, LookUp, LookupRaised, ReportLookups,
           RunDiscoverOnly, CollectTargets, ChoosePort, ExitWith, optVars
  <1> QED BY <1>1, <1>2 DEF LimitsInv, Overridden, FileAsksCabForum, IsLayer, IsExclusive, Given

LEMMA LimitsSuffice == ASSUME LimitsInv PROVE ExplicitLimitsSurvive
PROOF BY DEF LimitsInv, Overridden, ExplicitLimits, ExplicitLimitsSurvive, ValidityCap

LEMMA LimitsAlways == Spec => []LimitsInv
PROOF
  <1>1. LimitsInv /\ [Next]_vars => LimitsInv'
    <2> SUFFICES ASSUME LimitsInv, [Next]_vars PROVE LimitsInv'
      OBVIOUS
    <2>1. CASE SetOptions
      BY <2>1, LoadConfigKeepsLimits, ParseArgsKeepsLimits, ApplyProfileKeepsLimits,
         ValidateKeepsLimits DEF SetOptions, OptionsStep
    <2>2. CASE TargetStep BY <2>2, TargetsKeepLimits
    <2>3. CASE UNCHANGED vars
      BY <2>3 DEF LimitsInv, Overridden, FileAsksCabForum, IsLayer, IsExclusive, Given, vars, optVars
    <2> QED BY <2>1, <2>2, <2>3 DEF Next, TargetStep
  <1> QED BY <1>1, LimitsHoldAtFirst, PTL DEF Spec

\* For every config file, command line and profile: a key size, a TLS version and a
\* validity limit given on the command line are kept, and the validity limit is the
\* one in force unless the config file says cab_forum = true, when the CA/Browser
\* Forum's is (set_defaults, _apply_profile, _check_policy).
THEOREM ExplicitLimitsInForce == Spec => []ExplicitLimitsSurvive
PROOF
  <1>1. LimitsInv => ExplicitLimitsSurvive BY LimitsSuffice
  <1> QED BY <1>1, LimitsAlways, PTL

-----------------------------------------------------------------------------
(* The tiers of the profiles.                                               *)

\* What a profile makes of the options it may fill in.
LEMMA ProfileOptions ==
  ASSUME NEW a, DOMAIN a = Names, NEW p
  PROVE  LET t == WithProfile(a, p)
         IN /\ t.min_key_size = Filled(a.min_key_size, Preset[p].min_key_size)
            /\ t.min_tls_version = IF a.file # <<>> THEN a.min_tls_version
                                   ELSE Filled(a.min_tls_version, Preset[p].min_tls_version)
            /\ t.fail_weak <=> a.fail_weak \/ Preset[p].fail_weak
            /\ t.require_sct <=> a.require_sct \/ Preset[p].require_sct
            /\ t.cab_forum <=> a.cab_forum \/ (Preset[p].cab_forum /\ a.not_after_max = Unset)
            /\ t.not_after_max = a.not_after_max
            /\ t.require_must_staple = a.require_must_staple
            /\ t.require_revocation_check = a.require_revocation_check
PROOF
  <1>1. {"min_key_size", "min_tls_version", "fail_weak", "require_sct", "cab_forum",
         "not_after_max", "require_must_staple", "require_revocation_check"} \subseteq Names
    BY DEF Names, Switches, Numbers
  <1> QED BY <1>1 DEF WithProfile

LEMMA Presets ==
  /\ Preset["lenient"].min_key_size = Unset /\ Preset["lenient"].min_tls_version = 4
  /\ Preset["lenient"].fail_weak = TRUE /\ Preset["lenient"].require_sct = FALSE
  /\ Preset["lenient"].cab_forum = FALSE
  /\ Preset["standard"].min_key_size = 2048 /\ Preset["standard"].min_tls_version = 4
  /\ Preset["standard"].fail_weak = TRUE /\ Preset["standard"].require_sct = FALSE
  /\ Preset["standard"].cab_forum = FALSE
  /\ Preset["strict"].min_key_size = 2048 /\ Preset["strict"].min_tls_version = 5
  /\ Preset["strict"].fail_weak = TRUE /\ Preset["strict"].require_sct = TRUE
  /\ Preset["strict"].cab_forum = TRUE
PROOF BY DEF Preset

\* What makes the violations of b include those of a: every demand of a is one of b.
LEMMA StricterOptions ==
  ASSUME NEW a, NEW b, NEW c \in CertFact,
         ValidityCap(a) # Unset => ValidityCap(b) = ValidityCap(a),
         a.min_key_size # Unset => b.min_key_size = a.min_key_size,
         a.min_tls_version # Unset =>
           b.min_tls_version = a.min_tls_version
             \/ (a.min_tls_version = 4 /\ b.min_tls_version = 5),
         a.fail_weak => b.fail_weak,
         a.require_sct => b.require_sct,
         a.require_must_staple => b.require_must_staple,
         a.require_revocation_check => b.require_revocation_check
  PROVE  Violations(a, c) \subseteq Violations(b, c)
PROOF
  <1>1. Unset \notin Int BY OptionsAssumption
  <1>2. ASSUME a.min_tls_version # Unset, c.tls # Unset, c.tls < a.min_tls_version
        PROVE  b.min_tls_version # Unset /\ c.tls < b.min_tls_version
    <2>1. CASE b.min_tls_version = a.min_tls_version BY <1>2, <2>1
    <2>2. CASE a.min_tls_version = 4 /\ b.min_tls_version = 5
      <3>1. c.tls \in Nat BY <1>2 DEF CertFact
      <3> QED BY <1>1, <1>2, <2>2, <3>1
    <2> QED BY <1>2, <2>1, <2>2
  <1> SUFFICES ASSUME NEW v \in Violations(a, c) PROVE v \in Violations(b, c)
    OBVIOUS
  <1>3. v \in Policies BY DEF Violations
  <1>4. CASE v = "validity" BY <1>3, <1>4 DEF Violations
  <1>5. CASE v = "key size" BY <1>3, <1>5 DEF Violations
  <1>6. CASE v = "tls" BY <1>2, <1>3, <1>6 DEF Violations
  <1>7. CASE v \in {"weak", "sct", "must staple", "revocation"} BY <1>3, <1>7 DEF Violations
  <1> QED BY <1>3, <1>4, <1>5, <1>6, <1>7 DEF Policies

LEMMA LenientIsStricterThanNone ==
  ASSUME NEW a, DOMAIN a = Names, NEW c \in CertFact
  PROVE  Violations(a, c) \subseteq Violations(WithProfile(a, "lenient"), c)
PROOF
  <1> DEFINE b == WithProfile(a, "lenient")
  <1> HIDE DEF b
  <1>1. /\ b.min_key_size = Filled(a.min_key_size, Unset)
        /\ a.min_tls_version # Unset => b.min_tls_version = a.min_tls_version
        /\ a.fail_weak => b.fail_weak
        /\ a.require_sct => b.require_sct
        /\ b.cab_forum <=> a.cab_forum
        /\ b.not_after_max = a.not_after_max
        /\ b.require_must_staple = a.require_must_staple
        /\ b.require_revocation_check = a.require_revocation_check
    BY ProfileOptions, Presets DEF b, Filled
  <1>2. ValidityCap(b) = ValidityCap(a) BY <1>1 DEF ValidityCap
  <1>3. Violations(a, c) \subseteq Violations(b, c)
    BY <1>1, <1>2, StricterOptions DEF Filled
  <1> QED BY <1>3 DEF b

LEMMA StandardIsStricterThanLenient ==
  ASSUME NEW a, DOMAIN a = Names, NEW c \in CertFact
  PROVE  Violations(WithProfile(a, "lenient"), c)
           \subseteq Violations(WithProfile(a, "standard"), c)
PROOF
  <1> DEFINE l == WithProfile(a, "lenient")
             b == WithProfile(a, "standard")
  <1> HIDE DEF l, b
  <1>1. /\ l.min_key_size = Filled(a.min_key_size, Unset)
        /\ l.min_tls_version = IF a.file # <<>> THEN a.min_tls_version
                               ELSE Filled(a.min_tls_version, 4)
        /\ l.require_sct <=> a.require_sct
        /\ l.cab_forum <=> a.cab_forum
        /\ l.not_after_max = a.not_after_max
        /\ l.require_must_staple = a.require_must_staple
        /\ l.require_revocation_check = a.require_revocation_check
    BY ProfileOptions, Presets DEF l
  <1>2. /\ b.min_key_size = Filled(a.min_key_size, 2048)
        /\ b.min_tls_version = IF a.file # <<>> THEN a.min_tls_version
                               ELSE Filled(a.min_tls_version, 4)
        /\ b.fail_weak
        /\ b.require_sct <=> a.require_sct
        /\ b.cab_forum <=> a.cab_forum
        /\ b.not_after_max = a.not_after_max
        /\ b.require_must_staple = a.require_must_staple
        /\ b.require_revocation_check = a.require_revocation_check
    BY ProfileOptions, Presets DEF b
  <1>3. ValidityCap(b) = ValidityCap(l) BY <1>1, <1>2 DEF ValidityCap
  <1>4. l.min_key_size # Unset => b.min_key_size = l.min_key_size BY <1>1, <1>2 DEF Filled
  <1>5. Violations(l, c) \subseteq Violations(b, c)
    BY <1>1, <1>2, <1>3, <1>4, StricterOptions
  <1> QED BY <1>5 DEF l, b

LEMMA StrictIsStricterThanStandard ==
  ASSUME NEW a, DOMAIN a = Names, NEW c \in CertFact
  PROVE  Violations(WithProfile(a, "standard"), c)
           \subseteq Violations(WithProfile(a, "strict"), c)
PROOF
  <1> DEFINE s == WithProfile(a, "standard")
             b == WithProfile(a, "strict")
  <1> HIDE DEF s, b
  <1>1. /\ s.min_key_size = Filled(a.min_key_size, 2048)
        /\ s.min_tls_version = IF a.file # <<>> THEN a.min_tls_version
                               ELSE Filled(a.min_tls_version, 4)
        /\ s.cab_forum <=> a.cab_forum
        /\ s.not_after_max = a.not_after_max
        /\ s.require_must_staple = a.require_must_staple
        /\ s.require_revocation_check = a.require_revocation_check
    BY ProfileOptions, Presets DEF s
  <1>2. /\ b.min_key_size = Filled(a.min_key_size, 2048)
        /\ b.min_tls_version = IF a.file # <<>> THEN a.min_tls_version
                               ELSE Filled(a.min_tls_version, 5)
        /\ b.fail_weak /\ b.require_sct
        /\ b.cab_forum <=> a.cab_forum \/ a.not_after_max = Unset
        /\ b.not_after_max = a.not_after_max
        /\ b.require_must_staple = a.require_must_staple
        /\ b.require_revocation_check = a.require_revocation_check
    BY ProfileOptions, Presets DEF b
  <1>3. ValidityCap(s) # Unset => ValidityCap(b) = ValidityCap(s)
    BY <1>1, <1>2 DEF ValidityCap
  <1>4. \/ b.min_tls_version = s.min_tls_version
        \/ s.min_tls_version = 4 /\ b.min_tls_version = 5
    BY <1>1, <1>2 DEF Filled
  <1>5. Violations(s, c) \subseteq Violations(b, c)
    BY <1>1, <1>2, <1>3, <1>4, StricterOptions
  <1> QED BY <1>5 DEF s, b

\* "Each stricter tier is a superset of the one below it" (POLICY_PROFILES), for
\* every certificate and whatever the other options are.
THEOREM TiersNest == Spec => []TiersAreNested
PROOF
  <1>1. LimitsInv => TiersAreNested
    <2> SUFFICES ASSUME LimitsInv, NEW c \in CertFacts
                 PROVE  /\ Violations(args, c) \subseteq Violations(WithProfile(args, "lenient"), c)
                        /\ Violations(WithProfile(args, "lenient"), c)
                             \subseteq Violations(WithProfile(args, "standard"), c)
                        /\ Violations(WithProfile(args, "standard"), c)
                             \subseteq Violations(WithProfile(args, "strict"), c)
      BY DEF TiersAreNested
    <2>1. DOMAIN args = Names /\ c \in CertFact BY OptionsAssumption DEF LimitsInv
    <2> QED BY <2>1, LenientIsStricterThanNone, StandardIsStricterThanLenient,
               StrictIsStricterThanStandard
  <1> QED BY <1>1, LimitsAlways, PTL

-----------------------------------------------------------------------------
(* Lists of lists                                                           *)

\* The entries of two lists, one behind the other.
LEMMA Joined ==
  ASSUME NEW A, NEW s \in Seq(A), NEW t \in Seq(A)
  PROVE  /\ s \o t \in Seq(A) /\ Len(s) \in Nat /\ Len(t) \in Nat
         /\ Len(s \o t) = Len(s) + Len(t) /\ <<>> \o t = t
         /\ \A m \in 1..Len(s) : (s \o t)[m] = s[m]
         /\ \A k \in 1..Len(t) : (s \o t)[Len(s) + k] = t[k]
  <1>1. /\ s \o t \in Seq(A) /\ Len(s) \in Nat /\ Len(t) \in Nat
        /\ Len(s \o t) = Len(s) + Len(t)
        /\ \A m \in 1..(Len(s) + Len(t)) :
             (s \o t)[m] = IF m <= Len(s) THEN s[m] ELSE t[m - Len(s)]
    BY ConcatProperties, LenProperties
  <1>2. ASSUME NEW m \in 1..Len(s) PROVE (s \o t)[m] = s[m]
    BY <1>1
  <1>3. ASSUME NEW k \in 1..Len(t) PROVE (s \o t)[Len(s) + k] = t[k]
    <2>1. Len(s) + k \in 1..(Len(s) + Len(t)) /\ ~(Len(s) + k <= Len(s)) /\ (Len(s) + k) - Len(s) = k
      BY <1>1
    <2>. QED BY <1>1, <2>1
  <1>4. <<>> \o t = t
    BY ConcatEmptySeq
  <1>. QED BY <1>1, <1>2, <1>3, <1>4

\* A concatenation has the entries of both lists.
LEMMA EntriesOfJoined ==
  ASSUME NEW A, NEW s \in Seq(A), NEW t \in Seq(A)
  PROVE  Entries(s \o t) = Entries(s) \cup Entries(t)
  <1>1. /\ DOMAIN (s \o t) = 1..(Len(s) + Len(t)) /\ DOMAIN s = 1..Len(s) /\ DOMAIN t = 1..Len(t)
        /\ Len(s) \in Nat /\ Len(t) \in Nat
    BY ConcatProperties, LenProperties
  <1>2. ASSUME NEW m \in 1..(Len(s) + Len(t))
        PROVE  (s \o t)[m] \in Entries(s) \cup Entries(t)
    <2>1. CASE m <= Len(s)
      <3>1. m \in 1..Len(s) BY <1>1, <2>1
      <3>2. (s \o t)[m] = s[m] BY <3>1, Joined
      <3>. QED BY <1>1, <3>1, <3>2 DEF Entries
    <2>2. CASE ~(m <= Len(s))
      <3>. DEFINE k == m - Len(s)
      <3>1. k \in 1..Len(t) /\ m = Len(s) + k BY <1>1, <2>2
      <3>. HIDE DEF k
      <3>2. (s \o t)[m] = t[k] BY <3>1, Joined
      <3>. QED BY <1>1, <3>1, <3>2 DEF Entries
    <2>. QED BY <2>1, <2>2
  <1>3. ASSUME NEW m \in 1..Len(s) PROVE s[m] \in Entries(s \o t)
    <2>1. (s \o t)[m] = s[m] /\ m \in 1..(Len(s) + Len(t)) BY <1>1, Joined
    <2>. QED BY <1>1, <2>1 DEF Entries
  <1>4. ASSUME NEW k \in 1..Len(t) PROVE t[k] \in Entries(s \o t)
    <2>1. (s \o t)[Len(s) + k] = t[k] /\ Len(s) + k \in 1..(Len(s) + Len(t)) BY <1>1, Joined
    <2>. QED BY <1>1, <2>1 DEF Entries
  <1>. QED BY <1>1, <1>2, <1>3, <1>4 DEF Entries

\* The rounds of FlattenSeq, from the empty list on.
LEMMA FlattenRounds ==
  ASSUME NEW A, NEW ss
  PROVE  ss \in Seq(Seq(A)) /\ ss # <<>> =>
           \E f \in [0..Len(ss) -> Seq(A)] :
             /\ f[0] = <<>> /\ f[Len(ss)] = Seqs!FlattenSeq(ss)
             /\ \A i \in 1..Len(ss) : f[i] = f[i - 1] \o ss[i]
  <1>0. SUFFICES ASSUME ss \in Seq(Seq(A)), ss # <<>>
                 PROVE  \E f \in [0..Len(ss) -> Seq(A)] :
                          /\ f[0] = <<>> /\ f[Len(ss)] = Seqs!FlattenSeq(ss)
                          /\ \A i \in 1..Len(ss) : f[i] = f[i - 1] \o ss[i]
    OBVIOUS
  <1>. DEFINE n == Len(ss)
              R == Seq(A)
              Round(i, l) == l \o ss[i]
              step == [i \in 1..n |-> [l \in R |-> Round(i, l)]]
              Rounds(h) == [i \in 1..n |-> IF i = 1 THEN ss[i] ELSE h[i - 1] \o ss[i]]
              g == CHOOSE h : h = Rounds(h)
              first == ss[1]
  <1>1. n \in Nat /\ n > 0 /\ \A i \in 1..n : ss[i] \in R
    BY <1>0, LenProperties, ElementOfSeq, EmptySeq
  <1>2. \A i \in 1..n : \A l \in R : Round(i, l) \in R
    BY <1>1, ConcatProperties
  <1>3. Round(1, <<>>) = first /\ <<>> \in R
    BY <1>1, Joined, EmptySeq
  <1>4. Seqs!FlattenSeq(ss) = g[n]
    BY <1>0, <1>1 DEF Seqs!FlattenSeq
  <1>5. \A h : /\ Rounds(h) = [i \in 1..n |-> Rounds(h)[i]]
               /\ \A i \in 1..n : Rounds(h)[i] = IF i = 1 THEN first ELSE Round(i, h[i - 1])
    OBVIOUS
  <1>. HIDE DEF n, R, Round, first
  <1>6. step \in [1..n -> [R -> R]]
        /\ \A i \in 1..n : \A l \in R : step[i][l] = Round(i, l)
    BY <1>2
  <1>. HIDE DEF step, Rounds, g
  <1>7. PICK f \in [0..n -> R] : f[0] = <<>> /\ \A i \in 1..n : f[i] = step[i][f[i - 1]]
    <2>1. n \in Nat /\ <<>> \in R /\ step \in Bodies(R, n)
      BY <1>1, <1>3, <1>6 DEF Bodies
    <2>2. PICK f : IsLoop(f, R, <<>>, n, step)
      BY <2>1, Recursion
    <2>. QED BY <2>2 DEF IsLoop
  <1>8. \A i \in 1..n : f[i] = Round(i, f[i - 1])
    <2>. SUFFICES ASSUME NEW i \in 1..n PROVE f[i] = Round(i, f[i - 1])
      OBVIOUS
    <2>1. i - 1 \in 0..n
      BY <1>1
    <2>2. f[i - 1] \in R
      BY <2>1
    <2>3. f[i] = step[i][f[i - 1]]
      BY <1>7
    <2>. QED BY <1>6, <2>2, <2>3
  <1>9. f[1] = first
    <2>1. 1 \in 1..n /\ 1 - 1 = 0 BY <1>1
    <2>2. f[1] = Round(1, f[0]) BY <1>8, <2>1
    <2>. QED BY <1>3, <1>7, <2>2
  <1>. DEFINE f1 == [i \in 1..n |-> f[i]]
  <1>10. f1 = Rounds(f1)
    <2>1. ASSUME NEW i \in 1..n PROVE f1[i] = Rounds(f1)[i]
      <3>1. CASE i = 1 BY <1>5, <1>9, <3>1
      <3>2. CASE i # 1
        <4>1. i - 1 \in 1..n BY <1>1, <3>2
        <4>. QED BY <1>5, <1>8, <3>2, <4>1
      <3>. QED BY <3>1, <3>2
    <2>2. f1 = [i \in 1..n |-> f1[i]]
      OBVIOUS
    <2>. HIDE DEF f1
    <2>. QED BY <2>1, <2>2, <1>5
  <1>11. g = Rounds(g)
    BY <1>10 DEF g
  <1>12. \A i \in 1..n : g[i] = IF i = 1 THEN first ELSE Round(i, g[i - 1])
    BY <1>5, <1>11
  <1>13. g[n] = f[n]
    <2>. DEFINE T == {0} \cup {i \in 1..n : g[i] = f[i]}
    <2>1. 0 \in T OBVIOUS
    <2>2. ASSUME NEW i \in 0..(n - 1), i \in T PROVE i + 1 \in T
      <3>1. i + 1 \in 1..n /\ (i + 1) - 1 = i /\ (i # 0 => i \in 1..n /\ i + 1 # 1)
        BY <1>1
      <3>2. CASE i = 0
        BY <1>9, <1>12, <3>1, <3>2
      <3>3. CASE i # 0
        <4>1. g[i + 1] = Round(i + 1, g[i])
          BY <1>12, <3>1, <3>3
        <4>2. f[i + 1] = Round(i + 1, f[i])
          BY <1>8, <3>1
        <4>. QED BY <2>2, <3>1, <3>3, <4>1, <4>2
      <3>. QED BY <3>2, <3>3
    <2>3. 0..n \subseteq T
      <3>. HIDE DEF T
      <3>. QED BY <1>1, <2>1, <2>2, InductionUpTo
    <2>4. n \in T /\ n # 0 BY <1>1, <2>3
    <2>. QED BY <2>4
  <1>. QED
    BY <1>4, <1>7, <1>8, <1>13 DEF n, R, Round

\* off[i] is where the entries of the first i lists of ss end.
IsOffset(ss, off) ==
  /\ off \in [0..Len(ss) -> Nat]
  /\ off[0] = 0 /\ off[Len(ss)] = Len(Seqs!FlattenSeq(ss))
  /\ \A i \in 1..Len(ss) : off[i] = off[i - 1] + Len(ss[i])
  /\ \A i, j \in 0..Len(ss) : i <= j => off[i] <= off[j]
  /\ \A i \in 1..Len(ss) : \A k \in 1..Len(ss[i]) :
       Seqs!FlattenSeq(ss)[off[i - 1] + k] = ss[i][k]

\* Flattening puts the lists one behind the other.
LEMMA FlattenBlocks ==
  ASSUME NEW A, NEW ss
  PROVE  ss \in Seq(Seq(A)) /\ ss # <<>> =>
           Seqs!FlattenSeq(ss) \in Seq(A) /\ \E off : IsOffset(ss, off)
  <1>0. SUFFICES ASSUME ss \in Seq(Seq(A)), ss # <<>>
                 PROVE  Seqs!FlattenSeq(ss) \in Seq(A) /\ \E off : IsOffset(ss, off)
    OBVIOUS
  <1>. DEFINE n == Len(ss)
              len(i) == Len(ss[i])
  <1>1. n \in Nat /\ n > 0 /\ n \in 0..n
        /\ \A i \in 1..n : ss[i] \in Seq(A) /\ len(i) \in Nat
    BY <1>0, LenProperties, ElementOfSeq, EmptySeq
  <1>2. PICK f \in [0..n -> Seq(A)] :
          /\ f[0] = <<>> /\ f[n] = Seqs!FlattenSeq(ss)
          /\ \A i \in 1..n : f[i] = f[i - 1] \o ss[i]
    BY <1>0, FlattenRounds
  <1>. DEFINE off == [i \in 0..n |-> Len(f[i])]
              at(m, j) == f[m][j]
              row(i, k) == ss[i][k]
  <1>3. off \in [0..n -> Nat] /\ off[0] = 0 /\ off[n] = Len(f[n]) /\ f[n] \in Seq(A)
    <2>1. \A i \in 0..n : f[i] \in Seq(A) /\ Len(f[i]) \in Nat
      BY LenProperties
    <2>2. Len(f[0]) = 0
      BY <1>2, EmptySeq
    <2>. QED BY <1>1, <2>1, <2>2
  <1>4. ASSUME NEW i \in 1..n
        PROVE  /\ i - 1 \in 0..n /\ i \in 0..n
               /\ off[i] = off[i - 1] + len(i) /\ off[i - 1] \in Nat /\ off[i] \in Nat
               /\ \A m \in 1..off[i - 1] : at(i, m) = at(i - 1, m)
               /\ \A k \in 1..len(i) : at(i, off[i - 1] + k) = row(i, k)
    <2>1. i - 1 \in 0..n /\ i \in 0..n
      BY <1>1
    <2>2. f[i - 1] \in Seq(A) /\ ss[i] \in Seq(A)
      BY <1>1, <2>1
    <2>3. f[i] = f[i - 1] \o ss[i] /\ off[i] = Len(f[i]) /\ off[i - 1] = Len(f[i - 1])
      BY <1>2, <2>1
    <2>4. \A s, t \in Seq(A) :
            /\ Len(s \o t) = Len(s) + Len(t)
            /\ \A m \in 1..Len(s) : (s \o t)[m] = s[m]
            /\ \A k \in 1..Len(t) : (s \o t)[Len(s) + k] = t[k]
      BY Joined
    <2>5. off[i - 1] \in Nat /\ off[i] \in Nat
      BY <1>3, <2>1
    <2>. DEFINE s == f[i - 1]
                t == ss[i]
    <2>. HIDE DEF off, n
    <2>6. s \in Seq(A) /\ t \in Seq(A) /\ f[i] = s \o t /\ off[i] = Len(f[i]) /\ off[i - 1] = Len(s)
      BY <2>2, <2>3
    <2>7. len(i) = Len(t) /\ (\A k : row(i, k) = t[k]) /\ (\A m : at(i - 1, m) = s[m])
      OBVIOUS
    <2>. HIDE DEF s, t, row
    <2>8. off[i] = off[i - 1] + len(i)
      BY <2>4, <2>6, <2>7
    <2>9. \A m \in 1..off[i - 1] : at(i, m) = at(i - 1, m)
      BY <2>4, <2>6, <2>7
    <2>10. \A k \in 1..len(i) : at(i, off[i - 1] + k) = row(i, k)
      BY <2>4, <2>6, <2>7
    <2>. QED BY <2>1, <2>5, <2>8, <2>9, <2>10
  <1>5. f[n] = Seqs!FlattenSeq(ss)
    BY <1>2
  <1>. HIDE DEF off, n, len, at, row
  <1>. DEFINE Placed(i, m) == \A k \in 1..len(i) : at(m, off[i - 1] + k) = row(i, k)
              T == {m \in 0..n : /\ \A i \in 0..m : off[i] <= off[m]
                                 /\ \A i \in 1..m : Placed(i, m)}
  <1>6. 0 \in T
    BY <1>1, <1>3
  <1>7. ASSUME NEW m \in 0..(n - 1), m \in T PROVE m + 1 \in T
    <2>1. m + 1 \in 1..n /\ m + 1 \in 0..n /\ (m + 1) - 1 = m /\ m \in 0..n
      BY <1>1
    <2>2. off[m + 1] = off[m] + len(m + 1) /\ off[m] \in Nat /\ off[m + 1] \in Nat
          /\ len(m + 1) \in Nat
      BY <1>1, <1>4, <2>1
    <2>3. ASSUME NEW i \in 0..(m + 1) PROVE off[i] <= off[m + 1]
      <3>1. CASE i = m + 1 BY <2>2, <3>1
      <3>2. CASE i # m + 1
        <4>1. i \in 0..m /\ i \in 0..n BY <1>1, <3>2
        <4>2. off[i] <= off[m] /\ off[i] \in Nat BY <1>3, <1>7, <4>1
        <4>. QED BY <2>2, <4>2
      <3>. QED BY <3>1, <3>2
    <2>4. ASSUME NEW i \in 1..(m + 1) PROVE Placed(i, m + 1)
      <3>1. CASE i = m + 1
        BY <1>4, <2>1, <3>1
      <3>2. CASE i # m + 1
        <4>1. i \in 1..m /\ i \in 1..n /\ i \in 0..m BY <1>1, <3>2
        <4>2. Placed(i, m) /\ off[i] <= off[m] BY <1>7, <4>1
        <4>3. off[i] = off[i - 1] + len(i) /\ off[i - 1] \in Nat /\ len(i) \in Nat
          BY <1>1, <1>4, <4>1
        <4>4. ASSUME NEW k \in 1..len(i)
              PROVE  at(m + 1, off[i - 1] + k) = row(i, k)
          <5>1. off[i - 1] + k \in 1..off[m]
            <6>1. k \in 1..len(i)
              OBVIOUS
            <6>2. off[i] <= off[m]
              BY <4>2
            <6>3. off[m] \in Nat
              BY <2>2
            <6>. QED BY ONLY <4>3, <6>1, <6>2, <6>3
          <5>2. at(m + 1, off[i - 1] + k) = at(m, off[i - 1] + k)
            BY <1>4, <2>1, <5>1
          <5>. QED BY <4>2, <5>2
        <4>. QED BY <4>4
      <3>. QED BY <3>1, <3>2
    <2>. HIDE DEF Placed
    <2>. QED BY <2>1, <2>3, <2>4
  <1>8. 0..n \subseteq T
    <2>. HIDE DEF T
    <2>. QED BY <1>1, <1>6, <1>7, InductionUpTo
  <1>9. \A i, j \in 0..n : i <= j => off[i] <= off[j]
    <2>. SUFFICES ASSUME NEW i \in 0..n, NEW j \in 0..n, i <= j PROVE off[i] <= off[j]
      OBVIOUS
    <2>1. j \in T BY <1>8
    <2>2. i \in 0..j OBVIOUS
    <2>. HIDE DEF Placed
    <2>. QED BY <2>1, <2>2
  <1>10. \A i \in 1..n : Placed(i, n)
    <2>1. n \in T BY <1>1, <1>8
    <2>. HIDE DEF Placed
    <2>. QED BY <2>1
  <1>11. \A i \in 1..n : off[i] = off[i - 1] + len(i)
    BY <1>4
  <1>12. IsOffset(ss, off)
    BY <1>3, <1>5, <1>9, <1>10, <1>11 DEF n, len, at, row, IsOffset
  <1>. QED
    BY <1>3, <1>5, <1>12

\* Every entry of the flattened list is in one of the blocks.
LEMMA InABlock ==
  ASSUME NEW n \in Nat, NEW off \in [0..n -> Nat], off[0] = 0, NEW m \in 1..off[n]
  PROVE  \E i \in 1..n : off[i - 1] < m /\ m <= off[i]
  <1>. DEFINE Past == {i \in 0..n : m <= off[i]}
  <1>1. Past \subseteq Nat /\ n \in Past
    OBVIOUS
  <1>2. PICK i \in Past : \A j \in Past : i <= j
    <2>. HIDE DEF Past
    <2>. QED BY <1>1, LeastNatural
  <1>3. i \in 1..n /\ i - 1 \in 0..n /\ i - 1 \notin Past
    BY <1>2
  <1>4. off[i - 1] \in Nat
    BY <1>3
  <1>. QED
    BY <1>2, <1>3, <1>4

\* The flattened list has the entries of all the lists.
LEMMA EntriesOfFlatten ==
  ASSUME NEW A, NEW ss
  PROVE  ss \in Seq(Seq(A)) /\ ss # <<>> =>
           Entries(Seqs!FlattenSeq(ss)) = UNION {Entries(ss[i]) : i \in 1..Len(ss)}
  <1>0. SUFFICES ASSUME ss \in Seq(Seq(A)), ss # <<>>
                 PROVE  Entries(Seqs!FlattenSeq(ss)) = UNION {Entries(ss[i]) : i \in 1..Len(ss)}
    OBVIOUS
  <1>. DEFINE fl == Seqs!FlattenSeq(ss)
              n == Len(ss)
              len(i) == Len(ss[i])
              row(i, k) == ss[i][k]
              total == Len(fl)
  <1>1. PICK off : IsOffset(ss, off)
    BY <1>0, FlattenBlocks
  <1>2. /\ fl \in Seq(A) /\ n \in Nat
        /\ \A i \in 1..n : len(i) \in Nat /\ DOMAIN ss[i] = 1..len(i)
    BY <1>0, FlattenBlocks, LenProperties, ElementOfSeq
  <1>3. DOMAIN fl = 1..total
    BY <1>2, LenProperties
  <1>4. /\ \A x : x \in Entries(fl) <=> \E m \in 1..total : x = fl[m]
        /\ \A i \in 1..n : \A x : x \in Entries(ss[i]) <=> \E k \in 1..len(i) : x = row(i, k)
    BY <1>2, <1>3 DEF Entries
  <1>5. /\ off \in [0..n -> Nat] /\ off[0] = 0 /\ off[n] = total
        /\ \A i \in 1..n : off[i] = off[i - 1] + len(i)
        /\ \A i, j \in 0..n : i <= j => off[i] <= off[j]
        /\ \A i \in 1..n : \A k \in 1..len(i) : fl[off[i - 1] + k] = row(i, k)
    BY <1>1 DEF IsOffset
  <1>. HIDE DEF fl, n, len, row, total
  <1>6. ASSUME NEW i \in 1..n
        PROVE  /\ i - 1 \in 0..n /\ i \in 0..n /\ n \in 0..n
               /\ off[i - 1] \in Nat /\ off[i] \in Nat /\ off[n] \in Nat
               /\ off[i] = off[i - 1] + len(i) /\ off[i] <= off[n] /\ len(i) \in Nat
    BY <1>5, <1>2
  <1>7. ASSUME NEW m \in 1..total
        PROVE  \E i \in 1..n : \E k \in 1..len(i) : fl[m] = row(i, k)
    <2>1. PICK i \in 1..n : off[i - 1] < m /\ m <= off[i]
      BY <1>5, <1>2, InABlock
    <2>2. off[i] = off[i - 1] + len(i) /\ off[i - 1] \in Nat /\ len(i) \in Nat
      BY <1>6
    <2>. DEFINE k == m - off[i - 1]
    <2>3. k \in 1..len(i) /\ off[i - 1] + k = m
      BY <2>1, <2>2
    <2>. HIDE DEF k
    <2>4. fl[off[i - 1] + k] = row(i, k)
      BY <1>5, <2>3
    <2>. QED BY <2>3, <2>4
  <1>8. ASSUME NEW i \in 1..n, NEW k \in 1..len(i)
        PROVE  \E m \in 1..total : row(i, k) = fl[m]
    <2>1. off[i - 1] + k \in 1..off[n]
      BY <1>6
    <2>. QED BY <1>5, <2>1
  <1>9. Entries(fl) = UNION {Entries(ss[i]) : i \in 1..n}
    <2>1. ASSUME NEW x \in Entries(fl) PROVE \E i \in 1..n : x \in Entries(ss[i])
      BY <1>4, <1>7
    <2>2. ASSUME NEW i \in 1..n, NEW x \in Entries(ss[i]) PROVE x \in Entries(fl)
      BY <1>4, <1>8
    <2>. QED BY <2>1, <2>2
  <1>. QED
    BY <1>9 DEF fl, n

-----------------------------------------------------------------------------
(* The types of the options                                                 *)

\* One scenario stays the run's, every option has a value of its kind, and the
\* port one of its own.
OptionsTyped ==
  /\ \E s \in Scenarios : config = s.config /\ cli = s.cli
  /\ DOMAIN args = Names /\ \A n \in Names : args[n] \in Value(n)
  /\ args.port # Unset

LEMMA KindsOfOptions ==
  /\ \A n \in Switches : n \in Names /\ Value(n) = BOOLEAN
  /\ \A n \in Lists : n \in Names /\ n \notin Switches /\ Value(n) = Seq(Elements)
  /\ \A n \in Numbers : n \in Names /\ n \notin Switches /\ n \notin Lists
                        /\ Value(n) = Int \cup {Unset}
  /\ \A n \in Enumerated : /\ n \in Names /\ n \notin Switches /\ n \notin Lists
                           /\ n \notin Numbers /\ Value(n) = STRING \cup {Unset}
  <1>1. Lists \cap Switches = {} /\ Numbers \cap (Switches \cup Lists) = {}
        /\ Enumerated \cap (Switches \cup Lists \cup Numbers) = {}
    BY DEF Switches, Lists, Numbers, Enumerated
  <1>2. ASSUME NEW n \in Switches PROVE Value(n) = BOOLEAN
    BY <1>1 DEF Value
  <1>3. ASSUME NEW n \in Lists PROVE Value(n) = Seq(Elements)
    BY <1>1 DEF Value
  <1>4. ASSUME NEW n \in Numbers PROVE Value(n) = Int \cup {Unset}
    BY <1>1 DEF Value
  <1>5. ASSUME NEW n \in Enumerated PROVE Value(n) = STRING \cup {Unset}
    BY <1>1 DEF Value
  <1>. QED
    BY <1>1, <1>2, <1>3, <1>4, <1>5 DEF Names

\* Which options are which, by name.
LEMMA OptionNames ==
  /\ "target" \in Lists /\ "file" \in Lists /\ "discover" \in Lists /\ "expect_issuer" \in Lists
  /\ "port" \in Numbers /\ "min_key_size" \in Numbers /\ "min_tls_version" \in Numbers
  /\ "fail_weak" \in Switches /\ "require_sct" \in Switches /\ "cab_forum" \in Switches
  BY DEF Lists, Numbers, Switches

LEMMA DefaultIsTyped ==
  /\ DOMAIN Default = Names /\ \A n \in Names : Default[n] \in Value(n)
  /\ Default["port"] # Unset /\ Default["discover"] = <<>>
  <1>1. ASSUME NEW n \in Names PROVE Default[n] \in Value(n)
    <2>1. CASE n \in Switches
      <3>1. Default[n] = (n = "verify")
        BY <2>1 DEF Default
      <3>. QED BY <2>1, <3>1, KindsOfOptions
    <2>2. CASE n \in Lists
      <3>1. Default[n] = <<>>
        BY <2>2, KindsOfOptions DEF Default
      <3>. QED BY <2>2, <3>1, KindsOfOptions, EmptySeq
    <2>3. CASE n \in Numbers
      <3>1. Default[n] \in {30, 443, Unset}
        BY <2>3, KindsOfOptions DEF Default
      <3>. QED BY <2>3, <3>1, KindsOfOptions
    <2>4. CASE n \in Enumerated
      <3>1. n # "days" /\ n # "port"
        BY <2>4, KindsOfOptions DEF Numbers
      <3>2. Default[n] = Unset
        BY <2>4, <3>1, KindsOfOptions DEF Default
      <3>. QED BY <2>4, <3>2, KindsOfOptions
    <2>. QED BY <2>1, <2>2, <2>3, <2>4 DEF Names
  <1>2. Default["port"] = 443
    <2>1. "port" # "days" OBVIOUS
    <2>. QED BY <2>1, OptionNames, KindsOfOptions DEF Default
  <1>3. Default["discover"] = <<>>
    BY OptionNames, KindsOfOptions DEF Default
  <1>4. DOMAIN Default = Names
    BY DEF Default
  <1>. QED
    BY <1>1, <1>2, <1>3, <1>4, OptionsAssumption

\* A layer over typed options, list options appended to or not.
LEMMA LayerIsTyped ==
  ASSUME NEW l, IsLayer(l), NEW a, \A n \in Names : a[n] \in Value(n), a.port # Unset
  PROVE  /\ \A n \in Names : Given(l, n) => l[n] \in Value(n)
         /\ Given(l, "port") => l["port"] # Unset
         /\ \A n \in Lists : Given(l, n) => a[n] \o l[n] \in Value(n)
  <1>1. \A n \in Names : Given(l, n) => l[n] \in Value(n) /\ l[n] # Unset
    BY DEF IsLayer, Given
  <1>2. ASSUME NEW n \in Lists, Given(l, n) PROVE a[n] \o l[n] \in Value(n)
    <2>1. n \in Names /\ Value(n) = Seq(Elements)
      BY KindsOfOptions
    <2>2. a[n] \in Seq(Elements) /\ l[n] \in Seq(Elements)
      BY <1>1, <1>2, <2>1
    <2>3. a[n] \o l[n] \in Seq(Elements)
      BY <2>2, Joined
    <2>. QED BY <2>1, <2>3
  <1>. QED
    BY <1>1, <1>2, OptionNames, KindsOfOptions

LEMMA ProfileIsTyped ==
  ASSUME NEW a, DOMAIN a = Names, \A n \in Names : a[n] \in Value(n), a.port # Unset,
         NEW p \in Profile
  PROVE  /\ DOMAIN WithProfile(a, p) = Names
         /\ \A n \in Names : WithProfile(a, p)[n] \in Value(n)
         /\ WithProfile(a, p).port # Unset /\ WithProfile(a, p).discover = a.discover
  <1>. DEFINE t == WithProfile(a, p)
              Limits == {"min_key_size", "min_tls_version"}
              Checks == {"fail_weak", "require_sct", "cab_forum"}
  <1>1. DOMAIN t = Names /\ \A n \in Names : n \notin Limits \cup Checks => t[n] = a[n]
    BY DEF WithProfile
  <1>2. \A n \in Limits : n \in Names /\ Value(n) = Int \cup {Unset}
    BY KindsOfOptions, OptionNames
  <1>3. \A n \in Checks : n \in Names /\ Value(n) = BOOLEAN
    BY KindsOfOptions, OptionNames
  <1>4. Preset[p].min_key_size \in Int \cup {Unset} /\ Preset[p].min_tls_version \in Int
    <2>1. /\ Preset["lenient"].min_key_size = Unset /\ Preset["lenient"].min_tls_version = 4
          /\ Preset["standard"].min_key_size = 2048 /\ Preset["standard"].min_tls_version = 4
          /\ Preset["strict"].min_key_size = 2048 /\ Preset["strict"].min_tls_version = 5
      BY Presets
    <2>. QED BY <2>1 DEF Profile
  <1>. HIDE DEF t
  <1>5. t.min_key_size \in Int \cup {Unset} /\ t.min_tls_version \in Int \cup {Unset}
    <2>1. a.min_key_size \in Int \cup {Unset} /\ a.min_tls_version \in Int \cup {Unset}
      BY <1>2
    <2>2. /\ t.min_key_size = Filled(a.min_key_size, Preset[p].min_key_size)
          /\ t.min_tls_version = IF a.file # <<>> THEN a.min_tls_version
                                 ELSE Filled(a.min_tls_version, Preset[p].min_tls_version)
      BY ProfileOptions DEF t
    <2>. QED BY <1>4, <2>1, <2>2 DEF Filled
  <1>6. t.fail_weak \in BOOLEAN /\ t.require_sct \in BOOLEAN /\ t.cab_forum \in BOOLEAN
    <2>1. {"fail_weak", "require_sct", "cab_forum"} \subseteq DOMAIN a
      BY <1>3
    <2>2. /\ t.fail_weak = (a.fail_weak \/ Preset[p].fail_weak)
          /\ t.require_sct = (a.require_sct \/ Preset[p].require_sct)
          /\ t.cab_forum = (a.cab_forum \/ (Preset[p].cab_forum /\ a.not_after_max = Unset))
      BY <2>1 DEF t, WithProfile
    <2>. QED BY <2>2, Zenon
  <1>7. ASSUME NEW n \in Names PROVE t[n] \in Value(n)
    <2>1. CASE n \in Limits
      BY <1>2, <1>5, <2>1
    <2>2. CASE n \in Checks
      BY <1>3, <1>6, <2>2
    <2>3. CASE n \notin Limits \cup Checks
      <3>1. t[n] = a[n] BY <1>1, <2>3
      <3>. QED BY <3>1
    <2>. QED BY <2>1, <2>2, <2>3
  <1>8. t.port = a.port /\ t.discover = a.discover
    BY <1>1, OptionNames, KindsOfOptions
  <1>. QED
    BY <1>1, <1>7, <1>8 DEF t

\* The domains to look up once all the layers have spoken.
DomainsFit == Entries(args.discover) \subseteq DOMAIN Under /\ Len(args.discover) \in {0, N}

DomainsInv ==
  /\ pc = "config" => args.discover = <<>>
  /\ pc = "parse" => /\ config # Unreadable
                     /\ args.discover = IF Given(config, "discover") THEN config.discover
                                        ELSE <<>>
  /\ pc \in {"profile", "validate"} \cup Validated => DomainsFit

LayersInv == OptionsTyped /\ DomainsInv

LEMMA LayersAreLayers ==
  ASSUME OptionsTyped
  PROVE  IsLayer(cli) /\ (config # Unreadable => IsLayer(config))
  BY OptionsAssumption DEF OptionsTyped

\* The domains of both layers together.
LEMMA DomainsOfLayers ==
  ASSUME NEW s \in Scenarios, s.config # Unreadable,
         NEW d, d = IF Given(s.config, "discover") THEN s.config.discover ELSE <<>>,
         NEW e, e = IF Given(s.cli, "discover") THEN d \o s.cli.discover ELSE d
  PROVE  Entries(e) \subseteq DOMAIN Under /\ Len(e) \in {0, N}
  <1>1. "discover" \in Names /\ Value("discover") = Seq(Elements)
    BY OptionNames, KindsOfOptions
  <1>2. IsLayer(s.config) /\ IsLayer(s.cli)
    BY OptionsAssumption
  <1>3. d \in Seq(Elements) /\ Entries(d) \subseteq DOMAIN Under
    <2>1. CASE Given(s.config, "discover")
      BY <1>1, <1>2, <2>1, StartupAssumption DEF IsLayer, Given
    <2>2. CASE ~Given(s.config, "discover")
      BY <2>2, EmptySeq DEF Entries
    <2>. QED BY <2>1, <2>2
  <1>4. Len(d) = IF s.config # Unreadable /\ Given(s.config, "discover")
                 THEN Len(s.config.discover) ELSE 0
    BY EmptySeq
  <1>5. (IF s.config # Unreadable /\ Given(s.config, "discover")
         THEN Len(s.config.discover) ELSE 0)
        + (IF Given(s.cli, "discover") THEN Len(s.cli.discover) ELSE 0) \in {0, N}
    BY StartupAssumption
  <1>6. Len(d) \in Nat
    BY <1>3, LenProperties
  <1>7. CASE Given(s.cli, "discover")
    <2>. DEFINE c == s.cli.discover
    <2>1. c \in Seq(Elements) /\ Entries(c) \subseteq DOMAIN Under
      BY <1>1, <1>2, <1>7, StartupAssumption DEF IsLayer, Given
    <2>2. Len(d) + Len(c) \in {0, N}
      BY <1>4, <1>5, <1>7
    <2>3. e = d \o c
      BY <1>7
    <2>. HIDE DEF c
    <2>4. Len(d \o c) = Len(d) + Len(c)
      BY <1>3, <2>1, Joined
    <2>5. Entries(d \o c) = Entries(d) \cup Entries(c)
      BY ONLY <1>3, <2>1, EntriesOfJoined
    <2>6. Len(e) \in {0, N}
      <3>1. Len(d \o c) \in {0, N}
        BY <2>2, <2>4
      <3>. QED BY <2>3, <3>1
    <2>7. Entries(e) \subseteq DOMAIN Under
      BY <1>3, <2>1, <2>3, <2>5
    <2>. QED BY <2>6, <2>7
  <1>8. CASE ~Given(s.cli, "discover")
    <2>1. Len(d) + 0 \in {0, N}
      BY <1>4, <1>5, <1>8
    <2>2. Len(d) \in {0, N}
      BY <1>6, <2>1
    <2>. QED BY <1>3, <1>8, <2>2
  <1>. QED
    BY <1>7, <1>8

LEMMA LayersAtFirst == Init => LayersInv
  <1>. SUFFICES ASSUME Init PROVE LayersInv
    OBVIOUS
  <1>1. pc = "config" /\ args = Default /\ \E s \in Scenarios : config = s.config /\ cli = s.cli
    BY DEF Init, OptionsInit
  <1>. QED BY <1>1, DefaultIsTyped DEF LayersInv, OptionsTyped, DomainsInv, Validated

LEMMA LoadConfigKeepsLayers ==
  ASSUME LayersInv, LoadConfig
  PROVE  LayersInv'
  <1>1. pc' \in {"parse", "usage error"} /\ UNCHANGED <<config, cli>> /\ pc = "config"
    BY DEF LoadConfig
  <1>2. CASE pc' = "usage error"
    <2>1. args' = args
      BY <1>2 DEF LoadConfig
    <2>. QED BY <1>1, <1>2, <2>1 DEF LayersInv, OptionsTyped, DomainsInv, Validated
  <1>3. CASE pc' = "parse"
    <2>1. config # Unreadable
          /\ args' = [n \in Names |-> IF Given(config, n) THEN config[n] ELSE args[n]]
      BY <1>3 DEF LoadConfig
    <2>2. IsLayer(config) /\ (\A n \in Names : args[n] \in Value(n)) /\ args.port # Unset
      BY <2>1, LayersAreLayers DEF LayersInv, OptionsTyped
    <2>3. /\ \A n \in Names : Given(config, n) => config[n] \in Value(n)
          /\ Given(config, "port") => config["port"] # Unset
      BY <2>2, LayerIsTyped
    <2>4. DOMAIN args' = Names /\ \A n \in Names : args'[n] \in Value(n)
      BY <2>1, <2>2, <2>3
    <2>5. args'.port # Unset
      BY <2>1, <2>2, <2>3, OptionNames, KindsOfOptions
    <2>6. args'.discover = IF Given(config, "discover") THEN config.discover ELSE <<>>
      BY <1>1, <2>1, OptionNames, KindsOfOptions DEF LayersInv, DomainsInv
    <2>7. OptionsTyped'
      BY <1>1, <2>4, <2>5 DEF LayersInv, OptionsTyped
    <2>. QED BY <1>1, <1>3, <2>1, <2>6, <2>7 DEF LayersInv, DomainsInv, Given, Validated
  <1>. QED
    BY <1>1, <1>2, <1>3

LEMMA ParseArgsKeepsLayers ==
  ASSUME LayersInv, ParseArgs
  PROVE  LayersInv'
  <1>1. /\ pc = "parse" /\ pc' \in {"completed", "profile"} /\ UNCHANGED <<config, cli>>
        /\ args' = [n \in Names |-> IF ~Given(cli, n) THEN args[n]
                                    ELSE IF n \in Lists THEN args[n] \o cli[n] ELSE cli[n]]
    BY DEF ParseArgs
  <1>2. IsLayer(cli) /\ (\A n \in Names : args[n] \in Value(n)) /\ args.port # Unset
    BY LayersAreLayers DEF LayersInv, OptionsTyped
  <1>3. /\ \A n \in Names : Given(cli, n) => cli[n] \in Value(n)
        /\ Given(cli, "port") => cli["port"] # Unset
        /\ \A n \in Lists : Given(cli, n) => args[n] \o cli[n] \in Value(n)
    BY <1>2, LayerIsTyped
  <1>4. DOMAIN args' = Names /\ \A n \in Names : args'[n] \in Value(n)
    BY <1>1, <1>2, <1>3
  <1>5. args'.port # Unset
    BY <1>1, <1>2, <1>3, OptionNames, KindsOfOptions
  <1>6. OptionsTyped'
    BY <1>1, <1>4, <1>5 DEF LayersInv, OptionsTyped
  <1>7. DomainsFit'
    <2>1. PICK s \in Scenarios : config = s.config /\ cli = s.cli
      BY DEF LayersInv, OptionsTyped
    <2>2. s.config # Unreadable
          /\ args.discover = IF Given(s.config, "discover") THEN s.config.discover ELSE <<>>
      BY <1>1, <2>1 DEF LayersInv, DomainsInv
    <2>3. args'.discover = IF Given(s.cli, "discover") THEN args.discover \o s.cli.discover
                           ELSE args.discover
      BY <1>1, <2>1, OptionNames, KindsOfOptions
    <2>. QED BY <2>2, <2>3, DomainsOfLayers DEF DomainsFit
  <1>. QED
    BY <1>1, <1>6, <1>7 DEF LayersInv, DomainsInv

LEMMA ApplyProfileKeepsLayers ==
  ASSUME LayersInv, ApplyProfile
  PROVE  LayersInv'
  <1>1. pc = "profile" /\ pc' \in {"validate", "crashed"} /\ UNCHANGED <<config, cli>>
    BY DEF ApplyProfile
  <1>2. args' = args \/ \E p \in Profile : args' = WithProfile(args, p)
    BY DEF ApplyProfile
  <1>3. /\ DOMAIN args = Names /\ (\A n \in Names : args[n] \in Value(n)) /\ args.port # Unset
        /\ DomainsFit
    BY <1>1 DEF LayersInv, OptionsTyped, DomainsInv
  <1>4. /\ DOMAIN args' = Names /\ (\A n \in Names : args'[n] \in Value(n)) /\ args'.port # Unset
        /\ args'.discover = args.discover
    BY <1>2, <1>3, ProfileIsTyped
  <1>5. OptionsTyped' /\ DomainsFit'
    BY <1>1, <1>3, <1>4 DEF LayersInv, OptionsTyped, DomainsFit
  <1>. QED
    BY <1>1, <1>5 DEF LayersInv, DomainsInv

LEMMA OthersKeepLayers ==
  ASSUME LayersInv, Validate \/ TargetStep \/ UNCHANGED vars
  PROVE  LayersInv'
  <1>1. UNCHANGED <<config, cli, args>>
    BY DEF Validate, TargetStep, StartInventory, ReadInput, LookUp, LookupRaised, ReportLookups,
           RunDiscoverOnly, CollectTargets, ChoosePort, optVars, vars
  <1>2. OptionsTyped' /\ DomainsFit' = DomainsFit
    BY <1>1 DEF LayersInv, OptionsTyped, DomainsFit
  <1>3. \/ pc' = pc
        \/ pc = "validate" /\ pc' \in {"accepted", "usage error"}
        \/ pc \in Validated /\ pc' \notin {"config", "parse"}
    BY DEF Validate, TargetStep, StartInventory, ReadInput, LookUp, LookupRaised, ReportLookups,
           RunDiscoverOnly, CollectTargets, ChoosePort, optVars, vars, ExitWith, Validated
  <1>4. DomainsInv'
    BY <1>1, <1>2, <1>3 DEF LayersInv, DomainsInv, Given, Validated
  <1>. QED
    BY <1>2, <1>4 DEF LayersInv

LEMMA StepKeepsLayers == LayersInv /\ [Next]_vars => LayersInv'
  <1>. SUFFICES ASSUME LayersInv, [Next]_vars PROVE LayersInv'
    OBVIOUS
  <1>1. CASE SetOptions
    BY <1>1, LoadConfigKeepsLayers, ParseArgsKeepsLayers, ApplyProfileKeepsLayers,
       OthersKeepLayers DEF SetOptions, OptionsStep
  <1>2. CASE TargetStep BY <1>2, OthersKeepLayers
  <1>3. CASE UNCHANGED vars BY <1>3, OthersKeepLayers
  <1>. QED BY <1>1, <1>2, <1>3 DEF Next, TargetStep

-----------------------------------------------------------------------------
(* The lookups                                                              *)

\* Every domain answered, and the answers are in the order of the domains.
AllFound == main = "returned" /\ \A i \in Item : Answered(i) /\ result[i] = answer[i]

LookupInv ==
  /\ PoolInv
  /\ pc = "inventory" => AllFound
  /\ pc \in {"collect", "targets", "inspect"} /\ args.discover # <<>> => AllFound
  /\ inventory # <<>> => pc = "exited" /\ AllFound
  /\ blamed \in 0..N
  /\ blamed # 0 => /\ pc = "exited" /\ exit = RUNTIME_ERROR
                   /\ ~Answered(blamed) /\ \A i \in 1..(blamed - 1) : Answered(i)

LEMMA LookupAtFirst == Init => LookupInv
  <1>. SUFFICES ASSUME Init PROVE LookupInv
    OBVIOUS
  <1>1. pc = "config" /\ inventory = <<>> /\ blamed = 0 /\ PoolInit
    BY DEF Init, OptionsInit
  <1>. QED BY <1>1, InitPoolInv, Bounds DEF LookupInv

\* When the pool is done each result is the answer of its item, and none was raised.
LEMMA ResultsAreAnswers ==
  ASSUME PoolInv, main = "returned"
  PROVE  \A i \in Item : result[i] = answer[i] /\ answer[i] # Raised
  <1>. SUFFICES ASSUME NEW i \in Item PROVE result[i] = answer[i] /\ answer[i] # Raised
    OBVIOUS
  <1>1. result \in Seq(AnyAnswer) /\ Len(result) = N
    BY DEF PoolInv, PoolTypeOK, JoinedIsComplete
  <1>2. i \in 1..Len(result)
    BY <1>1 DEF Item
  <1>3. result[i] = answer[i]
    BY <1>2 DEF PoolInv, ResultIsAnswers
  <1>4. result[i] \in AnyAnswer
    BY <1>1, <1>2, ElementOfSeq
  <1>5. Raised \notin AnyAnswer
    BY AnswersAssumption DEF AnyAnswer, Item
  <1>. QED BY <1>3, <1>4, <1>5

\* What leaves the pool alone leaves what is known of it.
LEMMA QuietPool ==
  ASSUME LookupInv, UNCHANGED poolVars
  PROVE  PoolInv' /\ AllFound' = AllFound /\ \A i : Answered(i)' = Answered(i)
  <1>1. [PoolStep]_poolVars
    OBVIOUS
  <1>2. PoolInv'
    BY <1>1, NextPoolInv DEF LookupInv
  <1>3. UNCHANGED <<main, answer, result>>
    BY DEF poolVars
  <1>. QED BY <1>2, <1>3 DEF AllFound, Answered

LEMMA ReportLookupsKeepsLookups ==
  ASSUME LookupInv, ReportLookups
  PROVE  LookupInv'
  <1>. DEFINE failed == {i \in Item : result[i] = NoAnswer}
  <1>1. /\ pc = "lookup" /\ main = "returned" /\ PoolInv /\ inventory = <<>> /\ blamed = 0
        /\ UNCHANGED <<poolVars, inventory, args>>
    BY DEF ReportLookups, LookupInv
  <1>2. PoolInv' /\ AllFound' = AllFound /\ \A i : Answered(i)' = Answered(i)
    BY <1>1, QuietPool
  <1>3. \A i \in Item : result[i] = answer[i] /\ answer[i] # Raised
    BY <1>1, ResultsAreAnswers
  <1>4. CASE failed = {}
    <2>1. UNCHANGED <<blamed, exit>> /\ pc' \in {"inventory", "collect"}
      BY <1>4 DEF ReportLookups
    <2>2. AllFound
      BY <1>1, <1>3, <1>4 DEF AllFound, Answered
    <2>. QED BY <1>1, <1>2, <2>1, <2>2, Bounds DEF LookupInv
  <1>5. CASE failed # {}
    <2>1. blamed' = (CHOOSE i \in failed : \A j \in failed : i <= j)
          /\ pc' = "exited" /\ exit' = RUNTIME_ERROR
      BY <1>5 DEF ReportLookups, ExitWith
    <2>2. \E i \in failed : \A j \in failed : i <= j
      <3>1. failed \subseteq Nat
        BY Bounds DEF Item
      <3>. HIDE DEF failed
      <3>. QED BY <1>5, <3>1, LeastNatural
    <2>3. PICK m \in failed : blamed' = m /\ \A j \in failed : m <= j
      <3>. HIDE DEF failed
      <3>. QED BY <2>1, <2>2
    <2>4. m \in 1..N /\ ~Answered(m)
      BY <1>3 DEF Item, Answered
    <2>5. ASSUME NEW i \in 1..(m - 1) PROVE Answered(i)
      <3>1. i \in Item /\ i < m
        BY <2>4, Bounds DEF Item
      <3>2. i \notin failed
        <4>. HIDE DEF failed
        <4>. QED BY <2>3, <2>4, <3>1
      <3>. QED BY <1>3, <3>1, <3>2 DEF Answered
    <2>6. ~Answered(blamed)' /\ \A i \in 1..(blamed' - 1) : Answered(i)'
      <3>1. answer' = answer
        BY <1>1 DEF poolVars
      <3>2. Answered(blamed)' = Answered(m)
        BY <2>3, <3>1 DEF Answered
      <3>. QED BY <1>2, <2>3, <2>4, <2>5, <3>2
    <2>7. blamed' \in 1..N
      BY <2>3, <2>4
    <2>. QED BY <1>1, <1>2, <2>1, <2>6, <2>7, Bounds DEF LookupInv
  <1>. QED
    BY <1>4, <1>5

LEMMA OthersKeepLookups ==
  ASSUME LookupInv, UNCHANGED poolVars,
         UNCHANGED args \/ pc' \in {"parse", "profile", "validate", "completed"},
         UNCHANGED <<inventory, blamed, exit, pc>>
           \/ (/\ pc # "exited" /\ UNCHANGED <<inventory, blamed>>
               /\ pc' \notin {"inventory", "collect", "targets", "inspect"})
           \/ (/\ pc = "accepted" /\ UNCHANGED <<inventory, blamed, args>>
               /\ pc' = "collect" /\ args.discover = <<>>)
           \/ (/\ pc \in {"collect", "targets"} /\ UNCHANGED <<inventory, blamed, args>>
               /\ pc' \in {"targets", "inspect", "usage error", "crashed"})
           \/ (pc = "inventory" /\ pc' = "exited" /\ UNCHANGED blamed)
  PROVE  LookupInv'
  <1>1. PoolInv' /\ AllFound' = AllFound /\ \A i : Answered(i)' = Answered(i)
    BY QuietPool
  <1>2. UNCHANGED blamed /\ Answered(blamed)' = Answered(blamed)
    BY DEF Answered, poolVars
  <1>3. blamed # 0 => pc = "exited"
    BY DEF LookupInv
  <1>. QED BY <1>1, <1>2, <1>3 DEF LookupInv

LEMMA StepKeepsLookups == LookupInv /\ [Next]_vars => LookupInv'
  <1>. SUFFICES ASSUME LookupInv, [Next]_vars PROVE LookupInv'
    OBVIOUS
  <1>1. CASE UNCHANGED vars
    BY <1>1, OthersKeepLookups DEF vars, optVars, startVars
  <1>2. CASE SetOptions
    BY <1>2, OthersKeepLookups DEF SetOptions, OptionsStep, LoadConfig, ParseArgs, ApplyProfile,
       Validate, startVars
  <1>3. CASE StartInventory \/ LookupRaised
    BY <1>3, OthersKeepLookups DEF StartInventory, LookupRaised, startVars
  <1>4. CASE ReadInput
    BY <1>4, OthersKeepLookups DEF ReadInput, ExitWith
  <1>5. CASE LookUp
    <2>1. pc = "lookup" /\ UNCHANGED <<pc, args, inventory, blamed, exit>> /\ [PoolStep]_poolVars
      BY <1>5 DEF LookUp, optVars, startVars
    <2>2. PoolInv' /\ blamed = 0 /\ inventory = <<>>
      BY <2>1, NextPoolInv DEF LookupInv
    <2>. QED BY <2>1, <2>2, Bounds DEF LookupInv
  <1>6. CASE ReportLookups
    BY <1>6, ReportLookupsKeepsLookups
  <1>7. CASE RunDiscoverOnly
    BY <1>7, OthersKeepLookups DEF RunDiscoverOnly, ExitWith
  <1>8. CASE CollectTargets
    BY <1>8, OthersKeepLookups DEF CollectTargets
  <1>9. CASE ChoosePort
    BY <1>9, OthersKeepLookups DEF ChoosePort
  <1>. QED BY <1>1, <1>2, <1>3, <1>4, <1>5, <1>6, <1>7, <1>8, <1>9 DEF Next

-----------------------------------------------------------------------------
(* The targets                                                              *)

NameSet == Entries(SortedNames)

\* What the answers of the lookups give to inspect.
Found ==
  UNION {{NameOf[id] : id \in UNION {r.identities : r \in Entries(answer[i])}}
           \cap (Under[args.discover[i]] \ Wildcards) : i \in Item}

TargetsInv ==
  /\ extra \in Seq(Elements) /\ files \in Seq(Elements)
  /\ hosts \in Seq(Elements \cup NameSet)
  /\ defaultPort \in Int \cup {Unset} /\ (pc = "inspect" => defaultPort # Unset)
  /\ pc \in Gathered /\ args.discover # <<>> =>
       Entries(hosts) = Entries(args.target) \cup Entries(extra) \cup Found
  /\ exit \in {-1, ExitCode.OK, RUNTIME_ERROR, USAGE_ERROR, ExitCode.POLICY}
  /\ pc \in {"config", "parse", "profile", "validate", "accepted", "lookup", "inventory",
             "collect", "targets"} \/ Ended

\* A list is a list of its entries.
LEMMA SeqOfEntries ==
  ASSUME NEW A, NEW s \in Seq(A), NEW B, Entries(s) \subseteq B
  PROVE  s \in Seq(B)
  <1>1. s \in [1..Len(s) -> A] /\ Len(s) \in Nat
    BY LenProperties
  <1>2. \A i \in 1..Len(s) : s[i] \in B
    BY <1>1 DEF Entries
  <1>3. s \in [1..Len(s) -> B]
    BY <1>1, <1>2
  <1>. QED BY <1>1, <1>3, SeqDef

\* discover_hostnames: the sorted names of the answer under the domain.
LEMMA HostnamesOf ==
  ASSUME NEW records, NEW d \in DOMAIN Under
  PROVE  /\ discover_hostnames(records, d) \in Seq(NameSet)
         /\ Entries(discover_hostnames(records, d))
              = {NameOf[id] : id \in UNION {r.identities : r \in Entries(records)}}
                  \cap (Under[d] \ Wildcards)
  <1>. DEFINE names == ExtractNames(records, d, FALSE)
              found == {NameOf[id] : id \in UNION {r.identities : r \in Entries(records)}}
  <1>1. SortedNames \in Seq(NameSet) /\ Under[d] \subseteq NameSet
    BY DiscoveryAssumption DEF NameSet
  <1>2. names = found \cap (Under[d] \ Wildcards)
    BY DEF ExtractNames
  <1>3. discover_hostnames(records, d) = Select(SortedNames, names)
    BY DEF discover_hostnames, Sorted
  <1>. HIDE DEF names, found
  <1>4. /\ Select(SortedNames, names) \in Seq(NameSet)
        /\ Entries(Select(SortedNames, names)) = NameSet \cap names
    BY <1>1, SelectProperties DEF NameSet
  <1>. QED BY <1>1, <1>2, <1>3, <1>4 DEF found

LEMMA DiscoveredIsFound ==
  ASSUME AllFound, DomainsFit, args.discover \in Seq(Elements), args.discover # <<>>
  PROVE  DiscoveredTargets \in Seq(NameSet) /\ Entries(DiscoveredTargets) = Found
  <1>. DEFINE ss == [i \in Item |-> discover_hostnames(result[i], args.discover[i])]
              names(i) == {NameOf[id] : id \in UNION {r.identities : r \in Entries(answer[i])}}
                            \cap (Under[args.discover[i]] \ Wildcards)
  <1>1. Len(args.discover) = N /\ DOMAIN args.discover = Item
    BY EmptySeq, LenProperties DEF DomainsFit, Item
  <1>2. ASSUME NEW i \in Item PROVE args.discover[i] \in DOMAIN Under
    BY <1>1 DEF DomainsFit, Entries
  <1>3. ASSUME NEW i \in Item
        PROVE  ss[i] \in Seq(NameSet) /\ Entries(ss[i]) = names(i)
    <2>1. ss[i] = discover_hostnames(answer[i], args.discover[i])
      BY DEF AllFound
    <2>. HIDE DEF ss
    <2>. QED BY <1>2, <2>1, HostnamesOf
  <1>4. DiscoveredTargets = Seqs!FlattenSeq(ss)
    BY DEF DiscoveredTargets
  <1>5. ss = [i \in 1..N |-> ss[i]] /\ N \in Nat /\ N > 0
    BY Bounds DEF Item
  <1>6. Found = UNION {names(i) : i \in Item}
    BY DEF Found
  <1>. HIDE DEF ss, names
  <1>7. ss \in Seq(Seq(NameSet)) /\ Len(ss) = N /\ ss # <<>>
    <2>1. ss \in [1..N -> Seq(NameSet)]
      BY <1>3, <1>5 DEF Item
    <2>2. ss \in Seq(Seq(NameSet)) /\ DOMAIN ss = 1..N
      BY <1>5, <2>1, SeqDef
    <2>3. Len(ss) = N
      BY <1>5, <2>2, LenProperties
    <2>4. ASSUME ss = <<>> PROVE FALSE
      <3>1. DOMAIN ss = 1..N
        BY <2>2
      <3>2. DOMAIN ss = {}
        BY <2>4, EmptySeq
      <3>. QED BY ONLY <1>5, <3>1, <3>2
    <2>. QED BY <2>2, <2>3, <2>4
  <1>8. Seqs!FlattenSeq(ss) \in Seq(NameSet)
    BY <1>7, FlattenBlocks
  <1>9. Entries(Seqs!FlattenSeq(ss)) = UNION {Entries(ss[i]) : i \in 1..N}
    BY <1>7, EntriesOfFlatten
  <1>. QED BY <1>3, <1>4, <1>6, <1>8, <1>9 DEF Item

LEMMA TargetsAtFirst == Init => TargetsInv
  BY EmptySeq DEF Init, OptionsInit, TargetsInv, Gathered

LEMMA ReadInputKeepsTargets ==
  ASSUME TargetsInv, ReadInput
  PROVE  TargetsInv'
  <1>1. PICK content \in IF args.input = Unset THEN {<<>>} ELSE InputContents :
       \/ content = Missing /\ ExitWith(RUNTIME_ERROR) /\ UNCHANGED extra
       \/ content = Undecodable /\ pc' = "crashed" /\ UNCHANGED <<extra, exit>>
       \/ /\ content \notin {Missing, Undecodable}
          /\ extra' = Select(content, Entries(content) \ Ignored)
          /\ pc' \in {"collect", "lookup"}
          /\ UNCHANGED exit
    BY DEF ReadInput
  <1>2. /\ pc = "accepted" /\ pc' \in {"exited", "crashed", "collect", "lookup"}
        /\ UNCHANGED <<hosts, files, defaultPort>>
        /\ exit' \in {exit, RUNTIME_ERROR}
    BY <1>1 DEF ReadInput, ExitWith
  <1>3. extra' \in Seq(Elements)
    <2>1. CASE extra' = extra
      BY <2>1 DEF TargetsInv
    <2>2. CASE content \notin {Missing, Undecodable}
               /\ extra' = Select(content, Entries(content) \ Ignored)
      <3>1. content \in Seq(Elements \cup Ignored)
        BY <2>2, StartupAssumption, EmptySeq
      <3>2. /\ extra' \in Seq(Elements \cup Ignored)
            /\ Entries(extra') = Entries(content) \cap (Entries(content) \ Ignored)
        BY <2>2, <3>1, SelectProperties
      <3>3. Entries(content) \subseteq Elements \cup Ignored
        BY <3>1, LenProperties, ElementOfSeq DEF Entries
      <3>. QED BY <3>2, <3>3, SeqOfEntries
    <2>. QED BY <1>1, <2>1, <2>2
  <1>. QED BY <1>2, <1>3 DEF TargetsInv, Gathered, Ended

LEMMA CollectTargetsKeepsTargets ==
  ASSUME TargetsInv, LookupInv, LayersInv, CollectTargets
  PROVE  TargetsInv'
  <1>. DEFINE h == args.target \o extra \o DiscoveredTargets
  <1>1. /\ pc = "collect" /\ UNCHANGED <<args, extra, defaultPort, answer>>
        /\ \/ hosts' = h /\ files' = args.file /\ pc' = "targets" /\ UNCHANGED exit
           \/ pc' = "usage error" /\ exit' = USAGE_ERROR /\ UNCHANGED <<hosts, files>>
    BY DEF CollectTargets, poolVars
  <1>2. args.target \in Seq(Elements) /\ args.file \in Seq(Elements)
        /\ args.discover \in Seq(Elements)
    BY OptionNames, KindsOfOptions DEF LayersInv, OptionsTyped
  <1>3. DomainsFit /\ (args.discover # <<>> => AllFound)
    BY <1>1 DEF LayersInv, DomainsInv, LookupInv, Validated
  <1>4. DiscoveredTargets \in Seq(NameSet)
        /\ (args.discover # <<>> => Entries(DiscoveredTargets) = Found)
    <2>1. CASE args.discover = <<>>
      BY <2>1, EmptySeq DEF DiscoveredTargets
    <2>2. CASE args.discover # <<>>
      BY <1>2, <1>3, <2>2, DiscoveredIsFound
    <2>. QED BY <2>1, <2>2
  <1>5. /\ h \in Seq(Elements \cup NameSet)
        /\ Entries(h) = Entries(args.target) \cup Entries(extra) \cup Entries(DiscoveredTargets)
    <2>1. extra \in Seq(Elements)
      BY DEF TargetsInv
    <2>2. args.target \o extra \in Seq(Elements)
          /\ Entries(args.target \o extra) = Entries(args.target) \cup Entries(extra)
      BY <1>2, <2>1, Joined, EntriesOfJoined
    <2>3. args.target \o extra \in Seq(Elements \cup NameSet)
          /\ DiscoveredTargets \in Seq(Elements \cup NameSet)
      BY <1>4, <2>2, SeqMonotonic
    <2>4. h \in Seq(Elements \cup NameSet)
      BY <2>3, Joined
    <2>5. Entries(h) = Entries(args.target \o extra) \cup Entries(DiscoveredTargets)
      <3>. DEFINE s == args.target \o extra
                  t == DiscoveredTargets
      <3>1. s \in Seq(Elements \cup NameSet) /\ t \in Seq(Elements \cup NameSet) /\ h = s \o t
        BY ONLY <2>3 DEF h
      <3>. HIDE DEF h, s, t
      <3>2. Entries(h) = Entries(s) \cup Entries(t)
        BY ONLY <3>1, EntriesOfJoined
      <3>. QED BY ONLY <3>2 DEF s, t
    <2>. QED BY <2>2, <2>4, <2>5
  <1>6. Found' = Found
    BY <1>1 DEF Found
  <1>. HIDE DEF h
  <1>7. CASE hosts' = h /\ files' = args.file /\ pc' = "targets" /\ UNCHANGED exit
    BY <1>1, <1>2, <1>4, <1>5, <1>6, <1>7 DEF TargetsInv, Gathered
  <1>8. CASE pc' = "usage error" /\ exit' = USAGE_ERROR /\ UNCHANGED <<hosts, files>>
    BY <1>1, <1>8 DEF TargetsInv, Gathered, Ended
  <1>. QED BY <1>1, <1>7, <1>8

LEMMA ChoosePortKeepsTargets ==
  ASSUME TargetsInv, LayersInv, ChoosePort
  PROVE  TargetsInv'
  <1>1. /\ pc = "targets" /\ pc' \in {"inspect", "crashed"}
        /\ UNCHANGED <<args, extra, hosts, files, exit, answer>>
    BY DEF ChoosePort, poolVars
  <1>2. args.port \in Int
    BY OptionNames, KindsOfOptions DEF LayersInv, OptionsTyped
  <1>3. \/ pc' = "crashed" /\ defaultPort' = defaultPort
        \/ defaultPort' = args.port
        \/ args.starttls \in DOMAIN STARTTLS_PORTS /\ defaultPort' = STARTTLS_PORTS[args.starttls]
    BY DEF ChoosePort
  <1>4. \A p \in DOMAIN STARTTLS_PORTS : STARTTLS_PORTS[p] \in Int
    BY DEF STARTTLS_PORTS
  <1>5. defaultPort' \in Int \cup {Unset} /\ (pc' = "inspect" => defaultPort' # Unset)
    BY <1>1, <1>2, <1>3, <1>4, OptionsAssumption DEF TargetsInv
  <1>6. Found' = Found
    BY <1>1 DEF Found
  <1>. QED BY <1>1, <1>5, <1>6 DEF TargetsInv, Gathered, Ended

LEMMA StepKeepsTargets == TargetsInv /\ LookupInv /\ LayersInv /\ [Next]_vars => TargetsInv'
  <1>. SUFFICES ASSUME TargetsInv, LookupInv, LayersInv, [Next]_vars PROVE TargetsInv'
    OBVIOUS
  <1>1. CASE UNCHANGED vars
    <2>1. UNCHANGED <<pc, args, answer, extra, hosts, files, defaultPort, exit>>
      BY <1>1 DEF vars, optVars, startVars, poolVars
    <2>. QED BY <2>1 DEF TargetsInv, Found, Ended
  <1>2. CASE SetOptions \/ StartInventory \/ LookUp \/ LookupRaised
    <2>1. /\ UNCHANGED <<extra, hosts, files, defaultPort, exit>>
          /\ pc' \in {"parse", "profile", "validate", "completed", "usage error", "crashed",
                      "accepted", "lookup"}
      BY <1>2 DEF SetOptions, OptionsStep, LoadConfig, ParseArgs, ApplyProfile, Validate,
         StartInventory, LookUp, LookupRaised, startVars, optVars
    <2>. QED BY <2>1 DEF TargetsInv, Gathered, Ended
  <1>3. CASE ReadInput
    BY <1>3, ReadInputKeepsTargets
  <1>4. CASE ReportLookups \/ RunDiscoverOnly
    <2>1. /\ UNCHANGED <<extra, hosts, files, defaultPort>>
          /\ pc' \in {"inventory", "collect", "exited"}
          /\ exit' \in {exit, RUNTIME_ERROR, ExitCode.OK, ExitCode.POLICY}
      BY <1>4 DEF ReportLookups, RunDiscoverOnly, ExitWith
    <2>. QED BY <2>1 DEF TargetsInv, Gathered, Ended
  <1>5. CASE CollectTargets
    BY <1>5, CollectTargetsKeepsTargets
  <1>6. CASE ChoosePort
    BY <1>6, ChoosePortKeepsTargets
  <1>. QED BY <1>1, <1>2, <1>3, <1>4, <1>5, <1>6 DEF Next

LEMMA StartAlways == Spec => [](LayersInv /\ LookupInv /\ TargetsInv)
  <1>1. Init => LayersInv /\ LookupInv /\ TargetsInv
    BY LayersAtFirst, LookupAtFirst, TargetsAtFirst
  <1>2. LayersInv /\ LookupInv /\ TargetsInv /\ [Next]_vars
          => (LayersInv /\ LookupInv /\ TargetsInv)'
    BY StepKeepsLayers, StepKeepsLookups, StepKeepsTargets
  <1>. QED BY <1>1, <1>2, PTL DEF Spec

\* Options, targets, pool and exit code keep their types, for every config file,
\* command line, --input and answer (main before the inspections).
THEOREM StartIsTyped == Spec => []TypeOK
  <1>1. LayersInv /\ LookupInv /\ TargetsInv => TypeOK
    <2>. SUFFICES ASSUME LayersInv, LookupInv, TargetsInv PROVE TypeOK
      OBVIOUS
    <2>1. IsLayer(cli) /\ (config # Unreadable => IsLayer(config))
      BY LayersAreLayers DEF LayersInv
    <2>2. DOMAIN args = Names /\ \A n \in Names : args[n] \in Value(n)
      BY DEF LayersInv, OptionsTyped
    <2>3. PoolTypeOK /\ blamed \in 0..N /\ (blamed # 0 => exit = RUNTIME_ERROR)
      BY DEF LookupInv, PoolInv
    <2>4. /\ extra \in Seq(Elements) /\ files \in Seq(Elements)
          /\ hosts \in Seq(Elements \cup Entries(SortedNames))
          /\ defaultPort \in Int \cup {Unset} /\ (pc = "inspect" => defaultPort # Unset)
          /\ exit \in {-1, ExitCode.OK, RUNTIME_ERROR, USAGE_ERROR, ExitCode.POLICY}
          /\ pc \in {"config", "parse", "profile", "validate", "accepted", "lookup", "inventory",
                     "collect", "targets"} \/ Ended
      BY DEF TargetsInv, NameSet
    <2>. QED BY <2>1, <2>2, <2>3, <2>4 DEF TypeOK
  <1>. QED BY <1>1, StartAlways, PTL

\* The first failed domain aborts the run, and a run that goes on has the names of
\* all the domains and no others for targets (_discover, _collect_targets).
THEOREM DiscoveryAborts == Spec => []DiscoveryIsAllOrNothing
  <1>1. LayersInv /\ LookupInv /\ TargetsInv => DiscoveryIsAllOrNothing
    <2>. SUFFICES ASSUME LayersInv, LookupInv, TargetsInv PROVE DiscoveryIsAllOrNothing
      OBVIOUS
    <2>1. blamed # 0 => ~Answered(blamed) /\ \A i \in 1..(blamed - 1) : Answered(i)
      BY DEF LookupInv
    <2>2. inventory # <<>> => \A i \in Item : Answered(i)
      BY DEF LookupInv, AllFound
    <2>3. pc = "inspect" /\ args.discover # <<>> =>
            /\ \A i \in Item : Answered(i)
            /\ Entries(hosts) = Entries(args.target) \cup Entries(extra) \cup Found
      BY DEF LookupInv, AllFound, TargetsInv, Gathered
    <2>. QED BY <2>1, <2>2, <2>3 DEF DiscoveryIsAllOrNothing, Found
  <1>. QED BY <1>1, StartAlways, PTL

-----------------------------------------------------------------------------
(* The inventory of one domain                                              *)

NamesUnder(r, d) == {NameOf[id] : id \in r.identities} \cap Under[d]

\* The records that have a name under the domain, and those of one certificate.
LoggedIn(records, d) == {r \in Entries(records) : NamesUnder(r, d) # {}}

SameIn(d, r, s) ==
  IF r.serial = NoSerial \/ s.serial = NoSerial
  THEN r.serial = s.serial /\ NamesUnder(r, d) = NamesUnder(s, d)
  ELSE r.issuer = s.issuer /\ r.serial = s.serial

LEMMA NamesOfOne ==
  ASSUME NEW r, NEW d
  PROVE  ExtractNames(<<r>>, d, TRUE) = NamesUnder(r, d)
  <1>1. Entries(<<r>>) = {r}
    BY DEF Entries
  <1>2. UNION {x.identities : x \in Entries(<<r>>)} = r.identities
    BY <1>1
  <1>. QED BY <1>2 DEF ExtractNames, NamesUnder

\* An entry of the inventory shows the names, the issuer and the expiry of its record.
LEMMA EntryOfRecord ==
  ASSUME NEW s, NEW d \in DOMAIN Under
  PROVE  /\ Cert(s, d).issuer = s.issuer /\ Cert(s, d).not_after = s.not_after
         /\ Entries(Cert(s, d).hostnames) = NamesUnder(s, d)
  <1>. DEFINE names == NamesUnder(s, d)
  <1>1. SortedNames \in Seq(NameSet) /\ names \subseteq NameSet
    BY DiscoveryAssumption DEF NameSet, NamesUnder
  <1>2. Cert(s, d) = [hostnames |-> Select(SortedNames, names),
                      issuer |-> s.issuer, not_after |-> s.not_after]
    BY NamesOfOne DEF Cert, Sorted
  <1>. HIDE DEF names
  <1>3. Entries(Select(SortedNames, names)) = NameSet \cap names
    BY <1>1, SelectProperties DEF NameSet
  <1>4. NameSet \cap names = names
    BY <1>1
  <1>5. /\ Cert(s, d).hostnames = Select(SortedNames, names)
        /\ Cert(s, d).issuer = s.issuer /\ Cert(s, d).not_after = s.not_after
    BY ONLY <1>2
  <1>. QED BY <1>3, <1>4, <1>5 DEF names

\* The records of one certificate are those with one key.
LEMMA KeyOfCertificate ==
  ASSUME NEW r, NEW s, NEW d
  PROVE  CertKey(r, d) = CertKey(s, d) <=> SameIn(d, r, s)
  <1>. DEFINE names(x) == NamesUnder(x, d)
              key(x) == CertKey(x, d)
  <1>1. ASSUME NEW x, x.serial = NoSerial PROVE key(x) = <<"names", names(x)>>
    BY <1>1, NamesOfOne DEF CertKey
  <1>2. ASSUME NEW x, x.serial # NoSerial PROVE key(x) = <<"serial", x.issuer, x.serial>>
    BY <1>2 DEF CertKey
  <1>3. SameIn(d, r, s) <=> IF r.serial = NoSerial \/ s.serial = NoSerial
                            THEN r.serial = s.serial /\ names(r) = names(s)
                            ELSE r.issuer = s.issuer /\ r.serial = s.serial
    BY DEF SameIn
  <1>. HIDE DEF names, key
  <1>4. CASE r.serial = NoSerial /\ s.serial = NoSerial
    <2>1. key(r) = <<"names", names(r)>> /\ key(s) = <<"names", names(s)>>
      BY <1>1, <1>4
    <2>2. key(r) = key(s) <=> names(r) = names(s)
      BY ONLY <2>1
    <2>. QED BY <1>3, <1>4, <2>2 DEF key
  <1>5. CASE r.serial # NoSerial /\ s.serial # NoSerial
    <2>1. key(r) = <<"serial", r.issuer, r.serial>> /\ key(s) = <<"serial", s.issuer, s.serial>>
      BY <1>2, <1>5
    <2>2. key(r) = key(s) <=> r.issuer = s.issuer /\ r.serial = s.serial
      BY ONLY <2>1
    <2>. QED BY <1>3, <1>5, <2>2 DEF key
  <1>6. ASSUME NEW x, NEW y, x.serial = NoSerial, y.serial # NoSerial PROVE key(x) # key(y)
    <2>1. key(x)[1] = "names"
      BY <1>1, <1>6
    <2>2. key(y)[1] = "serial"
      BY <1>2, <1>6
    <2>. QED BY <2>1, <2>2
  <1>7. CASE ~(r.serial = NoSerial <=> s.serial = NoSerial)
    <2>1. key(r) # key(s)
      BY <1>6, <1>7
    <2>2. ~SameIn(d, r, s)
      BY <1>3, <1>7
    <2>. QED BY <2>1, <2>2 DEF key
  <1>. QED BY <1>4, <1>5, <1>7

\* Every class of records with one key has a slot, filled by a record of the class.
LEMMA SlotOfRecord ==
  ASSUME NEW records, records \in Seq(Entries(records)), NEW d
  PROVE  /\ Logged(records, d) \subseteq 1..Len(records)
         /\ {records[i] : i \in Logged(records, d)} = LoggedIn(records, d)
         /\ \A f \in Slots(records, d) :
              \E l \in SameKey(records, d, f) : Content(records, d, f) = records[l]
         /\ \A i \in Logged(records, d) :
              \E f \in Slots(records, d) : SameKey(records, d, f) = SameKey(records, d, i)
  <1>. DEFINE L == Logged(records, d)
              same(i) == SameKey(records, d, i)
              key(i) == CertKey(records[i], d)
  <1>1. DOMAIN records = 1..Len(records) /\ Len(records) \in Nat
    BY LenProperties
  <1>2. L = {i \in 1..Len(records) : NamesUnder(records[i], d) # {}}
    BY <1>1, NamesOfOne DEF Logged
  <1>3. {records[i] : i \in L} = LoggedIn(records, d)
    BY <1>1, <1>2 DEF LoggedIn, Entries
  <1>4. \A i : same(i) = {j \in L : key(j) = key(i)}
    BY DEF SameKey
  <1>. DEFINE n == Len(records)
  <1>0. n \in Nat /\ L \subseteq 1..n /\ L \subseteq 0..n /\ L \subseteq Nat
    BY <1>1, <1>2
  <1>5. ASSUME NEW f \in Slots(records, d)
        PROVE  \E l \in same(f) : Content(records, d, f) = records[l]
    <2>1. f \in L
      BY DEF Slots
    <2>. DEFINE l0 == CHOOSE l \in same(f) : \A j \in same(f) : j <= l
    <2>2. Content(records, d, f) = records[l0]
      BY DEF Content
    <2>. HIDE DEF L, same, key, n
    <2>3. same(f) # {} /\ same(f) \subseteq 0..n
      BY ONLY <1>0, <1>4, <2>1
    <2>4. \E l \in same(f) : \A j \in same(f) : j <= l
      BY ONLY <1>0, <2>3, GreatestNatural
    <2>5. l0 \in same(f)
      BY <2>4
    <2>. QED BY <2>2, <2>5
  <1>6. ASSUME NEW i \in L
        PROVE  \E f \in Slots(records, d) : same(f) = same(i)
    <2>1. Slots(records, d) = {f \in L : \A j \in same(f) : f <= j}
      BY DEF Slots
    <2>. HIDE DEF L, same, key, n
    <2>2. same(i) # {} /\ same(i) \subseteq L /\ same(i) \subseteq Nat
      BY ONLY <1>0, <1>4, <1>6
    <2>3. PICK f \in same(i) : \A j \in same(i) : f <= j
      BY <2>2, LeastNatural
    <2>4. same(f) = same(i) /\ f \in L
      BY <1>4, <2>2
    <2>. QED BY <2>1, <2>3, <2>4
  <1>. QED BY <1>2, <1>3, <1>5, <1>6

\* What the list of a domain's certificates is made of: a record of each, in order.
ListsCertificates(shown, c, records, d) ==
  /\ c \in Nat /\ shown \in [1..c -> LoggedIn(records, d)]
  /\ \A m, n \in 1..c : m # n => ~SameIn(d, shown[m], shown[n])
  /\ \A r \in LoggedIn(records, d) : \E n \in 1..c : SameIn(d, shown[n], r)
  /\ \A n \in 1..c : shown[n].not_after \in Nat
  /\ \A m, n \in 1..c : m < n => shown[m].not_after <= shown[n].not_after

Inventories(certs, shown, c, records, d) ==
  /\ ListsCertificates(shown, c, records, d)
  /\ certs = [n \in 1..c |-> Cert(shown[n], d)]

\* The inventory of a domain: an entry per certificate, soonest expiry first.
LEMMA InventoryOfDomain ==
  ASSUME NEW records, records \in Seq(Entries(records)), \A r \in Entries(records) : IsRecord(r),
         NEW d
  PROVE  \E c, shown : Inventories(discover_certificates(records, d), shown, c, records, d)
  <1>. DEFINE slots == Slots(records, d)
              logged == LoggedIn(records, d)
              content(i) == Content(records, d, i)
              same(x, y) == SameIn(d, x, y)
              key == [i \in slots |-> content(i).not_after]
              order == StableOrder(slots, key)
              c == Cardinality(slots)
              certs == discover_certificates(records, d)
              cert(s) == Cert(s, d)
  <1>1. slots \subseteq Nat /\ IsFiniteSet(slots)
    <2>1. slots \subseteq 1..Len(records) /\ Len(records) \in Nat
      BY SlotOfRecord, LenProperties DEF Slots
    <2>. HIDE DEF slots
    <2>2. IsFiniteSet(1..Len(records))
      BY <2>1, FS_Interval
    <2>3. slots \in SUBSET (1..Len(records)) /\ slots \subseteq Nat
      BY <2>1
    <2>. QED BY ONLY <2>2, <2>3, FS_Subset
  <1>2. ASSUME NEW i \in slots
        PROVE  content(i) \in logged /\ content(i).not_after \in Nat
    <2>1. PICK l \in SameKey(records, d, i) : content(i) = records[l]
      BY SlotOfRecord
    <2>2. l \in Logged(records, d)
      BY DEF SameKey
    <2>3. content(i) \in LoggedIn(records, d)
      BY <2>1, <2>2, SlotOfRecord
    <2>4. content(i) \in Entries(records)
      BY <2>3 DEF LoggedIn
    <2>. QED BY <2>3, <2>4 DEF IsRecord
  <1>3. key \in [slots -> Nat]
    BY <1>2
  <1>4. certs = [n \in DOMAIN order |-> cert(content(order[n]))]
    BY DEF discover_certificates
  <1>5. \A i \in slots : key[i] = content(i).not_after
    OBVIOUS
  <1>6. ASSUME NEW i \in slots
        PROVE  i \in Logged(records, d) /\ CertKey(content(i), d) = CertKey(records[i], d)
    <2>1. PICK l \in SameKey(records, d, i) : content(i) = records[l]
      BY SlotOfRecord
    <2>. QED BY <2>1 DEF SameKey, Slots
  <1>7. ASSUME NEW r \in logged
        PROVE  \E f \in slots : same(content(f), r)
    <2>1. PICK i \in Logged(records, d) : r = records[i]
      BY SlotOfRecord
    <2>2. PICK f \in slots : SameKey(records, d, f) = SameKey(records, d, i)
      BY SlotOfRecord
    <2>3. PICK l \in SameKey(records, d, f) : content(f) = records[l]
      BY SlotOfRecord
    <2>4. CertKey(records[l], d) = CertKey(records[i], d)
      BY <2>2, <2>3 DEF SameKey
    <2>5. CertKey(content(f), d) = CertKey(r, d)
      BY <2>1, <2>3, <2>4
    <2>6. same(content(f), r)
      BY <2>5, KeyOfCertificate
    <2>. HIDE DEF same, content, slots
    <2>. QED BY <2>6
  <1>8. ASSUME NEW f \in slots, NEW g \in slots, same(content(f), content(g))
        PROVE  f = g
    <2>1. CertKey(records[f], d) = CertKey(records[g], d)
      BY <1>6, <1>8, KeyOfCertificate
    <2>2. f \in SameKey(records, d, g) /\ g \in SameKey(records, d, f)
      BY <1>6, <2>1 DEF SameKey
    <2>3. f <= g /\ g <= f
      BY <2>2 DEF Slots
    <2>4. f \in Nat /\ g \in Nat
      BY <1>1
    <2>. QED BY ONLY <2>3, <2>4
  <1>. HIDE DEF slots, content, key, logged, certs, cert, same
  <1>9. /\ c \in Nat /\ order \in [1..c -> slots]
        /\ \A i \in slots : \E n \in 1..c : order[n] = i
        /\ \A m, n \in 1..c : m < n => key[order[m]] <= key[order[n]] /\ order[m] # order[n]
    <2>1. ListsByKey(order, c, slots, key)
      BY ONLY <1>1, <1>3, StableOrderSorts DEF order, c
    <2>. HIDE DEF order, c
    <2>. QED BY ONLY <2>1 DEF ListsByKey
  <1>. HIDE DEF order, c
  <1>. DEFINE shown == [n \in 1..c |-> content(order[n])]
  <1>10. \A n \in 1..c : shown[n] = content(order[n]) /\ order[n] \in slots
    BY <1>9
  <1>11. certs = [n \in 1..c |-> cert(shown[n])]
    BY <1>4, <1>9, <1>10
  <1>12. shown \in [1..c -> logged]
    BY <1>2, <1>9
  <1>. HIDE DEF shown
  <1>13. \A n \in 1..c : shown[n].not_after \in Nat
    BY <1>2, <1>10
  <1>14. ASSUME NEW m \in 1..c, NEW n \in 1..c, m # n
         PROVE  ~same(shown[m], shown[n])
    <2>1. m < n \/ n < m
      BY <1>9, <1>14
    <2>2. order[m] # order[n]
      BY <1>9, <2>1
    <2>. QED BY <1>8, <1>10, <2>2
  <1>15. ASSUME NEW r \in logged
         PROVE  \E n \in 1..c : same(shown[n], r)
    <2>1. PICK f \in slots : same(content(f), r)
      BY <1>7
    <2>2. PICK n \in 1..c : order[n] = f
      BY <1>9
    <2>. QED BY <1>10, <2>1, <2>2
  <1>16. \A m, n \in 1..c : m < n => shown[m].not_after <= shown[n].not_after
    BY <1>5, <1>9, <1>10
  <1>17. ListsCertificates(shown, c, records, d)
    BY <1>9, <1>12, <1>13, <1>14, <1>15, <1>16 DEF ListsCertificates, logged, same
  <1>18. Inventories(certs, shown, c, records, d)
    BY <1>11, <1>17 DEF cert, Inventories
  <1>. QED BY <1>18 DEF certs

-----------------------------------------------------------------------------
(* The inventory of all the domains                                         *)

Rows == Seqs!FlattenSeq([i \in Item |-> RowsOf(i)])

LEMMA LoggedIsLogged ==
  ASSUME NEW i
  PROVE  LoggedFor(i) = LoggedIn(answer[i], args.discover[i])
  BY DEF LoggedFor, LoggedIn, NamesUnder

\* The rows of one domain are those of its certificates.
LEMMA RowsShow ==
  ASSUME PoolInv, AllFound, NEW i \in Item
  PROVE  \E c, shown :
           /\ ListsCertificates(shown, c, answer[i], args.discover[i])
           /\ RowsOf(i) = [n \in 1..c |-> Row(i, Cert(shown[n], args.discover[i]))]
  <1>. DEFINE records == answer[i]
              d == args.discover[i]
              certs == discover_certificates(records, d)
              rows == RowsOf(i)
              cert(s) == Cert(s, d)
              row(x) == Row(i, x)
              lists(shown, c) == ListsCertificates(shown, c, records, d)
  <1>1. result[i] = records /\ answer[i] # NoAnswer
    BY DEF AllFound, Answered
  <1>2. PICK j \in Item : answer[i] \in Answers[j]
    <2>1. i \in 1..Len(result) /\ result \in Seq(AnyAnswer)
      <3>1. result \in Seq(AnyAnswer) /\ Len(result) = N
        BY DEF PoolInv, PoolTypeOK, JoinedIsComplete, AllFound
      <3>. QED BY <3>1 DEF Item
    <2>2. result[i] \in AnyAnswer
      BY <2>1, ElementOfSeq
    <2>. QED BY <1>1, <2>2 DEF AnyAnswer
  <1>3. records \in Seq(Entries(records)) /\ \A r \in Entries(records) : IsRecord(r)
    BY <1>1, <1>2, StartupAssumption DEF Item
  <1>4. rows = [n \in DOMAIN certs |-> row(certs[n])]
    BY <1>1 DEF RowsOf
  <1>5. \E c, shown :
          lists(shown, c) /\ certs = [n \in 1..c |-> cert(shown[n])]
    <2>. HIDE DEF records, d
    <2>1. PICK c, shown : Inventories(discover_certificates(records, d), shown, c, records, d)
      BY <1>3, InventoryOfDomain
    <2>2. lists(shown, c) /\ certs = [n \in 1..c |-> cert(shown[n])]
      BY <2>1 DEF Inventories
    <2>. HIDE DEF lists, certs, cert
    <2>. QED BY ONLY <2>2
  <1>. HIDE DEF records, d, certs, rows, cert, row, lists
  <1>6. PICK c, shown : lists(shown, c) /\ certs = [n \in 1..c |-> cert(shown[n])]
    BY <1>5
  <1>7. DOMAIN certs = 1..c /\ \A n \in 1..c : certs[n] = cert(shown[n])
    BY ONLY <1>6
  <1>8. rows = [n \in 1..c |-> row(cert(shown[n]))]
    BY ONLY <1>4, <1>7
  <1>. QED BY <1>6, <1>8 DEF records, d, rows, cert, row, lists

\* Each row of a domain names it and shows a record logged for it, by expiry.
LEMMA RowsOfDomain ==
  ASSUME PoolInv, AllFound, NEW i \in Item
  PROVE  \E c \in Nat :
           /\ RowsOf(i) = [n \in 1..c |-> RowsOf(i)[n]]
           /\ \A n \in 1..c :
                /\ RowsOf(i)[n].domain = i
                /\ \E s \in LoggedFor(i) : RowsOf(i)[n] = Row(i, Cert(s, args.discover[i]))
           /\ \A m, n \in 1..c : m < n =>
                RowsOf(i)[m].cert.not_after <= RowsOf(i)[n].cert.not_after
  <1>. DEFINE rows == RowsOf(i)
              logged == LoggedFor(i)
              row(s) == Row(i, Cert(s, args.discover[i]))
  <1>1. PICK c, shown :
          /\ ListsCertificates(shown, c, answer[i], args.discover[i])
          /\ rows = [n \in 1..c |-> row(shown[n])]
    BY RowsShow
  <1>2. /\ c \in Nat /\ shown \in [1..c -> logged]
        /\ \A m, n \in 1..c : m < n => shown[m].not_after <= shown[n].not_after
    BY <1>1, LoggedIsLogged DEF ListsCertificates
  <1>3. \A s : row(s).domain = i /\ row(s).cert.not_after = s.not_after
    BY DEF Row, Cert
  <1>. HIDE DEF rows, logged, row
  <1>4. rows = [n \in 1..c |-> rows[n]] /\ \A n \in 1..c : rows[n] = row(shown[n])
    BY ONLY <1>1
  <1>5. \A n \in 1..c : rows[n].domain = i /\ \E s \in logged : rows[n] = row(s)
    BY <1>2, <1>3, <1>4
  <1>6. \A m, n \in 1..c : m < n => rows[m].cert.not_after <= rows[n].cert.not_after
    BY <1>2, <1>3, <1>4
  <1>. QED BY <1>2, <1>4, <1>5, <1>6 DEF rows, logged, row

\* The rows of the domains follow each other: those of domain i end at off[i].
LEMMA RowsListed ==
  ASSUME PoolInv, AllFound
  PROVE  \E off \in [0..N -> Nat] :
           /\ off[0] = 0 /\ DOMAIN Rows = 1..off[N]
           /\ \A i, j \in 0..N : i <= j => off[i] <= off[j]
           /\ \A i \in Item :
                /\ DOMAIN RowsOf(i) = 1..(off[i] - off[i - 1])
                /\ \A k \in DOMAIN RowsOf(i) : Rows[off[i - 1] + k] = RowsOf(i)[k]
  <1>. DEFINE ss == [i \in Item |-> RowsOf(i)]
              rows(i) == RowsOf(i)
              A == UNION {Entries(rows(i)) : i \in Item}
              at(i, k) == rows(i)[k]
              fl == Rows
  <1>1. \A i \in Item : \E c \in Nat : rows(i) = [n \in 1..c |-> rows(i)[n]]
    BY RowsOfDomain
  <1>2. fl = Seqs!FlattenSeq(ss)
    BY DEF Rows
  <1>3. ss = [i \in 1..N |-> rows(i)] /\ N \in Nat /\ N > 0
    BY Bounds DEF Item
  <1>. HIDE DEF rows, fl
  <1>4. ASSUME NEW i \in Item
        PROVE  rows(i) \in Seq(A) /\ DOMAIN rows(i) = 1..Len(rows(i)) /\ Len(rows(i)) \in Nat
    <2>1. PICK c \in Nat : rows(i) = [n \in 1..c |-> rows(i)[n]]
      BY <1>1
    <2>2. DOMAIN rows(i) = 1..c
      BY ONLY <2>1
    <2>3. \A n \in 1..c : rows(i)[n] \in A
      BY <2>2 DEF Entries
    <2>4. rows(i) \in [1..c -> A]
      <3>. HIDE DEF A
      <3>. QED BY ONLY <2>1, <2>3
    <2>5. rows(i) \in Seq(A)
      <3>. HIDE DEF A
      <3>. QED BY <2>4, SeqDef
    <2>. HIDE DEF A
    <2>. QED BY <2>5, LenProperties
  <1>. HIDE DEF A
  <1>5. ss \in [1..N -> Seq(A)]
    BY <1>3, <1>4 DEF Item
  <1>6. \A i \in 1..N : ss[i] = rows(i)
    BY <1>3
  <1>. HIDE DEF ss
  <1>7. ss \in Seq(Seq(A)) /\ DOMAIN ss = 1..N
    BY <1>3, <1>5, SeqDef
  <1>8. Len(ss) = N
    BY <1>3, <1>7, LenProperties
  <1>9. ss # <<>>
    <2>. SUFFICES ASSUME ss = <<>> PROVE FALSE
      OBVIOUS
    <2>1. DOMAIN ss = 1..N
      BY <1>7
    <2>2. DOMAIN ss = {}
      BY EmptySeq
    <2>. QED BY ONLY <1>3, <2>1, <2>2
  <1>10. Seqs!FlattenSeq(ss) \in Seq(A) /\ \E off : IsOffset(ss, off)
    BY <1>7, <1>9, FlattenBlocks
  <1>11. PICK off : IsOffset(ss, off)
    BY <1>10
  <1>12. DOMAIN fl = 1..Len(fl) /\ Len(fl) \in Nat
    BY <1>2, <1>10, LenProperties
  <1>13. /\ off \in [0..N -> Nat]
         /\ off[0] = 0 /\ off[N] = Len(fl)
         /\ \A i, j \in 0..N : i <= j => off[i] <= off[j]
    BY <1>2, <1>8, <1>11 DEF IsOffset
  <1>14. ASSUME NEW i \in Item
         PROVE  /\ off[i] = off[i - 1] + Len(rows(i))
                /\ \A k \in 1..Len(rows(i)) : fl[off[i - 1] + k] = at(i, k)
    <2>1. i \in 1..Len(ss) /\ ss[i] = rows(i)
      BY <1>6, <1>8 DEF Item
    <2>2. \A j \in 1..Len(ss) : /\ off[j] = off[j - 1] + Len(ss[j])
                                /\ \A k \in 1..Len(ss[j]) : fl[off[j - 1] + k] = ss[j][k]
      BY <1>2, <1>11 DEF IsOffset
    <2>. QED BY ONLY <2>1, <2>2
  <1>15. ASSUME NEW i \in Item
         PROVE  DOMAIN rows(i) = 1..(off[i] - off[i - 1])
    <2>1. i \in 0..N /\ i - 1 \in 0..N
      BY <1>3 DEF Item
    <2>2. off[i] \in Nat /\ off[i - 1] \in Nat
      BY <1>13, <2>1
    <2>3. off[i] - off[i - 1] = Len(rows(i))
      BY <1>4, <1>14, <2>2
    <2>. QED BY <1>4, <2>3
  <1>16. \A i \in Item : \A k \in DOMAIN rows(i) : fl[off[i - 1] + k] = rows(i)[k]
    BY <1>4, <1>14
  <1>. QED
    BY <1>12, <1>13, <1>15, <1>16 DEF rows, fl

\* Row m is row m - off[i - 1] of the domain i it names.
LEMMA RowOfDomain ==
  ASSUME PoolInv, AllFound, NEW off \in [0..N -> Nat],
         off[0] = 0, DOMAIN Rows = 1..off[N],
         \A i, j \in 0..N : i <= j => off[i] <= off[j],
         \A i \in Item : /\ DOMAIN RowsOf(i) = 1..(off[i] - off[i - 1])
                         /\ \A k \in DOMAIN RowsOf(i) : Rows[off[i - 1] + k] = RowsOf(i)[k],
         NEW m \in DOMAIN Rows
  PROVE  \E i \in Item : /\ off[i - 1] < m /\ m <= off[i]
                         /\ m - off[i - 1] \in DOMAIN RowsOf(i)
                         /\ Rows[m] = RowsOf(i)[m - off[i - 1]]
                         /\ Rows[m].domain = i
  <1>. DEFINE rows(i) == RowsOf(i)
              fl == Rows
  <1>1. PICK i \in 1..N : off[i - 1] < m /\ m <= off[i]
    BY Bounds, InABlock
  <1>2. i \in Item /\ i - 1 \in 0..N /\ i \in 0..N
    BY Bounds DEF Item
  <1>3. off[i] \in Nat /\ off[i - 1] \in Nat /\ m \in Nat
    BY <1>2
  <1>4. DOMAIN rows(i) = 1..(off[i] - off[i - 1])
        /\ \A k \in DOMAIN rows(i) : fl[off[i - 1] + k] = rows(i)[k]
    BY <1>2
  <1>5. \A k \in DOMAIN rows(i) : rows(i)[k].domain = i
    <2>1. PICK c \in Nat : /\ rows(i) = [n \in 1..c |-> rows(i)[n]]
                           /\ \A n \in 1..c : rows(i)[n].domain = i
      BY <1>2, RowsOfDomain
    <2>2. DOMAIN rows(i) = 1..c
      <3>. HIDE DEF rows
      <3>. QED BY ONLY <2>1
    <2>. HIDE DEF rows
    <2>. QED BY <2>1, <2>2
  <1>. DEFINE k == m - off[i - 1]
  <1>6. k \in 1..(off[i] - off[i - 1]) /\ off[i - 1] + k = m
    BY <1>1, <1>3
  <1>. HIDE DEF rows, fl, k
  <1>7. k \in DOMAIN rows(i) /\ fl[m] = rows(i)[k] /\ fl[m].domain = i
    BY <1>4, <1>5, <1>6
  <1>. QED BY <1>1, <1>2, <1>7 DEF rows, fl, k

\* Each item of a lookup is a domain that was asked for.
LEMMA DomainOfItem ==
  ASSUME DomainsFit, args.discover \in Seq(Elements), args.discover # <<>>
  PROVE  \A i \in Item : args.discover[i] \in DOMAIN Under
  <1>1. DOMAIN args.discover = Item
    BY EmptySeq, LenProperties DEF DomainsFit, Item
  <1>. QED BY <1>1 DEF DomainsFit, Entries

\* What _run_discover_only lists and what it exits with.
InventoryInv ==
  Inventoried =>
    /\ AllFound /\ \A i \in Item : args.discover[i] \in DOMAIN Under
    /\ inventory = Rows
    /\ exit = IF ~args.exit_zero /\ \E n \in DOMAIN Rows : Rows[n].unexpected
              THEN ExitCode.POLICY ELSE ExitCode.OK

LEMMA RowsStay == UNCHANGED <<args, result>> => Rows' = Rows
  BY DEF Rows, RowsOf, Row

LEMMA StepKeepsInventory ==
  InventoryInv /\ SoundInv /\ LayersInv /\ LookupInv /\ [Next]_vars => InventoryInv'
  <1>. SUFFICES ASSUME InventoryInv, SoundInv, LayersInv, LookupInv, [Next]_vars PROVE InventoryInv'
    OBVIOUS
  <1>1. CASE UNCHANGED vars
    <2>1. UNCHANGED <<pc, args, result, main, answer, inventory, blamed, exit>>
      BY <1>1 DEF vars, optVars, poolVars, startVars
    <2>2. Inventoried' = Inventoried /\ AllFound' = AllFound /\ Rows' = Rows
      BY <2>1, RowsStay DEF Inventoried, AllFound, Answered
    <2>. QED BY <2>1, <2>2 DEF InventoryInv
  <1>2. CASE RunDiscoverOnly
    <2>1. /\ pc = "inventory" /\ UNCHANGED <<args, poolVars, blamed>>
          /\ inventory' = Rows
          /\ exit' = IF ~args.exit_zero /\ \E n \in DOMAIN inventory' : inventory'[n].unexpected
                     THEN ExitCode.POLICY ELSE ExitCode.OK
      BY <1>2 DEF RunDiscoverOnly, ExitWith, Rows
    <2>2. AllFound' /\ Rows' = Rows
      BY <2>1, QuietPool, RowsStay DEF LookupInv, poolVars
    <2>3. ASSUME args.discover_only PROVE \A i \in Item : args.discover[i] \in DOMAIN Under
      <3>1. args.discover # <<>>
        BY <2>1, <2>3 DEF SoundInv, Validated, Acceptable, Consistent
      <3>2. DomainsFit
        BY <2>1 DEF LayersInv, DomainsInv, Validated
      <3>3. args.discover \in Seq(Elements)
        BY OptionNames, KindsOfOptions DEF LayersInv, OptionsTyped
      <3>. QED BY <3>1, <3>2, <3>3, DomainOfItem
    <2>. QED BY <2>1, <2>2, <2>3 DEF InventoryInv, Inventoried
  <1>3. CASE ReportLookups
    <2>. DEFINE failed == {i \in Item : result[i] = NoAnswer}
    <2>1. CASE failed = {}
      <3>1. pc' \in {"inventory", "collect"}
        BY <1>3, <2>1 DEF ReportLookups
      <3>. QED BY <3>1 DEF InventoryInv, Inventoried
    <2>2. CASE failed # {}
      <3>1. blamed' = CHOOSE i \in failed : \A j \in failed : i <= j
        BY <1>3, <2>2 DEF ReportLookups
      <3>2. failed \subseteq 1..N /\ failed \subseteq Nat
        BY Bounds DEF Item
      <3>. HIDE DEF failed
      <3>3. \E i \in failed : \A j \in failed : i <= j
        BY <2>2, <3>2, LeastNatural
      <3>4. blamed' \in 1..N
        BY <3>1, <3>2, <3>3
      <3>. QED BY <3>4 DEF InventoryInv, Inventoried
    <2>. QED BY <2>1, <2>2
  <1>4. CASE ReadInput
    BY <1>4 DEF ReadInput, InventoryInv, Inventoried
  <1>5. CASE SetOptions
    <2>1. pc' # "exited"
      BY <1>5 DEF SetOptions, OptionsStep, LoadConfig, ParseArgs, ApplyProfile, Validate
    <2>. QED BY <2>1 DEF InventoryInv, Inventoried
  <1>6. CASE StartInventory \/ LookUp \/ LookupRaised \/ CollectTargets \/ ChoosePort
    <2>1. pc' # "exited"
      BY <1>6 DEF StartInventory, LookUp, LookupRaised, CollectTargets, ChoosePort, optVars
    <2>. QED BY <2>1 DEF InventoryInv, Inventoried
  <1>7. CASE Ended /\ UNCHANGED vars
    BY <1>1, <1>7
  <1>. QED BY <1>1, <1>2, <1>3, <1>4, <1>5, <1>6, <1>7 DEF Next

LEMMA InventoryAlways == Spec => [](LayersInv /\ LookupInv /\ InventoryInv)
  <1>1. Init => InventoryInv
    BY DEF Init, OptionsInit, InventoryInv, Inventoried
  <1>2. InventoryInv /\ SoundInv /\ LayersInv /\ LookupInv /\ [Next]_vars => InventoryInv'
    BY StepKeepsInventory
  <1>. QED BY <1>1, <1>2, SoundAlways, StartAlways, PTL DEF Spec

\* Rows are sorted by domain and then by expiry.
LEMMA RowsAreSorted ==
  ASSUME PoolInv, AllFound
  PROVE  \A m, n \in DOMAIN Rows :
           m < n => \/ Rows[m].domain < Rows[n].domain
                    \/ /\ Rows[m].domain = Rows[n].domain
                       /\ Rows[m].cert.not_after <= Rows[n].cert.not_after
  <1>. DEFINE rows(i) == RowsOf(i)
              fl == Rows
              after(x) == x.cert.not_after
              dom(x) == x.domain
  <1>1. PICK off \in [0..N -> Nat] :
          /\ off[0] = 0 /\ DOMAIN Rows = 1..off[N]
          /\ \A i, j \in 0..N : i <= j => off[i] <= off[j]
          /\ \A i \in Item :
               /\ DOMAIN RowsOf(i) = 1..(off[i] - off[i - 1])
               /\ \A k \in DOMAIN RowsOf(i) : Rows[off[i - 1] + k] = RowsOf(i)[k]
    BY RowsListed
  <1>2. \A m \in DOMAIN fl :
          \E i \in Item : /\ off[i - 1] < m /\ m <= off[i]
                          /\ m - off[i - 1] \in DOMAIN rows(i)
                          /\ fl[m] = rows(i)[m - off[i - 1]]
                          /\ dom(fl[m]) = i
    BY <1>1, RowOfDomain
  <1>3. ASSUME NEW i \in Item, NEW k \in DOMAIN rows(i), NEW l \in DOMAIN rows(i), k < l
        PROVE  after(rows(i)[k]) <= after(rows(i)[l])
    <2>1. PICK c \in Nat : /\ rows(i) = [n \in 1..c |-> rows(i)[n]]
                           /\ \A m, n \in 1..c : m < n => after(rows(i)[m]) <= after(rows(i)[n])
      BY RowsOfDomain
    <2>. HIDE DEF rows, after
    <2>2. DOMAIN rows(i) = 1..c
      BY ONLY <2>1
    <2>. QED BY <1>3, <2>1, <2>2
  <1>. HIDE DEF rows, fl, after, dom
  <1>4. ASSUME NEW m \in DOMAIN fl, NEW n \in DOMAIN fl, m < n
        PROVE  dom(fl[m]) < dom(fl[n])
                 \/ (dom(fl[m]) = dom(fl[n]) /\ after(fl[m]) <= after(fl[n]))
    <2>1. PICK i \in Item : /\ off[i - 1] < m /\ m <= off[i]
                            /\ m - off[i - 1] \in DOMAIN rows(i)
                            /\ fl[m] = rows(i)[m - off[i - 1]] /\ dom(fl[m]) = i
      BY <1>2
    <2>2. PICK j \in Item : /\ off[j - 1] < n /\ n <= off[j]
                            /\ n - off[j - 1] \in DOMAIN rows(j)
                            /\ fl[n] = rows(j)[n - off[j - 1]] /\ dom(fl[n]) = j
      BY <1>2
    <2>3. i \in 1..N /\ j \in 1..N /\ m \in Nat /\ n \in Nat
      BY <1>1 DEF Item, fl
    <2>4. /\ off[i] \in Nat /\ off[i - 1] \in Nat /\ off[j] \in Nat /\ off[j - 1] \in Nat
          /\ (j < i => off[j] <= off[i - 1])
      <3>1. i \in 0..N /\ i - 1 \in 0..N /\ j \in 0..N /\ j - 1 \in 0..N
        BY <2>3, Bounds
      <3>2. j < i => j <= i - 1
        BY <2>3
      <3>. QED BY <1>1, <3>1, <3>2
    <2>5. ~(j < i)
      BY <1>4, <2>1, <2>2, <2>3, <2>4
    <2>6. CASE i = j
      <3>1. m - off[i - 1] < n - off[i - 1]
        BY <1>4, <2>3, <2>4
      <3>. QED BY <1>3, <2>1, <2>2, <2>6, <3>1
    <2>7. CASE i < j
      BY <2>1, <2>2, <2>7
    <2>. QED BY <2>3, <2>5, <2>6, <2>7
  <1>. QED BY <1>4 DEF fl, after, dom

\* Every row shows a record logged for its domain.
LEMMA RowsAreSound ==
  ASSUME PoolInv, AllFound, NEW m \in DOMAIN Rows
  PROVE  \E i \in Item : \E s \in LoggedFor(i) : Rows[m] = Row(i, Cert(s, args.discover[i]))
  <1>. DEFINE rows(i) == RowsOf(i)
              fl == Rows
              row(i, s) == Row(i, Cert(s, args.discover[i]))
              logged(i) == LoggedFor(i)
  <1>1. PICK i \in Item : \E k \in DOMAIN rows(i) : fl[m] = rows(i)[k]
    <2>1. PICK off \in [0..N -> Nat] :
            /\ off[0] = 0 /\ DOMAIN Rows = 1..off[N]
            /\ \A i, j \in 0..N : i <= j => off[i] <= off[j]
            /\ \A i \in Item :
                 /\ DOMAIN RowsOf(i) = 1..(off[i] - off[i - 1])
                 /\ \A k \in DOMAIN RowsOf(i) : Rows[off[i - 1] + k] = RowsOf(i)[k]
      BY RowsListed
    <2>2. \E i \in Item : /\ m - off[i - 1] \in DOMAIN rows(i)
                          /\ fl[m] = rows(i)[m - off[i - 1]]
      BY <2>1, RowOfDomain
    <2>. HIDE DEF rows, fl
    <2>. QED BY <2>2
  <1>2. PICK c \in Nat : /\ rows(i) = [n \in 1..c |-> rows(i)[n]]
                         /\ \A n \in 1..c : \E s \in logged(i) : rows(i)[n] = row(i, s)
    BY RowsOfDomain
  <1>. HIDE DEF rows, fl, row, logged
  <1>3. DOMAIN rows(i) = 1..c
    BY ONLY <1>2
  <1>4. \E s \in logged(i) : fl[m] = row(i, s)
    BY <1>1, <1>2, <1>3
  <1>. QED BY <1>4 DEF fl, row, logged

\* Each row of a domain shows a record of it, no two rows one certificate, and no
\* certificate is left out.
LEMMA RowsAreComplete ==
  ASSUME PoolInv, AllFound, NEW i \in Item
  PROVE  LET own == {n \in DOMAIN Rows : Rows[n].domain = i}
             d == args.discover[i]
         IN \E record \in [own -> LoggedFor(i)] :
              /\ \A n \in own : Rows[n] = Row(i, Cert(record[n], d))
              /\ \A m, n \in own : m # n => ~SameIn(d, record[m], record[n])
              /\ \A r \in LoggedFor(i) : \E n \in own : SameIn(d, record[n], r)
  <1>. DEFINE rows == RowsOf(i)
              fl == Rows
              logged == LoggedFor(i)
              row(s) == Row(i, Cert(s, args.discover[i]))
              same(r, s) == SameIn(args.discover[i], r, s)
              own == {n \in DOMAIN Rows : Rows[n].domain = i}
  <1>1. PICK off \in [0..N -> Nat] :
          /\ off[0] = 0 /\ DOMAIN Rows = 1..off[N]
          /\ \A j, k \in 0..N : j <= k => off[j] <= off[k]
          /\ \A j \in Item :
               /\ DOMAIN RowsOf(j) = 1..(off[j] - off[j - 1])
               /\ \A k \in DOMAIN RowsOf(j) : Rows[off[j - 1] + k] = RowsOf(j)[k]
    BY RowsListed
  <1>2. PICK c, shown :
          /\ ListsCertificates(shown, c, answer[i], args.discover[i])
          /\ rows = [n \in 1..c |-> row(shown[n])]
    BY RowsShow
  <1>3. /\ c \in Nat /\ shown \in [1..c -> logged]
        /\ \A m, n \in 1..c : m # n => ~same(shown[m], shown[n])
        /\ \A r \in logged : \E n \in 1..c : same(shown[n], r)
    BY <1>2, LoggedIsLogged DEF ListsCertificates
  <1>. DEFINE start == off[i - 1]
  <1>4. /\ start \in Nat /\ off[N] \in Nat /\ off[i] \in Nat
        /\ off[i] <= off[N] /\ DOMAIN rows = 1..(off[i] - start)
    <2>1. i \in 0..N /\ i - 1 \in 0..N /\ N \in 0..N /\ i <= N
      BY Bounds DEF Item
    <2>. QED BY <1>1, <2>1
  <1>5. \A k \in DOMAIN rows : fl[start + k] = rows[k]
    BY <1>1
  <1>6. ASSUME NEW n \in own
        PROVE  n - start \in DOMAIN rows /\ fl[n] = rows[n - start]
    <2>1. n \in DOMAIN Rows /\ Rows[n].domain = i
      OBVIOUS
    <2>2. \E j \in Item : /\ n - off[j - 1] \in DOMAIN RowsOf(j)
                          /\ Rows[n] = RowsOf(j)[n - off[j - 1]]
                          /\ Rows[n].domain = j
      BY <1>1, <2>1, RowOfDomain
    <2>. QED BY <2>1, <2>2
  <1>7. \A s : row(s).domain = i
    BY DEF Row
  <1>8. \A n : n \in own <=> n \in 1..off[N] /\ fl[n].domain = i
    BY <1>1
  <1>. HIDE DEF rows, fl, logged, row, same, own, start
  <1>9. DOMAIN rows = 1..c /\ \A k \in 1..c : rows[k] = row(shown[k])
    BY ONLY <1>2
  <1>10. \A n \in own : n \in Nat /\ n - start \in 1..c /\ fl[n] = row(shown[n - start])
    <2>. SUFFICES ASSUME NEW n \in own
                  PROVE  n \in Nat /\ n - start \in 1..c /\ fl[n] = row(shown[n - start])
      OBVIOUS
    <2>1. n \in Nat
      BY <1>4, <1>8
    <2>2. n - start \in 1..c /\ fl[n] = rows[n - start]
      BY <1>6, <1>9
    <2>. QED BY <1>9, <2>1, <2>2
  <1>11. ASSUME NEW k \in 1..c PROVE start + k \in own /\ (start + k) - start = k
    <2>1. k \in 1..(off[i] - start)
      BY ONLY <1>4, <1>9, k \in 1..c
    <2>2. start + k \in 1..off[N] /\ (start + k) - start = k
      BY ONLY <1>4, <2>1
    <2>3. fl[start + k] = row(shown[k])
      BY <1>5, <1>9
    <2>. QED BY <1>7, <1>8, <2>2, <2>3
  <1>. DEFINE record == [n \in own |-> shown[n - start]]
  <1>12. record \in [own -> logged]
    BY <1>3, <1>10
  <1>13. \A n \in own : record[n] = shown[n - start]
    OBVIOUS
  <1>. HIDE DEF record
  <1>14. \A n \in own : fl[n] = row(record[n])
    BY <1>10, <1>13
  <1>15. ASSUME NEW m \in own, NEW n \in own, m # n PROVE ~same(record[m], record[n])
    <2>1. m - start # n - start
      BY <1>4, <1>10, <1>15
    <2>. QED BY <1>3, <1>10, <1>13, <2>1
  <1>16. ASSUME NEW r \in logged PROVE \E n \in own : same(record[n], r)
    <2>1. PICK k \in 1..c : same(shown[k], r)
      BY <1>3
    <2>2. start + k \in own /\ record[start + k] = shown[k]
      BY <1>11, <1>13
    <2>. QED BY <2>1, <2>2
  <1>17. \E f \in [own -> logged] :
           /\ \A n \in own : fl[n] = row(f[n])
           /\ \A m, n \in own : m # n => ~same(f[m], f[n])
           /\ \A r \in logged : \E n \in own : same(f[n], r)
    BY <1>12, <1>14, <1>15, <1>16
  <1>. QED BY <1>17 DEF fl, logged, row, same, own

\* Each certificate that crt.sh has logged for a domain has exactly one row in the
\* inventory, with the names and the expiry of one of its records, and the rows of
\* each domain are sorted by expiry (_run_discover_only, discover_certificates).
THEOREM InventoryIsListed == Spec => []InventoryIsComplete
  <1>1. ASSUME LookupInv, InventoryInv, Inventoried, NEW i \in Item
        PROVE  LET rows == {n \in DOMAIN inventory : inventory[n].domain = i}
               IN /\ \E record \in [rows -> LoggedFor(i)] :
                       /\ \A n \in rows :
                            /\ inventory[n].cert.issuer = record[n].issuer
                            /\ inventory[n].cert.not_after = record[n].not_after
                            /\ Entries(inventory[n].cert.hostnames) = NamesFor(i, record[n])
                       /\ \A m, n \in rows : m # n => ~SameCertificate(i, record[m], record[n])
                       /\ \A r \in LoggedFor(i) :
                            \E n \in rows : SameCertificate(i, record[n], r)
                  /\ \A m, n \in rows :
                       m < n => inventory[m].cert.not_after <= inventory[n].cert.not_after
    <2>. DEFINE own == {n \in DOMAIN Rows : Rows[n].domain = i}
                d == args.discover[i]
                logged == LoggedFor(i)
                same(r, s) == SameCertificate(i, r, s)
                shows(x, s) == /\ x.cert.issuer = s.issuer
                               /\ x.cert.not_after = s.not_after
                               /\ Entries(x.cert.hostnames) = NamesFor(i, s)
                after(x) == x.cert.not_after
                fl == Rows
    <2>1. PoolInv /\ AllFound /\ inventory = Rows /\ d \in DOMAIN Under
      BY <1>1 DEF LookupInv, InventoryInv
    <2>2. \A r, s : SameIn(d, r, s) <=> same(r, s)
      BY DEF SameIn, SameCertificate, NamesUnder, NamesFor
    <2>3. ASSUME NEW s PROVE shows(Row(i, Cert(s, d)), s)
      <3>1. Row(i, Cert(s, d)).cert = Cert(s, d)
        BY DEF Row
      <3>2. /\ Cert(s, d).issuer = s.issuer /\ Cert(s, d).not_after = s.not_after
            /\ Entries(Cert(s, d).hostnames) = NamesFor(i, s)
        BY <2>1, EntryOfRecord DEF NamesUnder, NamesFor
      <3>. QED BY <3>1, <3>2
    <2>4. PICK record \in [own -> logged] :
            /\ \A n \in own : fl[n] = Row(i, Cert(record[n], d))
            /\ \A m, n \in own : m # n => ~SameIn(d, record[m], record[n])
            /\ \A r \in logged : \E n \in own : SameIn(d, record[n], r)
      BY <2>1, RowsAreComplete
    <2>5. ASSUME NEW m \in own, NEW n \in own, m < n PROVE after(fl[m]) <= after(fl[n])
      <3>1. m \in DOMAIN Rows /\ n \in DOMAIN Rows /\ Rows[m].domain = i /\ Rows[n].domain = i
        OBVIOUS
      <3>2. ~(i < i)
        BY Bounds DEF Item
      <3>. QED BY <2>1, <2>5, <3>1, <3>2, RowsAreSorted
    <2>. HIDE DEF own, d, logged, same, shows, after, fl
    <2>6. /\ \A n \in own : shows(fl[n], record[n])
          /\ \A m, n \in own : m # n => ~same(record[m], record[n])
          /\ \A r \in logged : \E n \in own : same(record[n], r)
      BY <2>2, <2>3, <2>4
    <2>7. /\ \E f \in [own -> logged] :
               /\ \A n \in own : shows(fl[n], f[n])
               /\ \A m, n \in own : m # n => ~same(f[m], f[n])
               /\ \A r \in logged : \E n \in own : same(f[n], r)
          /\ \A m, n \in own : m < n => after(fl[m]) <= after(fl[n])
      BY <2>5, <2>6
    <2>. QED BY <2>1, <2>7 DEF own, logged, same, shows, after, fl
  <1>2. LookupInv /\ InventoryInv => InventoryIsComplete
    BY <1>1 DEF InventoryIsComplete
  <1>. QED BY <1>2, InventoryAlways, PTL

\* The inventory ends with exit code 9 only for a certificate of an unexpected issuer,
\* and for each such certificate with a serial number (--expect-issuer).
THEOREM MisissuanceIsReported == Spec => []MisissuanceIsFlagged
  <1>1. ASSUME LookupInv, InventoryInv, Inventoried, ~args.exit_zero
        PROVE  LET unexpected == {r \in UNION {LoggedFor(i) : i \in Item} :
                                    \A t \in Entries(args.expect_issuer) : r.issuer \notin Matches[t]}
               IN /\ exit = ExitCode.POLICY => args.expect_issuer # <<>> /\ unexpected # {}
                  /\ args.expect_issuer # <<>> /\ (\E r \in unexpected : r.serial # NoSerial)
                       => exit = ExitCode.POLICY
    <2>. DEFINE unexpected == {r \in UNION {LoggedFor(i) : i \in Item} :
                                 \A t \in Entries(args.expect_issuer) : r.issuer \notin Matches[t]}
                flagged == \E n \in DOMAIN Rows : Rows[n].unexpected
    <2>1. /\ PoolInv /\ AllFound
          /\ \A i \in Item : args.discover[i] \in DOMAIN Under
          /\ exit = IF flagged THEN ExitCode.POLICY ELSE ExitCode.OK
      BY <1>1 DEF LookupInv, InventoryInv
    <2>2. exit = ExitCode.POLICY <=> flagged
      BY <2>1 DEF ExitCode
    <2>3. ASSUME NEW i \in Item, NEW s \in LoggedFor(i), NEW n \in DOMAIN Rows,
                 Rows[n] = Row(i, Cert(s, args.discover[i]))
          PROVE  Rows[n].unexpected <=> args.expect_issuer # <<>> /\ s \in unexpected
      <3>1. Cert(s, args.discover[i]).issuer = s.issuer
        BY <2>1, EntryOfRecord
      <3>2. Rows[n].unexpected
              <=> args.expect_issuer # <<>> /\ ~IssuerIsExpected(s.issuer, args.expect_issuer)
        <4>. DEFINE c == Cert(s, args.discover[i])
        <4>1. Row(i, c).unexpected
                = (args.expect_issuer # <<>> /\ ~IssuerIsExpected(c.issuer, args.expect_issuer))
          BY ONLY DEF Row
        <4>2. Rows[n].unexpected = Row(i, c).unexpected
          BY <2>3
        <4>. HIDE DEF c
        <4>3. c.issuer = s.issuer
          BY <3>1 DEF c
        <4>. QED BY ONLY <4>1, <4>2, <4>3
      <3>. QED BY <3>2 DEF IssuerIsExpected
    <2>4. ASSUME NEW n \in DOMAIN Rows
          PROVE  \E i \in Item : \E s \in LoggedFor(i) : Rows[n] = Row(i, Cert(s, args.discover[i]))
      BY <2>1, RowsAreSound
    <2>5. ASSUME args.expect_issuer # <<>>, NEW r \in unexpected, r.serial # NoSerial
          PROVE  flagged
      <3>1. PICK i \in Item : r \in LoggedFor(i)
        OBVIOUS
      <3>2. PICK n \in DOMAIN Rows, s \in LoggedFor(i) :
              /\ SameIn(args.discover[i], s, r)
              /\ Rows[n] = Row(i, Cert(s, args.discover[i]))
        <4>. DEFINE own == {n \in DOMAIN Rows : Rows[n].domain = i}
                    d == args.discover[i]
        <4>1. PICK record \in [own -> LoggedFor(i)] :
                /\ \A n \in own : Rows[n] = Row(i, Cert(record[n], d))
                /\ \A q \in LoggedFor(i) : \E n \in own : SameIn(d, record[n], q)
          BY <2>1, RowsAreComplete
        <4>2. PICK n \in own : SameIn(d, record[n], r)
          BY <3>1, <4>1
        <4>3. n \in DOMAIN Rows /\ record[n] \in LoggedFor(i)
          BY <4>1
        <4>. HIDE DEF own
        <4>. QED BY <4>1, <4>2, <4>3
      <3>3. s.issuer = r.issuer
        BY <2>5, <3>2 DEF SameIn
      <3>4. s \in unexpected
        BY <3>1, <3>2, <3>3
      <3>. HIDE DEF unexpected
      <3>. QED BY <2>3, <2>5, <3>2, <3>4
    <2>6. flagged => args.expect_issuer # <<>> /\ unexpected # {}
      <3>. HIDE DEF unexpected
      <3>. QED BY <2>3, <2>4
    <2>. HIDE DEF flagged
    <2>7. /\ exit = ExitCode.POLICY => args.expect_issuer # <<>> /\ unexpected # {}
          /\ args.expect_issuer # <<>> /\ (\E r \in unexpected : r.serial # NoSerial)
               => exit = ExitCode.POLICY
      <3>. HIDE DEF unexpected
      <3>. QED BY <2>2, <2>5, <2>6
    <2>. QED BY <2>7
  <1>2. LookupInv /\ InventoryInv => MisissuanceIsFlagged
    BY <1>1 DEF MisissuanceIsFlagged
  <1>. QED BY <1>2, InventoryAlways, PTL
=============================================================================
