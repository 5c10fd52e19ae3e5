----------------------------- MODULE MCStartup -----------------------------
(* Three families of scenarios: the policies of all three layers against   *)
(* each other; the other options, one or two at a time, with targets and   *)
(* outputs; and the discovery of two domains.                              *)
EXTENDS Startup

LOCAL INSTANCE TLC

\* The pairs <<option, value>> as a layer.
Layer(pairs) == [n \in {p[1] : p \in pairs} |-> (CHOOSE p \in pairs : p[1] = n)[2]]

\* Every way to take at most one pair of each set.
OneOfEach(a, b, c, d, e) ==
  {Layer(x \cup y \cup z \cup u \cup v) :
     x \in {{}} \cup {{p} : p \in a}, y \in {{}} \cup {{p} : p \in b},
     z \in {{}} \cup {{p} : p \in c}, u \in {{}} \cup {{p} : p \in d},
     v \in {{}} \cup {{p} : p \in e}}

PolicyConfigs ==
  OneOfEach({<<"not_after_max", 90>>, <<"cab_forum", TRUE>>}, {<<"min_key_size", 1024>>},
            {<<"min_tls_version", 5>>}, {<<"profile", "strict">>},
            {<<"require_revocation_check", TRUE>>})

PolicyFlags ==
  {("target" :> <<"h1">>) @@ l :
     l \in OneOfEach({<<"not_after_max", 400>>, <<"cab_forum", TRUE>>},
                     {<<"min_key_size", 0>>, <<"min_key_size", 4096>>},
                     {<<"min_tls_version", 3>>},
                     {<<"profile", "lenient">>, <<"profile", "standard">>},
                     {<<"verify", FALSE>>})}
  \cup {("file" :> <<"f1">>) @@ l :
     l \in OneOfEach({<<"not_after_max", 400>>}, {<<"require_must_staple", TRUE>>},
                     {<<"min_tls_version", 3>>}, {<<"profile", "strict">>}, {})}

OtherConfigs ==
  {Unreadable} \cup
  {Layer(l) : l \in {
     {}, {<<"profile", "other">>}, {<<"starttls", "other">>}, {<<"starttls", "imap">>},
     {<<"port", 8443>>, <<"starttls", "other">>}, {<<"json", TRUE>>, <<"csv", TRUE>>},
     {<<"exporter", "nagios">>}, {<<"field", <<"issuer">>>>}, {<<"json", TRUE>>},
     {<<"proxy", TRUE>>}, {<<"state_file", TRUE>>}, {<<"only_changed", TRUE>>},
     {<<"days", 10>>}, {<<"verify", FALSE>>}, {<<"cafile", TRUE>>},
     {<<"require_revocation_check", TRUE>>}, {<<"export", TRUE>>}, {<<"file", <<"f2">>>>},
     {<<"input", "list">>}, {<<"not_after_max", 90>>, <<"cab_forum", TRUE>>},
     {<<"expect_issuer", <<"le">>>>}, {<<"client_cert", TRUE>>},
     {<<"print_completion", TRUE>>}}}

OtherFlags ==
  {Layer(l) : l \in {
     {}, {<<"target", <<"h1">>>>}, {<<"target", <<"h1", "h2">>>>}, {<<"file", <<"f1">>>>},
     {<<"file", <<"-", "-">>>>}, {<<"file", <<"-">>>>, <<"input", "list">>},
     {<<"input", "list">>}, {<<"input", "list">>, <<"export", TRUE>>},
     {<<"target", <<"h1">>>>, <<"starttls", "smtp">>},
     {<<"target", <<"h1">>>>, <<"starttls", "smtp">>, <<"port", 443>>},
     {<<"target", <<"h1">>>>, <<"critical_days", 20>>},
     {<<"target", <<"h1">>>>, <<"cafile", TRUE>>},
     {<<"target", <<"h1">>>>, <<"client_key", TRUE>>},
     {<<"target", <<"h1">>>>, <<"no_proxy", TRUE>>},
     {<<"target", <<"h1">>>>, <<"only_changed", TRUE>>},
     {<<"target", <<"h1">>>>, <<"csv", TRUE>>},
     {<<"target", <<"h1">>>>, <<"json", TRUE>>},
     {<<"target", <<"h1">>>>, <<"field", <<"serial">>>>},
     {<<"target", <<"h1">>>>, <<"discover_only", TRUE>>},
     {<<"file", <<"f1">>>>, <<"servername", TRUE>>},
     {<<"file", <<"f1">>>>, <<"profile", "strict">>},
     {<<"file", <<"f1">>>>, <<"target", <<"h1">>>>},
     {<<"print_completion", TRUE>>}}}

DiscoveryConfigs ==
  {Layer(l) : l \in {{}, {<<"expect_issuer", <<"le">>>>}, {<<"input", "list">>},
                     {<<"exit_zero", TRUE>>}}}

DiscoveryFlags ==
  {("discover" :> <<"d1", "d2">>) @@ Layer(l) : l \in {
     {}, {<<"discover_only", TRUE>>}, {<<"target", <<"h1">>>>}, {<<"export", TRUE>>},
     {<<"discover_only", TRUE>>, <<"expect_issuer", <<"google">>>>}}}

\* Half of the domains in each layer.
SplitDiscovery ==
  [config |-> [discover |-> <<"d1">>], cli |-> [discover |-> <<"d2">>, discover_only |-> TRUE]]

Pairs(configs, flags) == {[config |-> c, cli |-> f] : c \in configs, f \in flags}

MCScenarios ==
  Pairs(PolicyConfigs, PolicyFlags) \cup Pairs(OtherConfigs, OtherFlags)
    \cup Pairs(DiscoveryConfigs, DiscoveryFlags) \cup {SplitDiscovery}

MCElements == {"h1", "h2", "f1", "f2", "-", "issuer", "serial", "le", "google", "d1", "d2"}

MCCertFacts ==
  [validity_days : {90, 300, 500}, sized_key : BOOLEAN, key_size : {1024, 3072},
   weak : BOOLEAN, sct : BOOLEAN, must_staple : {FALSE}, tls : {Unset, 3, 4}, good : {TRUE}]

MCInputContents == {Missing, Undecodable, <<>>, <<"h1">>, <<"#", "h2", "h1">>}

-----------------------------------------------------------------------------
\* a.d1 is spelt in two ways, d2 is a domain under d1.
MCSortedNames == <<"*.d1", "a.d1", "d2.d1", "out">>

MCNameOf == [A_d1 |-> "a.d1", a_d1_dot |-> "a.d1", star |-> "*.d1", d2 |-> "d2.d1",
             neighbour |-> "out", blank |-> NoName]

MCUnder == [d1 |-> {"*.d1", "a.d1", "d2.d1"}, d2 |-> {"d2.d1"}]

MCMatches == [le |-> {"R3 (le)"}, google |-> {"WR2 (google)"}]

Rec(ids, issuer, serial, date) ==
  [identities |-> ids, issuer |-> issuer, serial |-> serial, not_after |-> date]

\* A renewal; two issuers with one serial number; a later record of a precertificate
\* with other names; two records without serial numbers; wildcards and neighbours.
MCResponses ==
  {<<>>,
   <<Rec({"A_d1", "blank"}, "R3 (le)", 1, 2), Rec({"a_d1_dot"}, "R3 (le)", 2, 1)>>,
   <<Rec({"A_d1"}, "WR2 (google)", 1, 1), Rec({"d2"}, "R3 (le)", 1, 1)>>,
   <<Rec({"A_d1"}, "R3 (le)", 1, 1), Rec({"star", "d2"}, "WR2 (google)", 2, 2),
     Rec({"a_d1_dot", "d2"}, "R3 (le)", 1, 3)>>,
   <<Rec({"d2"}, "WR2 (google)", NoSerial, 1), Rec({"d2"}, "R3 (le)", NoSerial, 2)>>,
   <<Rec({"neighbour"}, "WR2 (google)", 3, 1), Rec({"star"}, "R3 (le)", 4, 1)>>}

MCAnswers == [i \in 1..2 |-> {NoAnswer} \cup MCResponses]
=============================================================================
