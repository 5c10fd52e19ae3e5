----------------------------- MODULE MCInspect -----------------------------
(* A load-balanced host in the middle of a rotation, and three files.       *)
EXTENDS Report

\* Two healthy leaves of different CAs, one of another host, an expired and a
\* self-signed one; the second CA's intermediate is about to expire.
MCCerts == {"old", "new", "other", "stale", "self", "int1", "int2", "root"}

Healthy(subject, issuer) ==
  [status |-> "VALID", matches |-> TRUE, pinned |-> TRUE, hasSans |-> TRUE,
   policyOk |-> TRUE, revocation |-> {"GOOD"}, expired |-> FALSE,
   expiresSoon |-> FALSE, aia |-> TRUE, subject |-> subject, issuer |-> issuer]

MCFact ==
  [c \in MCCerts |->
     CASE c = "old"   -> [Healthy("host", "CA1") EXCEPT !.revocation = RevocationStatus]
       [] c = "new"   -> [Healthy("host", "CA2") EXCEPT !.pinned = FALSE, !.policyOk = FALSE,
                                                      !.status = "EXPIRING"]
       [] c = "other" -> [Healthy("another", "CA1") EXCEPT !.matches = FALSE,
                            !.pinned = FALSE, !.hasSans = FALSE, !.policyOk = FALSE]
       [] c = "stale" -> [Healthy("host", "CA1") EXCEPT !.status = "EXPIRED",
                            !.expired = TRUE, !.revocation = {"UNAVAILABLE", "UNKNOWN"}]
       [] c = "self"  -> [Healthy("host", "host") EXCEPT !.status = "NOT YET VALID",
                            !.hasSans = FALSE, !.aia = FALSE,
                            !.matches = FALSE, !.revocation = {"UNAVAILABLE"}]
       [] c = "int1"  -> Healthy("CA1", "Root")
       [] c = "int2"  -> [Healthy("CA2", "Root") EXCEPT !.expiresSoon = TRUE]
       [] c = "root"  -> Healthy("Root", "Root")]

MCBackends == {"b1", "b2", "b3", "b4", "b5", "b6"}

MCSends == [b \in MCBackends |->
              CASE b = "b1" -> <<"old", "int1">>
                [] b = "b2" -> <<"new", "int2">>
                [] b = "b3" -> <<"old">>             \* forgot its intermediate
                [] b = "b4" -> <<"stale", "int1">>
                [] b = "b5" -> <<"self">>
                [] b = "b6" -> <<"other", "int1">>]  \* the default virtual host

MCBundles == {<<"old", "int1">>, <<"stale">>, <<"new", "int1">>}

MCVerifiedPath ==
  [ch \in {MCSends[b] : b \in MCBackends} \cup MCBundles |->
     CASE ch = <<"old", "int1">> -> <<"old", "int1", "root">>
       [] ch = <<"new", "int2">> -> <<"new", "int2", "root">>
       [] ch = <<"other", "int1">> -> <<"other", "int1", "root">>
       [] OTHER -> <<>>]

Flags == [verify : BOOLEAN, chain : BOOLEAN, export : BOOLEAN, pin : BOOLEAN,
          expectSan : BOOLEAN, policy : BOOLEAN, requireRevocation : BOOLEAN]

WithSource(f, source, retries, exposes) ==
  [source |-> source, retries |-> retries, exposesChain |-> exposes, verify |-> f.verify, chain |-> f.chain,
   export |-> f.export, pin |-> f.pin, expectSan |-> f.expectSan, policy |-> f.policy,
   requireRevocation |-> f.requireRevocation]

MCOptions ==
  {WithSource(f, "host", r, x) : f \in {g \in Flags : g.requireRevocation => g.verify},
                              r \in {-1, 0, 1}, x \in BOOLEAN}
    \cup {WithSource(f, "file", 0, TRUE) : f \in {g \in Flags : ~g.requireRevocation}}

\* One plain verified run, for the runs that look for a single behaviour.
PlainOptions ==
  {WithSource([verify |-> TRUE, chain |-> FALSE, export |-> FALSE, pin |-> FALSE,
               expectSan |-> FALSE, policy |-> FALSE, requireRevocation |-> FALSE],
              "host", 1, TRUE)}
=============================================================================
