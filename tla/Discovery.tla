----------------------------- MODULE Discovery -----------------------------
(***************************************************************************)
(* Certificate Transparency discovery (discover.py): from the records that *)
(* crt.sh returns for a domain to the host names to inspect, or to the     *)
(* inventory of the logged certificates that --discover-only lists; and    *)
(* the --expect-issuer test on an entry of that inventory.                 *)
(*                                                                         *)
(* An identity is the text of one line of a record as crt.sh spells it;    *)
(* NameOf trims, lower-cases and normalises it.  Names, issuers and dates  *)
(* are compared as strings: SortedNames lists the names in their order,    *)
(* and a date stands for its position among the dates.                     *)
(***************************************************************************)
EXTENDS Lists, FiniteSets

CONSTANTS
  NameOf,      \* the name each identity normalises to, NoName for a blank line
  NoName,
  SortedNames, \* the names, sorted
  Wildcards,   \* the names that hold a "*"
  Under,       \* the names equal to a domain or ending in "." + the domain
  NoSerial,    \* a record without a serial number
  Matches      \* the issuers that contain an --expect-issuer token

\* identities: common_name and the lines of name_value.
IsRecord(r) ==
  /\ DOMAIN r = {"identities", "issuer", "serial", "not_after"}
  /\ r.identities \subseteq DOMAIN NameOf
  /\ r.not_after \in Nat

ASSUME DiscoveryAssumption ==
  /\ SortedNames \in Seq(Entries(SortedNames))
  /\ \A i \in DOMAIN NameOf : NameOf[i] \in Entries(SortedNames) \cup {NoName}
  /\ NoName \notin Entries(SortedNames)
  /\ Wildcards \subseteq Entries(SortedNames)
  /\ \A d \in DOMAIN Under : Under[d] \subseteq Entries(SortedNames)

Sorted(names) == Select(SortedNames, names)

ExtractNames(records, domain, keepWildcards) ==
  {n \in {NameOf[i] : i \in UNION {r.identities : r \in Entries(records)}} :
     n \in Under[domain] /\ (n \in Wildcards => keepWildcards)}

discover_hostnames(records, domain) == Sorted(ExtractNames(records, domain, FALSE))

\* Mutant of CertKey: serial numbers taken for unique among all issuers.
CertKeySerial(r, domain) ==
  IF r.serial = NoSerial THEN <<"names", ExtractNames(<<r>>, domain, TRUE)>>
  ELSE <<"serial", r.serial>>

\* What tells a certificate from another.
CertKey(r, domain) ==
  IF r.serial = NoSerial THEN <<"names", ExtractNames(<<r>>, domain, TRUE)>>
  ELSE <<"serial", r.issuer, r.serial>>

\* The positions of the records with a name under the domain.
Logged(records, domain) ==
  {i \in DOMAIN records : ExtractNames(<<records[i]>>, domain, TRUE) # {}}

\* The positions of the records with the key of record i.
SameKey(records, domain, i) ==
  {j \in Logged(records, domain) : CertKey(records[j], domain) = CertKey(records[i], domain)}

\* Mutant of Slots: a list, of one entry per record.
SlotsOfRecords(records, domain) == Logged(records, domain)

\* Records with one key fill one slot of a dict: its position is the first
\* one's, its content the last one's.
Slots(records, domain) ==
  {i \in Logged(records, domain) : \A j \in SameKey(records, domain, i) : i <= j}

Content(records, domain, i) ==
  records[CHOOSE l \in SameKey(records, domain, i) :
            \A j \in SameKey(records, domain, i) : j <= l]

Cert(r, domain) ==
  [hostnames |-> Sorted(ExtractNames(<<r>>, domain, TRUE)),
   issuer |-> r.issuer, not_after |-> r.not_after]

\* The sort by date is stable.
discover_certificates(records, domain) ==
  LET slots == Slots(records, domain)
      order == StableOrder(slots, [i \in slots |-> Content(records, domain, i).not_after])
  IN [n \in DOMAIN order |-> Cert(Content(records, domain, order[n]), domain)]

IssuerIsExpected(issuer, expected) == \E t \in Entries(expected) : issuer \in Matches[t]
=============================================================================
