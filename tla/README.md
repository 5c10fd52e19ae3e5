# A verification of certinspect

certinspect opens a TLS connection to a host (or reads a file), reports on the
certificate it finds, and exits with a code a monitoring system can act on. It
does so for many hosts at once, remembers their statuses from run to run, and
asks OCSP responders and CRLs along the way. This directory holds TLA+ modules
of its control, TLC runs that check them on small instances, and proofs that
TLAPS checks for every instance. Paths below are relative to
`src/src/certinspect/`; `README` with a line number is the repository's own.

## Inventory

| Component | State it keeps | Operations | Talks to |
|---|---|---|---|
| Exit codes (`exit_codes.py`) | none | `most_severe`, `EXIT_BY_STATUS` | everything that ends with a code |
| Inspection (`cli._inspect`, `models.py`) | the report, the codes, the two chains | `_fetch_source`, `_check_chain`, `_check_revocation`, `_check_pin`, `_check_expect_san`, `_check_policy` | fetch, revocation, parser |
| Connection (`fetch.py`) | a socket, its timeout, the retries left | `retry_network`, `_open_socket`, `_negotiate_starttls`, `get_server_cert`, `verify_chain`, `verify_chain_offline` | a server, a proxy, OpenSSL |
| HTTP fetch (`httpfetch.py`) | thread-local sockets, a timer thread, a flag | `fetch`, `expire` | revocation, discovery, HTTP servers |
| Revocation (`revocation.py`) | issuer, OCSP answer, CRLs read | `check_revocation`, `_check_ocsp`, `_check_crl` | HTTP fetch |
| Parallel map (`cli._map`) | pool queue, futures, result list | submit, take, finish, collect, cancel, join | inspection, discovery |
| Batch (`cli._inspect_all`, `main`) | results, errors, codes, exit code | tally, state update, render, exit | map, state file, report |
| State file (`state.py`) | a JSON file shared by runs | `load_state`, `update_state`, `save_state` | batch, other runs |
| Report (`render.py`, `formatter.py`) | none | filters, `format_human`, `_result_to_v2`, `format_prometheus`, `format_nagios`, `format_summary` | batch |
| Options (`args.py`, `config.py`, `_apply_profile`, `_validate_args`) | the option values | defaults, configuration, command line, profile, validation | everything |
| Start-up (`main`, `_collect_targets`, `_run_discover_only`) | the targets, the default port, the inventory | read input, look up, collect, check, start or exit | options, discovery, batch |
| Discovery (`discover.py`, `cli._discover`) | none | CT lookups that produce hosts or an inventory | HTTP fetch, map |
| Time and validity (`parser.py`) | the clock, read anew by each step | `certificate_status`, `diagnose_chain`, `chain_expiry_warnings`, `cab_forum_max_validity` | inspection, report |
| Parsing (`parser.py`) | none | `analyze`, `policy_violations` | inspection |
| Completion, layouts | none | text | - |

What is hard here, and a test hardly reaches:

* An inspection makes **two independent handshakes**. Behind a load balancer they
  may meet different servers, and each is retried on its own. Verdicts, chain,
  warnings and codes must still be those of one certificate.
* A fetch races with its **own timer thread**, on thread-local state that the next
  fetch reuses, over sockets that redirects and TLS replace.
* Items of a batch finish in **any order**, in threads, any of which may raise.
* Runs **share a file** without a lock, and a run may die between its steps.
* A peer decides **when bytes come**: one at a time, never, or for ever.
* A revocation verdict comes from a **chain of fallbacks**, each able to soft-fail.
* One inspection reads **the clock up to six times**, and each output compares
  the days left with the limits once more.
* The text, the JSON object, the gauges and the plugin line each decide on their own
  **which problems to show**.
* Options are written by **four layers**, one after the other.
* A CT log answers with **records that only partly belong** to the domain, and several
  domains are looked up at once.

`PROJECT.json` lists every such place at its line, with the properties that
watch it, or the reason why none does.

What makes each component correct: the code of an inspection is the worst thing
its report shows, and trust belongs to the certificate reported; a connection
keeps its time limits and spends exactly its retries; a fetch ends, and only its
own deadline cuts it; a revocation verdict is true; the parallel map is the
sequential one; the batch's code, report and state agree; the state file misses
no change and invents none; a certificate does not expire unannounced; every output
leads its reader to the verdict of the exit code; explicit options survive, and an
inspection starts with options and targets that fit; discovery is all or nothing, and
the inventory lists every logged certificate once.

## Modules

| Module | Models | Composes |
|---|---|---|
| `ExitCodes` | codes, statuses, `most_severe` | |
| `Inspect` | one inspection, from the first handshake to its code | `ExitCodes` |
| `Report` | what the text, JSON and Prometheus outputs show of it | `Inspect` |
| `Validity` | repeated inspections of one target against a moving clock | |
| `SequentialMap` | what `_map` promises: a list comprehension | |
| `OrderedMap` | `_map` with its thread pool; implements `SequentialMap` | |
| `StateMap` | the mappings `update_state` computes | |
| `StateFile` | runs over one state file, with faults and overlaps | `StateMap` |
| `Batch` | `_inspect_all`, the tail of `main`, `render`'s filters, Nagios, the summary | `OrderedMap`, `StateMap`, `ExitCodes`, `Lists` |
| `HttpFetch` | `fetch` and its timer threads | |
| `Revocation` | `check_revocation` and its sources | |
| `StartTls` | dialing, STARTTLS, handshake and retries | |
| `Options` | the layers of the options and their validation | |
| `Discovery` | what a crt.sh response means | `Lists` |
| `Startup` | `main` up to the first inspection | `Options`, `OrderedMap`, `Discovery`, `ExitCodes` |
| `MCInspect`, `MCValidity`, `MCStateFile`, `MCBatch`, `MCStartup` | the small instances TLC checks | |
| `Lists` | lists and the sets of their entries: a filtered list, a stable sort | |
| `CommonProofs` | lemmas on numbers, lists and exit codes that the proofs share | `ExitCodes`, `Lists` |
| `InspectProofs` | theorems about an inspection and its outputs | `Report` |
| `VerdictProofs` | theorems about revocation and about time | `Revocation`, `Validity` |
| `OrderedMapProofs` | theorems about the map | `OrderedMap` |
| `BatchProofs` | theorems about the batch and the state file | `Batch`, `StateFile` |
| `StartupProofs` | theorems about start-up and discovery | `Startup` |
| `HttpFetchProofs`, `StartTlsProofs` | theorems about a fetch, about a connection | `HttpFetch`, `StartTls` |

Definitions keep the names of the source where TLA+ allows it; `map` in
`PROJECT.json` gives the lines each one stands for. A definition called
"Mutant of X" is a plausible bug: put in the place of X, it must break a property.

**Inspect.** `pc` walks through `_inspect`: fetch, load, export, assess, verify,
revocation, finish. A handshake is answered by any of the `Backends` or fails,
for good or transiently; `tries` is the loop of `retry_network`. A certificate is
a name with a record of facts (`Fact`): what its dates, names and keys amount to
for each check. The verifier is the function `VerifiedPath`. `exposesChain` says
whether the interpreter shows the chains (Python 3.13 and later). An exception
that `_run` catches ends in `failed` with code 1; the uncaught `TypeError` of a
negative number of retries ends in `crashed`.

**Report.** An output is the set of label and value pairs it shows, computed from the
fields an inspection left; a label is written with `_` for a blank. `TextProblems`,
`JsonProblems` and `Alarms` are the verdicts of three readers who see nothing else.

**Validity.** `Tick` may happen between any two readings of the clock. `DaysLeft` is
`timedelta.days`, which rounds down; `Verify` refuses what is outside its validity and
may refuse anything else. `Schedule` is `_CAB_FORUM_SCHEDULE`, whose limits get tighter with
time (47, 100 and 200 days, newest first); `ValidityAssumption` says so of every
instance. `last` is the report of the inspection before, so that
what was announced can be compared with what came.

**OrderedMap and Batch.** The calling thread submits, collects in input order,
cancels and joins; pool threads take and finish items. An answer is the label,
status and code of a target, a failure, or an exception. `Batch` goes on where the map
returned: tally, state file, report, exit. `IsSequential` is the refinement of
`SequentialMap`: the list grows by the answers in input order, and the exception
that surfaces is that of the first item that raised. `Summary` counts the answers by
category before the filters, as `format_summary` does.

**StateMap and StateFile.** `Changed`, `Kept` and `Merged` are the comprehensions of
`update_state`; a label that occurs twice counts with its last status. In
`StateFile` each process loads, truncates, writes and reports as separate steps
(`Load`, `Open`, `Write`, `RenderAndExit`); `reported` holds what it will report as changed.
`history` keeps what the runs saw, as the reference that the properties compare
with. Two writers over one file leave one text or a mix of both, which is no JSON.

**HttpFetch.** One thread performs fetches in a row; each has a timer thread that
raises the flag, then shuts down the sockets of *its* fetch. `detached` holds the
sockets that `wrap_socket` took over (a shutdown of the old object has no effect),
`tardy` those whose connection stood only after the deadline. Both are part of the
system because neither is in the timer's reach.

**Revocation.** Each download fails, is garbage, or is one of the documents that an
honest CA may have published (`OcspPossible`, `CrlPossible`), or a document that is not
authentic and may say anything. Signature, scope and nonce are one flag,
`authentic`; the validity window, completeness and content are kept apart,
since the verdict depends on them. `isRevoked` is the truth the verdict is
compared with; only the properties read it.

**StartTls.** A clock ticks while the client waits. `elapsed` is the age of the reply,
`waited` that of the current `recv`, `sockTimeout` what the socket was given.
Lines and replies are counted in bytes and lines against their limits.

**Options and Startup.** A layer is a record of the options it sets; `Unset` is an
option nobody gave. `LoadConfig`, `ParseArgs`, `ApplyProfile` and `Validate` are
one action each, and `Violations` is `policy_violations` together with the required
revocation check. Each layer is held to the exclusive groups by itself, so that the two may
set both options of a pair; choices are checked for the command line only. `Startup` goes on with
`_run_discover_only` or `_collect_targets`. Its lookups are items of `OrderedMap`; `Discovery` says which names, hosts and certificates a
response holds. The rows of the inventory are put in order by `StableOrder`, which is
`list.sort` with a key: equal keys keep their order. `defaultPort` is `Unset` until `ChoosePort` has
chosen it. State "inspect" is where `Batch` begins.

## Runs

Twelve runs; eight pass, four show where code and documentation part.

| Run | Instance | Shows |
|---|---|---|
| `Inspect` | 6 backends and 3 files over 8 certificates, -1, 0 and 1 retries, all options (47 thousand states) | trust and warnings are of the inspected certificate; the code is the worst problem shown; OK is earned; a required revocation check was GOOD; the text, the JSON object and the gauges each lead to that code |
| `InspectDiagnosis` | the same, plain options | **violated**: a diagnosis of the wrong chain |
| `Validity` | days of 3 ticks, 14 ticks, inspections at most 4 apart, 8 validities of leaf and issuer, every window up to 2 days, 3 schedule entries (3 million) | expiry is one notion over six readings of the clock; nothing expires or turns critical unannounced; the outputs agree on the limits; the limit applied is the tightest in force |
| `StateFile` | 3 runs of up to 2 items in sequence; 2 overlapping runs with failed opens, full disks and kills; 2 targets, 2 statuses | exactly the changes are reported; what is removed is forgotten; a readable file is one run's whole view |
| `Batch` | 3 items over 2 labels, 1 or 2 workers, 8 output modes, 3 earlier files | the map is sequential and quiet when over; exit code, Nagios status, summary, report and state agree; only an inspection that hangs keeps the run from its end |
| `HttpFetch` | 2 fetches, 1 redirect, http and https | a deadline is of its own fetch, told as such, and ends it unless the socket escaped |
| `HttpFetchTls` | 1 fetch over https | **violated**: the deadline does not end the fetch |
| `Revocation` | up to 2 issuer addresses and 2 CRLs, every document | verdicts are true; no source is skipped but after a stale CRL |
| `RevocationReleased` | with certificates released from hold | **violated**: a release is read as a revocation |
| `StartTls` | 5 protocols, 2 retries, timeout 3, lines of 3 bytes, replies of 3 lines | time limits, timeout hand-over, retries, end |
| `Startup` | 6540 pairs of a file and a command line in three families (policies of all layers; the other options with targets and outputs; discovery), 5 inputs, 2 domains in 1 or 2 threads, 6 responses of crt.sh, failures and raises (66 thousand) | limits of the command line survive every profile and every file but one that says `cab_forum = true`; tiers are nested; inspections start with options and targets that fit; discovery is all or nothing; the inventory lists each certificate once and mis-issuance is flagged |
| `OptionsExplicitFlag` | the same | **violated**: the file's `cab_forum` beats an explicit maximum |

Why the bounds are enough. Two handshakes need two different leaves, two chains
with the same leaf, one that does not verify, one expired and one self-signed:
those are five of the backends; the sixth serves a sound certificate of another host, which
fails every check but trust. Overtaking, cancelling and a raise behind a raise
need three items and two threads. A status kept over an outage needs three runs.
A late timer that could hit the wrong fetch needs two fetches, and a replaced
socket one redirect (the source allows five; a further one repeats the loop).
An unusable CRL before and after a usable one needs two. A line limit, a reply limit
and a timeout need to be reached and be crossed by one, for which three is
enough; three replies is the longest dialogue the source has. An option layer
needs a value below, above and at the preset. A certificate must begin, turn
critical and expire within the clock's horizon, between inspections closer than
the windows and farther apart: three ticks a day separate rounding down from rounding up
and from comparing instants. A first failed domain behind a slower one needs
two. The responses hold a renewal, one serial number of two issuers, a precertificate and its
certificate with other names, records without a serial number, wildcards, neighbours
and names spelt in two ways.

Deadlock is checked in every run: a finished program stutters by an explicit last
disjunct (the clock of `Validity` stops at its horizon, but the next inspection is
always possible).

### Fairness

Only the specifications whose runs check liveness assume fairness.

* `Batch`: the calling thread's own steps and each worker's `Take` are fair, since the
  operating system schedules the threads that can go on. That a call ends is not assumed
  (`CallInline`, `FinishCall`): a fetch over https need not (`HttpFetchTls`), and then the batch
  hangs with it. `OnlyACallHangs` says that nothing else does: if no call goes on for ever, every
  future is waited for, every thread joined, what an exception cancels is cleared from
  the queue, and the run reaches its exit code.
* `HttpFetch`: the fetching thread's own steps and the timer threads are fair.
  `Received` and `Redirected` are not: nothing makes a server finish.
* `StartTls`: the client's step is fair and a tick is one, since time passes. Bytes
  from the server are not obliged to come.

## Proofs

All theorems are about the same specifications that TLC runs, for any values of
the constants that satisfy the named assumptions.

Every safety and action property that a passing run checks is also a theorem. Those that
remain with TLC are named at the end of this section.

* `CommonProofs`: `TwoStageFold`, the most severe of the per-target results is the
  most severe of everything found. It rests on the ranks being a bijection. The rest of the
  module is lemmas: the least and the greatest number of a set, from the
  well-foundedness of inclusion on finite sets; what a filter keeps (`SelectProperties`) and a
  count adds up to (`CountOfConcat`); that a stable sort lists each entry once and in order
  (`StableOrderSorts`). Induction over a list goes through the least number that
  breaks the claim.
* `InspectProofs`: the invariant `IInv` adds to the checked properties what the
  report holds at each `pc` (`Reading`, `Unreported`), that each verdict is the
  inspected certificate's (`Verdicts`), where the verified path comes from
  (`Paths`), and that the collected codes are exactly the problems shown
  (`CodesAgree`). None of the properties is inductive without these: that the code
  is the worst problem shown, for one, needs to know that no code was collected
  for a check whose result is not in the report yet. From it follow
  `TypeCorrect`, `TrustIsSound`, `WarningsAreSound`, `CodeAgreesWithReport`,
  `RevocationIsRequired` and `OkIsSound`, for any backends, chains, certificates,
  options and retries. `OutputsAreSound` and `AlarmsAreSound` take it to the outputs: each
  problem counted in the code has the entry that its reader looks for, and each alarm the
  code, whichever parts of the report the options left out. Assumptions: a verified path
  begins with the leaf presented, facts are well typed, and `_validate_args` passed the options.
* `VerdictProofs`, revocation: `GoodIsSound`, `RevokedIsSound` and `UnavailableIsLast` for any
  number of addresses. The
  invariant says that no CRL was read before the OCSP step ended, so that the last
  document is the decisive one, and that a verdict is given only at the end and with an
  issuer. The second assumes `~Holds`, and `RevocationReleased` shows that it must. The third
  needs that as many distribution points were tried as documents are kept (`ExhaustiveInv`).
* `VerdictProofs`, time: `ExpiryIsSound`, `CapIsSound`, `OutputsAgreeInTime` and
  `ExpiryIsAnnounced` for any validities, windows, schedule, length of a day and pace of the
  clock. `TimeInv` keeps which instant the days were counted from
  (`Counted`), that the status is the one those days give (`Rated`), what is
  known of an expired leaf at each step (`Explained`: it can only fail the verification, since a
  later reading of the clock finds it still expired), and that a VALID report left the whole warning
  window to the next (`Announced`). Negative days and an instant in the past are tied by
  `DaysBelow`: `x div Day < k` just when `x < Day * k`, which needs the rounding
  down. Assumptions: `--critical-days` is at most `--days`, as
  `_validate_args` demands; the schedule gets tighter with time. `OutputsAgreeInTime` has the
  hypothesis `SensibleWindows`, no negative critical window: nothing refuses
  `--critical-days -1`, and with it the performance data rate a certificate that
  expired within the last day WARNING while the plugin reports CRITICAL.
* `OrderedMapProofs`: `PoolIsSequential`, the pool implements `SequentialMap` for any
  items, threads, answers and exceptions, and `MapLeavesNoThread`. The step from a
  collected future to the list's next element needs three facts that no property states:
  an item runs in one thread only and nobody touches its future meanwhile
  (`OneThreadEach`), a finished item's answer is one of its own (`AnswersFit`), and
  the collected answers are still those of the items (`ResultIsAnswers`). That no thread is
  left rests on `IdleOutside`, which `Join` establishes.
* `BatchProofs`, the batch: a run is a run of the pool (`BatchIsAPool`), so both results carry
  over (`BatchIsSequential`, `BatchIsQuiet`). `BatchInv` adds that the tally's codes are those of
  the list, in order (`CodesOfResult`), and that results and errors together hold the same
  codes (`CodesOfLists`). With `ResultIsAnswers` of the pool the codes are those the
  inspections found, which gives `ExitIsSound`. `NagiosIsSound` needs besides that the
  plugin's severities are monotone in the order of the exit codes (`SeverityIsMonotone`).
  `LedgerInv` counts: after `k` answers, every target and every category occurs in the
  two lists as often as among those answers, and what is printed is made of the lists. From it
  follow `EveryTargetIsAccountedFor`, `SummaryIsSound` and `NoChangeIsHidden`.
  Assumption: an answer carries the code 1 exactly when it is a failure.
* `BatchProofs`, the state file: `StateInv` holds under any overlap and fault. It keeps, for each
  process on its way, the place of its run in the history, so that whatever is
  in the file is a run's whole view: `NothingStaleIsKept`, `WhatIsSeenIsSaved`. `CalmInv` is
  about one process without faults, where the file is what the history last knew of
  each target (`KnownIn`, by the greatest run that did not fail on it), through outages,
  removals and duplicates: `ChangesAreExact`. Assumption: finitely many processes.
* `HttpFetchProofs`: `CutIsTold` and `DeadlineIsOwn` for any number of fetches and redirects.
  The invariant follows the flag: only a raised flag lets sockets be shut down
  (`Timers`), the transfer goes over the current fetch's own socket (`Transfer`), and a
  cut fetch still has a test of the flag before it, or has told (`Told`).
* `StartTlsProofs`: `RepliesAreBounded`, `HandshakeTimeout`, `RetriesAreSpent` and
  `RetriesAreForTransients` for any timeout, limits and retries. The invariant
  `Clocks` is the sum behind the deadline: what is left of the socket's timeout is what is
  left of the reply's.
* `StartupProofs`: `StartIsTyped`, `StartIsSound`, `ExplicitLimitsInForce` and `TiersNest` for
  any set of scenarios, inputs, domains and certificates. `SoundInv` carries what
  `_validate_args` established through the lookups to the first inspection, together with what
  `_collect_targets` refused; `LimitsInv` follows the command line's limits through the
  layers, `LayersInv` their types. `ExplicitLimitsInForce` holds for every configuration file and
  says what becomes of each limit: key size, TLS version and maximum validity are kept,
  and the validity limit in force is the one given unless the file says `cab_forum = true`, when
  it is the CA/Browser Forum's (the divergence that `OptionsExplicitFlag` shows). `TiersNest` goes through `StricterOptions`: options at least
  as strict, one by one, accept no certificate that the weaker ones refuse. `DiscoveryAborts`
  is the pool's invariant once more (`LookupInv`): an inventory or a list of hosts exists only when
  every domain answered, and the domain blamed is the first that did not; `TargetsInv` says which
  hosts are listed then. `InventoryIsListed` and
  `MisissuanceIsReported` rest on `InventoryInv`, that the rows are those of the answers, and on
  lemmas on `discover_certificates`: records of one certificate are those of one key
  (`KeyOfCertificate`), each key has one slot, each slot one row, and the sort loses and
  repeats none. The theorem names the record that each row shows: no two rows show one
  certificate, and no logged certificate is without a row. Assumptions:
  both layers set known options to values of their kind, the
  command line passed argparse's exclusive groups and choices, and no number is
  `Unset` (`OptionsAssumption`); the domains looked up are those asked for and `N` is their
  number, and crt.sh answers with records (`StartupAssumption`); names are sorted strings
  (`DiscoveryAssumption`).

Only model-checked: the liveness properties `OnlyACallHangs`, `Terminates` and
`DeadlineEndsPlainFetch`, which need fairness, since `ENABLED` is beyond the provers; and the
four violations.

## Where code and documentation part

Each has a run that shows it, and an entry under `findings`:

1. The diagnosis of an untrusted host is computed from the first handshake's
   chain even if the second one failed for another chain (`cli.py:339`).
2. A fetch over https outlives its deadline for as long as the server sends
   (`httpfetch.py:234`).
3. A removal from a delta CRL counts as a revocation (`revocation.py:380`).
4. `cab_forum = true` in a configuration file beats `--not-after-max` on the
   command line (`cli.py:384`); the same holds of `csv` against `--json`
   (`render.py:112`; README 1421).

Met while modelling, followed by the models as the code has it, without a run of its
own:

* A certificate that is NOT YET VALID has the gauge `certinspect_cert_valid` 1, though its
  help text says "within its validity window" (`formatter.py:621`), and perfdata that
  rates it OK. `OutputsAgree` and `AlarmsMatchTheCode` leave this status out by name.
* `--exit-zero`, "Always exit 0, even on problems or fetch errors" (README 640), is not
  honoured by a failed discovery, an unreadable `--input` or a usage error found after the
  lookups.
* A verification handshake that cannot connect hides an already known bad
  certificate behind code 1.
* A stale CRL ends the search; undated answers count as current.
* A full disk between an outage and the recovery turns the recovery into a change.
* A connection that stands only after the deadline is out of the timer's reach over http
  too (set `Schemes` to `{"http"}` and `SlowConnect` to TRUE in `HttpFetchTls.cfg`).
* The inventory of several domains is not "soonest expiry first": `_run_discover_only`
  (`cli.py:527`) appends the rows of one domain after those of the other, each sorted by itself,
  where its docstring (`cli.py:515`), the help of `--discover-only` (`args.py:297`) and README 631
  promise the order for the whole list. `InventoryIsComplete` states the order of each
  domain, which is what `discover_certificates` promises (`discover.py:93`).
* Records without a serial number are merged by their names, so that a renewal, or a
  certificate of another issuer, may disappear; `InventoryIsComplete` takes them for one
  certificate and `MisissuanceIsFlagged` promises nothing for those.
* E-mail identities of CT records that end in the domain pass as host names, and a host
  found under two domains is inspected twice.
* A crt.sh element that is no JSON object, and an `--input` that is not UTF-8, end the
  run with a traceback.
* Command line lists are appended to those of the file. A profile or a STARTTLS protocol
  that only a file can name is a `KeyError`; an exporter that only a file can name falls through to
  the text output; an unknown `min_tls_version` is never compared.
* `--port 443 --starttls smtp` becomes port 587, since 443 cannot be told from the default;
  state labels leave out the default port of their run.
* A negative `--critical-days` is accepted; the performance data then rate an expired
  certificate more mildly than the plugin does.
* `--retries -1` ends in a `TypeError`; a negative `--max-days` hides all but expired
  certificates.
* The CA/Browser Forum limit is chosen by the local date, the validity counted in UTC.

## Not modelled

* The decoding of X.509, OCSP and CRL bytes, the matching of names, and the building of
  verified paths (`cryptography`, OpenSSL): functions of bytes, given as constants.
* The layouts of the reports, `--sort`, the CSV columns, `--field` and schema 1, which print
  fields of the report unchanged or permute its lines.
* `completion.py`: a script printed from the parser's table of options. `args.py` is modelled by the
  rules its options have for each other; argparse itself (abbreviations, types, help) is
  external.
* Which addresses `httpfetch` refuses to connect to: one outcome of connecting; a
  proxy's reply to CONNECT likewise.
* The time a whole inspection may take, as the sum of its handshakes and fetches: each part
  has its limits, or the lack of one (a fetch over https), in its own module.

## Plan

Done, in this order: `ExitCodes` and `Inspect` (the program's own logic), `OrderedMap`,
`StateFile` and `Batch` (concurrency and persistence), `HttpFetch`, `Revocation`, `StartTls`
(what they wait for), `Options`, `Discovery` and `Startup` (what comes before), `Report` and
`Validity` (what comes out, and when); then the proofs of every safety property.

Next, to prove: that `Batch`, for one process and the map it computes, is a step of
`StateFile`, and that the answers of its inspections are what `Inspect` allows, so that the
theorems of the parts compose to one about `main`.

Next, to model: the composition of `Revocation` with `HttpFetch`, for how long an inspection may
take; the overlap of two whole batches rather than of their state file steps.
