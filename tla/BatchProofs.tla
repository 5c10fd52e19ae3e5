---------------------------- MODULE BatchProofs ----------------------------
(***************************************************************************)
(* One run over any number of targets, threads and output modes: the map   *)
(* inside it is the sequential one; the exit code, also the one of the     *)
(* Nagios exporter, is that of the worst answer; the report and its        *)
(* summary account for every target.  And the state file between runs,     *)
(* which miss no change, invent none and keep nothing stale.               *)
(***************************************************************************)
EXTENDS Batch, StateFile, OrderedMapProofs, CommonProofs

\* The steps after the map leave the pool alone.
LEMMA BatchIsAPool == BatchSpec => PoolSpec
  <1>1. BatchInit => PoolInit
    BY DEF BatchInit
  <1>2. [BatchNext]_batchVars => [PoolStep]_poolVars
    BY DEF BatchNext, BatchStep, Inspecting, Abort, Mapped, Tally, Tallied, UpdateState,
         Render, batchVars
  <1>. QED
    BY <1>1, <1>2, PTL DEF BatchSpec, PoolSpec

\* The map inside the run implements the list comprehension, and is quiet when
\* the state file and the report are made.
THEOREM BatchIsSequential == BatchSpec => IsSequential
  BY BatchIsAPool, PoolIsSequential, PTL

THEOREM BatchIsQuiet == BatchSpec => QuietWhenOver
  BY BatchIsAPool, MapLeavesNoThread, PTL

-----------------------------------------------------------------------------
(* The invariant                                                            *)

\* The types of what the tally fills.
TallyTypes ==
  /\ results \in Seq(BatchAnswer) /\ errors \in Seq(BatchAnswer) /\ codes \in Seq(Codes)
  /\ phase \in {"map", "tally", "state", "render", "exited", "aborted"}

\* The tail of main runs after a map that returned.
TailAfterMap == phase \notin {"map", "aborted"} => main = "returned"

\* One code per answer tallied, in order, the failures' code included.
CodesOfResult ==
  /\ Len(codes) <= Len(result)
  /\ \A i \in Item : i <= Len(codes) => codes[i] = result[i].code
  /\ phase = "map" => Len(codes) = 0
  /\ phase \in {"state", "render", "exited"} => Len(codes) = Len(result)

\* The two lists of the tally hold the same codes, failures apart.
CodesOfLists ==
  Entries(codes) = {results[i].code : i \in DOMAIN results}
                      \cup (IF errors = <<>> THEN {} ELSE {RUNTIME_ERROR})

\* What the process ended with.
ExitOfCodes ==
  phase = "exited" /\ ~out.exitZero =>
    exit = IF out.exporter = "nagios" THEN NagiosExit(results, errors)
           ELSE MostSevere(Entries(codes))

BatchInv == PoolInv /\ TallyTypes /\ TailAfterMap /\ CodesOfResult /\ CodesOfLists /\ ExitOfCodes

\* An answer is well formed; a failure carries the runtime error.
LEMMA AnswerFacts ==
  ASSUME NEW a \in AnyAnswer
  PROVE  /\ a \in BatchAnswer /\ a.code \in Codes
         /\ a.status = Failed => a.code = RUNTIME_ERROR
  BY BatchAssumption DEF AnyAnswer, BatchAnswer

\* The codes of a list of reports, of one more report.
LEMMA CodesOfAppend ==
  ASSUME NEW s \in Seq(BatchAnswer), NEW a \in BatchAnswer
  PROVE  {Append(s, a)[i].code : i \in DOMAIN Append(s, a)}
           = {s[i].code : i \in DOMAIN s} \cup {a.code}
  <1>1. /\ Len(s) \in Nat
        /\ \A i \in 1..Len(s) : Append(s, a)[i] = s[i]
        /\ Append(s, a)[Len(s) + 1] = a
        /\ DOMAIN s = 1..Len(s) /\ DOMAIN Append(s, a) = 1..(Len(s) + 1)
    BY AppendProperties, LenProperties
  <1>. QED
    BY <1>1

LEMMA InitBatchInv == BatchInit => BatchInv
  <1>. SUFFICES ASSUME BatchInit PROVE BatchInv
    OBVIOUS
  <1>1. PoolInv /\ result = <<>> /\ results = <<>> /\ errors = <<>> /\ codes = <<>> /\ phase = "map"
    BY InitPoolInv DEF BatchInit, PoolInit
  <1>2. Entries(codes) = {} /\ {results[i].code : i \in DOMAIN results} = {}
    BY <1>1 DEF Entries
  <1>. QED
    BY <1>1, <1>2, EmptySeq, Bounds DEF BatchInv, TallyTypes, TailAfterMap, CodesOfResult,
      CodesOfLists, ExitOfCodes, Item

\* A step of the map: the tally has not begun.
LEMMA InspectingInv == BatchInv /\ Inspecting => BatchInv'
  <1>. SUFFICES ASSUME BatchInv, Inspecting PROVE BatchInv'
    OBVIOUS
  <1>1. PoolInv'
    BY NextPoolInv DEF BatchInv, Inspecting
  <1>2. Len(result') \in Nat
    BY <1>1, LenProperties DEF PoolInv, PoolTypeOK
  <1>3. phase = "map" /\ phase' = "map"
        /\ UNCHANGED <<out, results, errors, codes, exit>>
    BY DEF Inspecting, tailVars
  <1>4. TallyTypes' /\ TailAfterMap' /\ ExitOfCodes'
    BY <1>3 DEF BatchInv, TallyTypes, TailAfterMap, ExitOfCodes
  <1>5. CodesOfResult'
    BY <1>2, <1>3 DEF BatchInv, CodesOfResult, Item
  <1>6. CodesOfLists'
    BY <1>3 DEF BatchInv, CodesOfLists, Entries
  <1>. QED
    BY <1>1, <1>4, <1>5, <1>6 DEF BatchInv

\* A round of the tally.
LEMMA TallyInv == BatchInv /\ Tally => BatchInv'
  <1>. SUFFICES ASSUME BatchInv, Tally PROVE BatchInv'
    OBVIOUS
  <1>. DEFINE n == Len(codes) + 1
              a == result[n]
  <1>1. /\ result \in Seq(AnyAnswer) /\ Len(result) \in Nat /\ Len(result) <= N
        /\ codes \in Seq(Codes) /\ Len(codes) \in Nat
    BY LenProperties DEF BatchInv, PoolInv, PoolTypeOK, TallyTypes
  <1>2. n \in 1..Len(result) /\ a \in AnyAnswer
    BY <1>1, ElementOfSeq DEF Tally
  <1>3. a \in BatchAnswer /\ a.code \in Codes /\ (a.status = Failed => a.code = RUNTIME_ERROR)
    BY <1>2, AnswerFacts
  <1>4. codes' = Append(codes, a.code)
    BY <1>3 DEF Tally
  <1>5. /\ codes' \in Seq(Codes) /\ Len(codes') = n
        /\ \A i \in 1..Len(codes) : codes'[i] = codes[i]
        /\ codes'[n] = a.code
        /\ Entries(codes') = Entries(codes) \cup {a.code}
    BY <1>1, <1>3, <1>4, EntriesOfAppend
  <1>6. /\ UNCHANGED <<poolVars, phase, out, exit>>
        /\ PoolInv' /\ phase = "tally" /\ UNCHANGED result
    BY DEF Tally, poolVars, BatchInv, PoolInv, PoolTypeOK, AnswersFit, JoinedIsComplete,
      IdleOutside, PoolIsIdle, OneThreadEach, ResultIsAnswers
  <1>7. TailAfterMap' /\ ExitOfCodes'
    BY <1>6 DEF BatchInv, TailAfterMap, ExitOfCodes, poolVars
  <1>8. CodesOfResult'
    BY <1>1, <1>2, <1>5, <1>6 DEF BatchInv, CodesOfResult, Item
  <1>9. CASE a.status = Failed
    <2>1. errors' = Append(errors, a) /\ results' = results
      BY <1>9 DEF Tally
    <2>2. errors' \in Seq(BatchAnswer) /\ errors' # <<>>
      BY <2>1, <1>3, EntriesOfAppend DEF BatchInv, TallyTypes
    <2>3. CodesOfLists'
      BY <1>3, <1>5, <1>9, <2>1, <2>2 DEF BatchInv, CodesOfLists
    <2>. QED
      BY <1>5, <1>6, <1>7, <1>8, <2>1, <2>2, <2>3 DEF BatchInv, TallyTypes
  <1>10. CASE a.status # Failed
    <2>1. results' = Append(results, a) /\ errors' = errors
      BY <1>10 DEF Tally
    <2>2. results' \in Seq(BatchAnswer)
      BY <2>1, <1>3, EntriesOfAppend DEF BatchInv, TallyTypes
    <2>3. {results'[i].code : i \in DOMAIN results'}
            = {results[i].code : i \in DOMAIN results} \cup {a.code}
      <3>1. results \in Seq(BatchAnswer) /\ a \in BatchAnswer
        BY <1>3 DEF BatchInv, TallyTypes
      <3>. HIDE DEF a
      <3>. QED
        BY <2>1, <3>1, CodesOfAppend
    <2>4. CodesOfLists'
      BY <1>5, <2>1, <2>3 DEF BatchInv, CodesOfLists
    <2>. QED
      BY <1>5, <1>6, <1>7, <1>8, <2>1, <2>2, <2>4 DEF BatchInv, TallyTypes
  <1>. QED
    BY <1>9, <1>10

\* The other steps of main leave the pool and the tally as they are.
LEMMA TailInv ==
  BatchInv /\ (Abort \/ Mapped \/ Tallied \/ UpdateState \/ Render \/ UNCHANGED batchVars)
    => BatchInv'
  <1>. SUFFICES ASSUME BatchInv,
                       Abort \/ Mapped \/ Tallied \/ UpdateState \/ Render \/ UNCHANGED batchVars
                PROVE  BatchInv'
    OBVIOUS
  <1>1. UNCHANGED <<poolVars, out, results, errors, codes>>
    BY DEF Abort, Mapped, Tallied, UpdateState, Render, batchVars, tailVars
  <1>2. PoolInv' /\ UNCHANGED <<main, result>>
    BY <1>1 DEF poolVars, BatchInv, PoolInv, PoolTypeOK, AnswersFit, JoinedIsComplete,
      IdleOutside, PoolIsIdle, OneThreadEach, ResultIsAnswers
  <1>3. CodesOfLists' /\ TallyTypes'
    <2>1. phase' = phase \/ phase' \in {"aborted", "tally", "state", "render", "exited"}
      BY DEF Abort, Mapped, Tallied, UpdateState, Render, batchVars, tailVars
    <2>2. TallyTypes'
      BY <1>1, <2>1 DEF BatchInv, TallyTypes
    <2>3. CodesOfLists'
      BY <1>1 DEF BatchInv, CodesOfLists, Entries
    <2>. QED
      BY <2>2, <2>3
  <1>4. TailAfterMap'
    BY <1>2 DEF BatchInv, TailAfterMap, Abort, Mapped, Tallied, UpdateState, Render, batchVars,
      tailVars
  <1>5. CodesOfResult'
    BY <1>1, <1>2 DEF BatchInv, CodesOfResult, Abort, Mapped, Tallied, UpdateState, Render,
      batchVars, tailVars
  <1>6. ExitOfCodes'
    <2>1. CASE Render
      <3>1. exit' = IF out.exitZero THEN 0
                    ELSE IF out.exporter = "nagios" THEN NagiosExit(results, errors)
                    ELSE MostSevere(Entries(codes))
        BY <2>1 DEF Render
      <3>. QED
        BY <3>1, <1>1 DEF ExitOfCodes
    <2>2. CASE UNCHANGED batchVars
      <3>1. UNCHANGED <<phase, out, exit>>
        BY <2>2 DEF batchVars, tailVars
      <3>. QED
        BY <3>1, <1>1 DEF BatchInv, ExitOfCodes
    <2>3. CASE Abort \/ Mapped \/ Tallied \/ UpdateState
      BY <2>3 DEF ExitOfCodes, Abort, Mapped, Tallied, UpdateState
    <2>. QED
      BY <2>1, <2>2, <2>3
  <1>. QED
    BY <1>2, <1>3, <1>4, <1>5, <1>6 DEF BatchInv

\* The invariant of a run.
THEOREM BatchIsConsistent == BatchSpec => []BatchInv
  <1>1. BatchInv /\ [BatchNext]_batchVars => BatchInv'
    BY InspectingInv, TallyInv, TailInv DEF BatchNext, BatchStep
  <1>. QED
    BY <1>1, InitBatchInv, PTL DEF BatchSpec

-----------------------------------------------------------------------------
(* The exit code                                                            *)

\* At the end every answer has been tallied, with its code.
LEMMA CodesAreFound ==
  ASSUME BatchInv, phase = "exited"
  PROVE  Entries(codes) = Found /\ Found \subseteq Codes /\ Found # {}
  <1>1. Len(codes) = N /\ Len(result) = N /\ codes \in Seq(Codes)
    BY DEF BatchInv, CodesOfResult, TailAfterMap, PoolInv, JoinedIsComplete, TallyTypes
  <1>2. DOMAIN codes = Item /\ \A i \in Item : codes[i] = answer[i].code /\ codes[i] \in Codes
    BY <1>1, LenProperties, ElementOfSeq, Bounds DEF BatchInv, CodesOfResult, PoolInv,
      ResultIsAnswers, Item
  <1>3. 1 \in Item
    BY Bounds DEF Item
  <1>. QED
    BY <1>2, <1>3 DEF Entries, Found

\* A failed target is counted and the others are inspected and tallied all the
\* same: the exit code is the worst of all the answers, for any number of targets
\* and threads and any output mode (main, most_severe).
THEOREM ExitIsSound == BatchSpec => []ExitIsTheWorstFound
  <1>1. BatchInv => ExitIsTheWorstFound
    BY CodesAreFound DEF BatchInv, ExitOfCodes, ExitIsTheWorstFound
  <1>. QED
    BY <1>1, BatchIsConsistent, PTL

\* The order of the exit codes and the severities of the plugin agree.
LEMMA SeverityIsMonotone ==
  ASSUME NEW c \in Codes, NEW d \in Codes, AtLeastAsSevere(c, d)
  PROVE  NagiosSeverity(d) <= NagiosSeverity(c)
  <1>1. /\ SeverityOrder[8] = 3 /\ SeverityOrder[9] = 0
    BY DEF SeverityOrder, ExitCode
  <1>2. /\ SeverityRank[c] \in 1..9 /\ SeverityRank[d] \in 1..9
        /\ SeverityRank[c] = 8 => c = 3
        /\ SeverityRank[c] = 9 => c = 0
        /\ SeverityRank[d] = 8 => d = 3
        /\ SeverityRank[d] = 9 => d = 0
    BY <1>1, RankOfCode
  <1>3. SeverityRank[0] = 9 /\ SeverityRank[3] = 8
    <2>1. SeverityRank[3] \in 1..9 /\ SeverityOrder[SeverityRank[3]] = 3
      BY RankOfCode DEF Codes
    <2>2. \A i \in 1..9 : SeverityOrder[i] = 3 => i = 8
      BY DEF SeverityOrder, ExitCode, RUNTIME_ERROR
    <2>. QED
      BY <2>1, <2>2, RankOfCode
  <1>4. SeverityRank[c] <= SeverityRank[d]
    BY DEF AtLeastAsSevere
  <1>. QED
    BY <1>2, <1>3, <1>4 DEF NagiosSeverity, ExitCode

\* The plugin code of a set of codes, as the maximum of their severities.
LEMMA WorstSeverity ==
  ASSUME NEW S, S \subseteq Codes, S # {}
  PROVE  (CHOOSE s \in {NagiosSeverity(c) : c \in S} :
            \A v \in {NagiosSeverity(c) : c \in S} : v <= s) = NagiosSeverity(MostSevere(S))
  <1>. DEFINE V == {NagiosSeverity(c) : c \in S}
              w == NagiosSeverity(MostSevere(S))
  <1>1. MostSevere(S) \in S /\ \A d \in S : AtLeastAsSevere(MostSevere(S), d)
    BY MostSevereWins
  <1>2. w \in V /\ \A v \in V : v <= w
    BY <1>1, SeverityIsMonotone
  <1>3. V \subseteq Int
    BY DEF NagiosSeverity
  <1>. HIDE DEF V, w
  <1>. DEFINE m == CHOOSE s \in V : \A v \in V : v <= s
  <1>4. m = w
    <2>1. m \in V /\ \A v \in V : v <= m
      BY <1>2
    <2>. HIDE DEF m
    <2>. QED
      BY <1>2, <1>3, <2>1
  <1>. QED
    BY <1>4 DEF V, w

\* --exporter nagios ends with the plugin code of the worst answer: format_nagios
\* and most_severe, which rank the codes separately, never contradict each other.
THEOREM NagiosIsSound == BatchSpec => []NagiosAgrees
  <1>1. ASSUME BatchInv, phase = "exited", ~out.exitZero, out.exporter = "nagios"
        PROVE  exit = NagiosSeverity(MostSevere(Found))
    <2>1. Entries(codes) = Found /\ Found \subseteq Codes /\ Found # {}
      BY <1>1, CodesAreFound
    <2>2. NagiosSeverity(RUNTIME_ERROR) = 2
      BY DEF NagiosSeverity, RUNTIME_ERROR, ExitCode
    <2>3. {NagiosSeverity(results[i].code) : i \in DOMAIN results}
             \cup (IF errors = <<>> THEN {} ELSE {2}) = {NagiosSeverity(c) : c \in Found}
      BY <1>1, <2>1, <2>2 DEF BatchInv, CodesOfLists
    <2>4. NagiosExit(results, errors) = NagiosSeverity(MostSevere(Found))
      <3>. DEFINE V == {NagiosSeverity(results[i].code) : i \in DOMAIN results}
                         \cup (IF errors = <<>> THEN {} ELSE {2})
                  W == {NagiosSeverity(c) : c \in Found}
      <3>1. NagiosExit(results, errors)
              = IF V = {} THEN 3 ELSE CHOOSE s \in V : \A v \in V : v <= s
        BY DEF NagiosExit
      <3>2. (CHOOSE s \in W : \A v \in W : v <= s) = NagiosSeverity(MostSevere(Found))
        BY <2>1, WorstSeverity
      <3>3. V = W /\ W # {}
        BY <2>1, <2>3
      <3>. HIDE DEF V, W
      <3>. QED
        BY <3>1, <3>2, <3>3
    <2>. QED
      BY <1>1, <2>4 DEF BatchInv, ExitOfCodes
  <1>2. BatchInv => NagiosAgrees
    BY <1>1 DEF NagiosAgrees
  <1>. QED
    BY <1>2, BatchIsConsistent, PTL
-----------------------------------------------------------------------------
(* The report and the summary                                               *)

OfTarget(t)   == {a \in BatchAnswer : a.target = t}
OfCategory(c) == {a \in BatchAnswer : CategoryOf(a) = c}

TalliedOf(t) == {i \in 1..Len(codes) : result[i].target = t}

\* The tally sorts the answers by status.
ListsByStatus ==
  /\ \A i \in DOMAIN results : results[i].status # Failed
  /\ \A i \in DOMAIN errors : errors[i].status = Failed

\* It loses none of a target's answers and invents none; a failed one has its
\* line on stderr when the report is a text.
TargetsTallied ==
  /\ stderr \in Seq(Targets)
  /\ \A t \in Targets :
       /\ Cardinality(TalliedOf(t)) = Count(results, OfTarget(t)) + Count(errors, OfTarget(t))
       /\ Count(stderr, {t}) = IF out.exporter = "none" THEN Count(errors, OfTarget(t)) ELSE 0

\* Every answer tallied is in one category of the summary.
CategoryCounts ==
  [c \in Category |-> Count(results, OfCategory(c)) + Count(errors, OfCategory(c))]

CategoriesTallied == Counted(CategoryCounts) = Len(codes)

\* What is shown is made from the two lists, and so are the changes it filters by.
ChangesOfLists ==
  /\ out \in OutputSets
  /\ phase \in {"render", "exited"} /\ out.stateFile =>
       changed = Changed(loaded, results \o errors)

ReportOfLists ==
  phase = "exited" =>
    /\ report = Report(results, errors)
    /\ summary = IF out.summary /\ out.exporter = "none" THEN Summary(results, errors)
                 ELSE NoSummary

LedgerInv ==
  ListsByStatus /\ TargetsTallied /\ CategoriesTallied /\ ChangesOfLists /\ ReportOfLists

\* The categories are told apart, and each of them stands for its exit code.
LEMMA CategoryFacts ==
  ASSUME NEW a \in BatchAnswer
  PROVE  /\ CategoryOf(a) \in Category
         /\ CodeOf[CategoryOf(a)] = a.code
  <1>1. CategoryOf(a) \in Category
    BY ZenonT(60) DEF CategoryOf, Category
  <1>2. a.code \in Codes /\ (a.status = Failed <=> a.code = RUNTIME_ERROR)
    BY DEF BatchAnswer
  <1>. QED
    BY <1>1, <1>2, ZenonT(60) DEF CodeOf, Category, CategoryOf, Codes, ExitCode, RUNTIME_ERROR

\* One more answer adds one to the count of one category.
LEMMA CountedOneMore ==
  ASSUME NEW g \in [Category -> Nat], NEW h \in [Category -> Nat], NEW d \in Category,
         h[d] = g[d] + 1, \A c \in Category \ {d} : h[c] = g[c]
  PROVE  Counted(h) = Counted(g) + 1
  BY DEF Counted, Category

LEMMA InitLedgerInv == BatchInit => LedgerInv
  <1>. SUFFICES ASSUME BatchInit PROVE LedgerInv
    OBVIOUS
  <1>1. /\ results = <<>> /\ errors = <<>> /\ codes = <<>> /\ stderr = <<>>
        /\ phase = "map" /\ out \in OutputSets
    BY DEF BatchInit
  <1>2. stderr \in Seq(Targets) /\ \A V : Count(<<>>, V) = 0
    BY <1>1, EmptySeq, CountIsNatural
  <1>3. ListsByStatus /\ ChangesOfLists /\ ReportOfLists
    BY <1>1 DEF ListsByStatus, ChangesOfLists, ReportOfLists
  <1>4. Len(codes) = 0 /\ \A t \in Targets : Cardinality(TalliedOf(t)) = 0
    <2>1. \A t \in Targets : TalliedOf(t) = {}
      BY <1>1, EmptySeq DEF TalliedOf
    <2>. QED
      BY <1>1, <2>1, EmptySeq, FS_EmptySet
  <1>5. TargetsTallied
    BY <1>1, <1>2, <1>4 DEF TargetsTallied
  <1>6. CategoriesTallied
    BY <1>1, <1>2, <1>4 DEF CategoriesTallied, CategoryCounts, Counted, Category
  <1>. QED
    BY <1>3, <1>5, <1>6 DEF LedgerInv

\* What a round of the tally does to the lists.
LEMMA TallyFacts ==
  ASSUME BatchInv, Tally
  PROVE  \E a \in BatchAnswer :
           /\ Len(codes) \in Nat /\ a = result[Len(codes) + 1] /\ a.target \in Targets
           /\ codes' = Append(codes, a.code) /\ Len(codes') = Len(codes) + 1
           /\ UNCHANGED <<result, out, phase>> /\ phase = "tally"
           /\ \/ /\ a.status = Failed /\ errors' = Append(errors, a) /\ results' = results
                 /\ stderr' = IF out.exporter = "none" THEN Append(stderr, a.target) ELSE stderr
              \/ /\ a.status # Failed /\ results' = Append(results, a) /\ errors' = errors
                 /\ stderr' = stderr
  <1>. DEFINE a == result[Len(codes) + 1]
  <1>1. /\ result \in Seq(AnyAnswer) /\ Len(result) \in Nat
        /\ codes \in Seq(Codes) /\ Len(codes) \in Nat
    BY LenProperties DEF BatchInv, PoolInv, PoolTypeOK, TallyTypes
  <1>2. a \in AnyAnswer
    BY <1>1, ElementOfSeq DEF Tally
  <1>3. a \in BatchAnswer /\ a.code \in Codes /\ (a.status = Failed => a.code = RUNTIME_ERROR)
    BY <1>2, AnswerFacts
  <1>4. a.target \in Targets
    BY <1>3 DEF BatchAnswer
  <1>5. codes' = Append(codes, a.code) /\ UNCHANGED <<result, out, phase>> /\ phase = "tally"
    BY <1>3 DEF Tally, poolVars
  <1>6. Len(codes') = Len(codes) + 1
    BY <1>1, <1>3, <1>5, EntriesOfAppend
  <1>7. \/ /\ a.status = Failed /\ errors' = Append(errors, a) /\ results' = results
           /\ stderr' = IF out.exporter = "none" THEN Append(stderr, a.target) ELSE stderr
        \/ /\ a.status # Failed /\ results' = Append(results, a) /\ errors' = errors
           /\ stderr' = stderr
    BY DEF Tally
  <1>. QED
    BY <1>1, <1>3, <1>4, <1>5, <1>6, <1>7

LEMMA TallyLedgerInv == BatchInv /\ LedgerInv /\ Tally => LedgerInv'
  <1>. SUFFICES ASSUME BatchInv, LedgerInv, Tally PROVE LedgerInv'
    OBVIOUS
  <1>1. PICK a \in BatchAnswer :
           /\ Len(codes) \in Nat /\ a = result[Len(codes) + 1] /\ a.target \in Targets
           /\ codes' = Append(codes, a.code) /\ Len(codes') = Len(codes) + 1
           /\ UNCHANGED <<result, out, phase>> /\ phase = "tally"
           /\ \/ /\ a.status = Failed /\ errors' = Append(errors, a) /\ results' = results
                 /\ stderr' = IF out.exporter = "none" THEN Append(stderr, a.target) ELSE stderr
              \/ /\ a.status # Failed /\ results' = Append(results, a) /\ errors' = errors
                 /\ stderr' = stderr
    BY TallyFacts
  <1>2. results \in Seq(BatchAnswer) /\ errors \in Seq(BatchAnswer) /\ stderr \in Seq(Targets)
    BY DEF BatchInv, TallyTypes, LedgerInv, TargetsTallied
  <1>3. \A V : /\ Count(results, V) \in Nat /\ Count(errors, V) \in Nat
               /\ Count(Append(results, a), V)
                    = IF a \in V THEN Count(results, V) + 1 ELSE Count(results, V)
               /\ Count(Append(errors, a), V)
                    = IF a \in V THEN Count(errors, V) + 1 ELSE Count(errors, V)
    <2>. TAKE V
    <2>1. Count(results, V) \in Nat /\ Count(errors, V) \in Nat
      BY <1>2, CountIsNatural
    <2>2. Count(Append(results, a), V)
            = IF a \in V THEN Count(results, V) + 1 ELSE Count(results, V)
      BY <1>2, CountOfAppend
    <2>3. Count(Append(errors, a), V)
            = IF a \in V THEN Count(errors, V) + 1 ELSE Count(errors, V)
      BY <1>2, CountOfAppend
    <2>. QED
      BY <2>1, <2>2, <2>3
  <1>4. \A V : /\ Count(stderr, V) \in Nat
               /\ Count(Append(stderr, a.target), V)
                    = IF a.target \in V THEN Count(stderr, V) + 1 ELSE Count(stderr, V)
    <2>. TAKE V
    <2>1. stderr \in Seq(Targets) /\ a.target \in Targets
      BY <1>1, <1>2
    <2>2. Count(stderr, V) \in Nat
      BY <2>1, CountIsNatural
    <2>. QED
      BY <2>1, <2>2, CountOfAppend
  <1>5. ListsByStatus'
    <2>1. /\ \A j \in DOMAIN Append(results, a) : Append(results, a)[j] \in Entries(results) \cup {a}
          /\ \A j \in DOMAIN Append(errors, a) : Append(errors, a)[j] \in Entries(errors) \cup {a}
      <3>1. /\ Entries(Append(results, a)) = Entries(results) \cup {a}
            /\ Entries(Append(errors, a)) = Entries(errors) \cup {a}
        BY <1>2, EntriesOfAppend
      <3>. QED
        BY <3>1 DEF Entries
    <2>2. /\ \A e \in Entries(results) : e.status # Failed
          /\ \A e \in Entries(errors) : e.status = Failed
      BY DEF LedgerInv, ListsByStatus, Entries
    <2>. QED
      BY <1>1, <2>1, <2>2 DEF LedgerInv, ListsByStatus
  <1>6. TargetsTallied'
    <2>1. stderr' \in Seq(Targets)
      <3>1. Append(stderr, a.target) \in Seq(Targets)
        BY ONLY <1>1, <1>2, AppendProperties
      <3>. QED
        BY ONLY <1>1, <1>2, <3>1
    <2>2. ASSUME NEW t \in Targets
          PROVE  /\ Cardinality(TalliedOf(t)')
                      = Count(results', OfTarget(t)) + Count(errors', OfTarget(t))
                 /\ Count(stderr', {t})
                      = IF out.exporter = "none" THEN Count(errors', OfTarget(t)) ELSE 0
      <3>1. TalliedOf(t)' = IF a.target = t THEN TalliedOf(t) \cup {Len(codes) + 1}
                            ELSE TalliedOf(t)
        BY <1>1 DEF TalliedOf
      <3>2. IsFiniteSet(TalliedOf(t)) /\ Len(codes) + 1 \notin TalliedOf(t)
        <4>1. TalliedOf(t) \subseteq 1..Len(codes) /\ IsFiniteSet(1..Len(codes))
          BY <1>1, FS_Interval DEF TalliedOf
        <4>. QED
          BY <1>1, <4>1, FS_Subset
      <3>3. Cardinality(TalliedOf(t)')
              = IF a.target = t THEN Cardinality(TalliedOf(t)) + 1 ELSE Cardinality(TalliedOf(t))
        BY <3>1, <3>2, FS_AddElement
      <3>4. a \in OfTarget(t) <=> a.target = t
        BY DEF OfTarget
      <3>5. /\ Cardinality(TalliedOf(t)) = Count(results, OfTarget(t)) + Count(errors, OfTarget(t))
            /\ Count(stderr, {t})
                 = IF out.exporter = "none" THEN Count(errors, OfTarget(t)) ELSE 0
        BY DEF LedgerInv, TargetsTallied
      <3>6. a.target \in {t} <=> a.target = t
        OBVIOUS
      <3>. DEFINE V == OfTarget(t)
                  W == {t}
                  x == a.target
      <3>7. /\ Count(results, V) \in Nat /\ Count(errors, V) \in Nat /\ Count(stderr, W) \in Nat
            /\ Count(Append(results, a), V)
                 = IF x = t THEN Count(results, V) + 1 ELSE Count(results, V)
            /\ Count(Append(errors, a), V)
                 = IF x = t THEN Count(errors, V) + 1 ELSE Count(errors, V)
            /\ Count(Append(stderr, x), W)
                 = IF x = t THEN Count(stderr, W) + 1 ELSE Count(stderr, W)
        BY <1>3, <1>4, <3>4, <3>6
      <3>. HIDE DEF V, W, x
      <3>8. CASE a.status = Failed
        <4>1. /\ errors' = Append(errors, a) /\ results' = results
              /\ stderr' = IF out.exporter = "none" THEN Append(stderr, x) ELSE stderr
          BY <1>1, <3>8 DEF x
        <4>2. Count(stderr', W) = IF out.exporter = "none" THEN Count(Append(stderr, x), W)
                                  ELSE Count(stderr, W)
          BY <4>1
        <4>. HIDE <1>1
        <4>. QED
          BY <3>3, <3>5, <3>7, <4>1, <4>2 DEF V, W, x
      <3>9. CASE a.status # Failed
        <4>1. errors' = errors /\ results' = Append(results, a) /\ stderr' = stderr
          BY <1>1, <3>9
        <4>. HIDE <1>1
        <4>. QED
          BY <3>3, <3>5, <3>7, <4>1 DEF V, W, x
      <3>. QED
        BY <3>8, <3>9
    <2>3. \A t \in Targets : OfTarget(t)' = OfTarget(t)
      BY DEF OfTarget
    <2>. QED
      BY <1>1, <2>1, <2>2, <2>3 DEF TargetsTallied
  <1>7. CategoriesTallied'
    <2>. DEFINE d == CategoryOf(a)
                g == CategoryCounts
                h == [c \in Category |->
                        Count(results', OfCategory(c)) + Count(errors', OfCategory(c))]
    <2>1. d \in Category /\ \A c \in Category : a \in OfCategory(c) <=> c = d
      BY CategoryFacts DEF OfCategory
    <2>2. \A c \in Category :
            /\ Count(results, OfCategory(c)) \in Nat /\ Count(errors, OfCategory(c)) \in Nat
            /\ Count(results', OfCategory(c)) + Count(errors', OfCategory(c))
                 = IF c = d THEN Count(results, OfCategory(c)) + Count(errors, OfCategory(c)) + 1
                   ELSE Count(results, OfCategory(c)) + Count(errors, OfCategory(c))
      <3>. HIDE DEF d
      <3>. TAKE c \in Category
      <3>. DEFINE V == OfCategory(c)
      <3>1. /\ Count(results, V) \in Nat /\ Count(errors, V) \in Nat
            /\ Count(Append(results, a), V)
                 = IF c = d THEN Count(results, V) + 1 ELSE Count(results, V)
            /\ Count(Append(errors, a), V)
                 = IF c = d THEN Count(errors, V) + 1 ELSE Count(errors, V)
        BY <1>3, <2>1
      <3>2. \/ errors' = Append(errors, a) /\ results' = results
            \/ errors' = errors /\ results' = Append(results, a)
        BY <1>1
      <3>. HIDE DEF V
      <3>3. Count(results', V) + Count(errors', V)
              = IF c = d THEN Count(results, V) + Count(errors, V) + 1
                ELSE Count(results, V) + Count(errors, V)
        <4>1. \/ /\ Count(errors', V) = Count(Append(errors, a), V)
                 /\ Count(results', V) = Count(results, V)
              \/ /\ Count(errors', V) = Count(errors, V)
                 /\ Count(results', V) = Count(Append(results, a), V)
          BY <3>2
        <4>. QED
          BY <3>1, <4>1
      <3>. QED
        BY <3>1, <3>3 DEF V
    <2>3. g \in [Category -> Nat] /\ h \in [Category -> Nat]
          /\ h[d] = g[d] + 1 /\ \A c \in Category \ {d} : h[c] = g[c]
      <3>. HIDE DEF d
      <3>. QED
        BY <2>1, <2>2 DEF CategoryCounts
    <2>4. Counted(h) = Counted(g) + 1
      <3>. HIDE DEF d, g, h
      <3>. QED
        BY <2>1, <2>3, CountedOneMore
    <2>5. CategoryCounts' = h
      BY DEF CategoryCounts, OfCategory, CategoryOf
    <2>6. Counted(CategoryCounts)' = Counted(h)
      BY <2>5 DEF Counted
    <2>. QED
      BY <1>1, <2>4, <2>6 DEF LedgerInv, CategoriesTallied
  <1>8. ChangesOfLists' /\ ReportOfLists'
    BY <1>1 DEF LedgerInv, ChangesOfLists, ReportOfLists
  <1>. QED
    BY <1>5, <1>6, <1>7, <1>8 DEF LedgerInv

\* The other steps touch neither the lists nor, once they are made, the report.
LEMMA OtherLedgerInv ==
  BatchInv /\ LedgerInv /\ (Inspecting \/ Abort \/ Mapped \/ Tallied \/ UpdateState \/ Render
                              \/ UNCHANGED batchVars)
    => LedgerInv'
  <1>. SUFFICES ASSUME BatchInv, LedgerInv,
                       Inspecting \/ Abort \/ Mapped \/ Tallied \/ UpdateState \/ Render
                         \/ UNCHANGED batchVars
                PROVE  LedgerInv'
    OBVIOUS
  <1>1. /\ UNCHANGED <<out, results, errors, codes, stderr>>
        /\ result' = result \/ Len(codes) = 0
    BY DEF Inspecting, Abort, Mapped, Tallied, UpdateState, Render, batchVars, tailVars, poolVars,
      BatchInv, CodesOfResult
  <1>2. ListsByStatus'
    BY <1>1 DEF LedgerInv, ListsByStatus
  <1>3. TargetsTallied'
    <2>1. ASSUME NEW t \in Targets PROVE TalliedOf(t)' = TalliedOf(t)
      <3>1. Len(codes) = 0 => 1..Len(codes) = {}
        OBVIOUS
      <3>. QED
        BY <1>1, <3>1 DEF TalliedOf
    <2>2. \A t \in Targets : OfTarget(t)' = OfTarget(t)
      BY DEF OfTarget
    <2>. QED
      BY <1>1, <2>1, <2>2 DEF LedgerInv, TargetsTallied
  <1>4. CategoriesTallied'
    <2>1. CategoryCounts' = CategoryCounts
      BY <1>1 DEF CategoryCounts, OfCategory, CategoryOf
    <2>2. Counted(CategoryCounts)' = Counted(CategoryCounts)
      BY <2>1 DEF Counted
    <2>. QED
      BY <1>1, <2>2 DEF LedgerInv, CategoriesTallied
  <1>5. ChangesOfLists'
    <2>1. CASE UpdateState
      BY <1>1, <2>1 DEF LedgerInv, ChangesOfLists, UpdateState
    <2>2. CASE Render
      <3>1. UNCHANGED <<changed, loaded>> /\ phase = "render"
        BY <2>2 DEF Render
      <3>. QED
        BY <1>1, <3>1 DEF LedgerInv, ChangesOfLists
    <2>3. CASE Inspecting \/ Abort \/ Mapped \/ Tallied
      <3>1. phase' \notin {"render", "exited"}
        BY <2>3 DEF Inspecting, Abort, Mapped, Tallied
      <3>. QED
        BY <1>1, <3>1 DEF LedgerInv, ChangesOfLists
    <2>4. CASE UNCHANGED batchVars
      BY <1>1, <2>4 DEF LedgerInv, ChangesOfLists, batchVars, tailVars
    <2>. QED
      BY <2>1, <2>2, <2>3, <2>4
  <1>6. ReportOfLists'
    <2>1. CASE Render
      <3>1. /\ report' = Report(results, errors) /\ UNCHANGED <<changed, out, results, errors>>
            /\ summary' = IF out.summary /\ out.exporter = "none" THEN Summary(results, errors)
                          ELSE NoSummary
        BY <2>1, <1>1 DEF Render
      <3>2. Report(results, errors)' = Report(results, errors)
        BY <3>1 DEF Report, Filtered, Shown
      <3>3. Summary(results, errors)' = Summary(results, errors)
        <4>1. results' = results /\ errors' = errors
          BY ONLY <3>1
        <4>. QED
          BY ONLY <4>1
      <3>. QED
        BY <3>1, <3>2, <3>3 DEF ReportOfLists
    <2>2. CASE UNCHANGED batchVars
      <3>1. UNCHANGED <<phase, report, summary, changed, out, results, errors>>
        BY <2>2 DEF batchVars, tailVars
      <3>2. Report(results, errors)' = Report(results, errors)
        BY <3>1 DEF Report, Filtered, Shown
      <3>3. Summary(results, errors)' = Summary(results, errors)
        BY <3>1 DEF Summary, CategoryOf
      <3>. QED
        BY <3>1, <3>2, <3>3 DEF LedgerInv, ReportOfLists
    <2>3. CASE Inspecting \/ Abort \/ Mapped \/ Tallied \/ UpdateState
      <3>1. phase' # "exited"
        BY <2>3 DEF Inspecting, Abort, Mapped, Tallied, UpdateState
      <3>. QED
        BY <3>1 DEF ReportOfLists
    <2>. QED
      BY <2>1, <2>2, <2>3
  <1>. QED
    BY <1>2, <1>3, <1>4, <1>5, <1>6 DEF LedgerInv

\* The second invariant of a run, which rests on the first.
THEOREM BatchKeepsTheLedger == BatchSpec => []LedgerInv
  <1>1. BatchInv /\ LedgerInv /\ [BatchNext]_batchVars => LedgerInv'
    BY TallyLedgerInv, OtherLedgerInv DEF BatchNext, BatchStep
  <1>. QED
    BY <1>1, InitLedgerInv, BatchIsConsistent, PTL DEF BatchSpec

\* At the end the tally is complete: what was counted is what was answered.
LEMMA TallyIsComplete ==
  ASSUME BatchInv, phase = "exited"
  PROVE  /\ Len(codes) = N
         /\ \A t \in Targets : TalliedOf(t) = {i \in Item : answer[i].target = t}
  <1>1. Len(codes) = N /\ Len(result) = N
    BY DEF BatchInv, CodesOfResult, TailAfterMap, PoolInv, JoinedIsComplete
  <1>2. \A i \in Item : i <= N /\ result[i] = answer[i]
    BY <1>1, Bounds DEF BatchInv, PoolInv, ResultIsAnswers, Item
  <1>. QED
    BY <1>1, <1>2 DEF TalliedOf, Item

\* "Both formats report every target, including hosts that could not be reached";
\* the unfiltered text has one line for each answer of a target, on stdout or on
\* stderr, however often the target is listed and whatever became of it.
THEOREM EveryTargetIsAccountedFor == BatchSpec => []EveryTargetIsReported
  <1>1. ASSUME BatchInv, LedgerInv, phase = "exited", NEW t \in Targets,
               out.exporter # "none" \/ ~(out.quiet \/ out.maxDays \/ out.onlyChanged)
        PROVE  Cardinality({i \in Item : answer[i].target = t})
                 = Cardinality({i \in DOMAIN report : report[i].target = t})
                     + Cardinality({i \in DOMAIN stderr : stderr[i] = t})
    <2>1. /\ Cardinality({i \in Item : answer[i].target = t})
               = Count(results, OfTarget(t)) + Count(errors, OfTarget(t))
          /\ Count(stderr, {t}) = IF out.exporter = "none" THEN Count(errors, OfTarget(t)) ELSE 0
      BY <1>1, TallyIsComplete DEF LedgerInv, TargetsTallied
    <2>2. Cardinality({i \in DOMAIN stderr : stderr[i] = t}) = Count(stderr, {t})
      <3>1. {i \in DOMAIN stderr : stderr[i] = t} = Places(stderr, {t})
        BY DEF Places
      <3>. QED
        BY <3>1 DEF Count
    <2>3. results \in Seq(BatchAnswer) /\ errors \in Seq(BatchAnswer)
      BY <1>1 DEF BatchInv, TallyTypes
    <2>4. /\ Count(results, OfTarget(t)) \in Nat /\ Count(errors, OfTarget(t)) \in Nat
      BY <2>3, CountIsNatural
    <2>5. report = IF out.exporter = "none" THEN results ELSE results \o errors
      <3>1. report = IF out.exporter = "none" THEN Filtered(results) ELSE results \o errors
        BY <1>1 DEF LedgerInv, ReportOfLists, Report
      <3>2. out.exporter = "none" => Filtered(results) = results
        <4>1. ASSUME out.exporter = "none"
              PROVE  Entries(results) \subseteq {a \in Entries(results) : Shown(a)}
          BY <1>1, <4>1 DEF Shown
        <4>. QED
          BY <2>3, <4>1, SelectProperties DEF Filtered
      <3>. QED
        BY <3>1, <3>2
    <2>6. report \in Seq(BatchAnswer)
      BY <2>3, <2>5, ConcatProperties
    <2>7. Cardinality({i \in DOMAIN report : report[i].target = t}) = Count(report, OfTarget(t))
      <3>1. \A i \in DOMAIN report : report[i] \in BatchAnswer
        BY <2>6, LenProperties, ElementOfSeq
      <3>2. {i \in DOMAIN report : report[i].target = t} = Places(report, OfTarget(t))
        BY <3>1 DEF Places, OfTarget
      <3>. QED
        BY <3>2 DEF Count
    <2>8. Count(results \o errors, OfTarget(t))
            = Count(results, OfTarget(t)) + Count(errors, OfTarget(t))
      BY <2>3, CountOfConcat
    <2>. DEFINE V == OfTarget(t)
                listed == Cardinality({i \in Item : answer[i].target = t})
                shown == Cardinality({i \in DOMAIN report : report[i].target = t})
                printed == Cardinality({i \in DOMAIN stderr : stderr[i] = t})
    <2>9. CASE out.exporter = "none"
      <3>1. /\ listed = Count(results, V) + Count(errors, V) /\ printed = Count(errors, V)
            /\ shown = Count(results, V)
        BY <2>1, <2>2, <2>5, <2>7, <2>9
      <3>. QED
        BY <3>1
    <2>10. CASE out.exporter # "none"
      <3>1. /\ listed = Count(results, V) + Count(errors, V) /\ printed = 0
            /\ shown = Count(results, V) + Count(errors, V)
        BY <2>1, <2>2, <2>5, <2>7, <2>8, <2>10
      <3>. HIDE DEF listed, shown, printed, V
      <3>2. Count(results, V) \in Nat /\ Count(errors, V) \in Nat
        BY <2>4 DEF V
      <3>3. listed = shown + printed
        BY <3>1, <3>2
      <3>. QED
        BY <3>3 DEF listed, shown, printed
    <2>. QED
      BY <2>9, <2>10
  <1>2. BatchInv /\ LedgerInv => EveryTargetIsReported
    BY <1>1 DEF EveryTargetIsReported
  <1>. QED
    BY <1>2, BatchIsConsistent, BatchKeepsTheLedger, PTL

\* The line of --summary is the count of the two lists by category.
LEMMA SummaryOfLists ==
  ASSUME BatchInv
  PROVE  Summary(results, errors) = CategoryCounts
  <1>1. results \in Seq(BatchAnswer) /\ errors \in Seq(BatchAnswer)
    BY DEF BatchInv, TallyTypes
  <1>2. ASSUME NEW s \in Seq(BatchAnswer), NEW c \in Category
        PROVE  Cardinality({i \in DOMAIN s : CategoryOf(s[i]) = c}) = Count(s, OfCategory(c))
    <2>1. \A i \in DOMAIN s : s[i] \in BatchAnswer
      BY LenProperties, ElementOfSeq
    <2>2. {i \in DOMAIN s : CategoryOf(s[i]) = c} = Places(s, OfCategory(c))
      BY <2>1 DEF Places, OfCategory
    <2>. QED
      BY <2>2 DEF Count
  <1>. QED
    BY <1>1, <1>2 DEF Summary, CategoryCounts

\* The codes of the categories that occur are the codes of the answers.
LEMMA CodesOfCategories ==
  ASSUME BatchInv, LedgerInv
  PROVE  {CodeOf[c] : c \in {k \in Category : CategoryCounts[k] > 0}} = Entries(codes)
  <1>. DEFINE Both == Entries(results) \cup Entries(errors)
              Occurring == {k \in Category : CategoryCounts[k] > 0}
  <1>1. results \in Seq(BatchAnswer) /\ errors \in Seq(BatchAnswer)
    BY DEF BatchInv, TallyTypes
  <1>2. Both \subseteq BatchAnswer
    BY <1>1, LenProperties, ElementOfSeq DEF Entries
  <1>3. \A c \in Category : c \in Occurring <=> Both \cap OfCategory(c) # {}
    <2>. TAKE c \in Category
    <2>1. /\ Count(results, OfCategory(c)) \in Nat
          /\ Count(results, OfCategory(c)) > 0 <=> Entries(results) \cap OfCategory(c) # {}
      BY <1>1, CountIsNatural
    <2>2. /\ Count(errors, OfCategory(c)) \in Nat
          /\ Count(errors, OfCategory(c)) > 0 <=> Entries(errors) \cap OfCategory(c) # {}
      BY <1>1, CountIsNatural
    <2>3. CategoryCounts[c] = Count(results, OfCategory(c)) + Count(errors, OfCategory(c))
      BY DEF CategoryCounts
    <2>4. CategoryCounts[c] > 0 <=> \/ Count(results, OfCategory(c)) > 0
                                    \/ Count(errors, OfCategory(c)) > 0
      BY <2>1, <2>2, <2>3
    <2>. QED
      BY <2>1, <2>2, <2>4
  <1>4. \A c \in Category : c \in Occurring <=> \E a \in Both : CategoryOf(a) = c
    BY <1>2, <1>3 DEF OfCategory
  <1>5. \A a \in Both : CategoryOf(a) \in Category /\ CodeOf[CategoryOf(a)] = a.code
    BY <1>2, CategoryFacts
  <1>6. {CodeOf[c] : c \in Occurring} = {a.code : a \in Both}
    <2>. HIDE DEF Both
    <2>1. \A c \in Occurring : c \in Category
      OBVIOUS
    <2>. HIDE DEF Occurring
    <2>. QED
      BY <2>1, <1>4, <1>5
  <1>7. {a.code : a \in Both} = Entries(codes)
    <2>1. {a.code : a \in Entries(results)} = {results[i].code : i \in DOMAIN results}
      BY DEF Entries
    <2>2. \A a \in Entries(errors) : a.code = RUNTIME_ERROR
      <3>1. \A a \in Entries(errors) : a.status = Failed
        BY DEF LedgerInv, ListsByStatus, Entries
      <3>. QED
        BY <1>2, <3>1 DEF BatchAnswer
    <2>3. Entries(errors) = {} <=> errors = <<>>
      <3>1. DOMAIN errors = 1..Len(errors) /\ Len(errors) \in Nat
        BY <1>1, LenProperties
      <3>2. errors # <<>> => 1 \in DOMAIN errors
        BY <1>1, <3>1, EmptySeq
      <3>. QED
        BY <3>2 DEF Entries
    <2>4. {a.code : a \in Entries(errors)} = IF errors = <<>> THEN {} ELSE {RUNTIME_ERROR}
      BY <2>2, <2>3
    <2>. QED
      BY <2>1, <2>4 DEF BatchInv, CodesOfLists
  <1>. QED
    BY <1>6, <1>7

\* The summary line counts every target once, whatever the filters hide, and its
\* worst category is the exit code, for any batch: format_summary and most_severe
\* classify the codes separately and never disagree.
THEOREM SummaryIsSound == BatchSpec => []SummaryAgrees
  <1>1. ASSUME BatchInv, LedgerInv, phase = "exited", summary # NoSummary
        PROVE  /\ Counted(summary) = N
               /\ out.exitZero
                    \/ exit = MostSevere({CodeOf[c] : c \in {k \in Category : summary[k] > 0}})
    <2>1. summary = CategoryCounts /\ out.exporter = "none"
      BY <1>1, SummaryOfLists DEF LedgerInv, ReportOfLists
    <2>2. Counted(summary) = N
      BY <1>1, <2>1, TallyIsComplete DEF LedgerInv, CategoriesTallied
    <2>3. {CodeOf[c] : c \in {k \in Category : summary[k] > 0}} = Entries(codes)
      BY <1>1, <2>1, CodesOfCategories
    <2>4. ~out.exitZero => exit = MostSevere(Entries(codes))
      BY <1>1, <2>1 DEF BatchInv, ExitOfCodes
    <2>. QED
      BY <2>2, <2>3, <2>4
  <1>2. BatchInv /\ LedgerInv => SummaryAgrees
    BY <1>1 DEF SummaryAgrees
  <1>. QED
    BY <1>2, BatchIsConsistent, BatchKeepsTheLedger, PTL

-----------------------------------------------------------------------------
(* The changes                                                              *)

\* The status a run knows of a target is one it saw, and the failed answers that
\* follow the reports in the list make no difference.
LEMMA CurrentOfLists ==
  ASSUME BatchInv, LedgerInv, NEW i \in DOMAIN results
  PROVE  LET t == results[i].target
         IN /\ t \in Targets
            /\ Current(results \o errors)[t] = Current(results)[t]
            /\ Current(results)[t] # NoStatus
  <1>. DEFINE t == results[i].target
              both == results \o errors
              done == {k \in Indices(results, t) : results[k].status # Failed}
  <1>1. /\ results \in Seq(BatchAnswer) /\ errors \in Seq(BatchAnswer)
        /\ DOMAIN results = 1..Len(results) /\ DOMAIN errors = 1..Len(errors)
        /\ Len(results) \in Nat /\ Len(errors) \in Nat
    BY LenProperties DEF BatchInv, TallyTypes
  <1>2. /\ DOMAIN both = 1..(Len(results) + Len(errors))
        /\ \A k \in 1..(Len(results) + Len(errors)) :
             both[k] = IF k <= Len(results) THEN results[k] ELSE errors[k - Len(results)]
    BY <1>1, ConcatProperties, LenProperties
  <1>3. {k \in Indices(both, t) : both[k].status # Failed} = done
    <2>1. ASSUME NEW k \in 1..(Len(results) + Len(errors)), ~(k <= Len(results))
          PROVE  both[k].status = Failed
      <3>1. k - Len(results) \in DOMAIN errors /\ both[k] = errors[k - Len(results)]
        BY <1>1, <1>2, <2>1
      <3>. QED
        BY <3>1 DEF LedgerInv, ListsByStatus
    <2>2. \A k \in 1..Len(results) :
            k \in 1..(Len(results) + Len(errors)) /\ both[k] = results[k]
      BY <1>1, <1>2
    <2>. HIDE DEF both, t
    <2>. QED
      BY <1>1, <1>2, <2>1, <2>2 DEF Indices
  <1>4. i \in done /\ done \subseteq 0..Len(results)
    BY <1>1 DEF Indices, LedgerInv, ListsByStatus
  <1>5. PICK m \in done : \A k \in done : k <= m
    <2>. HIDE DEF done
    <2>. QED
      BY <1>1, <1>4, GreatestNatural
  <1>. DEFINE last == CHOOSE k \in done : \A j \in done : j <= k
  <1>6. last \in done
    <2>. HIDE DEF done
    <2>. QED
      BY <1>5
  <1>7. /\ results[i] \in BatchAnswer /\ t \in Targets
        /\ results[last] \in BatchAnswer /\ both[last] = results[last]
    <2>1. last \in 1..Len(results)
      BY <1>1, <1>6 DEF Indices
    <2>2. results[i] \in BatchAnswer /\ results[last] \in BatchAnswer
      <3>. HIDE DEF last
      <3>. QED
        BY <1>1, <2>1, ElementOfSeq
    <2>3. both[last] = results[last]
      <3>. HIDE DEF last, both
      <3>. QED
        BY <1>1, <1>2, <2>1
    <2>. QED
      BY <2>2, <2>3 DEF BatchAnswer
  <1>8. Current(both)[t] = both[last].status /\ Current(results)[t] = results[last].status
    <2>1. done # {}
      BY <1>4
    <2>. HIDE DEF done, t, both
    <2>2. Current(both)[t] = both[last].status
      BY <1>3, <1>7, <2>1 DEF Current
    <2>3. Current(results)[t] = results[last].status
      BY <1>7, <2>1 DEF Current, done
    <2>. QED
      BY <2>2, <2>3
  <1>9. results[last].status \in Statuses
    <2>1. results[last].status # Failed
      <3>. HIDE DEF last
      <3>. QED
        BY <1>6
    <2>. HIDE DEF last
    <2>. QED
      BY <1>7, <2>1 DEF BatchAnswer
  <1>. HIDE DEF last, done
  <1>. QED
    BY <1>7, <1>8, <1>9, StatusAssumption

\* --only-changed hides no target whose status differs from the one the state file
\* held, whatever duplicates and failures the batch has.
THEOREM NoChangeIsHidden == BatchSpec => []EveryChangeIsShown
  <1>1. ASSUME BatchInv, LedgerInv, phase = "exited", out.onlyChanged, out.exporter = "none",
               ~out.quiet, ~out.maxDays, NEW i \in DOMAIN results,
               loaded[results[i].target] # Current(results)[results[i].target]
        PROVE  \E j \in DOMAIN report : report[j] = results[i]
    <2>. DEFINE t == results[i].target
    <2>1. /\ t \in Targets /\ Current(results \o errors)[t] = Current(results)[t]
          /\ Current(results)[t] # NoStatus
      BY <1>1, CurrentOfLists
    <2>2. changed = Changed(loaded, results \o errors)
      BY <1>1, BatchAssumption DEF LedgerInv, ChangesOfLists
    <2>3. t \in changed
      BY <1>1, <2>1, <2>2 DEF Changed
    <2>4. Shown(results[i])
      BY <1>1, <2>3 DEF Shown
    <2>5. report = Select(results, {a \in Entries(results) : Shown(a)})
      BY <1>1 DEF LedgerInv, ReportOfLists, Report, Filtered
    <2>6. results \in Seq(BatchAnswer) /\ results[i] \in Entries(results)
      BY <1>1 DEF BatchInv, TallyTypes, Entries
    <2>7. Entries(report) = Entries(results) \cap {a \in Entries(results) : Shown(a)}
      BY <2>5, <2>6, SelectProperties
    <2>8. results[i] \in Entries(report)
      BY <2>4, <2>6, <2>7
    <2>. QED
      BY <2>8 DEF Entries
  <1>2. BatchInv /\ LedgerInv => EveryChangeIsShown
    BY <1>1 DEF EveryChangeIsShown
  <1>. QED
    BY <1>2, BatchIsConsistent, BatchKeepsTheLedger, PTL

-----------------------------------------------------------------------------
(* The state file between the runs                                          *)

\* The processes that have been counted as runs and not yet entered the history.
Loading == {q \in Procs : pc[q] = "load"}

\* The runs started fit the bound, and only the processes of the setting run.
RunsFit ==
  /\ Len(history) + Cardinality(Loading) <= setting.runs
  /\ \A p \in Procs \ setting.procs : pc[p] = "idle"

\* A run that has loaded the state is in the history, where it counted itself.
RunsRecorded ==
  \A p \in Procs :
    /\ pc[p] # "idle" => run[p] \in Runs
    /\ pc[p] \in {"open", "write", "render"} =>
         before[p] + 1 \in 1..Len(history) /\ history[before[p] + 1] = run[p]

StateInv == TypeOK /\ RunsFit /\ RunsRecorded /\ RemovedIsForgotten

\* The bounds of a setting are numbers.
LEMMA SettingFacts ==
  ASSUME setting \in Settings
  PROVE  /\ setting.procs \subseteq Procs /\ setting.runs \in Nat
         /\ IsFiniteSet(Procs) /\ IsFiniteSet(setting.procs)
  BY StateFileAssumption, FS_Subset DEF Setting

FileType == [readable : {TRUE}, map : Mapping] \cup [readable : {FALSE}, map : {EmptyMap}]

\* What the file may hold.
LEMMA FileFacts ==
  /\ EmptyMap \in Mapping
  /\ NoFile \in FileType /\ ~NoFile.readable /\ NoFile.map = EmptyMap
  /\ \A m \in Mapping : Written(m) \in FileType /\ Written(m).readable /\ Written(m).map = m
  /\ \A f \in FileType : f.map \in Mapping
  <1>1. EmptyMap \in Mapping
    BY DEF EmptyMap, Mapping
  <1>2. NoFile \in FileType /\ ~NoFile.readable /\ NoFile.map = EmptyMap
    BY DEF NoFile, FileType
  <1>3. \A m \in Mapping : Written(m) \in FileType /\ Written(m).readable /\ Written(m).map = m
    BY DEF Written, FileType
  <1>4. \A f \in FileType : f.map \in Mapping
    BY <1>1 DEF FileType
  <1>. QED
    BY <1>1, <1>2, <1>3, <1>4

\* What a run knows of a target is a status, or nothing; a target it knows
\* something of, or keeps, is one it lists.
LEMMA StateFacts ==
  ASSUME NEW r \in Runs, NEW m \in Mapping
  PROVE  /\ Current(r) \in Mapping
         /\ NewState(m, r) \in Mapping
         /\ Changed(m, r) \subseteq Targets
         /\ \A t \in Targets : NewState(m, r)[t] # NoStatus => Indices(r, t) # {}
         /\ \A t \in Targets : Current(r)[t] # NoStatus => NewState(m, r)[t] = Current(r)[t]
         /\ \A t \in Targets : Current(r)[t] = NoStatus =>
              NewState(m, r)[t] = IF t \in FailedTargets(r) THEN m[t] ELSE NoStatus
         /\ \A t \in Targets :
              t \in Changed(m, r) <=> Current(r)[t] # NoStatus /\ m[t] # Current(r)[t]
  <1>. DEFINE done(t) == {i \in Indices(r, t) : r[i].status # Failed}
              last(t) == CHOOSE i \in done(t) : \A j \in done(t) : j <= i
  <1>1. PICK n \in Nat : r \in [1..n -> Outcome]
    BY StateFileAssumption DEF Runs
  <1>2. ASSUME NEW t \in Targets, done(t) # {}
        PROVE  last(t) \in done(t)
    <2>1. done(t) \subseteq 0..n
      BY <1>1 DEF Indices
    <2>2. \E k \in done(t) : \A j \in done(t) : j <= k
      <3>. HIDE DEF done
      <3>. QED
        BY <1>1, <1>2, <2>1, GreatestNatural
    <2>. HIDE DEF done
    <2>. QED
      BY <2>2
  <1>3. ASSUME NEW t \in Targets
        PROVE  /\ Current(r)[t] = IF done(t) = {} THEN NoStatus ELSE r[last(t)].status
               /\ Current(r)[t] \in Statuses \cup {NoStatus}
               /\ Current(r)[t] # NoStatus => Indices(r, t) # {}
    <2>1. Current(r)[t] = IF done(t) = {} THEN NoStatus ELSE r[last(t)].status
      BY DEF Current
    <2>2. done(t) # {} => r[last(t)].status \in Statuses /\ Indices(r, t) # {}
      <3>1. ASSUME NEW i \in done(t) PROVE r[i].status \in Statuses /\ Indices(r, t) # {}
        <4>1. i \in 1..n /\ r[i] \in Outcome /\ r[i].status # Failed
          BY <1>1 DEF Indices
        <4>. QED
          BY <4>1 DEF Outcome
      <3>. HIDE DEF done, last
      <3>. QED
        BY <1>2, <3>1
    <2>. HIDE DEF done, last
    <2>. QED
      BY <2>1, <2>2
  <1>4. Current(r) \in Mapping
    <2>1. Current(r) = [t \in Targets |-> Current(r)[t]]
      BY DEF Current
    <2>. QED
      BY <1>3, <2>1 DEF Mapping
  <1>5. \A t \in Targets : NewState(m, r)[t] = IF Current(r)[t] # NoStatus THEN Current(r)[t]
                                               ELSE IF t \in FailedTargets(r) THEN m[t]
                                               ELSE NoStatus
    BY DEF NewState, Merged, Kept
  <1>6. NewState(m, r) \in Mapping
    <2>1. NewState(m, r) = [t \in Targets |-> NewState(m, r)[t]]
      BY DEF NewState, Merged
    <2>2. \A t \in Targets : m[t] \in Statuses \cup {NoStatus}
      BY DEF Mapping
    <2>. QED
      BY <1>3, <1>5, <2>1, <2>2 DEF Mapping
  <1>7. \A t \in Targets : t \in FailedTargets(r) => Indices(r, t) # {}
    BY DEF FailedTargets
  <1>. QED
    BY <1>3, <1>4, <1>5, <1>6, <1>7 DEF Changed

LEMMA InitStateInv == Init => StateInv
  <1>. SUFFICES ASSUME Init PROVE StateInv
    OBVIOUS
  <1>1. setting \in Settings /\ setting.runs \in Nat /\ setting.procs \subseteq Procs
    BY SettingFacts DEF Init
  <1>2. EmptyMap \in Mapping
    BY DEF EmptyMap, Mapping
  <1>3. TypeOK
    BY <1>1, <1>2, EmptySeq DEF Init, TypeOK, NoFile
  <1>4. RunsFit
    <2>1. Loading = {} /\ Len(history) = 0
      BY EmptySeq DEF Init, Loading
    <2>. QED
      BY <1>1, <2>1, FS_EmptySet DEF Init, RunsFit
  <1>5. RunsRecorded /\ RemovedIsForgotten
    BY DEF Init, RunsRecorded, RemovedIsForgotten, NoFile
  <1>. QED
    BY <1>3, <1>4, <1>5 DEF StateInv

\* The processes that enter and leave the loading state.
LEMMA LoadingSteps ==
  ASSUME StateInv, NEW p \in Procs
  PROVE  /\ IsFiniteSet(Loading) /\ Cardinality(Loading) \in Nat /\ Len(history) \in Nat
         /\ Cardinality(Loading \cup {p})
              = IF p \in Loading THEN Cardinality(Loading) ELSE Cardinality(Loading) + 1
         /\ Cardinality(Loading \ {p})
              = IF p \in Loading THEN Cardinality(Loading) - 1 ELSE Cardinality(Loading)
  <1>1. IsFiniteSet(Procs) /\ Loading \subseteq Procs /\ history \in Seq(Runs)
    BY SettingFacts DEF StateInv, TypeOK, Loading
  <1>2. IsFiniteSet(Loading)
    BY <1>1, FS_Subset
  <1>. QED
    BY <1>1, <1>2, FS_CardinalityType, FS_AddElement, FS_RemoveElement, LenProperties

\* A run starts.
LEMMA InspectedStateInv ==
  ASSUME StateInv, NEW p \in setting.procs, NEW r \in Runs, Inspected(p, r)
  PROVE  StateInv'
  <1>1. /\ p \in Procs /\ pc[p] = "idle" /\ pc' = [pc EXCEPT ![p] = "load"]
        /\ run' = [run EXCEPT ![p] = r]
        /\ UNCHANGED <<setting, file, previous, reported, history, before>>
        /\ Len(history) + Cardinality(Loading) < setting.runs
    BY SettingFacts DEF StateInv, TypeOK, Inspected, Loading
  <1>2. TypeOK'
    BY <1>1 DEF StateInv, TypeOK
  <1>3. RunsFit'
    <2>1. Loading' = Loading \cup {p} /\ p \notin Loading
      BY <1>1 DEF Loading, StateInv, TypeOK
    <2>2. setting.runs \in Nat
      BY SettingFacts DEF StateInv, TypeOK
    <2>3. Len(history) + Cardinality(Loading') <= setting.runs
      BY <1>1, <2>1, <2>2, LoadingSteps
    <2>. QED
      BY <1>1, <2>3 DEF StateInv, TypeOK, RunsFit
  <1>4. RunsRecorded'
    BY <1>1 DEF StateInv, TypeOK, RunsRecorded
  <1>5. RemovedIsForgotten'
    BY <1>1 DEF StateInv, RemovedIsForgotten
  <1>. QED
    BY <1>2, <1>3, <1>4, <1>5 DEF StateInv

\* A run loads the state, and enters the history.
LEMMA LoadStateInv ==
  ASSUME StateInv, NEW p \in setting.procs, Load(p)
  PROVE  StateInv'
  <1>1. /\ p \in Procs /\ pc[p] = "load" /\ pc' = [pc EXCEPT ![p] = "open"]
        /\ previous' = [previous EXCEPT ![p] = file.map]
        /\ reported' = [reported EXCEPT ![p] = Changed(file.map, run[p])]
        /\ history' = Append(history, run[p])
        /\ before' = [before EXCEPT ![p] = Len(history)]
        /\ UNCHANGED <<setting, file, run>>
    BY SettingFacts DEF StateInv, TypeOK, Load
  <1>2. run[p] \in Runs /\ history \in Seq(Runs) /\ Len(history) \in Nat
    BY <1>1, LenProperties DEF StateInv, TypeOK, RunsRecorded
  <1>3. /\ history' \in Seq(Runs) /\ Len(history') = Len(history) + 1
        /\ \A k \in 1..Len(history) : history'[k] = history[k]
        /\ history'[Len(history) + 1] = run[p]
        /\ DOMAIN history = 1..Len(history) /\ DOMAIN history' = 1..(Len(history) + 1)
    BY <1>1, <1>2, EntriesOfAppend
  <1>4. setting.runs \in Nat /\ Loading' = Loading \ {p} /\ p \in Loading
    BY <1>1, SettingFacts DEF Loading, StateInv, TypeOK
  <1>5. /\ Len(history) < setting.runs
        /\ Len(history') + Cardinality(Loading') <= setting.runs
    <2>1. /\ Cardinality(Loading) \in Nat /\ Cardinality(Loading \ {p}) = Cardinality(Loading) - 1
      BY <1>1, <1>4, LoadingSteps
    <2>2. Cardinality(Loading \ {p}) \in Nat
      <3>1. IsFiniteSet(Loading \ {p})
        BY <1>1, LoadingSteps, FS_Subset
      <3>. QED
        BY <3>1, FS_CardinalityType
    <2>. QED
      BY <1>2, <1>3, <1>4, <2>1, <2>2 DEF StateInv, RunsFit
  <1>6. file.map \in Mapping
    <2>1. file \in FileType
      BY DEF StateInv, TypeOK, FileType
    <2>. QED
      BY <2>1, FileFacts
  <1>7. TypeOK'
    <2>1. Changed(file.map, run[p]) \subseteq Targets
      BY <1>2, <1>6, StateFacts
    <2>2. previous' \in [Procs -> Mapping] /\ reported' \in [Procs -> SUBSET Targets]
      BY <1>1, <1>6, <2>1 DEF StateInv, TypeOK
    <2>3. before' \in [Procs -> 0..setting.runs]
      BY <1>1, <1>2, <1>4, <1>5 DEF StateInv, TypeOK
    <2>. QED
      BY <1>1, <1>3, <2>2, <2>3 DEF StateInv, TypeOK
  <1>8. RunsFit'
    BY <1>1, <1>5 DEF StateInv, TypeOK, RunsFit
  <1>9. RunsRecorded'
    <2>. SUFFICES ASSUME NEW q \in Procs
                  PROVE  /\ pc'[q] # "idle" => run'[q] \in Runs
                         /\ pc'[q] \in {"open", "write", "render"} =>
                              /\ before'[q] + 1 \in 1..Len(history')
                              /\ history'[before'[q] + 1] = run'[q]
      BY DEF RunsRecorded
    <2>1. CASE q = p
      BY <1>1, <1>2, <1>3, <2>1 DEF StateInv, TypeOK
    <2>2. CASE q # p
      <3>1. pc'[q] = pc[q] /\ before'[q] = before[q] /\ run'[q] = run[q]
        BY <1>1, <2>2 DEF StateInv, TypeOK
      <3>2. 1..Len(history) \subseteq 1..Len(history')
        BY <1>2, <1>3
      <3>. QED
        BY <1>3, <3>1, <3>2 DEF StateInv, RunsRecorded
    <2>. QED
      BY <2>1, <2>2
  <1>10. RemovedIsForgotten'
    <2>1. DOMAIN history \subseteq DOMAIN history'
          /\ \A k \in DOMAIN history : history'[k] = history[k]
      BY <1>2, <1>3
    <2>. QED
      BY <1>1, <2>1 DEF StateInv, RemovedIsForgotten
  <1>. QED
    BY <1>7, <1>8, <1>9, <1>10 DEF StateInv

\* A run writes what it knows.
LEMMA WriteStateInv ==
  ASSUME StateInv, NEW p \in setting.procs, Write(p)
  PROVE  /\ StateInv'
         /\ file'.readable => file'.map = NewState(previous[p], run[p])
  <1>. DEFINE mine == Written(NewState(previous[p], run[p]))
  <1>1. /\ p \in Procs /\ pc[p] = "write" /\ pc' = [pc EXCEPT ![p] = "render"]
        /\ file' = mine \/ file' = NoFile
        /\ UNCHANGED <<setting, run, previous, reported, history, before>>
    BY SettingFacts DEF StateInv, TypeOK, Write
  <1>2. /\ run[p] \in Runs /\ previous[p] \in Mapping
        /\ before[p] + 1 \in 1..Len(history) /\ history[before[p] + 1] = run[p]
    BY <1>1 DEF StateInv, TypeOK, RunsRecorded
  <1>3. /\ NewState(previous[p], run[p]) \in Mapping
        /\ \A t \in Targets : NewState(previous[p], run[p])[t] # NoStatus => Indices(run[p], t) # {}
    BY <1>2, StateFacts
  <1>4. file' \in FileType /\ (file'.readable => file'.map = NewState(previous[p], run[p]))
    <2>. DEFINE m == NewState(previous[p], run[p])
    <2>. HIDE DEF m
    <2>. QED
      BY <1>1, <1>3, FileFacts DEF m
  <1>6. TypeOK'
    BY <1>1, <1>4 DEF StateInv, TypeOK, FileType
  <1>7. RunsFit'
    <2>1. Loading' = Loading
      BY <1>1 DEF Loading, StateInv, TypeOK
    <2>. QED
      BY <1>1, <2>1 DEF StateInv, TypeOK, RunsFit
  <1>8. RunsRecorded'
    BY <1>1 DEF StateInv, TypeOK, RunsRecorded
  <1>9. RemovedIsForgotten'
    <2>1. DOMAIN history = 1..Len(history)
      BY LenProperties DEF StateInv, TypeOK
    <2>. QED
      BY <1>1, <1>2, <1>3, <1>4, <2>1 DEF RemovedIsForgotten
  <1>. QED
    BY <1>4, <1>6, <1>7, <1>8, <1>9 DEF StateInv

\* Steps that leave the file as it is or unreadable, and the history alone.
LEMMA OtherStateInv ==
  ASSUME StateInv, NEW p \in setting.procs,
         Open(p) \/ OpenFails(p) \/ WriteFails(p) \/ RenderAndExit(p) \/ Crash(p)
  PROVE  StateInv'
  <1>1. /\ p \in Procs /\ UNCHANGED <<setting, history>>
        /\ file' = file \/ file' = NoFile
    BY SettingFacts DEF StateInv, TypeOK, Open, OpenFails, WriteFails, RenderAndExit, Crash, Exit
  <1>2. \/ /\ pc' = [pc EXCEPT ![p] = "write"] /\ pc[p] = "open"
           /\ UNCHANGED <<run, previous, reported, before>>
        \/ /\ pc' = [pc EXCEPT ![p] = "render"] /\ pc[p] \in {"open", "write"}
           /\ UNCHANGED <<run, previous, reported, before>>
        \/ /\ pc' = [pc EXCEPT ![p] = "idle"]
           /\ run' = [run EXCEPT ![p] = <<>>] /\ previous' = [previous EXCEPT ![p] = EmptyMap]
           /\ reported' = [reported EXCEPT ![p] = {}] /\ before' = [before EXCEPT ![p] = 0]
    BY DEF Open, OpenFails, WriteFails, RenderAndExit, Crash, Exit
  <1>3. EmptyMap \in Mapping /\ setting.runs \in Nat
    BY SettingFacts DEF EmptyMap, Mapping, StateInv, TypeOK
  <1>4. TypeOK'
    <2>1. file' \in FileType
      BY <1>1, FileFacts DEF StateInv, TypeOK, FileType
    <2>2. /\ pc' \in [Procs -> {"idle", "load", "open", "write", "render"}]
          /\ run' \in [Procs -> Runs \cup {<<>>}]
          /\ previous' \in [Procs -> Mapping]
          /\ reported' \in [Procs -> SUBSET Targets]
          /\ before' \in [Procs -> 0..setting.runs]
      <3>1. /\ pc \in [Procs -> {"idle", "load", "open", "write", "render"}]
            /\ run \in [Procs -> Runs \cup {<<>>}]
            /\ previous \in [Procs -> Mapping]
            /\ reported \in [Procs -> SUBSET Targets]
            /\ before \in [Procs -> 0..setting.runs]
        BY DEF StateInv, TypeOK
      <3>2. /\ EmptyMap \in Mapping /\ <<>> \in Runs \cup {<<>>} /\ {} \in SUBSET Targets
            /\ 0 \in 0..setting.runs
        BY <1>3
      <3>3. pc' \in [Procs -> {"idle", "load", "open", "write", "render"}]
        BY <1>2, <3>1
      <3>4. run' \in [Procs -> Runs \cup {<<>>}] /\ previous' \in [Procs -> Mapping]
        <4>1. run' = run \/ run' = [run EXCEPT ![p] = <<>>]
          BY ONLY <1>2
        <4>2. previous' = previous \/ previous' = [previous EXCEPT ![p] = EmptyMap]
          BY ONLY <1>2
        <4>3. run' \in [Procs -> Runs \cup {<<>>}]
          BY ONLY <3>1, <3>2, <4>1
        <4>4. previous' \in [Procs -> Mapping]
          BY ONLY <3>1, <3>2, <4>2
        <4>. QED
          BY <4>3, <4>4
      <3>5. reported' \in [Procs -> SUBSET Targets] /\ before' \in [Procs -> 0..setting.runs]
        <4>1. reported' = reported \/ reported' = [reported EXCEPT ![p] = {}]
          BY ONLY <1>2
        <4>2. before' = before \/ before' = [before EXCEPT ![p] = 0]
          BY ONLY <1>2
        <4>3. reported' \in [Procs -> SUBSET Targets]
          BY ONLY <3>1, <3>2, <4>1
        <4>4. before' \in [Procs -> 0..setting.runs]
          BY ONLY <3>1, <3>2, <4>2
        <4>. QED
          BY <4>3, <4>4
      <3>. QED
        BY <3>3, <3>4, <3>5
    <2>. QED
      BY <1>1, <2>1, <2>2 DEF StateInv, TypeOK, FileType
  <1>5. RunsFit'
    <2>1. Loading' = Loading \/ Loading' = Loading \ {p}
      BY <1>1, <1>2 DEF Loading, StateInv, TypeOK
    <2>2. Len(history) + Cardinality(Loading') <= setting.runs
      <3>1. /\ Cardinality(Loading) \in Nat /\ Len(history) \in Nat
            /\ Cardinality(Loading \ {p})
                 = IF p \in Loading THEN Cardinality(Loading) - 1 ELSE Cardinality(Loading)
        BY <1>1, LoadingSteps
      <3>2. Len(history) + Cardinality(Loading) <= setting.runs
        BY DEF StateInv, RunsFit
      <3>3. \/ Cardinality(Loading') = Cardinality(Loading)
            \/ Cardinality(Loading') = Cardinality(Loading \ {p})
        BY <2>1
      <3>. DEFINE n == Cardinality(Loading)
      <3>4. Cardinality(Loading') = n \/ Cardinality(Loading') = n - 1
        BY <3>1, <3>3
      <3>5. n \in Nat /\ Len(history) \in Nat /\ setting.runs \in Nat
            /\ Len(history) + n <= setting.runs
        BY <1>3, <3>1, <3>2
      <3>. HIDE DEF n
      <3>. QED
        BY <3>4, <3>5
    <2>. QED
      BY <1>1, <1>2, <2>2 DEF StateInv, TypeOK, RunsFit
  <1>6. RunsRecorded'
    BY <1>1, <1>2 DEF StateInv, TypeOK, RunsRecorded
  <1>7. RemovedIsForgotten'
    <2>1. file' = file \/ ~file'.readable
      BY <1>1 DEF NoFile
    <2>. QED
      BY <1>1, <2>1 DEF StateInv, RemovedIsForgotten
  <1>. QED
    BY <1>4, <1>5, <1>6, <1>7 DEF StateInv

LEMMA NextStateInv == StateInv /\ [Next]_vars => StateInv'
  <1>. SUFFICES ASSUME StateInv, [Next]_vars PROVE StateInv'
    OBVIOUS
  <1>1. ASSUME NEW p \in setting.procs, Step(p) PROVE StateInv'
    BY <1>1, InspectedStateInv, LoadStateInv, WriteStateInv, OtherStateInv DEF Step
  <1>2. CASE UNCHANGED vars
    BY <1>2 DEF vars, StateInv, TypeOK, RunsFit, RunsRecorded, RemovedIsForgotten, Loading
  <1>. QED
    BY <1>1, <1>2 DEF Next, Finished

\* The state file keeps its type under every overlap and fault.
THEOREM StateFileIsTyped == Spec => []TypeOK
  <1>1. StateInv => TypeOK
    BY DEF StateInv
  <1>. QED
    BY <1>1, InitStateInv, NextStateInv, PTL DEF Spec

\* Whatever runs overlap, are killed or fail to write: a readable state file lists
\* no target outside the one run that wrote it.
THEOREM NothingStaleIsKept == Spec => []RemovedIsForgotten
  <1>1. StateInv => RemovedIsForgotten
    BY DEF StateInv
  <1>. QED
    BY <1>1, InitStateInv, NextStateInv, PTL DEF Spec

\* Whatever came before: a run that leaves the file readable leaves in it every
\* status it saw itself.
THEOREM WhatIsSeenIsSaved == Spec => SavedIsCurrent
  <1>. DEFINE Saves == \A p \in Procs :
                         pc[p] = "write" /\ pc'[p] = "render" /\ file'.readable =>
                           \A t \in Targets : Current(run[p])[t] # NoStatus =>
                             file'.map[t] = Current(run[p])[t]
  <1>1. ASSUME StateInv, Next PROVE Saves
    <2>. SUFFICES ASSUME NEW p \in Procs, pc[p] = "write", pc'[p] = "render", file'.readable
                  PROVE  \A t \in Targets : Current(run[p])[t] # NoStatus =>
                           file'.map[t] = Current(run[p])[t]
      OBVIOUS
    <2>1. PICK q \in setting.procs : Step(q)
      BY <1>1 DEF Next, Finished, vars
    <2>2. q = p
      BY <1>1, <2>1 DEF StateInv, TypeOK, Step, Inspected, Load, Open, OpenFails, Write,
        WriteFails, RenderAndExit, Crash, Exit
    <2>3. Write(p)
      <3>1. ~(\E r \in Runs : Inspected(p, r)) /\ ~Load(p) /\ ~Open(p) /\ ~OpenFails(p)
        BY DEF Inspected, Load, Open, OpenFails
      <3>2. ~WriteFails(p)
        BY DEF WriteFails, NoFile
      <3>3. ~RenderAndExit(p) /\ ~Crash(p)
        BY <1>1 DEF RenderAndExit, Crash, Exit, StateInv, TypeOK
      <3>. QED
        BY <2>1, <2>2, <3>1, <3>2, <3>3 DEF Step
    <2>4. file'.map = NewState(previous[p], run[p])
      BY <1>1, <2>1, <2>2, <2>3, WriteStateInv
    <2>5. run[p] \in Runs /\ previous[p] \in Mapping
      BY <1>1 DEF StateInv, TypeOK, RunsRecorded
    <2>. QED
      BY <2>4, <2>5, StateFacts
  <1>2. StateInv /\ [Next]_vars => [Saves]_vars
    BY <1>1
  <1>. QED
    BY <1>2, InitStateInv, NextStateInv, PTL DEF Spec, SavedIsCurrent

-----------------------------------------------------------------------------
(* Runs one after the other                                                 *)

\* LastKnown, of any list of runs.
KnownIn(h, t, n) ==
  LET seen == {k \in 1..n : Current(h[k])[t] # NoStatus}
  IN IF seen = {} THEN NoStatus
     ELSE LET last == CHOOSE k \in seen : \A j \in seen : j <= k
          IN IF \A k \in (last + 1)..n : t \in FailedTargets(h[k])
             THEN Current(h[last])[t] ELSE NoStatus

\* It looks at the first n runs only.
LEMMA KnownOfSameRuns ==
  ASSUME NEW g, NEW h, NEW t, NEW n \in Nat, \A k \in 1..n : g[k] = h[k]
  PROVE  KnownIn(g, t, n) = KnownIn(h, t, n)
  <1>. DEFINE seen(f) == {k \in 1..n : Current(f[k])[t] # NoStatus}
              last == CHOOSE k \in seen(h) : \A j \in seen(h) : j <= k
  <1>1. seen(g) = seen(h)
    OBVIOUS
  <1>2. CASE seen(h) = {}
    BY <1>1, <1>2 DEF KnownIn
  <1>3. CASE seen(h) # {}
    <2>1. last \in seen(h)
      <3>1. seen(h) \subseteq 0..n
        OBVIOUS
      <3>. HIDE DEF seen
      <3>2. \E m \in seen(h) : \A k \in seen(h) : k <= m
        BY <1>3, <3>1, GreatestNatural
      <3>. QED
        BY <3>2
    <2>2. last \in 1..n
      BY <2>1
    <2>. HIDE DEF last
    <2>3. g[last] = h[last] /\ \A k \in (last + 1)..n : g[k] = h[k]
      BY <2>2
    <2>4. (\A k \in (last + 1)..n : t \in FailedTargets(g[k]))
            <=> (\A k \in (last + 1)..n : t \in FailedTargets(h[k]))
      BY <2>3
    <2>5. /\ KnownIn(g, t, n) = IF \A k \in (last + 1)..n : t \in FailedTargets(g[k])
                                THEN Current(g[last])[t] ELSE NoStatus
          /\ KnownIn(h, t, n) = IF \A k \in (last + 1)..n : t \in FailedTargets(h[k])
                                THEN Current(h[last])[t] ELSE NoStatus
      <3>1. \A f : seen(f) # {} =>
              KnownIn(f, t, n)
                = LET l == CHOOSE k \in seen(f) : \A j \in seen(f) : j <= k
                  IN IF \A k \in (l + 1)..n : t \in FailedTargets(f[k])
                     THEN Current(f[l])[t] ELSE NoStatus
        BY DEF KnownIn
      <3>. HIDE DEF seen
      <3>. QED
        BY <1>1, <1>3, <3>1 DEF last
    <2>. HIDE DEF seen
    <2>6. Current(g[last])[t] = Current(h[last])[t]
      BY <2>3
    <2>. QED
      BY <2>4, <2>5, <2>6
  <1>. QED
    BY <1>2, <1>3

\* The state a run writes over what was last known is what is last known after it:
\* update_state is the step of the reference definition.
LEMMA KnownOneMore ==
  ASSUME NEW h, NEW t \in Targets, NEW n \in Nat, NEW m \in Mapping,
         m[t] = KnownIn(h, t, n), h[n + 1] \in Runs
  PROVE  KnownIn(h, t, n + 1) = NewState(m, h[n + 1])[t]
  <1>. DEFINE seen(b) == {k \in 1..b : Current(h[k])[t] # NoStatus}
              last(b) == CHOOSE k \in seen(b) : \A j \in seen(b) : j <= k
              r == h[n + 1]
  <1>1. /\ Current(r)[t] # NoStatus => NewState(m, r)[t] = Current(r)[t]
        /\ Current(r)[t] = NoStatus =>
             NewState(m, r)[t] = IF t \in FailedTargets(r) THEN m[t] ELSE NoStatus
    BY StateFacts
  <1>2. \A b \in Nat : seen(b) # {} =>
          KnownIn(h, t, b) = IF \A k \in (last(b) + 1)..b : t \in FailedTargets(h[k])
                             THEN Current(h[last(b)])[t] ELSE NoStatus
    BY DEF KnownIn
  <1>3. \A b \in Nat : seen(b) = {} => KnownIn(h, t, b) = NoStatus
    BY DEF KnownIn
  <1>4. 1..(n + 1) = 1..n \cup {n + 1} /\ n + 1 \in Nat
    OBVIOUS
  <1>5. CASE Current(r)[t] # NoStatus
    <2>1. n + 1 \in seen(n + 1) /\ \A k \in seen(n + 1) : k <= n + 1
      BY <1>5
    <2>2. last(n + 1) = n + 1
      <3>1. seen(n + 1) \subseteq Int
        OBVIOUS
      <3>2. \A k \in seen(n + 1) : (\A j \in seen(n + 1) : j <= k) => k = n + 1
        BY <2>1, <3>1
      <3>. HIDE DEF seen
      <3>. QED
        BY <2>1, <3>2
    <2>3. (n + 1 + 1)..(n + 1) = {}
      OBVIOUS
    <2>4. seen(n + 1) # {}
      BY <2>1
    <2>. HIDE DEF seen, last
    <2>. QED
      BY <1>1, <1>2, <1>4, <1>5, <2>2, <2>3, <2>4
  <1>6. CASE Current(r)[t] = NoStatus
    <2>1. seen(n + 1) = seen(n)
      BY <1>4, <1>6
    <2>2. CASE seen(n) = {}
      <3>1. KnownIn(h, t, n + 1) = NoStatus /\ m[t] = NoStatus
        <4>. HIDE DEF seen
        <4>. QED
          BY <1>3, <1>4, <2>1, <2>2
      <3>. QED
        BY <1>1, <1>6, <3>1
    <2>3. CASE seen(n) # {}
      <3>1. last(n + 1) = last(n)
        BY <2>1
      <3>2. last(n) \in 1..n
        <4>1. seen(n) \subseteq 0..n
          OBVIOUS
        <4>2. \E k \in seen(n) : \A j \in seen(n) : j <= k
          <5>. HIDE DEF seen
          <5>. QED
            BY <2>3, <4>1, GreatestNatural
        <4>3. last(n) \in seen(n)
          <5>. HIDE DEF seen
          <5>. QED
            BY <4>2
        <4>. QED
          BY <4>3
      <3>3. /\ m[t] = IF \A k \in (last(n) + 1)..n : t \in FailedTargets(h[k])
                      THEN Current(h[last(n)])[t] ELSE NoStatus
            /\ KnownIn(h, t, n + 1)
                 = IF \A k \in (last(n) + 1)..(n + 1) : t \in FailedTargets(h[k])
                   THEN Current(h[last(n)])[t] ELSE NoStatus
        <4>. HIDE DEF seen, last
        <4>. QED
          BY <1>2, <1>4, <2>1, <2>3, <3>1
      <3>. HIDE DEF last, seen
      <3>4. (last(n) + 1)..(n + 1) = (last(n) + 1)..n \cup {n + 1}
        BY <3>2
      <3>5. (\A k \in (last(n) + 1)..(n + 1) : t \in FailedTargets(h[k]))
              <=> (\A k \in (last(n) + 1)..n : t \in FailedTargets(h[k])) /\ t \in FailedTargets(r)
        BY <3>4
      <3>. QED
        BY <1>1, <1>6, <3>3, <3>5
    <2>. QED
      BY <2>2, <2>3
  <1>. QED
    BY <1>5, <1>6

\* One process at a time: before a run the file is what is last known; from its
\* load to its report, what the run loaded is what was known before it.
CalmInv ==
  Calm => \A p \in setting.procs :
    /\ pc[p] \in {"idle", "load"} => \A t \in Targets : file.map[t] = KnownIn(history, t, Len(history))
    /\ pc[p] \in {"open", "write", "render"} =>
         /\ before[p] + 1 = Len(history)
         /\ \A t \in Targets : previous[p][t] = KnownIn(history, t, before[p])
         /\ reported[p] = Changed(previous[p], run[p])
    /\ pc[p] = "write" => file = NoFile
    /\ pc[p] = "render" => file.map = NewState(previous[p], run[p])

\* A calm setting has one process and no fault.
LEMMA CalmFacts ==
  ASSUME StateInv, Calm, NEW p \in setting.procs
  PROVE  setting.procs = {p} /\ p \in Procs /\ setting.faults = {}
  <1>1. IsFiniteSet(setting.procs) /\ setting.procs \subseteq Procs
    BY SettingFacts DEF StateInv, TypeOK
  <1>. QED
    BY <1>1, FS_Singleton DEF Calm

LEMMA InitCalmInv == Init => CalmInv
  <1>. SUFFICES ASSUME Init PROVE CalmInv
    OBVIOUS
  <1>1. Len(history) = 0 /\ file.map = EmptyMap
    BY EmptySeq DEF Init, NoFile
  <1>2. \A t \in Targets : KnownIn(history, t, 0) = NoStatus
    BY DEF KnownIn
  <1>3. \A p \in setting.procs : pc[p] = "idle"
    BY SettingFacts DEF Init
  <1>. QED
    BY <1>1, <1>2, <1>3 DEF CalmInv, EmptyMap

LEMMA NextCalmInv == StateInv /\ CalmInv /\ [Next]_vars => CalmInv'
  <1>. SUFFICES ASSUME StateInv, CalmInv, [Next]_vars, Calm' PROVE CalmInv'
    BY DEF CalmInv
  <1>1. CASE UNCHANGED vars
    BY <1>1 DEF vars, CalmInv, Calm
  <1>2. ASSUME NEW p \in setting.procs, Step(p) PROVE CalmInv'
    <2>1. setting' = setting
      BY <1>2 DEF Step, Inspected, Load, Open, OpenFails, Write, WriteFails, RenderAndExit, Crash, Exit
    <2>2. Calm /\ setting.procs = {p} /\ p \in Procs /\ setting.faults = {}
      BY <2>1, CalmFacts DEF Calm
    <2>. SUFFICES
           /\ pc'[p] \in {"idle", "load"} =>
                \A t \in Targets : file'.map[t] = KnownIn(history', t, Len(history'))
           /\ pc'[p] \in {"open", "write", "render"} =>
                /\ before'[p] + 1 = Len(history')
                /\ \A t \in Targets : previous'[p][t] = KnownIn(history', t, before'[p])
                /\ reported'[p] = Changed(previous'[p], run'[p])
           /\ pc'[p] = "write" => file' = NoFile
           /\ pc'[p] = "render" => file'.map = NewState(previous'[p], run'[p])
      <3>1. \A q \in setting'.procs : q = p
        BY <2>1, <2>2
      <3>. QED
        BY <3>1 DEF CalmInv
    <2>3. /\ pc[p] \in {"idle", "load"} =>
               \A t \in Targets : file.map[t] = KnownIn(history, t, Len(history))
          /\ pc[p] \in {"open", "write", "render"} =>
               /\ before[p] + 1 = Len(history)
               /\ \A t \in Targets : previous[p][t] = KnownIn(history, t, before[p])
               /\ reported[p] = Changed(previous[p], run[p])
          /\ pc[p] = "write" => file = NoFile
          /\ pc[p] = "render" => file.map = NewState(previous[p], run[p])
      BY <2>2 DEF CalmInv
    <2>4. CASE \E r \in Runs : Inspected(p, r)
      <3>1. /\ pc[p] = "idle" /\ pc'[p] = "load" /\ UNCHANGED <<file, history>>
        BY <2>2, <2>4 DEF Inspected, StateInv, TypeOK
      <3>. QED
        BY <2>3, <3>1
    <2>5. CASE Load(p)
      <3>1. /\ pc[p] = "load" /\ pc'[p] = "open" /\ previous'[p] = file.map
            /\ reported'[p] = Changed(file.map, run[p]) /\ run'[p] = run[p]
            /\ history' = Append(history, run[p]) /\ before'[p] = Len(history)
        BY <2>2, <2>5 DEF Load, StateInv, TypeOK
      <3>2. run[p] \in Runs /\ history \in Seq(Runs)
        BY <2>2, <3>1 DEF StateInv, TypeOK, RunsRecorded
      <3>3. /\ Len(history) \in Nat /\ Len(history') = Len(history) + 1
            /\ \A k \in 1..Len(history) : history'[k] = history[k]
        BY <3>1, <3>2, EntriesOfAppend
      <3>4. \A t \in Targets :
              KnownIn(history', t, Len(history)) = KnownIn(history, t, Len(history))
        BY <3>3, KnownOfSameRuns
      <3>. QED
        BY <2>3, <3>1, <3>3, <3>4
    <2>6. CASE Open(p)
      <3>1. /\ pc[p] = "open" /\ pc'[p] = "write" /\ file' = NoFile
            /\ UNCHANGED <<run, previous, reported, history, before>>
        BY <2>2, <2>6 DEF Open, StateInv, TypeOK
      <3>. QED
        BY <2>3, <3>1
    <2>7. CASE Write(p)
      <3>1. /\ pc[p] = "write" /\ pc'[p] = "render" /\ file = NoFile
            /\ UNCHANGED <<run, previous, reported, history, before>>
        BY <2>2, <2>3, <2>7 DEF Write, StateInv, TypeOK
      <3>2. file' = Written(NewState(previous[p], run[p]))
        BY <2>7, <3>1 DEF Write
      <3>. QED
        BY <2>3, <3>1, <3>2 DEF Written
    <2>8. CASE RenderAndExit(p)
      <3>1. /\ pc[p] = "render" /\ pc'[p] = "idle" /\ UNCHANGED <<file, history>>
        BY <2>2, <2>8 DEF RenderAndExit, Exit, StateInv, TypeOK
      <3>2. /\ run[p] \in Runs /\ previous[p] \in Mapping /\ before[p] \in Nat
            /\ history[before[p] + 1] = run[p]
        BY <2>2, <3>1, SettingFacts DEF StateInv, TypeOK, RunsRecorded
      <3>3. ASSUME NEW t \in Targets
            PROVE  file.map[t] = KnownIn(history, t, Len(history))
        <4>1. previous[p][t] = KnownIn(history, t, before[p]) /\ before[p] + 1 = Len(history)
              /\ file.map = NewState(previous[p], run[p])
          BY <2>3, <3>1
        <4>2. KnownIn(history, t, before[p] + 1) = NewState(previous[p], history[before[p] + 1])[t]
          BY <3>2, <4>1, KnownOneMore
        <4>. QED
          BY <3>2, <4>1, <4>2
      <3>. QED
        BY <3>1, <3>3
    <2>9. ~OpenFails(p) /\ ~WriteFails(p) /\ ~Crash(p)
      BY <2>2 DEF OpenFails, WriteFails, Crash
    <2>. QED
      BY <1>2, <2>4, <2>5, <2>6, <2>7, <2>8, <2>9 DEF Step
  <1>. QED
    BY <1>1, <1>2 DEF Next, Finished

\* Runs one after the other report a target as changed exactly when its status
\* differs from the last one known, through any number of outages, removals,
\* returns and duplicates, for any set of targets.
THEOREM ChangesAreExact == Spec => []ChangedIsExact
  <1>1. ASSUME StateInv, CalmInv, Calm, NEW p \in Procs, pc[p] = "render", NEW t \in Targets
        PROVE  t \in reported[p] <=> /\ Current(run[p])[t] # NoStatus
                                     /\ LastKnown(t, before[p]) # Current(run[p])[t]
    <2>1. p \in setting.procs
      BY <1>1 DEF StateInv, RunsFit
    <2>2. /\ previous[p][t] = KnownIn(history, t, before[p])
          /\ reported[p] = Changed(previous[p], run[p])
      BY <1>1, <2>1 DEF CalmInv
    <2>3. LastKnown(t, before[p]) = KnownIn(history, t, before[p])
      BY DEF LastKnown, KnownIn
    <2>. QED
      BY <2>2, <2>3 DEF Changed
  <1>2. StateInv /\ CalmInv => ChangedIsExact
    BY <1>1 DEF ChangedIsExact
  <1>. QED
    BY <1>2, InitStateInv, NextStateInv, InitCalmInv, NextCalmInv, PTL DEF Spec
=============================================================================
