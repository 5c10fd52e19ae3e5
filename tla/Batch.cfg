SPECIFICATION FairBatchSpec
CONSTANTS
  N = 3
  MaxWorkers = 2
  Answers <- MCAnswers
  Raised <- NoAnswer
  Targets <- MCTargets
  Statuses <- MCStatuses
  NoStatus = "absent"
  Failed = "failed"
  OutputSets <- MCOutputs
  PreviousFiles <- MCPrevious
INVARIANTS
  ExitIsTheWorstFound
  NagiosAgrees
  EveryTargetIsReported
  SummaryAgrees
  EveryChangeIsShown
PROPERTIES
  QuietWhenOver
  IsSequential
  OnlyACallHangs
