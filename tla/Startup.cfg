SPECIFICATION Spec
CONSTANTS
  Unset = Unset
  Unreadable = Unreadable
  NoAnswer = NoAnswer
  Missing = Missing
  Undecodable = Undecodable
  NoName = NoName
  NoSerial = NoSerial
  Raised = Raised
  Scenarios <- MCScenarios
  CertFacts <- MCCertFacts
  CabForum = 398
  Elements <- MCElements
  N = 2
  MaxWorkers = 2
  Answers <- MCAnswers
  NameOf <- MCNameOf
  SortedNames <- MCSortedNames
  Wildcards = {"*.d1"}
  Under <- MCUnder
  Matches <- MCMatches
  InputContents <- MCInputContents
  Ignored = {"#"}
  Stdin = "-"
INVARIANTS
  TypeOK
  ExplicitLimitsSurvive
  TiersAreNested
  StartsSoundly
  DiscoveryIsAllOrNothing
  InventoryIsComplete
  MisissuanceIsFlagged
