SPECIFICATION Spec
CONSTANTS
  MaxIssuerUrls = 2
  MaxCrlUrls = 2
  Holds = FALSE
  NoAnswer = NoAnswer
INVARIANTS
  GoodIsTrue
  RevokedIsTrue
  UnavailableIsExhaustive
