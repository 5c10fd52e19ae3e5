SPECIFICATION Spec
CONSTANTS
  MaxIssuerUrls = 2
  MaxCrlUrls = 2
  Holds = TRUE
  NoAnswer = NoAnswer
INVARIANT RevokedIsTrue
