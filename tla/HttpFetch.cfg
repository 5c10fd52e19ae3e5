SPECIFICATION Spec
CONSTANTS
  Fetches = 2
  MaxRedirects = 1
  Schemes = {"http", "https"}
  SlowConnect = TRUE
INVARIANTS
  CutIsATimeout
  DeadlineIsOfItsFetch
PROPERTY DeadlineEndsPlainFetch
