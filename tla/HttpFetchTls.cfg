SPECIFICATION Spec
CONSTANTS
  Fetches = 1
  MaxRedirects = 1
  Schemes = {"https"}
  SlowConnect = FALSE
PROPERTY DeadlineEndsTheFetch
