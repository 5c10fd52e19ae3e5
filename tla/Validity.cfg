SPECIFICATION ValiditySpec
CONSTANTS
  Unset = Unset
  Day = 3
  Horizon = 14
  Gap = 4
  Windows <- MCWindows
  LimitSets <- MCLimits
  Schedule <- MCSchedule
INVARIANTS
  ExpiryIsExplained
  OutputsAgree
  CapIsTheTightestInForce
PROPERTY NoSurpriseExpiry
