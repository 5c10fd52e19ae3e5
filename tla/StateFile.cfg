SPECIFICATION Spec
CONSTANTS
  Targets = {a, b}
  Statuses = {VALID, EXPIRED}
  NoStatus = NoStatus
  Failed = Failed
  p1 = p1
  p2 = p2
  Procs = {p1, p2}
  Settings <- MCSettings
  MaxItems = 2
SYMMETRY Symmetric
INVARIANTS
  ChangedIsExact
  RemovedIsForgotten
PROPERTY SavedIsCurrent
