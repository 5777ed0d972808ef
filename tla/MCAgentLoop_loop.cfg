\* Two calls of execute(), two tools, limited and unlimited, faults anywhere.
CONSTANTS
  c1 = c1
  c2 = c2
  none = none
  Call = {c1, c2}
  None = none
  Configs <- MCConfigs
  MaxTools = 2
  Faults = TRUE
SPECIFICATION Spec
INVARIANTS
  TypeOK
  RequestsAnswered
  EndsOnce
PROPERTIES
  NothingStartsAfterAbort
  AbortedRunsReturn
CHECK_DEADLOCK FALSE
