\* Three events of two groups, a debounced and deduplicated and a cooled-down spec.
SPECIFICATION EventSpec
SYMMETRY IngressSymmetry
CONSTANTS
  e1 = e1
  e2 = e2
  e3 = e3
  hub = hub
  cli = cli
  Event = {e1, e2, e3}
  KeyOf <- MCKeyOf
  Spec = {1, 2}
  Matching <- MCMatching
  Debounce <- MCDebounce
  DedupeWindow <- MCDedupeWindow
  Cooldown <- MCCooldown
  Ingress = {hub, cli}
  Slot = {1, 2, 3}
  MaxTime = 2
  MaxGrants = 1
  MaxFaults = 1
INVARIANTS
  TypeOK
  OneRunPerEvent
  LogTellsTheTruth
  LogSettles
PROPERTIES
  ClaimedKeepsItsEvent
  DebounceExtends
  Spaced
CHECK_DEADLOCK FALSE
