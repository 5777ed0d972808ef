\* Two runs of one spec with max_parallel 1 on a runner that stops and crashes.
CONSTANTS
  p1 = p1
  p2 = p2
  s1 = s1
  s2 = s2
  Run <- MCRun
  Runner = {p1}
  Spec = {s1}
  SpecOf <- SharedSpec
  MaxParallel <- MCMaxParallel
  GlobalLimit = 2
  ClaimLimit = 2
  Timed = {s1}
  Timely = TRUE
  MaxAttempts = 2
  MaxFaults = 2
SPECIFICATION FairSpec
INVARIANT
  LimitsRespected
PROPERTY
  EveryRunSettles
CHECK_DEADLOCK FALSE
