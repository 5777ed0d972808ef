\* One run, two runners: leases lapse at any time, stops and crashes anywhere.
CONSTANTS
  p1 = p1
  p2 = p2
  s1 = s1
  s2 = s2
  Run <- OneRun
  Runner = {p1, p2}
  Spec = {s1}
  SpecOf <- SharedSpec
  MaxParallel <- MCMaxParallel
  GlobalLimit = 2
  ClaimLimit = 2
  Timed = {s1}
  Timely = FALSE
  MaxAttempts = 3
  MaxFaults = 2
SPECIFICATION SafeSpec
INVARIANTS
  TypeOK
  TokenMatchesStatus
  ClaimsDistinct
  StoppedRunnerOwnsNothing
PROPERTIES
  OutcomeIsFinal
  OnlyHolderSettles
  ImplementsLifecycle
SYMMETRY RunnerSymmetry
CHECK_DEADLOCK FALSE
