\* stop() while startSession is pending: the turn is sent all the same.
CONSTANTS
  p1 = p1
  p2 = p2
  s1 = s1
  s2 = s2
  Run <- OneRun
  Runner = {p1, p2}
  Spec = {s1}
  SpecOf <- SharedSpec
  MaxParallel <- MCMaxParallel
  GlobalLimit = 2
  ClaimLimit = 2
  Timed = {s1}
  Timely = TRUE
  MaxAttempts = 2
  MaxFaults = 1
SPECIFICATION SafeSpec
INVARIANT
  LiveTurnOwnsRun
CHECK_DEADLOCK FALSE
