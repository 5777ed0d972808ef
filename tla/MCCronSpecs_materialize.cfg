\* Two services materialize a one-off and a schedule from one cron.db.
CONSTANTS
  p1 = p1
  p2 = p2
  oneOff = oneOff
  sched = sched
  hub = hub
  Path = {oneOff, sched, hub}
  KindOf <- MCKindOf
  Service = {p1, p2}
  Content <- OnOff
  Missing = Missing
  NextSlot <- EverySlot
  Prompt = TRUE
  MaxTime = 2
  MaxEdits = 2
  MaxCrashes = 0
SPECIFICATION SafeSpec
INVARIANTS
  OneRunPerKey
SYMMETRY ServiceSymmetry
CHECK_DEADLOCK FALSE
