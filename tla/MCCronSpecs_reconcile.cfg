\* One service mirrors a one-off and a schedule that are edited while it crashes.
CONSTANTS
  p1 = p1
  p2 = p2
  oneOff = oneOff
  sched = sched
  hub = hub
  Path = {oneOff, sched}
  KindOf <- MCKindOf
  Service = {p1}
  Content <- AllContents
  Missing = Missing
  NextSlot <- EverySlot
  Prompt = FALSE
  MaxTime = 2
  MaxEdits = 3
  MaxCrashes = 1
SPECIFICATION FairSpec
INVARIANTS
  TypeOK
  CatchUpOnce
PROPERTIES
  OverdueKept
  Converges
CHECK_DEADLOCK FALSE
