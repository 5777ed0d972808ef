\* The scan of the directory and the programmatic schedules of the same table.
CONSTANTS
  p1 = p1
  p2 = p2
  oneOff = oneOff
  sched = sched
  hub = hub
  Path = {hub, sched}
  KindOf <- MCKindOf
  Service = {p1}
  Content <- OnOff
  Missing = Missing
  NextSlot <- EverySlot
  Prompt = TRUE
  MaxTime = 1
  MaxEdits = 2
  MaxCrashes = 1
SPECIFICATION SafeSpec
PROPERTY
  HubSchedulesSurvive
CHECK_DEADLOCK FALSE
