\* Two overlapping turns, two prompts, a teammate run, faults, abort and stop.
CONSTANTS
  t1 = t1
  t2 = t2
  stop = stop
  a = a
  b = b
  r1 = r1
  Turn = {t1, t2}
  Stopper = stop
  TeamRun = {r1}
  Text = {a, b}
  Resumed = {"completed"}
  MaxPrompts = 2
  Faults = TRUE
SPECIFICATION Spec
INVARIANTS
  TypeOK
  OneDrainAtATime
  SteersFirst
  AbortingHoldsPutBackOnly
  SleepersHaveWork
  NoSilentStall
PROPERTIES
  ComesToRest
CHECK_DEADLOCK FALSE
