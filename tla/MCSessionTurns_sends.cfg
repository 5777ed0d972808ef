\* The title of the test: a send to a running session waits for its turn.
CONSTANTS
  t1 = t1
  t2 = t2
  stop = stop
  a = a
  b = b
  r1 = r1
  Turn = {t1, t2}
  Stopper = stop
  TeamRun = {r1}
  Text = {a, b}
  Resumed = {}
  MaxPrompts = 2
  Faults = FALSE
SPECIFICATION Spec
PROPERTIES
  SendsQueueBehindTurn
CHECK_DEADLOCK FALSE
