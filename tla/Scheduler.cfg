CONSTANTS
  Workers = {w1, w2}
  Tasks = {t1, t2, t3}
  NoTask = NoTask
  Hogs = {t1}
SPECIFICATION Spec
INVARIANTS TypeOK OnePlace NoTaskLost WakeupKept WorkConserving
PROPERTIES QueuedRuns WakeupRuns ExitJoins
CHECK_DEADLOCK FALSE
