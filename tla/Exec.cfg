CONSTANTS
  Execs = {e1, e2}
  Piped = {e2}
  Callers = {k1, k2}
  NoExec = NoExec
  Codes = {0, 1}
  MaxPids = 3
  MaxFailures = 1
SPECIFICATION Spec
PROPERTIES ReportsChild OnlyUnwaited WaitReturns
CHECK_DEADLOCK FALSE
