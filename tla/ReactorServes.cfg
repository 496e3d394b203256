CONSTANTS
  r1 = r1
  r2 = r2
  q1 = q1
  q2 = q2
  w1 = w1
  a = a
  b = b
  x1 = x1
  x2 = x2
  Null = Null
  Ops = {r1, w1}
  Fds = {a, b}
  FdOf <- FdMap
  DirOf <- DirMap
  Streams = {r1, r2}
  Backend = "kqueue"
  Runners = {x1}
  Timed = TRUE
  Active <- UsedLists
  MaxPending = 1
  MaxAvail = 1
SPECIFICATION Spec
PROPERTIES ReadyRuns ReadsServed WritesServed
CHECK_DEADLOCK FALSE
