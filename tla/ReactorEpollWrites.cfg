CONSTANTS
  r1 = r1
  r2 = r2
  q1 = q1
  q2 = q2
  w1 = w1
  a = a
  b = b
  x1 = x1
  x2 = x2
  Null = Null
  Ops = {q1, w1}
  Fds = {b}
  FdOf <- FdMap
  DirOf <- DirMap
  Streams = {r1, r2}
  Backend = "epoll"
  Runners = {x1}
  Timed = TRUE
  Active <- Lists
  MaxPending = 1
  MaxAvail = 1
SPECIFICATION Spec
PROPERTIES WritesServed
CHECK_DEADLOCK FALSE
