CONSTANTS
  r1 = r1
  r2 = r2
  q1 = q1
  q2 = q2
  w1 = w1
  a = a
  b = b
  x1 = x1
  x2 = x2
  Null = Null
  Ops = {q1, q2, w1}
  Fds = {b}
  FdOf <- FdMap
  DirOf <- DirMap
  Streams = {r1, r2}
  Backend = "epoll"
  Runners = {x1, x2}
  Timed = TRUE
  Active <- UsedLists
  MaxPending = 2
  MaxAvail = 1
SPECIFICATION Spec
INVARIANTS TypeOK QueueSound ListsSound
SYMMETRY Symmetry
CHECK_DEADLOCK FALSE
