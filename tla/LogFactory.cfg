CONSTANTS
  m1 = m1
  m2 = m2
  s1 = s1
  s2 = s2
  s3 = s3
  Msgs = {m1, m2}
  Sinks = {s1, s2, s3}
  Applies <- Sources
  Closers = {k1, k2}
  Initial = {s1, s2}
  MaxChanges = 1
SPECIFICATION Spec
INVARIANTS TypeOK InOrder Accounted ClosedIsFlushed
PROPERTIES EndsWritten CloseReturns
CHECK_DEADLOCK FALSE
