CONSTANTS
  t1 = t1
  t2 = t2
  t3 = t3
  c1 = c1
  c2 = c2
  c3 = c3
  Workers = {w1, w2}
  Tasks = {t1, t2}
  NoTask = NoTask
  Channels = {c1, c2, c3}
  NoChannel = NoChannel
  IntSize = 30
  Msgs = {m1, m2}
  NoMsg = NoMsg
  Spawns <- EchoSpawns
  Opens <- EchoOpens
  Closes <- Nothing
  Sends <- EchoSends
  Recvs <- EchoRecvs
  Servers = {t1, t2}
SPECIFICATION Spec
PROPERTIES RecvReturns SchedulerSpec
CHECK_DEADLOCK FALSE
