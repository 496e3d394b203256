CONSTANTS
  t1 = t1
  t2 = t2
  t3 = t3
  c1 = c1
  c2 = c2
  c3 = c3
  Workers = {w1, w2}
  Tasks = {t1, t2, t3}
  NoTask = NoTask
  Channels = {c1, c2, c3}
  NoChannel = NoChannel
  IntSize = 30
  Msgs = {m1, m2}
  NoMsg = NoMsg
  Spawns <- ShareSpawns
  Opens <- ShareOpens
  Closes <- ShareCloses
  Sends <- ShareSends
  Recvs <- ShareRecvs
  Servers = {t2, t3}
SPECIFICATION Spec
INVARIANTS NoLostWakeup SomeoneAwake
PROPERTIES ChannelSpec
CHECK_DEADLOCK FALSE
SYMMETRY Symmetry
