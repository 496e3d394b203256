CONSTANTS
  Tasks = {t1, t2}
  Channels = {c1, c2}
  NoChannel = NoChannel
  Msgs = {}
  IntSize = 5
  IdSize = 4
  Asked = {0, 1}
  MaxLost = 3
SPECIFICATION TableSpec
SYMMETRY Symmetry
INVARIANTS TypeOK NoUseAfterFree Reclaimed IdsLead
