CONSTANTS
  MaxSize = 1
  MaxDay = 1
  MaxMsg = 8
  MaxRestarts = 2
  MaxFailures = 2
SPECIFICATION Spec
INVARIANTS TypeOK SizeBound BlocksFilled BlocksInOrder KeptUnlessFailed
CHECK_DEADLOCK FALSE
