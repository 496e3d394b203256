CONSTANTS
  BlockSize = 8
  Header = 4
  Byte <- AllBytes
  Junk = 999
  Base = 4
  MaxCookie = 4
  MaxDepth = 2
  Inputs <- Arguments
SPECIFICATION Spec
INVARIANTS Exact BlocksFreed
PROPERTIES RoundTrip
CHECK_DEADLOCK FALSE
