CONSTANTS
  a = a  b = b  m = m
  Conns <- MCConns
  Main <- MCMain
  ReadLocks = {"R0", "R1"}
  MaxQueue = 3
SPECIFICATION ShmSpec
INVARIANTS
    ShmTypeOK
    PurgeEnds
PROPERTIES
    SleepEnds
CHECK_DEADLOCK FALSE
