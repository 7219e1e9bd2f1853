SPECIFICATION Spec
CONSTANTS
  Controllers = {c1, c2}
  Checkers = {}
  Monitor = monitor
  Nested = {}
  Outer <- OuterMonitor
  On <- OnMonitor
  Observers = {}
  Types = {UNKNOWN, wifi}
  UNKNOWN = UNKNOWN
  MaxBatch = 1
PROPERTY
  StopReturns
CHECK_DEADLOCK FALSE
