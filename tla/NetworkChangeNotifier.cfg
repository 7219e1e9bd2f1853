SPECIFICATION Spec
CONSTANTS
  Controllers = {c1}
  Checkers = {c1}
  Monitor = monitor
  Nested = {n1}
  Outer <- OuterMonitor
  On <- OnMonitor
  Observers = {o1}
  Types = {UNKNOWN, wifi}
  UNKNOWN = UNKNOWN
  MaxBatch = 2
INVARIANTS
  TypeOK
  OnlyDisturbedTerminates
  ThreadFollowsFlag
  MonitorUpToDate
PROPERTIES
  UndisturbedReturns
  MessagesRead
CHECK_DEADLOCK FALSE
