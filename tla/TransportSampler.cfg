SPECIFICATION Spec
CONSTANTS
  Controllers = {c1, c2}
  Workers = {w1, w2}
  Sockets = {s1}
  NoThread = NoThread
INVARIANTS
  TypeOK
  OnlyDisturbedTerminates
  SamplerFollowsFlag
  DestroyedAlone
  AtMostOneLateSample
PROPERTIES
  StopReturns
CHECK_DEADLOCK FALSE
