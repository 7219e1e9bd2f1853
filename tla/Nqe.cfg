SPECIFICATION Spec
CONSTANTS
  Callers = {c1, n}
  Notifier = notifier
  Nested = {n}
  Outer <- MCOuter
  Observers = {o1, o2}
  Networks = {n1}
  Ects = {e1}
  ClearOnChange = TRUE
  EnableCaching = TRUE
  NewObservations = 2
  MaxSamples = 1
  MaxChanges = 1
SYMMETRY NqeSymmetry
VIEW WithoutHistory
INVARIANTS
  TypeOK
  NoCounterWrap
  EctNeedsSamples
  EveryChangeAnnounced
PROPERTIES
  AnnouncesAsPromised
