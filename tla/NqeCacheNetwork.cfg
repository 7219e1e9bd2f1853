SPECIFICATION Spec
CONSTANTS
  Callers = {c1}
  Notifier = notifier
  Nested = {}
  Outer <- MCOuter
  Observers = {o1}
  Networks = {n1, n2}
  Ects = {e1, e2}
  ClearOnChange = TRUE
  EnableCaching = TRUE
  NewObservations = 2
  MaxSamples = 2
  MaxChanges = 1
SYMMETRY NqeSymmetry
INVARIANT
  CacheOfOwnNetwork
