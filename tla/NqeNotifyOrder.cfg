SPECIFICATION Spec
CONSTANTS
  Callers = {c1, c2}
  Notifier = notifier
  Nested = {}
  Outer <- MCOuter
  Observers = {o1}
  Networks = {n1, n2}
  Ects = {e1, e2}
  ClearOnChange = TRUE
  EnableCaching = FALSE
  NewObservations = 2
  MaxSamples = 2
  MaxChanges = 1
SYMMETRY NqeSymmetry
PROPERTY
  ObserverToldPrevious
