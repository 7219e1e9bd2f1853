SPECIFICATION Spec
CONSTANTS
  Ids = {r1, r2, r3, r4}
  Kinds = {"plain", "hanging", "post"}
  MaxRequestsSize = 3
  MinInFlight = 2
  MinTransfer = 2
  SizeT = 64
  InitialBytes = {0}
  ReadSizes = {1, 2}
  Durations = {0, 1}
  MaxStarts = 5
  MaxBytes = 2
  MaxAge = 1
SYMMETRY IdSymmetry
INVARIANT
  NoDegradingInFlight
