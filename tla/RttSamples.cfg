SPECIFICATION Spec
CONSTANTS
  Senders = {s1, s2}
  Receivers = {r1, r2}
  Keys = {k1}
  NoKey = NoKey
  MaxKeep = 2
  Threshold = 1
  Horizon = 1
  Decay <- HalfLife
  MaxClock = 3
  MaxSends = 3
SYMMETRY RttSamplesSymmetry
INVARIANTS
  TypeOK
  NeverOverestimates
  OneSamplePerSend
  FreshnessByNewest
  StatisticsOrdered
  MedianSplits
CHECK_DEADLOCK FALSE
