SPECIFICATION Spec
CONSTANTS
  None = None
  RttSlow2G = 10
  Rtt2G = 7
  Rtt3G = 2
  KbpsSlow2G = 5
  Kbps2G = 7
  Kbps3G = 70
  Unit = 10
  TransportLower = 10
  EndToEndLower = 9
  EndToEndUpper = 16
  KbpsUpper = 35
  TransportMinCount = 5
  EndToEndMinCount = 5
  AdjustRtt = TRUE
  ClampKbps = TRUE
  Rtts = {1, 6, 7, 12}
  Kbps = {4, 6, 300}
  Counts = {4, 5}
INVARIANTS
  TypeOK
  TypeOfOwnValues
  HttpWithinBounds
  CombinedBetween
  TypeMonotone
CHECK_DEADLOCK FALSE
