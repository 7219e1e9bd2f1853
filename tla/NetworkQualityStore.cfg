SPECIFICATION Spec
CONSTANTS
  plain = plain
  comma = comma
  other = other
  Networks = {plain, comma, other}
  Sanitized <- MCSanitized
  Capacity = 2
  MaxAge = 1
  MaxTime = 3
INVARIANTS
  TypeOK
  NeverBelievedOlder
PROPERTIES
  OnlyLoadExceeds
  PutEvictsOldest
  SavedComesBack
