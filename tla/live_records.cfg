SPECIFICATION Spec
CONSTANTS
  Forms = {w, f}
  Pages = {w}
  RingCapacity = 1
  WireCapacity = 1
  MaxItems = 3
INVARIANTS
  TypeOK
  OwnRecordIsShown
CHECK_DEADLOCK FALSE
