SPECIFICATION Spec
CONSTANTS
  Forms = {f}
  Pages = {p}
  RingCapacity = 2
  WireCapacity = 1
  MaxItems = 1
INVARIANTS
  ConnectedPageIsCurrent
CHECK_DEADLOCK FALSE
