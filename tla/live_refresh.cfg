SPECIFICATION FairSpec
CONSTANTS
  Forms = {f}
  Pages = {p}
  RingCapacity = 1
  WireCapacity = 1
  MaxItems = 4
INVARIANTS
  WatchersConverge
PROPERTIES
  RecordReachesWatchers
CHECK_DEADLOCK FALSE
