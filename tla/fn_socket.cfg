SPECIFICATION FairSpec
CONSTANTS
  Instances = {i1, i2, i3}
  Nobody = Nobody
INVARIANTS
  TypeOK
  VisibleIsReady
  FilesAreKept
  LeftoversAreNoObstacle
PROPERTIES
  RestartRecovers
CHECK_DEADLOCK FALSE
