SPECIFICATION FairSpec
CONSTANTS
  Clients = {c1, c2}
  Nobody = Nobody
  MaxBody = 2
  MaxLines = 3
  MaxInput = 12
INVARIANTS
  TypeOK
  DispatchedIsWhole
  RefusalsAreFair
  BodyBounded
PROPERTIES
  EveryClientHasItsTurn
CHECK_DEADLOCK FALSE
