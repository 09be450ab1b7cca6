SPECIFICATION FairSpec
CONSTANTS
  Requests = {r1, r2, r3}
  NoRequest = NoRequest
  Boundary = 1
  Ordered = FALSE
INVARIANTS
  PayloadWasServed
PROPERTIES
  ImplementsRpc
  EveryCallEnds
CHECK_DEADLOCK FALSE
