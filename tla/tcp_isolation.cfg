SPECIFICATION Spec
CONSTANTS
  Requests = {r1, r2}
  NoRequest = NoRequest
  Boundary = 2
  Ordered = TRUE
INVARIANTS
  TimeoutsArePerRoundTrip
CHECK_DEADLOCK FALSE
