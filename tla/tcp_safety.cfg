SPECIFICATION Spec
CONSTANTS
  Requests = {r1, r2, r3, r4}
  NoRequest = NoRequest
  Boundary = 2
  Ordered = TRUE
SYMMETRY Symmetry
INVARIANTS
  TypeOK
  AbandonmentIsPermanent
  MismatchHasACause
  OneOpenTrip
CHECK_DEADLOCK FALSE
