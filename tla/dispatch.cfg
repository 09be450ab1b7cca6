SPECIFICATION Spec
INVARIANTS
  TypeOK
  OneVerdict
  AcceptedIsComplete
  
CHECK_DEADLOCK FALSE
