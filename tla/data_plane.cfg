SPECIFICATION FairSpec
CONSTANTS
  t1 = t1
  t2 = t2
  Tenants <- MCTenants
  Unauthorized = Unauthorized
  Requests = {r1, r2}
  Tokens = {k}
  Grants <- MCGrants
  Configured = {"direct", "tcp", "nats"}
  MaxClock = 2
INVARIANTS
  TypeOK
  TenantIsolation
  DoomedLearnNothing
PROPERTIES
  EveryRequestEnds
CHECK_DEADLOCK FALSE
