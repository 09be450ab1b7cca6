---------------------------- MODULE MCDataPlane ----------------------------
(* Model-checking instance of DataPlane: one claim record per way a token  *)
(* can be good or bad.                                                     *)
EXTENDS DataPlane

CONSTANTS t1, t2

Good(tenant) == [active |-> TRUE, ours |-> TRUE, exp |-> 9, nbf |-> 0,
                 tenant_id |-> tenant, provider_tenant |-> "absent"]

MCClaims ==
  {Good(t1), Good(t2),
   [Good(t1) EXCEPT !.exp = 1],
   [Good(t1) EXCEPT !.nbf = 1],
   [Good(t1) EXCEPT !.ours = FALSE],
   [Good("other") EXCEPT !.provider_tenant = t2],
   [Good("malformed") EXCEPT !.provider_tenant = t2]}

MCTenants == {t1, t2}
MCGrants == [Tokens -> MCClaims]
=============================================================================
