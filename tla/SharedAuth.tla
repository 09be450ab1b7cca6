----------------------------- MODULE SharedAuth -----------------------------
(***************************************************************************)
(* validate_identity of auth.rs: what the web server makes of the claims   *)
(* that the Shared Auth authority returns for a token.                     *)
(*                                                                         *)
(* Issuer, audience, required scopes and subject are one Boolean, `ours`:  *)
(* they never change while a token lives.  An absent exp and an exp of 0   *)
(* are refused alike, an absent nbf and an nbf of 0 accepted alike, so     *)
(* both are numbers.                                                       *)
(***************************************************************************)
EXTENDS Naturals

CONSTANTS
  Tenants,        \* tenant UUIDs
  Unauthorized    \* AuthError::Unauthorized

ASSUME TenantsAssumption ==
  Unauthorized \notin Tenants /\ {"absent", "other", "malformed"} \cap Tenants = {}

\* "other" is a JSON value that is not a string.
TenantClaim == Tenants \cup {"absent", "other", "malformed"}

Claims == [active          : BOOLEAN,
           ours            : BOOLEAN,
           exp             : Nat,
           nbf             : Nat,
           tenant_id       : TenantClaim,
           provider_tenant : TenantClaim]

\* A tenant_id that is no string is passed over, a malformed one is not.
TenantOf(c) ==
  IF c.tenant_id \in {"absent", "other"} THEN c.provider_tenant ELSE c.tenant_id

\* Mutant of ValidateIdentity: a token is still good at exp.
ValidateIdentityAtExp(c, now, later) ==
  IF /\ c.active /\ c.ours
     /\ now <= c.exp /\ c.nbf <= later
     /\ TenantOf(c) \in Tenants
  THEN TenantOf(c) ELSE Unauthorized

\* The clock is read for exp and, later, again for nbf.
ValidateIdentity(c, now, later) ==
  IF /\ c.active /\ c.ours
     /\ now < c.exp /\ c.nbf <= later
     /\ TenantOf(c) \in Tenants
  THEN TenantOf(c) ELSE Unauthorized

\* No later answer of the authority and no later clock makes c acceptable.
Doomed(c, now) ==
  \/ ~ c.active \/ ~ c.ours
  \/ c.exp <= now
  \/ TenantOf(c) \notin Tenants
=============================================================================
