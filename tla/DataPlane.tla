----------------------------- MODULE DataPlane -----------------------------
(***************************************************************************)
(* data_plane_request of main.rs: GET /api/data-plane/{avenue}, from the   *)
(* bearer header to the response, with the Shared Auth authority, whose    *)
(* answers age while the handler waits, and the avenues.                   *)
(*                                                                         *)
(* The http, tcp and nats avenues are the at-most-once call of CasesRpc,   *)
(* which TcpChannel and JetStreamStatus implement; `direct` is a read-only *)
(* transaction of this process.  The tenant header and the avenue are      *)
(* chosen where the handler first looks at them.                           *)
(***************************************************************************)
EXTENDS SharedAuth

CONSTANTS
  Requests,    \* handlers
  Tokens,      \* bearer tokens that pass bearer()
  Grants,      \* the claims tokens start with, functions from Tokens to Claims
  Configured,  \* avenues with a transport in AppState
  MaxClock     \* bound: seconds

Avenues == {"direct", "http", "tcp", "nats"}
Bearing == {"http", "tcp"}      \* avenues that carry the user's bearer

ASSUME GrantsAssumption == Grants \subseteq [Tokens -> Claims]
ASSUME ConfiguredAssumption == Configured \subseteq Avenues
ASSUME ClockAssumption == MaxClock \in Nat
ASSUME NamesAssumption == {"none", "status"} \cap (Tenants \cup Tokens) = {}

VARIABLES
  clock,                    \* unix_timestamp, of the authority as well
  claims,                   \* claims[t]: what the authority knows of t
  stage,                    \* stage[r]: where the handler of r is
  token,                    \* token[r]: bearer of r
  reply,                    \* reply[r]: the authority's answer on its way
  identity,                 \* identity[r]: verified tenant, once admitted
  via,                      \* via[r]: avenue of r, once admitted
  told,                     \* told[r]: how r was answered
  data,                     \* data[r]: whose cases the answer carries
  late,                     \* late[r]: doomed when r arrived (history)
  called, served, result    \* the avenues' calls

\* The calls of the http, tcp and nats avenues, one per request at most.
rpcVars == <<called, served, result>>
handler == <<stage, token, reply, identity, via, told, data, late>>
vars == <<clock, claims, handler, rpcVars>>

Rpc == INSTANCE CasesRpc

Errors == {"unauthorized", "invalid_tenant", "forbidden", "unknown_avenue",
           "unavailable"}
Replies == {"none", "active", "inactive", "refused", "down"}

TypeOK ==
  /\ clock \in 0 .. MaxClock
  /\ claims \in [Tokens -> Claims]
  /\ stage \in [Requests -> {"idle", "introspecting", "querying", "calling", "done"}]
  /\ token \in [Requests -> Tokens \cup {"none"}]
  /\ \A r \in Requests : stage[r] = "introspecting" => token[r] \in Tokens
  /\ reply \in [Requests -> Replies]
  /\ identity \in [Requests -> Tenants \cup {"none"}]
  /\ via \in [Requests -> Avenues \cup {"none"}]
  /\ told \in [Requests -> Errors \cup {"none", "ok", "cancelled"}]
  /\ data \in [Requests -> Tenants \cup {"none", "status"}]
  /\ late \in [Requests -> BOOLEAN]
  /\ called \subseteq Requests /\ served \subseteq Requests
  /\ result \in [Requests -> {"none", "payload", "failed"}]

Init ==
  /\ clock = 0
  /\ claims \in Grants
  /\ stage = [r \in Requests |-> "idle"]
  /\ token = [r \in Requests |-> "none"]
  /\ reply = [r \in Requests |-> "none"]
  /\ identity = [r \in Requests |-> "none"]
  /\ via = [r \in Requests |-> "none"]
  /\ told = [r \in Requests |-> "none"]
  /\ data = [r \in Requests |-> "none"]
  /\ late = [r \in Requests |-> FALSE]
  /\ Rpc!Init

Answer(r, how, what) ==
  /\ stage' = [stage EXCEPT ![r] = "done"]
  /\ told' = [told EXCEPT ![r] = how]
  /\ data' = [data EXCEPT ![r] = what]

-----------------------------------------------------------------------------
(* The handler.                                                            *)

\* bearer() refuses the header: the authority is not asked.
RefuseBearer(r) ==
  /\ stage[r] = "idle"
  /\ Answer(r, "unauthorized", "none")
  /\ UNCHANGED <<clock, claims, token, reply, identity, via, late, rpcVars>>

Arrive(r) ==
  /\ stage[r] = "idle"
  /\ stage' = [stage EXCEPT ![r] = "introspecting"]
  /\ \E t \in Tokens :
       /\ token' = [token EXCEPT ![r] = t]
       /\ late' = [late EXCEPT ![r] = Doomed(claims[t], clock)]
  /\ UNCHANGED <<clock, claims, reply, identity, via, told, data, rpcVars>>

\* What the handler decides, in its order, on the identity and the headers.
Admission(tenant, header, avenue) ==
  IF tenant = Unauthorized THEN "unauthorized"
  ELSE IF header \notin Tenants THEN "invalid_tenant"
  ELSE IF header # tenant THEN "forbidden"
  ELSE IF avenue \notin Avenues THEN "unknown_avenue"
  ELSE IF avenue \notin Configured THEN "unavailable"
  ELSE "admitted"

\* map_auth_error, for an authority that gave no claims.
AuthError(r) ==
  /\ stage[r] = "introspecting" /\ reply[r] \in {"refused", "down"}
  /\ Answer(r, IF reply[r] = "refused" THEN "unauthorized" ELSE "unavailable", "none")
  /\ UNCHANGED <<clock, claims, token, reply, identity, via, late, rpcVars>>

\* Mutant of Decide: the tenant header is trusted.
DecideByHeader(r, tenant, header, avenue) ==
  /\ tenant # Unauthorized /\ header \in Tenants /\ avenue = "direct"
  /\ identity' = [identity EXCEPT ![r] = header]
  /\ via' = [via EXCEPT ![r] = avenue]
  /\ stage' = [stage EXCEPT ![r] = "querying"]
  /\ UNCHANGED <<told, data, rpcVars>>

\* The handler goes on until its next await, or answers.
Decide(r, tenant, header, avenue) ==
  LET decision == Admission(tenant, header, avenue) IN
  IF decision = "admitted"
  THEN /\ identity' = [identity EXCEPT ![r] = tenant]
       /\ via' = [via EXCEPT ![r] = avenue]
       /\ stage' = [stage EXCEPT ![r] =
                      IF avenue = "direct" THEN "querying" ELSE "calling"]
       /\ IF avenue = "direct" THEN UNCHANGED rpcVars ELSE Rpc!Call(r)
       /\ UNCHANGED <<told, data>>
  ELSE /\ Answer(r, decision, "none")
       /\ UNCHANGED <<identity, via, rpcVars>>

\* The claims in the reply: only `active` can have changed since.
Seen(r) == [claims[token[r]] EXCEPT !.active = reply[r] = "active"]

Verify(r) ==
  /\ stage[r] = "introspecting" /\ reply[r] \in {"active", "inactive"}
  /\ \E later \in clock .. clock + 1,
        header \in Tenants \cup {"invalid"}, avenue \in Avenues \cup {"unknown"} :
       Decide(r, ValidateIdentity(Seen(r), clock, later), header, avenue)
  /\ UNCHANGED <<clock, claims, token, reply, late>>

\* direct::case_projection: begin, SET TRANSACTION READ ONLY, the count of one
\* tenant, rollback.  The first of them that fails ends the request.
Query(r) ==
  /\ stage[r] = "querying"
  /\ \/ Answer(r, "ok", identity[r])
     \/ Answer(r, "unavailable", "none")
  /\ UNCHANGED <<clock, claims, token, reply, identity, via, late, rpcVars>>

CallReturns(r) ==
  /\ stage[r] = "calling"
  /\ Rpc!Return(r)
  /\ Answer(r, "ok", IF via[r] = "nats" THEN "status" ELSE identity[r])
  /\ UNCHANGED <<clock, claims, token, reply, identity, via, late>>

\* Mutant of CallFails: the avenues have no timeouts.
NoTimeout(r) == FALSE

\* Whatever went wrong, the caller is told that the avenue is unavailable.
CallFails(r) ==
  /\ stage[r] = "calling"
  /\ Rpc!Fail(r)
  /\ Answer(r, "unavailable", "none")
  /\ UNCHANGED <<clock, claims, token, reply, identity, via, late>>

\* The client goes away and the handler is dropped at an await.
Cancel(r) ==
  /\ stage[r] \in {"introspecting", "querying", "calling"}
  /\ Answer(r, "cancelled", "none")
  /\ IF stage[r] = "calling" THEN Rpc!Fail(r) ELSE UNCHANGED rpcVars
  /\ UNCHANGED <<clock, claims, token, reply, identity, via, late>>

-----------------------------------------------------------------------------
(* The authority, the API and time (external).                             *)

\* Mutant of Introspect: an error of the client that nothing maps.
IntrospectUnmapped(r) ==
  /\ stage[r] = "introspecting" /\ reply[r] = "none"
  /\ reply' = [reply EXCEPT ![r] = "too_large"]
  /\ UNCHANGED <<clock, claims, stage, token, identity, via, told, data, late,
                 rpcVars>>

\* SharedAuthClient answers, with the claims of this moment or an error.
Introspect(r) ==
  /\ stage[r] = "introspecting" /\ reply[r] = "none"
  /\ \E answer \in {"refused", "down",
                   IF claims[token[r]].active THEN "active" ELSE "inactive"} :
       reply' = [reply EXCEPT ![r] = answer]
  /\ UNCHANGED <<clock, claims, stage, token, identity, via, told, data, late,
                 rpcVars>>

\* The API introspects the bearer of http and tcp calls itself.
ApiServes(r) ==
  /\ Rpc!Serve(r)
  /\ via[r] \in Bearing => ~ Doomed(claims[token[r]], clock)
  /\ UNCHANGED <<clock, claims, handler>>

Revoke(t) ==
  /\ claims[t].active
  /\ claims' = [claims EXCEPT ![t].active = FALSE]
  /\ UNCHANGED <<clock, handler, rpcVars>>

Tick ==
  /\ clock < MaxClock
  /\ clock' = clock + 1
  /\ UNCHANGED <<claims, handler, rpcVars>>

-----------------------------------------------------------------------------

HandlerStep(r) == AuthError(r) \/ Verify(r) \/ CallReturns(r) \/ CallFails(r)

Next ==
  \/ \E r \in Requests :
       \/ RefuseBearer(r) \/ Arrive(r) \/ HandlerStep(r) \/ Query(r) \/ Cancel(r)
       \/ Introspect(r) \/ ApiServes(r)
  \/ \E t \in Tokens : Revoke(t)
  \/ Tick

Spec == Init /\ [][Next]_vars

(***************************************************************************)
(* The authority's client answers or fails, and so do the calls of the     *)
(* three avenues, as TcpChannel and JetStreamStatus show; the http client  *)
(* has a total timeout.  Nothing is assumed of the database.               *)
(***************************************************************************)
Fairness ==
  \A r \in Requests : WF_vars(Introspect(r)) /\ WF_vars(HandlerStep(r))

FairSpec == Spec /\ Fairness

-----------------------------------------------------------------------------
(* Properties.                                                             *)

(***************************************************************************)
(* TenantIsolation: an answer carries the cases of one tenant at most, the *)
(* tenant of the token, whatever the x-apme-tenant-id header says and      *)
(* however the claims name the tenant.                                     *)
(***************************************************************************)
TenantIsolation ==
  \A r \in Requests : data[r] \in Tenants => data[r] = TenantOf(claims[token[r]])

(***************************************************************************)
(* DoomedLearnNothing: a request whose token was revoked, over or not for  *)
(* this service when it arrived reaches no avenue, and is told neither     *)
(* data nor whether its tenant or avenue exist.  The authority's answer    *)
(* and the clock are read at different times and nothing verified earlier  *)
(* is kept; the headers come after the identity.                           *)
(***************************************************************************)
DoomedLearnNothing ==
  \A r \in Requests : late[r] =>
    /\ told[r] \in {"none", "unauthorized", "unavailable", "cancelled"}
    /\ told[r] = "unavailable" => reply[r] = "down"
    /\ r \notin called /\ data[r] = "none"

(***************************************************************************)
(* EveryRequestEnds: a request that does not wait for the database ends,   *)
(* even if the API never answers: the avenues give up by themselves.       *)
(***************************************************************************)
EveryRequestEnds ==
  \A r \in Requests :
    stage[r] \in {"introspecting", "calling"} ~> stage[r] \in {"done", "querying"}
=============================================================================
