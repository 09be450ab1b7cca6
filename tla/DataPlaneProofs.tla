-------------------------- MODULE DataPlaneProofs --------------------------
(***************************************************************************)
(* DataPlane for every set of requests, tokens, tenants and claims: whose  *)
(* cases an answer carries, and what the bearer of a token that is no good *)
(* can learn.                                                              *)
(*                                                                         *)
(* The authority's answer is older than the claims of now, so that "this   *)
(* token is doomed" does not say that the answer on its way is bad.  What  *)
(* is inductive is the reason: of a request that was doomed when it came,  *)
(* an answer that still says `active` was given before nothing else than a *)
(* lasting flaw, which validate_identity finds in it at any later time.    *)
(*                                                                         *)
(* The last section is the other direction: what it took to be answered.   *)
(***************************************************************************)
EXTENDS DataPlane, TLAPS

\* A flaw other than revocation.
Flawed(c, now) == ~ c.ours \/ c.exp <= now \/ TenantOf(c) \notin Tenants

\* Nothing was told to a request that is not done, and nothing called for one
\* that is not admitted.
Quiet ==
  \A r \in Requests :
    /\ stage[r] # "done" => told[r] = "none" /\ data[r] = "none"
    /\ stage[r] \in {"idle", "introspecting"} => r \notin called
    /\ stage[r] = "idle" => reply[r] = "none"
    /\ data[r] \in Tenants => token[r] \in Tokens

\* An admitted request works for the tenant of its token.
Admitted ==
  \A r \in Requests : stage[r] \in {"querying", "calling"} =>
    /\ token[r] \in Tokens
    /\ identity[r] \in Tenants /\ identity[r] = TenantOf(claims[token[r]])

\* A request that was doomed when it came stays so, and never gets far.
StillDoomed ==
  \A r \in Requests : late[r] =>
    /\ token[r] \in Tokens
    /\ Doomed(claims[token[r]], clock)
    /\ reply[r] = "active" => Flawed(claims[token[r]], clock)
    /\ stage[r] \notin {"idle", "querying", "calling"}

IInv ==
  TypeOK /\ Quiet /\ Admitted /\ StillDoomed /\ TenantIsolation /\ DoomedLearnNothing

-----------------------------------------------------------------------------
(* Claims.                                                                 *)

\* Revocation changes `active` and nothing else.
LEMMA RevokedClaims ==
  ASSUME NEW c \in Claims, NEW b \in BOOLEAN
  PROVE  LET d == [c EXCEPT !.active = b] IN
         /\ d \in Claims /\ d.active = b /\ d.ours = c.ours
         /\ d.exp = c.exp /\ d.nbf = c.nbf /\ TenantOf(d) = TenantOf(c)
BY DEF Claims, TenantOf

\* What is verified is the tenant of the claims, and the claims are sound.
LEMMA Validated ==
  ASSUME NEW c, NEW now, NEW later, ValidateIdentity(c, now, later) # Unauthorized
  PROVE  /\ ValidateIdentity(c, now, later) = TenantOf(c)
         /\ TenantOf(c) \in Tenants /\ c.active /\ c.ours /\ now < c.exp
BY DEF ValidateIdentity

\* Only the verified tenant is admitted.
LEMMA AdmittedTenant ==
  ASSUME NEW tenant, NEW header, NEW avenue,
         Admission(tenant, header, avenue) = "admitted"
  PROVE  tenant # Unauthorized /\ avenue \in Avenues
BY DEF Admission

LEMMA AdmissionTypes ==
  ASSUME NEW tenant, NEW header, NEW avenue
  PROVE  Admission(tenant, header, avenue) \in Errors \cup {"admitted"}
BY DEF Admission, Errors

-----------------------------------------------------------------------------
(* Type correctness.                                                       *)

LEMMA InitTypes == Init => TypeOK
BY GrantsAssumption, ClockAssumption DEF Init, TypeOK, Replies, Errors, Rpc!Init

\* What answering does, for an answer of the right type.
LEMMA AnswerTypes ==
  ASSUME TypeOK, NEW r \in Requests,
         NEW how \in Errors \cup {"ok", "cancelled"},
         NEW what \in Tenants \cup {"none", "status"},
         Answer(r, how, what)
  PROVE  /\ stage' \in [Requests -> {"idle", "introspecting", "querying", "calling", "done"}]
         /\ told' \in [Requests -> Errors \cup {"none", "ok", "cancelled"}]
         /\ data' \in [Requests -> Tenants \cup {"none", "status"}]
         /\ stage'[r] = "done" /\ told'[r] = how /\ data'[r] = what
         /\ \A q \in Requests \ {r} :
              stage'[q] = stage[q] /\ told'[q] = told[q] /\ data'[q] = data[q]
BY DEF TypeOK, Answer

LEMMA RevokeChanges ==
  ASSUME TypeOK, NEW t \in Tokens, Revoke(t)
  PROVE  /\ claims' \in [Tokens -> Claims]
         /\ \A k \in Tokens :
              /\ TenantOf(claims'[k]) = TenantOf(claims[k])
              /\ claims'[k].ours = claims[k].ours /\ claims'[k].exp = claims[k].exp
              /\ claims'[k].active => claims[k].active
<1> DEFINE d == [claims[t] EXCEPT !.active = FALSE]
<1>1. claims \in [Tokens -> Claims] /\ claims[t] \in Claims
  BY DEF TypeOK
<1>2. /\ d \in Claims /\ ~ d.active /\ d.ours = claims[t].ours
      /\ d.exp = claims[t].exp /\ TenantOf(d) = TenantOf(claims[t])
  BY <1>1, RevokedClaims
<1>3. claims' = [claims EXCEPT ![t] = d]
  BY DEF Revoke
<1> HIDE DEF d
<1>4. claims' \in [Tokens -> Claims] /\ claims'[t] = d
  BY <1>1, <1>2, <1>3
<1>5. \A k \in Tokens \ {t} : claims'[k] = claims[k]
  BY <1>1, <1>3
<1> QED BY <1>2, <1>4, <1>5

LEMMA NextTypes ==
  ASSUME TypeOK, [Next]_vars
  PROVE  TypeOK'
<1> USE DEF TypeOK, rpcVars
<1>1. ASSUME NEW r \in Requests, RefuseBearer(r) PROVE TypeOK'
  BY <1>1 DEF RefuseBearer, Answer, Errors
<1>2. ASSUME NEW r \in Requests, Arrive(r) PROVE TypeOK'
  <2>1. late' \in [Requests -> BOOLEAN]
    BY <1>2 DEF Arrive, Doomed, Claims
  <2> QED BY <1>2, <2>1, NamesAssumption DEF Arrive
<1>3. ASSUME NEW r \in Requests, AuthError(r) PROVE TypeOK'
  BY <1>3 DEF AuthError, Answer, Errors
<1>4. ASSUME NEW r \in Requests, Verify(r) PROVE TypeOK'
  <2>1. PICK later \in clock .. clock + 1, header \in Tenants \cup {"invalid"},
              avenue \in Avenues \cup {"unknown"} :
              Decide(r, ValidateIdentity(Seen(r), clock, later), header, avenue)
    BY <1>4 DEF Verify
  <2> DEFINE tenant == ValidateIdentity(Seen(r), clock, later)
             decision == Admission(tenant, header, avenue)
  <2>2. CASE decision = "admitted"
    <3>1. tenant \in Tenants /\ avenue \in Avenues
      BY <2>2, AdmittedTenant, Validated
    <3>2. /\ identity' = [identity EXCEPT ![r] = tenant]
          /\ via' = [via EXCEPT ![r] = avenue]
          /\ stage' = [stage EXCEPT ![r] =
                         IF avenue = "direct" THEN "querying" ELSE "calling"]
          /\ UNCHANGED rpcVars \/ Rpc!Call(r)
          /\ UNCHANGED <<told, data>>
      BY <2>1, <2>2 DEF Decide
    <3>3. /\ called' \subseteq Requests /\ served' \subseteq Requests
          /\ result' \in [Requests -> {"none", "payload", "failed"}]
      BY <3>2 DEF Rpc!Call
    <3> HIDE DEF tenant
    <3> QED BY <1>4, <3>1, <3>2, <3>3 DEF Verify
  <2>3. CASE decision # "admitted"
    <3>1. Answer(r, decision, "none") /\ UNCHANGED <<identity, via, rpcVars>>
      BY <2>1, <2>3 DEF Decide
    <3>2. decision \in Errors
      BY <2>3, AdmissionTypes
    <3> HIDE DEF decision
    <3> QED BY <1>4, <3>1, <3>2 DEF Verify, Answer
  <2> QED BY <2>2, <2>3
<1>5. ASSUME NEW r \in Requests, Query(r) PROVE TypeOK'
  BY <1>5 DEF Query, Answer, Errors
<1>6. ASSUME NEW r \in Requests, CallReturns(r) PROVE TypeOK'
  BY <1>6 DEF CallReturns, Answer, Rpc!Return
<1>7. ASSUME NEW r \in Requests, CallFails(r) PROVE TypeOK'
  BY <1>7 DEF CallFails, Answer, Errors, Rpc!Fail
<1>8. ASSUME NEW r \in Requests, Cancel(r) PROVE TypeOK'
  BY <1>8 DEF Cancel, Answer, Rpc!Fail
<1>9. ASSUME NEW r \in Requests, Introspect(r) PROVE TypeOK'
  BY <1>9 DEF Introspect, Replies
<1>10. ASSUME NEW r \in Requests, ApiServes(r) PROVE TypeOK'
  BY <1>10 DEF ApiServes, Rpc!Serve, handler
<1>11. ASSUME NEW t \in Tokens, Revoke(t) PROVE TypeOK'
  BY <1>11, RevokeChanges DEF Revoke, handler
<1>12. ASSUME Tick PROVE TypeOK'
  BY <1>12, ClockAssumption DEF Tick, handler
<1>13. ASSUME UNCHANGED vars PROVE TypeOK'
  BY <1>13 DEF vars, handler
<1> QED
  BY <1>1, <1>2, <1>3, <1>4, <1>5, <1>6, <1>7, <1>8, <1>9, <1>10, <1>11, <1>12, <1>13
  DEF Next, HandlerStep

\* The variables of the handler keep their types.
THEOREM TypeCorrect == Spec => []TypeOK
<1>1. Init => TypeOK
  BY InitTypes
<1>2. TypeOK /\ [Next]_vars => TypeOK'
  BY NextTypes
<1> QED BY <1>1, <1>2, PTL DEF Spec

-----------------------------------------------------------------------------
(* The inductive invariant.                                                *)

LEMMA InitInvariant == Init => IInv
<1> SUFFICES ASSUME Init PROVE IInv
  OBVIOUS
<1>1. TypeOK
  BY InitTypes
<1>2. Quiet /\ Admitted /\ StillDoomed
  BY NamesAssumption DEF Init, Quiet, Admitted, StillDoomed, Rpc!Init
<1>3. TenantIsolation /\ DoomedLearnNothing
  BY NamesAssumption DEF Init, TenantIsolation, DoomedLearnNothing, Rpc!Init
<1> QED BY <1>1, <1>2, <1>3 DEF IInv

\* Verifying: who is admitted holds a token that is not doomed, for its tenant.
LEMMA VerifyInvariant ==
  ASSUME IInv, TypeOK', NEW r \in Requests, Verify(r)
  PROVE  IInv'
<1> USE DEF IInv
<1>1. PICK later \in clock .. clock + 1, header \in Tenants \cup {"invalid"},
            avenue \in Avenues \cup {"unknown"} :
            Decide(r, ValidateIdentity(Seen(r), clock, later), header, avenue)
  BY DEF Verify
<1> DEFINE tenant == ValidateIdentity(Seen(r), clock, later)
           decision == Admission(tenant, header, avenue)
<1>2. /\ stage[r] = "introspecting" /\ reply[r] \in {"active", "inactive"}
      /\ UNCHANGED <<clock, claims, token, reply, late>>
  BY DEF Verify
<1>3. token[r] \in Tokens /\ claims[token[r]] \in Claims
  BY <1>2 DEF TypeOK
<1>4. /\ Seen(r) \in Claims /\ Seen(r).active = (reply[r] = "active")
      /\ Seen(r).ours = claims[token[r]].ours /\ Seen(r).exp = claims[token[r]].exp
      /\ TenantOf(Seen(r)) = TenantOf(claims[token[r]])
  BY <1>3, RevokedClaims DEF Seen
<1>5. told[r] = "none" /\ data[r] = "none" /\ r \notin called
  BY <1>2 DEF Quiet
<1>6. CASE decision = "admitted"
  <2>1. tenant # Unauthorized /\ avenue \in Avenues
    BY <1>6, AdmittedTenant
  <2>2. /\ tenant = TenantOf(claims[token[r]]) /\ tenant \in Tenants
        /\ Seen(r).active /\ Seen(r).ours /\ clock < Seen(r).exp
    BY <2>1, <1>4, Validated
  <2>3. /\ identity' = [identity EXCEPT ![r] = tenant]
        /\ stage' = [stage EXCEPT ![r] =
                       IF avenue = "direct" THEN "querying" ELSE "calling"]
        /\ UNCHANGED rpcVars \/ Rpc!Call(r)
        /\ UNCHANGED <<told, data>>
    BY <1>1, <1>6 DEF Decide
  <2>4. ~ late[r]
    <3> SUFFICES ASSUME late[r] PROVE FALSE
      OBVIOUS
    <3>1. Flawed(claims[token[r]], clock)
      BY <1>4, <2>2 DEF StillDoomed
    <3>2. clock \in Nat /\ claims[token[r]].exp \in Nat
      BY <1>3, ClockAssumption DEF TypeOK, Claims
    <3> QED BY <3>1, <3>2, <1>4, <2>2 DEF Flawed
  <2> HIDE DEF tenant
  <2>5. called' \in {called, called \cup {r}}
    BY <2>3 DEF rpcVars, Rpc!Call
  <2>6. stage'[r] \in {"querying", "calling"} /\ identity'[r] = tenant
    BY <2>3 DEF TypeOK
  <2>7. \A q \in Requests \ {r} : stage'[q] = stage[q] /\ identity'[q] = identity[q]
    BY <2>3 DEF TypeOK
  <2>8. Quiet'
    BY <1>2, <1>5, <2>3, <2>5, <2>6, <2>7 DEF Quiet
  <2>9. Admitted'
    BY <1>2, <1>3, <2>2, <2>6, <2>7 DEF Admitted
  <2>10. StillDoomed'
    BY <1>2, <2>4, <2>6, <2>7 DEF StillDoomed
  <2>11. TenantIsolation'
    BY <1>2, <2>3 DEF TenantIsolation
  <2>12. DoomedLearnNothing'
    BY <1>2, <2>3, <2>4, <2>5 DEF DoomedLearnNothing
  <2> QED BY <2>8, <2>9, <2>10, <2>11, <2>12
<1>7. CASE decision # "admitted"
  <2>1. Answer(r, decision, "none") /\ UNCHANGED <<identity, via, rpcVars>>
    BY <1>1, <1>7 DEF Decide
  <2>2. late[r] => decision = "unauthorized"
    <3> SUFFICES ASSUME late[r] PROVE tenant = Unauthorized
      BY DEF Admission
    <3>1. CASE reply[r] = "active"
      <4>1. Flawed(claims[token[r]], clock)
        BY <3>1 DEF StillDoomed
      <4>2. clock \in Nat /\ claims[token[r]].exp \in Nat
        BY <1>3, ClockAssumption DEF TypeOK, Claims
      <4> QED BY <4>1, <4>2, <1>4, Validated DEF Flawed
    <3>2. CASE reply[r] # "active"
      BY <3>2, <1>4, Validated
    <3> QED BY <3>1, <3>2
  <2>3. decision \in Errors
    BY <1>7, AdmissionTypes
  <2> HIDE DEF decision
  <2>4. /\ stage'[r] = "done" /\ told'[r] = decision /\ data'[r] = "none"
        /\ \A q \in Requests \ {r} :
             stage'[q] = stage[q] /\ told'[q] = told[q] /\ data'[q] = data[q]
    BY <2>1, <2>3, AnswerTypes
  <2>5. Quiet' /\ Admitted' /\ StillDoomed'
    BY <1>2, <2>1, <2>4, NamesAssumption DEF Quiet, Admitted, StillDoomed, rpcVars
  <2>6. TenantIsolation'
    BY <1>2, <2>4, NamesAssumption DEF TenantIsolation
  <2>7. DoomedLearnNothing'
    BY <1>2, <1>5, <2>1, <2>2, <2>4 DEF DoomedLearnNothing, rpcVars
  <2> QED BY <2>5, <2>6, <2>7
<1> QED BY <1>6, <1>7

\* A request that ends without having read the authority's answer, or after
\* its avenue was called.
LEMMA EndInvariant ==
  ASSUME IInv, TypeOK', NEW r \in Requests,
         NEW how \in Errors \cup {"ok", "cancelled"},
         NEW what \in Tenants \cup {"none", "status"},
         Answer(r, how, what),
         UNCHANGED <<clock, claims, token, reply, identity, via, late, called>>,
         late[r] => /\ how \in {"unauthorized", "unavailable", "cancelled"}
                    /\ how = "unavailable" => reply[r] = "down"
                    /\ what = "none",
         what \in Tenants => token[r] \in Tokens /\ what = TenantOf(claims[token[r]]),
         stage[r] \in {"querying", "calling"} \/ r \notin called
  PROVE  IInv'
<1>1. /\ stage'[r] = "done" /\ told'[r] = how /\ data'[r] = what
      /\ \A q \in Requests \ {r} :
           stage'[q] = stage[q] /\ told'[q] = told[q] /\ data'[q] = data[q]
  BY AnswerTypes DEF IInv
<1>2. Quiet' /\ Admitted' /\ StillDoomed'
  BY <1>1 DEF IInv, Quiet, Admitted, StillDoomed
<1>3. TenantIsolation'
  BY <1>1 DEF IInv, TenantIsolation
<1>4. DoomedLearnNothing'
  BY <1>1 DEF IInv, DoomedLearnNothing, StillDoomed
<1> QED BY <1>2, <1>3, <1>4 DEF IInv

\* What is doomed stays doomed, whatever the authority and time do.
LEMMA WorldInvariant ==
  ASSUME IInv, TypeOK', UNCHANGED <<handler, rpcVars>>,
         clock' \in Nat /\ clock' >= clock,
         \A k \in Tokens :
           /\ TenantOf(claims'[k]) = TenantOf(claims[k])
           /\ claims'[k].ours = claims[k].ours /\ claims'[k].exp = claims[k].exp
           /\ claims'[k].active => claims[k].active
  PROVE  IInv'
<1>1. \A k \in Tokens :
        /\ Flawed(claims[k], clock) => Flawed(claims[k], clock)'
        /\ Doomed(claims[k], clock) => Doomed(claims[k], clock)'
  <2> TAKE k \in Tokens
  <2>1. claims[k].exp \in Nat /\ clock \in Nat
    BY ClockAssumption DEF IInv, TypeOK, Claims
  <2> QED BY <2>1 DEF Flawed, Doomed
<1>2. Quiet' /\ DoomedLearnNothing'
  BY DEF IInv, Quiet, DoomedLearnNothing, handler, rpcVars
<1>3. Admitted'
  BY DEF IInv, Admitted, handler
<1>4. StillDoomed'
  BY <1>1 DEF IInv, StillDoomed, handler
<1>5. TenantIsolation'
  <2> SUFFICES ASSUME NEW r \in Requests, data[r] \in Tenants
               PROVE  data[r] = TenantOf(claims'[token[r]])
    BY DEF TenantIsolation, handler
  <2>1. data[r] = TenantOf(claims[token[r]])
    BY DEF IInv, TenantIsolation
  <2>2. token[r] \in Tokens
    BY DEF IInv, Quiet
  <2> QED BY <2>1, <2>2
<1> QED BY <1>2, <1>3, <1>4, <1>5 DEF IInv

LEMMA NextInvariant ==
  ASSUME IInv, [Next]_vars
  PROVE  IInv'
<1> USE DEF rpcVars
<1>t. TypeOK /\ TypeOK'
  BY NextTypes DEF IInv
<1>1. ASSUME NEW r \in Requests, RefuseBearer(r) PROVE IInv'
  <2>1. ~ late[r] /\ r \notin called
    BY <1>1 DEF IInv, Quiet, StillDoomed, RefuseBearer
  <2> QED BY <1>1, <1>t, <2>1, EndInvariant, NamesAssumption DEF RefuseBearer, Errors
<1>2. ASSUME NEW r \in Requests, Arrive(r) PROVE IInv'
  <2>1. PICK t \in Tokens : /\ token' = [token EXCEPT ![r] = t]
                            /\ late' = [late EXCEPT ![r] = Doomed(claims[t], clock)]
    BY <1>2 DEF Arrive
  <2>2. /\ told[r] = "none" /\ data[r] = "none" /\ r \notin called /\ reply[r] = "none"
        /\ stage[r] = "idle" /\ stage' = [stage EXCEPT ![r] = "introspecting"]
        /\ UNCHANGED <<clock, claims, reply, identity, via, told, data, called>>
    BY <1>2 DEF Arrive, IInv, Quiet
  <2>3. /\ token'[r] = t /\ late'[r] = Doomed(claims[t], clock)
        /\ stage'[r] = "introspecting"
        /\ \A q \in Requests \ {r} :
             token'[q] = token[q] /\ late'[q] = late[q] /\ stage'[q] = stage[q]
    BY <1>t, <2>1, <2>2 DEF TypeOK
  <2>4. Quiet' /\ Admitted' /\ StillDoomed'
    BY <2>2, <2>3, NamesAssumption DEF IInv, Quiet, Admitted, StillDoomed
  <2>5. TenantIsolation' /\ DoomedLearnNothing'
    BY <2>2, <2>3, NamesAssumption DEF IInv, TenantIsolation, DoomedLearnNothing
  <2> QED BY <1>t, <2>4, <2>5 DEF IInv
<1>3. ASSUME NEW r \in Requests, AuthError(r) PROVE IInv'
  <2>1. r \notin called
    BY <1>3 DEF IInv, Quiet, AuthError
  <2> QED BY <1>3, <1>t, <2>1, EndInvariant, NamesAssumption DEF AuthError, Errors
<1>4. ASSUME NEW r \in Requests, Verify(r) PROVE IInv'
  BY <1>4, <1>t, VerifyInvariant
<1>5. ASSUME NEW r \in Requests, Query(r) PROVE IInv'
  <2>1. /\ ~ late[r] /\ token[r] \in Tokens
        /\ identity[r] \in Tenants /\ identity[r] = TenantOf(claims[token[r]])
    BY <1>5 DEF IInv, Admitted, StillDoomed, Query
  <2>2. CASE Answer(r, "ok", identity[r])
    BY <1>5, <1>t, <2>1, <2>2, EndInvariant DEF Query
  <2>3. CASE Answer(r, "unavailable", "none")
    BY <1>5, <1>t, <2>1, <2>3, EndInvariant, NamesAssumption DEF Query, Errors
  <2> QED BY <1>5, <2>2, <2>3 DEF Query
<1>6. ASSUME NEW r \in Requests, CallReturns(r) PROVE IInv'
  <2>1. /\ ~ late[r] /\ token[r] \in Tokens
        /\ identity[r] \in Tenants /\ identity[r] = TenantOf(claims[token[r]])
    BY <1>6 DEF IInv, Admitted, StillDoomed, CallReturns
  <2>2. UNCHANGED called
    BY <1>6 DEF CallReturns, Rpc!Return
  <2>3. CASE via[r] = "nats"
    BY <1>6, <1>t, <2>1, <2>2, <2>3, EndInvariant, NamesAssumption DEF CallReturns
  <2>4. CASE via[r] # "nats"
    BY <1>6, <1>t, <2>1, <2>2, <2>4, EndInvariant DEF CallReturns
  <2> QED BY <2>3, <2>4
<1>7. ASSUME NEW r \in Requests, CallFails(r) PROVE IInv'
  <2>1. ~ late[r]
    BY <1>7 DEF IInv, StillDoomed, CallFails
  <2>2. UNCHANGED called
    BY <1>7 DEF CallFails, Rpc!Fail
  <2> QED BY <1>7, <1>t, <2>1, <2>2, EndInvariant, NamesAssumption DEF CallFails, Errors
<1>8. ASSUME NEW r \in Requests, Cancel(r) PROVE IInv'
  <2>1. UNCHANGED called
    BY <1>8 DEF Cancel, Rpc!Fail
  <2>2. stage[r] \in {"querying", "calling"} \/ r \notin called
    BY <1>8 DEF Cancel, IInv, Quiet
  <2> QED BY <1>8, <1>t, <2>1, <2>2, EndInvariant, NamesAssumption DEF Cancel
<1>9. ASSUME NEW r \in Requests, Introspect(r) PROVE IInv'
  <2>1. /\ stage[r] = "introspecting"
        /\ reply' = [reply EXCEPT ![r] = reply'[r]]
        /\ reply'[r] = "active" => claims[token[r]].active
        /\ UNCHANGED <<clock, claims, stage, token, identity, told, data, late, called>>
    BY <1>9, <1>t DEF Introspect, TypeOK
  <2>2. \A q \in Requests \ {r} : reply'[q] = reply[q]
    BY <1>t, <2>1 DEF TypeOK
  <2>3. told[r] = "none"
    BY <2>1 DEF IInv, Quiet
  <2>4. Quiet' /\ Admitted'
    BY <2>1, <2>2 DEF IInv, Quiet, Admitted
  <2>5. StillDoomed'
    BY <2>1, <2>2 DEF IInv, StillDoomed, Doomed, Flawed
  <2>6. TenantIsolation' /\ DoomedLearnNothing'
    BY <2>1, <2>2, <2>3 DEF IInv, TenantIsolation, DoomedLearnNothing
  <2> QED BY <1>t, <2>4, <2>5, <2>6 DEF IInv
<1>10. ASSUME NEW r \in Requests, ApiServes(r) PROVE IInv'
  <2>1. UNCHANGED <<clock, claims, handler, called>>
    BY <1>10 DEF ApiServes, Rpc!Serve
  <2> QED BY <1>t, <2>1 DEF IInv, Quiet, Admitted, StillDoomed, TenantIsolation,
                            DoomedLearnNothing, handler
<1>11. ASSUME NEW t \in Tokens, Revoke(t) PROVE IInv'
  <2>1. clock' \in Nat /\ clock' >= clock
    BY <1>11, <1>t, ClockAssumption DEF Revoke, TypeOK
  <2> QED BY <1>11, <1>t, <2>1, RevokeChanges, WorldInvariant DEF Revoke
<1>12. ASSUME Tick PROVE IInv'
  <2>1. clock' \in Nat /\ clock' >= clock /\ UNCHANGED claims
    BY <1>12, <1>t, ClockAssumption DEF Tick, TypeOK
  <2> QED BY <1>12, <1>t, <2>1, WorldInvariant DEF Tick
<1>13. ASSUME UNCHANGED vars PROVE IInv'
  BY <1>13, <1>t DEF vars, handler, IInv, Quiet, Admitted, StillDoomed,
                     TenantIsolation, DoomedLearnNothing
<1> QED
  BY <1>1, <1>2, <1>3, <1>4, <1>5, <1>6, <1>7, <1>8, <1>9, <1>10, <1>11, <1>12, <1>13
  DEF Next, HandlerStep

-----------------------------------------------------------------------------

\* The inductive invariant holds.
THEOREM Invariant == Spec => []IInv
<1>1. Init => IInv
  BY InitInvariant
<1>2. IInv /\ [Next]_vars => IInv'
  BY NextInvariant
<1> QED BY <1>1, <1>2, PTL DEF Spec

\* Whatever the header says, an answer carries the cases of the token's tenant.
THEOREM Isolation == Spec => []TenantIsolation
<1>1. IInv => TenantIsolation
  BY DEF IInv
<1> QED BY <1>1, Invariant, PTL

\* A token that was no good on arrival reaches no avenue and probes nothing.
THEOREM Secrecy == Spec => []DoomedLearnNothing
<1>1. IInv => DoomedLearnNothing
  BY DEF IInv
<1> QED BY <1>1, Invariant, PTL

-----------------------------------------------------------------------------
(* What an answer that carries cases took.                                 *)

\* Each request makes one call at most, over an avenue that has a transport,
\* after the authority called its token active; it waits while and only while
\* the call has no result.
Accounts ==
  \A r \in Requests :
    /\ stage[r] \in {"querying", "calling"} =>
         via[r] \in Configured /\ reply[r] = "active"
    /\ stage[r] = "querying" => via[r] = "direct" /\ r \notin called
    /\ stage[r] = "calling" => via[r] # "direct" /\ r \in called
    /\ r \in called => (result[r] = "none" <=> stage[r] = "calling")
    /\ r \notin called => result[r] = "none" /\ r \notin served
    /\ result[r] = "payload" => r \in served

\* Who is answered with cases was verified for the tenant of its token by an
\* authority that was asked and said `active`, asked for an avenue that is
\* configured, and got what that avenue gives: the rows of its own tenant from
\* the database, or what the API produced for this very call.
AnswersAreEarned ==
  \A r \in Requests : told[r] = "ok" =>
    /\ token[r] \in Tokens /\ reply[r] = "active"
    /\ identity[r] \in Tenants /\ identity[r] = TenantOf(claims[token[r]])
    /\ via[r] \in Configured
    /\ data[r] = IF via[r] = "nats" THEN "status" ELSE identity[r]
    /\ IF via[r] = "direct" THEN r \notin called
       ELSE r \in served /\ result[r] = "payload"

Ledger == Accounts /\ AnswersAreEarned

\* A step that leaves a request alone leaves its account alone.
LEMMA OneRequest ==
  ASSUME TypeOK, Ledger, NEW r \in Requests,
         \A q \in Requests \ {r} :
           /\ stage'[q] = stage[q] /\ token'[q] = token[q] /\ reply'[q] = reply[q]
           /\ identity'[q] = identity[q] /\ via'[q] = via[q]
           /\ told'[q] = told[q] /\ data'[q] = data[q] /\ result'[q] = result[q]
           /\ (q \in called' <=> q \in called)
           /\ (q \in served' <=> q \in served),
         UNCHANGED claims,
         /\ stage'[r] \in {"querying", "calling"} =>
              via'[r] \in Configured /\ reply'[r] = "active"
         /\ stage'[r] = "querying" => via'[r] = "direct" /\ r \notin called'
         /\ stage'[r] = "calling" => via'[r] # "direct" /\ r \in called'
         /\ r \in called' => (result'[r] = "none" <=> stage'[r] = "calling")
         /\ r \notin called' => result'[r] = "none" /\ r \notin served'
         /\ result'[r] = "payload" => r \in served',
         told'[r] = "ok" =>
           /\ token'[r] \in Tokens /\ reply'[r] = "active"
           /\ identity'[r] \in Tenants /\ identity'[r] = TenantOf(claims'[token'[r]])
           /\ via'[r] \in Configured
           /\ data'[r] = IF via'[r] = "nats" THEN "status" ELSE identity'[r]
           /\ IF via'[r] = "direct" THEN r \notin called'
              ELSE r \in served' /\ result'[r] = "payload"
  PROVE  Ledger'
<1>1. Accounts'
  BY DEF Ledger, Accounts
<1>2. AnswersAreEarned'
  <2> SUFFICES ASSUME NEW q \in Requests, told'[q] = "ok"
               PROVE  /\ token'[q] \in Tokens /\ reply'[q] = "active"
                      /\ identity'[q] \in Tenants
                      /\ identity'[q] = TenantOf(claims'[token'[q]])
                      /\ via'[q] \in Configured
                      /\ data'[q] = IF via'[q] = "nats" THEN "status" ELSE identity'[q]
                      /\ IF via'[q] = "direct" THEN q \notin called'
                         ELSE q \in served' /\ result'[q] = "payload"
    BY DEF AnswersAreEarned
  <2>1. CASE q = r
    BY <2>1
  <2>2. CASE q # r
    BY <2>2 DEF Ledger, AnswersAreEarned
  <2> QED BY <2>1, <2>2
<1> QED BY <1>1, <1>2 DEF Ledger

LEMMA LedgerStep ==
  ASSUME IInv, Ledger, [Next]_vars
  PROVE  Ledger'
<1> USE DEF rpcVars
<1>t. TypeOK /\ TypeOK' /\ Quiet /\ Admitted
  BY NextTypes DEF IInv
<1>1. ASSUME NEW r \in Requests, NEW how \in Errors \cup {"cancelled"},
             Answer(r, how, "none"), r \notin called,
             UNCHANGED <<claims, token, reply, identity, via, rpcVars>>
      PROVE  Ledger'
  <2>1. /\ stage'[r] = "done" /\ told'[r] # "ok"
        /\ \A q \in Requests \ {r} :
             stage'[q] = stage[q] /\ told'[q] = told[q] /\ data'[q] = data[q]
    BY <1>1, <1>t, AnswerTypes DEF Errors
  <2>2. result[r] = "none" /\ r \notin served
    BY <1>1 DEF Ledger, Accounts
  <2> QED BY <1>1, <1>t, <2>1, <2>2, OneRequest
<1>2. ASSUME NEW r \in Requests, NEW how \in Errors \cup {"cancelled"},
             Answer(r, how, "none"), stage[r] = "calling", Rpc!Fail(r),
             UNCHANGED <<claims, token, reply, identity, via>>
      PROVE  Ledger'
  <2>1. /\ stage'[r] = "done" /\ told'[r] # "ok"
        /\ \A q \in Requests \ {r} :
             stage'[q] = stage[q] /\ told'[q] = told[q] /\ data'[q] = data[q]
    BY <1>2, <1>t, AnswerTypes DEF Errors
  <2>2. /\ result'[r] = "failed" /\ r \in called
        /\ \A q \in Requests \ {r} : result'[q] = result[q]
        /\ UNCHANGED <<called, served>>
    BY <1>2, <1>t DEF Rpc!Fail, TypeOK
  <2> QED BY <1>2, <1>t, <2>1, <2>2, OneRequest
<1>3. ASSUME NEW r \in Requests, RefuseBearer(r) PROVE Ledger'
  BY <1>1, <1>3, <1>t DEF RefuseBearer, Quiet, Errors
<1>4. ASSUME NEW r \in Requests, Arrive(r) PROVE Ledger'
  <2>1. PICK t \in Tokens : token' = [token EXCEPT ![r] = t]
    BY <1>4 DEF Arrive
  <2>2. /\ told[r] = "none" /\ r \notin called /\ stage'[r] = "introspecting"
        /\ \A q \in Requests \ {r} : stage'[q] = stage[q] /\ token'[q] = token[q]
        /\ UNCHANGED <<claims, reply, identity, via, told, data, rpcVars>>
    BY <1>4, <1>t, <2>1 DEF Arrive, Quiet, TypeOK
  <2>3. result[r] = "none" /\ r \notin served
    BY <2>2 DEF Ledger, Accounts
  <2> QED BY <1>t, <2>2, <2>3, OneRequest
<1>5. ASSUME NEW r \in Requests, AuthError(r) PROVE Ledger'
  BY <1>1, <1>5, <1>t DEF AuthError, Quiet, Errors
<1>6. ASSUME NEW r \in Requests, Verify(r) PROVE Ledger'
  <2>1. PICK later \in clock .. clock + 1, header \in Tenants \cup {"invalid"},
              avenue \in Avenues \cup {"unknown"} :
              Decide(r, ValidateIdentity(Seen(r), clock, later), header, avenue)
    BY <1>6 DEF Verify
  <2> DEFINE tenant == ValidateIdentity(Seen(r), clock, later)
             decision == Admission(tenant, header, avenue)
  <2>2. /\ stage[r] = "introspecting" /\ token[r] \in Tokens /\ r \notin called
        /\ told[r] = "none" /\ claims[token[r]] \in Claims
        /\ UNCHANGED <<claims, token, reply>>
    BY <1>6, <1>t DEF Verify, TypeOK, Quiet
  <2>3. result[r] = "none" /\ r \notin served
    BY <2>2 DEF Ledger, Accounts
  <2>4. CASE decision # "admitted"
    <3>1. decision \in Errors
      BY <2>4, AdmissionTypes
    <3>2. Answer(r, decision, "none") /\ UNCHANGED <<identity, via, rpcVars>>
      BY <2>1, <2>4 DEF Decide
    <3> HIDE DEF decision
    <3> QED BY <1>1, <2>2, <3>1, <3>2
  <2>5. CASE decision = "admitted"
    <3>1. tenant # Unauthorized /\ avenue \in Configured
      BY <2>5 DEF Admission
    <3>2. Seen(r).active
      BY <3>1, Validated
    <3>3. reply[r] = "active"
      BY <2>2, <3>2, RevokedClaims DEF Seen
    <3>4. /\ via' = [via EXCEPT ![r] = avenue]
          /\ identity' = [identity EXCEPT ![r] = tenant]
          /\ stage' = [stage EXCEPT ![r] =
                         IF avenue = "direct" THEN "querying" ELSE "calling"]
          /\ IF avenue = "direct" THEN UNCHANGED rpcVars ELSE Rpc!Call(r)
          /\ UNCHANGED <<told, data>>
      BY <2>1, <2>5 DEF Decide
    <3> HIDE DEF tenant
    <3>5. /\ via'[r] = avenue
          /\ stage'[r] = IF avenue = "direct" THEN "querying" ELSE "calling"
          /\ \A q \in Requests \ {r} :
               stage'[q] = stage[q] /\ via'[q] = via[q] /\ identity'[q] = identity[q]
      BY <1>t, <3>4 DEF TypeOK
    <3>6. /\ called' = IF avenue = "direct" THEN called ELSE called \cup {r}
          /\ UNCHANGED <<served, result>>
      BY <3>4 DEF Rpc!Call
    <3> QED BY <1>t, <2>2, <2>3, <3>1, <3>3, <3>4, <3>5, <3>6, OneRequest
  <2> QED BY <2>4, <2>5
<1>7. ASSUME NEW r \in Requests, Query(r) PROVE Ledger'
  <2>1. /\ via[r] = "direct" /\ r \notin called /\ via[r] \in Configured
        /\ reply[r] = "active" /\ result[r] = "none" /\ r \notin served
        /\ token[r] \in Tokens /\ identity[r] \in Tenants
        /\ identity[r] = TenantOf(claims[token[r]])
    BY <1>7, <1>t DEF Query, Ledger, Accounts, Admitted
  <2>2. UNCHANGED <<claims, token, reply, identity, via, rpcVars>>
    BY <1>7 DEF Query
  <2>3. CASE Answer(r, "ok", identity[r])
    <3>1. /\ stage'[r] = "done" /\ data'[r] = identity[r]
          /\ \A q \in Requests \ {r} :
               stage'[q] = stage[q] /\ told'[q] = told[q] /\ data'[q] = data[q]
      BY <1>t, <2>1, <2>3, AnswerTypes
    <3> QED BY <1>t, <2>1, <2>2, <3>1, OneRequest
  <2>4. CASE Answer(r, "unavailable", "none")
    BY <1>1, <2>1, <2>2, <2>4 DEF Errors
  <2> QED BY <1>7, <2>3, <2>4 DEF Query
<1>8. ASSUME NEW r \in Requests, CallReturns(r) PROVE Ledger'
  <2>1. /\ via[r] # "direct" /\ r \in called /\ via[r] \in Configured
        /\ reply[r] = "active" /\ token[r] \in Tokens /\ identity[r] \in Tenants
        /\ identity[r] = TenantOf(claims[token[r]])
    BY <1>8, <1>t DEF CallReturns, Ledger, Accounts, Admitted
  <2> DEFINE what == IF via[r] = "nats" THEN "status" ELSE identity[r]
  <2>2. Answer(r, "ok", what) /\ UNCHANGED <<claims, token, reply, identity, via>>
    BY <1>8 DEF CallReturns
  <2>3. what \in Tenants \cup {"none", "status"}
    BY <2>1
  <2>4. /\ stage'[r] = "done" /\ data'[r] = what
        /\ \A q \in Requests \ {r} :
             stage'[q] = stage[q] /\ told'[q] = told[q] /\ data'[q] = data[q]
    BY <1>t, <2>2, <2>3, AnswerTypes
  <2>5. /\ result'[r] = "payload" /\ r \in served
        /\ \A q \in Requests \ {r} : result'[q] = result[q]
        /\ UNCHANGED <<called, served>>
    BY <1>8, <1>t DEF CallReturns, Rpc!Return, TypeOK
  <2> QED BY <1>t, <2>1, <2>2, <2>4, <2>5, OneRequest
<1>9. ASSUME NEW r \in Requests, CallFails(r) PROVE Ledger'
  BY <1>2, <1>9 DEF CallFails, Errors
<1>10. ASSUME NEW r \in Requests, Cancel(r) PROVE Ledger'
  <2>1. CASE stage[r] = "calling"
    BY <1>2, <1>10, <2>1 DEF Cancel
  <2>2. CASE stage[r] # "calling"
    <3>1. r \notin called
      BY <1>10, <1>t, <2>2 DEF Cancel, Ledger, Accounts, Quiet
    <3> QED BY <1>1, <1>10, <2>2, <3>1 DEF Cancel
  <2> QED BY <2>1, <2>2
<1>11. ASSUME NEW r \in Requests, Introspect(r) PROVE Ledger'
  <2>1. /\ stage[r] = "introspecting" /\ told[r] = "none" /\ r \notin called
        /\ \A q \in Requests \ {r} : reply'[q] = reply[q]
        /\ UNCHANGED <<claims, stage, token, identity, via, told, data, rpcVars>>
    BY <1>11, <1>t DEF Introspect, Quiet, TypeOK
  <2>2. result[r] = "none" /\ r \notin served
    BY <2>1 DEF Ledger, Accounts
  <2> QED BY <1>t, <2>1, <2>2, OneRequest
<1>12. ASSUME NEW r \in Requests, ApiServes(r) PROVE Ledger'
  <2>1. /\ r \in called /\ r \in served'
        /\ \A q \in Requests \ {r} : q \in served' <=> q \in served
        /\ UNCHANGED <<claims, handler, called, result>>
    BY <1>12 DEF ApiServes, Rpc!Serve
  <2> QED BY <2>1 DEF Ledger, Accounts, AnswersAreEarned, handler
<1>13. ASSUME NEW t \in Tokens, Revoke(t) PROVE Ledger'
  <2>1. \A k \in Tokens : TenantOf(claims'[k]) = TenantOf(claims[k])
    BY <1>13, <1>t, RevokeChanges
  <2> QED
    BY <1>13, <2>1 DEF Revoke, Ledger, Accounts, AnswersAreEarned, handler
<1>14. ASSUME UNCHANGED <<claims, handler, rpcVars>> PROVE Ledger'
  BY <1>14 DEF Ledger, Accounts, AnswersAreEarned, handler
<1> QED
  BY <1>3, <1>4, <1>5, <1>6, <1>7, <1>8, <1>9, <1>10, <1>11, <1>12, <1>13, <1>14
  DEF Next, HandlerStep, Tick, vars

\* Nobody is answered with cases whom the authority did not vouch for, and
\* nothing that the API did not produce for the request is passed on.
THEOREM Provenance == Spec => [](Accounts /\ AnswersAreEarned)
<1>1. Init => Ledger
  BY NamesAssumption
  DEF Init, Ledger, Accounts, AnswersAreEarned, Rpc!Init
<1>2. IInv /\ Ledger /\ [Next]_vars => Ledger'
  BY LedgerStep
<1>3. Ledger => Accounts /\ AnswersAreEarned
  BY DEF Ledger
<1> QED BY <1>1, <1>2, <1>3, Invariant, PTL DEF Spec
=============================================================================
