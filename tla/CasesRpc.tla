------------------------------ MODULE CasesRpc ------------------------------
(***************************************************************************)
(* What a handler of GET /api/data-plane/tcp may rely on when it calls     *)
(* data_plane::tcp::Channel::cases: an at-most-once remote call.  A call   *)
(* ends once, with its own payload or with a failure; the API serves each  *)
(* call at most once, and possibly after the caller has already failed.    *)
(***************************************************************************)

CONSTANT Requests    \* the calls, one fresh request_id each

VARIABLES
  called,    \* the requests that have been issued
  served,    \* the requests for which the API produced a payload
  result     \* result[r]: what the caller of r was told

rpcVars == <<called, served, result>>

Init ==
  /\ called = {}
  /\ served = {}
  /\ result = [r \in Requests |-> "none"]

Call(r) ==
  /\ r \notin called
  /\ called' = called \cup {r}
  /\ UNCHANGED <<served, result>>

\* The API runs the operation; nothing says that the caller still waits.
Serve(r) ==
  /\ r \in called \ served
  /\ served' = served \cup {r}
  /\ UNCHANGED <<called, result>>

Return(r) ==
  /\ r \in served
  /\ result[r] = "none"
  /\ result' = [result EXCEPT ![r] = "payload"]
  /\ UNCHANGED <<called, served>>

Fail(r) ==
  /\ r \in called
  /\ result[r] = "none"
  /\ result' = [result EXCEPT ![r] = "failed"]
  /\ UNCHANGED <<called, served>>

Next == \E r \in Requests : Call(r) \/ Serve(r) \/ Return(r) \/ Fail(r)

Spec == Init /\ [][Next]_rpcVars

-----------------------------------------------------------------------------
(* What a caller may rely on.                                              *)

\* A payload is one that the API produced, for a call that was made.
Honest ==
  /\ served \subseteq called
  /\ \A r \in Requests : /\ result[r] # "none" => r \in called
                         /\ result[r] = "payload" => r \in served

\* What a caller was told is not told otherwise, and what was served stays.
Told ==
  /\ \A r \in Requests : result[r] # "none" => result'[r] = result[r]
  /\ called \subseteq called' /\ served \subseteq served'
=============================================================================
