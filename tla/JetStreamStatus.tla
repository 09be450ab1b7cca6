-------------------------- MODULE JetStreamStatus --------------------------
(***************************************************************************)
(* The durable avenue: data_plane::nats::Transport (connect, status and    *)
(* the two validate_*_stream checks), the JetStream broker and the API's   *)
(* worker (both external).                                                 *)
(*                                                                         *)
(* A call of status publishes a request under a fresh operation_id, waits  *)
(* for the broker's acknowledgement, then polls the subject of that        *)
(* operation until a response is there or ASYNC_TIMEOUT has passed.  The   *)
(* handler may be dropped at any await.  The broker may restart, and the   *)
(* worker may die between any two of its steps.                            *)
(*                                                                         *)
(* Nothing in this program publishes an operation twice, so the duplicate  *)
(* window that connect also insists on has no effect here.                 *)
(***************************************************************************)
EXTENDS Naturals

CONSTANTS
  Operations,   \* calls of status, one fresh operation_id each
  Deadline      \* ASYNC_TIMEOUT in polls

ASSUME DeadlineAssumption == Deadline \in Nat \ {0}

VARIABLES
  requestCfg, responseCfg,   \* how the two streams were provisioned
  transport,                 \* "starting", "ready", or "refused" at startup
  call,                      \* call[o]: where status(o) is
  age,                       \* age[o]: time polled so far
  outbox,                    \* requests on their way to the broker
  acked,                     \* publishes that the broker acknowledged
  requests,                  \* the work queue
  working,                   \* requests that the worker has been given
  produced,                  \* operations that the worker answered well (history)
  responses                  \* responses[o]: last response on the subject of o

config == <<requestCfg, responseCfg, transport>>
client == <<call, age>>
broker == <<outbox, acked, requests, responses>>
worker == <<working, produced>>
vars == <<config, client, broker, worker>>

StreamCfg == [storage   : {"File", "Memory"},
              retention : {"WorkQueue", "Limits", "Interest"},
              subject   : BOOLEAN,     \* the subject of this program is captured
              direct    : BOOLEAN]     \* allow_direct

Ended == {"answered", "rejected", "timeout", "failed", "cancelled"}

TypeOK ==
  /\ requestCfg \in StreamCfg /\ responseCfg \in StreamCfg
  /\ transport \in {"starting", "ready", "refused"}
  /\ call \in [Operations -> {"idle", "publishing", "polling"} \cup Ended]
  /\ age \in [Operations -> 0 .. Deadline]
  /\ outbox \subseteq Operations /\ acked \subseteq Operations
  /\ requests \subseteq Operations /\ working \subseteq Operations
  /\ produced \subseteq Operations
  /\ responses \in [Operations -> {"none", "ok", "invalid"}]

Init ==
  /\ requestCfg \in StreamCfg /\ responseCfg \in StreamCfg
  /\ transport = "starting"
  /\ call = [o \in Operations |-> "idle"]
  /\ age = [o \in Operations |-> 0]
  /\ outbox = {} /\ acked = {} /\ requests = {} /\ working = {} /\ produced = {}
  /\ responses = [o \in Operations |-> "none"]

-----------------------------------------------------------------------------
(* Transport::connect.                                                     *)

\* Mutant of ValidRequestStream: storage is not looked at.
ValidRequestStreamAnyStorage(cfg) == cfg.retention = "WorkQueue" /\ cfg.subject

\* Mutant of ValidRequestStream: retention is not looked at.
ValidRequestStreamAnyRetention(cfg) == cfg.storage = "File" /\ cfg.subject

ValidRequestStream(cfg) ==
  cfg.storage = "File" /\ cfg.retention = "WorkQueue" /\ cfg.subject

\* Mutant of ValidResponseStream: retention is not looked at.
ValidResponseStreamAnyRetention(cfg) ==
  cfg.storage = "File" /\ cfg.direct /\ cfg.subject

ValidResponseStream(cfg) ==
  cfg.storage = "File" /\ cfg.retention = "Limits" /\ cfg.direct /\ cfg.subject

Connect ==
  /\ transport = "starting"
  /\ transport' = IF ValidRequestStream(requestCfg) /\ ValidResponseStream(responseCfg)
                  THEN "ready" ELSE "refused"
  /\ UNCHANGED <<requestCfg, responseCfg, client, broker, worker>>

-----------------------------------------------------------------------------
(* Transport::status.                                                      *)

End(o, how) ==
  /\ call' = [call EXCEPT ![o] = how]
  /\ age' = [age EXCEPT ![o] = 0]

Publish(o) ==
  /\ transport = "ready" /\ call[o] = "idle"
  /\ call' = [call EXCEPT ![o] = "publishing"]
  /\ outbox' = outbox \cup {o}
  /\ UNCHANGED <<config, age, acked, requests, responses, worker>>

Acknowledged(o) ==
  /\ call[o] = "publishing" /\ o \in acked
  /\ call' = [call EXCEPT ![o] = "polling"]
  /\ UNCHANGED <<config, age, broker, worker>>

\* No stream took the message, or its acknowledgement did not come in time:
\* the request may be stored all the same.
PublishError(o) ==
  /\ call[o] = "publishing"
  /\ End(o, "failed")
  /\ UNCHANGED <<config, broker, worker>>

\* decode_response: the subject is the one of o, and so is operation_id.
\* Mutant: schema, status and service are not looked at.
DecodeAnything(response) == "answered"

Decode(response) == IF response = "ok" THEN "answered" ELSE "rejected"

PollHit(o) ==
  /\ call[o] = "polling" /\ responses[o] # "none"
  /\ responseCfg.direct
  /\ End(o, Decode(responses[o]))
  /\ UNCHANGED <<config, broker, worker>>

\* Mutant of PollMiss: the loop reads once more whatever the time.
PollOnceMore(o) ==
  /\ call[o] = "polling"
  /\ age' = [age EXCEPT ![o] = @ + 1]
  /\ UNCHANGED <<config, call, broker, worker>>

\* Nothing there, a replica that lags, or any error of the read: the loop
\* cannot tell and goes on.  The time is looked at after the read only.
PollMiss(o) ==
  /\ call[o] = "polling" /\ age[o] < Deadline
  /\ \E now \in age[o] + 1 .. Deadline : age' = [age EXCEPT ![o] = now]
  /\ UNCHANGED <<config, call, broker, worker>>

\* Mutant of PollTimeout: the loop starts its clock again.
PollRestarts(o) ==
  /\ call[o] = "polling" /\ age[o] = Deadline
  /\ age' = [age EXCEPT ![o] = 0]
  /\ UNCHANGED <<config, call, broker, worker>>

PollTimeout(o) ==
  /\ call[o] = "polling" /\ age[o] = Deadline
  /\ End(o, "timeout")
  /\ UNCHANGED <<config, broker, worker>>

Cancel(o) ==
  /\ call[o] \in {"publishing", "polling"}
  /\ End(o, "cancelled")
  /\ UNCHANGED <<config, broker, worker>>

-----------------------------------------------------------------------------
(* The broker (external).                                                  *)

\* An Interest stream drops what no consumer is bound to, and acknowledges it.
Store(o) ==
  /\ o \in outbox /\ requestCfg.subject
  /\ outbox' = outbox \ {o}
  /\ acked' = acked \cup {o}
  /\ \/ requests' = requests \cup {o}
     \/ requestCfg.retention = "Interest" /\ UNCHANGED requests
  /\ UNCHANGED <<config, client, responses, worker>>

Lose(o) ==
  /\ o \in outbox
  /\ outbox' = outbox \ {o}
  /\ UNCHANGED <<config, client, acked, requests, responses, worker>>

BrokerRestart ==
  /\ requests' = IF requestCfg.storage = "File" THEN requests ELSE {}
  /\ working' = {}
  /\ responses' = IF responseCfg.storage = "File" THEN responses
                  ELSE [o \in Operations |-> "none"]
  /\ UNCHANGED <<config, client, outbox, acked, produced>>

-----------------------------------------------------------------------------
(* The API's worker (external): it answers, then acknowledges, so that a   *)
(* request is given out again when the worker dies in between.             *)

Take(o) ==
  /\ o \in requests \ working
  /\ working' = working \cup {o}
  /\ UNCHANGED <<config, client, broker, produced>>

\* `dies` is a death between the two: the response is there, the request too.
Respond(o, answer, dies) ==
  /\ o \in working
  /\ working' = working \ {o}
  /\ \/ responses' = [responses EXCEPT ![o] = answer]
     \/ responseCfg.retention = "Interest" /\ UNCHANGED responses
  /\ requests' = IF dies THEN requests ELSE requests \ {o}
  /\ produced' = IF answer = "ok" THEN produced \cup {o} ELSE produced
  /\ UNCHANGED <<config, client, outbox, acked>>

WorkerDies(o) ==
  /\ o \in working
  /\ working' = working \ {o}
  /\ UNCHANGED <<config, client, broker, produced>>

-----------------------------------------------------------------------------

Answers == {"ok", "invalid"}

Status(o) ==
  \/ Acknowledged(o) \/ PublishError(o)
  \/ PollHit(o) \/ PollMiss(o) \/ PollTimeout(o)

Environment(o) ==
  \/ Store(o) \/ Lose(o) \/ Take(o) \/ WorkerDies(o)
  \/ \E answer \in Answers, dies \in BOOLEAN : Respond(o, answer, dies)

Next ==
  \/ Connect
  \/ \E o \in Operations : Publish(o) \/ Status(o) \/ Cancel(o) \/ Environment(o)
  \/ BrokerRestart

Spec == Init /\ [][Next]_vars

(***************************************************************************)
(* tokio runs the handler, and the client library bounds the wait for an   *)
(* acknowledgement and for each read.  Of the API it is only assumed that  *)
(* a worker that is given a request over and over answers it in the end.   *)
(***************************************************************************)
Fairness ==
  \A o \in Operations :
    /\ WF_vars(Status(o))
    /\ WF_vars(Take(o))
    /\ SF_vars(\E answer \in Answers : Respond(o, answer, FALSE))

FairSpec == Spec /\ Fairness

-----------------------------------------------------------------------------
(* Properties.                                                             *)

(***************************************************************************)
(* DurableRequest: once the broker acknowledged a request, the request or  *)
(* its response exists, whatever restarts or dies and whether or not the   *)
(* caller still waits: this is what the checks of connect are for.         *)
(***************************************************************************)
DurableRequest ==
  \A o \in acked : o \in requests \/ responses[o] # "none"

(***************************************************************************)
(* AnswerIsReadable: an answer that the API produced can be read by the    *)
(* poll of its caller, however late, and also after a restart.             *)
(***************************************************************************)
AnswerIsReadable ==
  \A o \in produced : responses[o] # "none" /\ responseCfg.direct

(***************************************************************************)
(* EveryStatusEnds: a call ends even if every read fails: an error of the  *)
(* read is not told from an absent response, and only the deadline bounds  *)
(* the loop.                                                               *)
(***************************************************************************)
EveryStatusEnds ==
  \A o \in Operations : call[o] = "publishing" ~> call[o] \in Ended

(***************************************************************************)
(* EveryRequestIsAnswered: an acknowledged request is answered in the end, *)
(* after a timeout or a cancelled handler too.                             *)
(***************************************************************************)
EveryRequestIsAnswered ==
  \A o \in Operations : o \in acked ~> responses[o] # "none"

(***************************************************************************)
(* ImplementsRpc: the avenue implements the at-most-once call of CasesRpc: *)
(* redelivery may make the API answer twice, the caller is told once, and  *)
(* told a payload only if the API produced one for this operation.         *)
(***************************************************************************)
Result == [o \in Operations |->
             CASE call[o] = "answered" -> "payload"
               [] call[o] \in Ended \ {"answered"} -> "failed"
               [] OTHER -> "none"]

Rpc == INSTANCE CasesRpc WITH
         Requests <- Operations,
         called <- {o \in Operations : call[o] # "idle"},
         served <- produced,
         result <- Result

ImplementsRpc == Rpc!Spec
=============================================================================
