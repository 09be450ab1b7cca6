------------------------------ MODULE Dispatch ------------------------------
(***************************************************************************)
(* dispatch_request and the adapters that bring it a call: run_http for    *)
(* containers, oracle_fn for Oracle/Fn, run_aws for API Gateway.  The same *)
(* handler is deployed behind several of them, so one call is presented    *)
(* here to each, in any order, and the answers are compared.               *)
(*                                                                         *)
(* A call is what decides: where the code looks at bytes, the call says    *)
(* what they are.  A body is "lacking" when it is JSON without a usable    *)
(* required field (a structured CloudEvent carries it in its data), and    *)
(* cannot be read to its end when its framing is "malformed" (or ends      *)
(* between two pieces) or it is "cut" off inside a piece.                  *)
(***************************************************************************)
EXTENDS Naturals, FiniteSets

Adapters == {"http", "fn", "aws"}

Presence == {"absent", "usable", "unusable"}

Broken == {"malformed", "cut"}

Call == [
  method   : {"own", "get", "unset"},     \* unset: an invocation that is no HTTP request
  path     : {"own", "root", "health", "other", "unset"},
  over     : {"nothing", "envelope", "body"},  \* what exceeds max_event_bytes
  body     : Broken \cup {"empty", "invalid", "lacking", "usable"},
  base64   : BOOLEAN,
  format   : {"plain", "structured", "binary"},
  version  : BOOLEAN,                     \* specversion is 1.0
  complete : BOOLEAN,                     \* id, source and type are all there
  callId   : {"absent", "usable"},        \* fn-call-id, or the Lambda context's
  eventId  : Presence,                    \* unusable: nothing of it is left when sanitized
  headerId : Presence ]                   \* x-request-id and its like

\* A call a caller can make.
Possible(c) ==
  /\ c.over = "body" => c.body # "empty"
  /\ c.body \in Broken => c.over = "nothing"
  /\ c.format = "plain" => c.version /\ c.complete
  /\ c.complete /\ c.format # "plain" => c.eventId # "absent"
  /\ c.format = "structured" /\ c.body \in Broken \cup {"empty", "invalid"} =>
       c.version /\ c.complete /\ c.eventId = "usable"

VARIABLES
  call,      \* the call
  answer     \* answer[a]: what adapter a answered, or NoAnswer

vars == <<call, answer>>

\* Only the container answers without an id.
Answers(a) ==
  CASE a = "http" -> [status : {200, 202, 400, 404, 405, 413, 422},
                      id : {"none", "generated", "event", "header"}]
    [] a = "fn"   -> [status : {202, 400, 404, 405, 413, 422, 500},
                      id : {"generated", "call", "event", "header"}]
    [] a = "aws"  -> [status : {202, 404, 405, 413, 415, 422},
                      id : {"generated", "call"}]

NoAnswer == [status |-> 0, id |-> "none"]

Reply(status, id) == [status |-> status, id |-> id]

TypeOK ==
  /\ call \in Call
  /\ DOMAIN answer = Adapters
  /\ \A a \in Adapters : answer[a] \in Answers(a) \cup {NoAnswer}

Init ==
  /\ call \in {c \in Call : Possible(c)}
  /\ answer = [a \in Adapters |-> NoAnswer]

-----------------------------------------------------------------------------
(* The neutral handler: size, path, method, field, in this order.          *)

Own(value) == value = "own"

\* Null, blank text and an empty list or object do not count.
HasRequiredValue(c) == c.body = "usable"

DispatchRequest(over, path, method, usable, id) ==
  Reply(CASE over              -> 413
          [] ~ over /\ ~ path  -> 404
          [] ~ over /\ path /\ ~ method -> 405
          [] ~ over /\ path /\ method /\ ~ usable -> 422
          [] OTHER -> 202, id)

\* What is wrong with the CloudEvent attributes of c.
Malformed(c) == c.format # "plain" /\ ~ (c.version /\ c.complete)

-----------------------------------------------------------------------------
(* run_http.                                                               *)

\* An id that is empty once sanitized gives way to the next.
HttpId(c) ==
  CASE c.eventId = "usable" -> "event"
    [] c.eventId # "usable" /\ c.headerId = "usable" -> "header"
    [] OTHER -> "generated"

\* decode_http_payload: a structured event must be JSON, its attributes are
\* checked before a binary one's body, and no body is an empty object.
HttpDecodes(c) ==
  /\ ~ Malformed(c)
  /\ c.body # "invalid"
  /\ c.format = "structured" => c.body # "empty"

\* to_bytes fails over the limit and for a body that breaks off, alike.
HttpUnread(c) == c.over = "body" \/ c.body \in Broken

\* Mutant of Http: a body that cannot be decoded counts as an empty one.
HttpLenient(c) ==
  CASE c.path = "health" -> Reply(IF c.method = "get" THEN 200 ELSE 405, "none")
    [] c.path # "health" /\ HttpUnread(c) -> Reply(413, "none")
    [] OTHER -> DispatchRequest(FALSE, c.path \in {"own", "root"}, Own(c.method),
                                HasRequiredValue(c), HttpId(c))

\* The router answers the health paths itself, to GET only.
Http(c) ==
  CASE c.path = "health" -> Reply(IF c.method = "get" THEN 200 ELSE 405, "none")
    [] c.path # "health" /\ HttpUnread(c) -> Reply(413, "none")
    [] c.path # "health" /\ ~ HttpUnread(c) /\ ~ HttpDecodes(c) -> Reply(400, "none")
    [] OTHER -> DispatchRequest(FALSE, c.path \in {"own", "root"}, Own(c.method),
                                HasRequiredValue(c), HttpId(c))

-----------------------------------------------------------------------------
(* oracle_fn: handle_stream.                                               *)

\* Mutant of FnId: only the platform's own id is looked for.
FnIdOfCall(c) == IF c.callId = "usable" THEN "call" ELSE "generated"

\* The first header that is there is the id, if anything is left of it.  The
\* id of a structured event is in its body and is not looked at.
FnId(c) ==
  LET eventId == IF c.format = "structured" THEN "absent" ELSE c.eventId
  IN  CASE c.callId = "usable" -> "call"
        [] c.callId = "absent" /\ eventId = "usable" -> "event"
        [] c.callId = "absent" /\ eventId = "absent" /\ c.headerId = "usable" -> "header"
        [] OTHER -> "generated"

\* Mutant of FnDecodes: the attributes of an event are not looked at.
FnDecodesAnyEvent(c) == c.body # "invalid"

\* decode_payload: no body is an empty object, whatever the headers say.
FnDecodes(c) == c.body = "empty" \/ (c.body # "invalid" /\ ~ Malformed(c))

\* read_request: BadRequest and Io.
FnBroken(c) == Reply(IF c.body = "malformed" THEN 400 ELSE 500, "generated")

FnWhole(c) == c.over # "body" /\ c.body \notin Broken

\* Mutant of Fn: what read_request refuses is answered without an id.
FnNameless(c) ==
  CASE c.over = "body" -> Reply(413, "none")
    [] c.over # "body" /\ c.body \in Broken -> FnBroken(c)
    [] FnWhole(c) /\ ~ FnDecodes(c) -> Reply(400, "none")
    [] OTHER -> DispatchRequest(FALSE, c.path \in {"own", "unset"},
                                c.method \in {"own", "unset"},
                                HasRequiredValue(c), FnId(c))

\* read_request refuses a large or broken body before there is an id.  What an
\* invocation does not say is taken from the RouteSpec.
Fn(c) ==
  CASE c.over = "body" -> Reply(413, "generated")
    [] c.over # "body" /\ c.body \in Broken -> FnBroken(c)
    [] FnWhole(c) /\ ~ FnDecodes(c) -> Reply(400, FnId(c))
    [] OTHER -> DispatchRequest(FALSE, c.path \in {"own", "unset"},
                                c.method \in {"own", "unset"},
                                HasRequiredValue(c), FnId(c))

-----------------------------------------------------------------------------
(* run_aws: dispatch.                                                      *)

AwsId(c) == IF c.callId = "usable" THEN "call" ELSE "generated"

\* Mutant of AwsHasValue: the body stays the text it is in the envelope.
AwsHasValueInText(c) == FALSE

\* decode_json_value: a body that is no JSON stays text, and a structured
\* event stays an event.
AwsHasValue(c) == HasRequiredValue(c) /\ c.format # "structured"

\* The size is that of the whole envelope.
Aws(c) ==
  IF c.base64 THEN Reply(415, AwsId(c))
  ELSE DispatchRequest(c.over # "nothing", Own(c.path), Own(c.method),
                       AwsHasValue(c), AwsId(c))

-----------------------------------------------------------------------------

\* An HTTP request has a method and a path, and an envelope is always whole.
Presentable(a, c) ==
  /\ a = "http" => c.method # "unset" /\ c.path # "unset"
  /\ a = "aws" => c.body \notin Broken

Served(a, c) ==
  CASE a = "http" -> Http(c)
    [] a = "fn"   -> Fn(c)
    [] a = "aws"  -> Aws(c)

Serve(a) ==
  /\ answer[a] = NoAnswer
  /\ Presentable(a, call)
  /\ answer' = [answer EXCEPT ![a] = Served(a, call)]
  /\ UNCHANGED call

Next == \E a \in Adapters : Serve(a)

Spec == Init /\ [][Next]_vars

-----------------------------------------------------------------------------
(* Properties.                                                             *)

Status(a) == answer[a].status
Answered(A) == \A a \in A : answer[a] # NoAnswer

(***************************************************************************)
(* OneVerdict: a route may be moved from one platform to another.          *)
(*   - The container and the Fn function answer a call with the same       *)
(*     status: the order of size, decoding, path, method and field checks  *)
(*     in two files is the same.  The exceptions: the paths that only one  *)
(*     of them knows, an event without a body, whose attributes only the   *)
(*     container looks at, and a body that cannot be read to its end,      *)
(*     which the container calls too large; there neither accepts.         *)
(*   - A plain call of the route that one adapter accepts is accepted by   *)
(*     each, unless only API Gateway's envelope makes it too large or      *)
(*     encodes it.                                                         *)
(***************************************************************************)
SameStatus ==
  Answered({"http", "fn"}) /\ call.path \notin {"root", "health"} =>
    IF call.body \in Broken \/ (call.format # "plain" /\ call.body = "empty")
    THEN Status("http") # 202 /\ Status("fn") # 202
    ELSE Status("http") = Status("fn")

AcceptedAlike ==
  /\ call.format = "plain" /\ call.path = "own" /\ call.method # "unset"
  /\ call.over = "nothing" /\ ~ call.base64
  => \A a, b \in {x \in Adapters : Answered({x})} : Status(a) = 202 => Status(b) = 202

OneVerdict == SameStatus /\ AcceptedAlike

(***************************************************************************)
(* AcceptedIsComplete: no adapter accepts what another check of the        *)
(* handler would have refused: an accepted call names the route, by its    *)
(* method, has the field, fits (into API Gateway's envelope, where it      *)
(* comes in one), and is no event that the adapter should have found       *)
(* malformed.                                                              *)
(***************************************************************************)
AcceptedIsComplete ==
  \A a \in Adapters : Status(a) = 202 =>
    /\ call.body = "usable" /\ call.over # "body"
    /\ \/ call.method = "own"
       \/ a = "fn" /\ call.method = "unset"
    /\ \/ call.path = "own"
       \/ a = "http" /\ call.path = "root"
       \/ a = "fn" /\ call.path = "unset"
    /\ a # "aws" => ~ Malformed(call)
    /\ a = "aws" => call.over = "nothing" /\ ~ call.base64 /\ call.format # "structured"

\* What adapter a is given as ids, and the ones it looks at before each.
Given(a, c) ==
  [call |-> c.callId,
   event |-> IF a = "fn" /\ c.format = "structured" THEN "absent" ELSE c.eventId,
   header |-> c.headerId]

Earlier(a) ==
  CASE a = "http" -> [event |-> {}, header |-> {"event"}]
    [] a = "fn"   -> [call |-> {}, event |-> {"call"}, header |-> {"call", "event"}]
    [] a = "aws"  -> [call |-> {}]

(***************************************************************************)
(* Correlated: every accepted call can be traced.  Of the ids that its     *)
(* adapter looks at it keeps the first that the caller gave, wherever that *)
(* is (call id, event, header) and if anything is left of it when it is    *)
(* sanitized; it never keeps one of which nothing is left, and makes one   *)
(* up only where the caller gave none that is usable, except that an Fn    *)
(* function does not look beyond an unusable one.                          *)
(***************************************************************************)
Correlated ==
  \A a \in Adapters : Status(a) = 202 =>
    LET id == answer[a].id
        given == Given(a, call)
    IN  /\ id \in DOMAIN Earlier(a) \cup {"generated"}
        /\ id # "generated" => given[id] = "usable"
        /\ \A k \in DOMAIN Earlier(a) :
             given[k] = "usable" /\ (\A j \in Earlier(a)[k] : given[j] = "absent") => id = k
        /\ id = "generated" =>
             \A k \in DOMAIN Earlier(a) :
               given[k] = "usable" => a = "fn" /\ \E j \in Earlier(a)[k] : given[j] = "unusable"
=============================================================================
