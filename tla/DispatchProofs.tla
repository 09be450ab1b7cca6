--------------------------- MODULE DispatchProofs ---------------------------
(***************************************************************************)
(* Theorems about Dispatch.  The invariant is that an answer is the one    *)
(* that the adapter's code gives to the call (Faithful); the properties    *)
(* then are facts about the operators: what a call has passed that an      *)
(* adapter accepts, and which refusals a call gets from two of them.       *)
(***************************************************************************)
EXTENDS Dispatch, TLAPS

Faithful ==
  /\ call \in Call
  /\ DOMAIN answer = Adapters
  /\ \A a \in Adapters :
       answer[a] = NoAnswer \/ (Presentable(a, call) /\ answer[a] = Served(a, call))

\* dispatch_request accepts only what passes its four checks, and keeps the id.
LEMMA DispatchAccepts ==
  ASSUME NEW over \in BOOLEAN, NEW path \in BOOLEAN, NEW method \in BOOLEAN,
         NEW usable \in BOOLEAN, NEW id
  PROVE  /\ DispatchRequest(over, path, method, usable, id).id = id
         /\ DispatchRequest(over, path, method, usable, id).status = 202
              => ~ over /\ path /\ method /\ usable
<1>1. CASE over
  BY <1>1 DEF DispatchRequest, Reply
<1>2. CASE ~ over /\ ~ path
  BY <1>2 DEF DispatchRequest, Reply
<1>3. CASE ~ over /\ path /\ ~ method
  BY <1>3 DEF DispatchRequest, Reply
<1>4. CASE ~ over /\ path /\ method /\ ~ usable
  BY <1>4 DEF DispatchRequest, Reply
<1>5. CASE ~ over /\ path /\ method /\ usable
  BY <1>5 DEF DispatchRequest, Reply
<1> QED BY <1>1, <1>2, <1>3, <1>4, <1>5

\* What an accepted call is to each adapter.
LEMMA HttpAccepts ==
  ASSUME NEW c \in Call, Http(c).status = 202
  PROVE  /\ c.path \in {"own", "root"} /\ c.method = "own"
         /\ c.over # "body" /\ c.body = "usable" /\ ~ Malformed(c)
         /\ Http(c).id = HttpId(c)
<1> DEFINE R == DispatchRequest(FALSE, c.path \in {"own", "root"}, Own(c.method),
                                HasRequiredValue(c), HttpId(c))
<1>1. CASE c.path = "health"
  BY <1>1 DEF Http, Reply
<1>2. CASE c.path # "health" /\ HttpUnread(c)
  BY <1>2 DEF Http, Reply
<1>3. CASE c.path # "health" /\ ~ HttpUnread(c) /\ ~ HttpDecodes(c)
  BY <1>3 DEF Http, Reply
<1>4. CASE c.path # "health" /\ ~ HttpUnread(c) /\ HttpDecodes(c)
  <2>1. Http(c) = R
    BY <1>4 DEF Http
  <2>2. /\ R.id = HttpId(c)
        /\ R.status = 202 =>
             c.path \in {"own", "root"} /\ Own(c.method) /\ HasRequiredValue(c)
    <3> DEFINE o == FALSE  p == (c.path \in {"own", "root"})  m == Own(c.method)
               u == HasRequiredValue(c)  i == HttpId(c)
    <3>1. o \in BOOLEAN /\ p \in BOOLEAN /\ m \in BOOLEAN /\ u \in BOOLEAN
      BY DEF Own, AwsHasValue, HasRequiredValue
    <3> HIDE DEF o, p, m, u, i
    <3>2. /\ DispatchRequest(o, p, m, u, i).id = i
          /\ DispatchRequest(o, p, m, u, i).status = 202 => ~ o /\ p /\ m /\ u
      BY <3>1, DispatchAccepts
    <3> QED BY <3>2 DEF o, p, m, u, i
  <2> HIDE DEF R
  <2> QED BY <1>4, <2>1, <2>2 DEF Own, HasRequiredValue, HttpDecodes, HttpUnread
<1> QED BY <1>1, <1>2, <1>3, <1>4

LEMMA FnAccepts ==
  ASSUME NEW c \in Call, Fn(c).status = 202
  PROVE  /\ c.path \in {"own", "unset"} /\ c.method \in {"own", "unset"}
         /\ c.over # "body" /\ c.body = "usable" /\ ~ Malformed(c)
         /\ Fn(c).id = FnId(c)
<1> DEFINE R == DispatchRequest(FALSE, c.path \in {"own", "unset"},
                                c.method \in {"own", "unset"},
                                HasRequiredValue(c), FnId(c))
<1>1. CASE c.over = "body"
  BY <1>1 DEF Fn, FnWhole, Reply
<1>2. CASE FnWhole(c) /\ ~ FnDecodes(c)
  BY <1>2 DEF Fn, FnWhole, Reply
<1>3. CASE FnWhole(c) /\ FnDecodes(c)
  <2>1. Fn(c) = R
    BY <1>3 DEF Fn, FnWhole
  <2>2. /\ R.id = FnId(c)
        /\ R.status = 202 =>
             /\ c.path \in {"own", "unset"} /\ c.method \in {"own", "unset"}
             /\ HasRequiredValue(c)
    <3> DEFINE o == FALSE  p == (c.path \in {"own", "unset"})  m == (c.method \in {"own", "unset"})
               u == HasRequiredValue(c)  i == FnId(c)
    <3>1. o \in BOOLEAN /\ p \in BOOLEAN /\ m \in BOOLEAN /\ u \in BOOLEAN
      BY DEF Own, AwsHasValue, HasRequiredValue
    <3> HIDE DEF o, p, m, u, i
    <3>2. /\ DispatchRequest(o, p, m, u, i).id = i
          /\ DispatchRequest(o, p, m, u, i).status = 202 => ~ o /\ p /\ m /\ u
      BY <3>1, DispatchAccepts
    <3> QED BY <3>2 DEF o, p, m, u, i
  <2> HIDE DEF R
  <2> QED BY <1>3, <2>1, <2>2 DEF HasRequiredValue, FnDecodes, FnWhole
<1>4. CASE c.over # "body" /\ c.body \in Broken
  <2>1. Fn(c) = FnBroken(c)
    BY <1>4 DEF Fn, FnWhole
  <2> QED BY <2>1 DEF FnBroken, Reply
<1> QED BY <1>1, <1>2, <1>3, <1>4 DEF FnWhole

LEMMA AwsAccepts ==
  ASSUME NEW c \in Call, Aws(c).status = 202
  PROVE  /\ c.path = "own" /\ c.method = "own" /\ ~ c.base64
         /\ c.over = "nothing" /\ c.body = "usable" /\ c.format # "structured"
         /\ Aws(c).id = AwsId(c)
<1> DEFINE R == DispatchRequest(c.over # "nothing", Own(c.path), Own(c.method),
                                AwsHasValue(c), AwsId(c))
<1>1. CASE c.base64
  BY <1>1 DEF Aws, Reply
<1>2. CASE ~ c.base64
  <2>1. Aws(c) = R
    BY <1>2 DEF Aws
  <2>2. /\ R.id = AwsId(c)
        /\ R.status = 202 =>
             c.over = "nothing" /\ Own(c.path) /\ Own(c.method) /\ AwsHasValue(c)
    <3> DEFINE o == (c.over # "nothing")  p == Own(c.path)  m == Own(c.method)
               u == AwsHasValue(c)  i == AwsId(c)
    <3>1. o \in BOOLEAN /\ p \in BOOLEAN /\ m \in BOOLEAN /\ u \in BOOLEAN
      BY DEF Own, AwsHasValue, HasRequiredValue
    <3> HIDE DEF o, p, m, u, i
    <3>2. /\ DispatchRequest(o, p, m, u, i).id = i
          /\ DispatchRequest(o, p, m, u, i).status = 202 => ~ o /\ p /\ m /\ u
      BY <3>1, DispatchAccepts
    <3> QED BY <3>2 DEF o, p, m, u, i
  <2> HIDE DEF R
  <2> QED BY <1>2, <2>1, <2>2 DEF Own, AwsHasValue, HasRequiredValue
<1> QED BY <1>1, <1>2

\* Every answer is the adapter's answer to the call.
THEOREM Invariant == Spec => []Faithful
<1>1. Init => Faithful
  BY DEF Init, Faithful
<1>2. Faithful /\ [Next]_vars => Faithful'
  <2> SUFFICES ASSUME Faithful, [Next]_vars PROVE Faithful'
    OBVIOUS
  <2>1. ASSUME NEW a \in Adapters, Serve(a) PROVE Faithful'
    <3>1. call' = call /\ Presentable(a, call)
          /\ answer' = [answer EXCEPT ![a] = Served(a, call)]
      BY <2>1 DEF Serve
    <3>2. Served(a, call)' = Served(a, call)
      BY <3>1 DEF Served, Http, Fn, Aws
    <3>3. DOMAIN answer' = Adapters
      BY <3>1 DEF Faithful
    <3>4. ASSUME NEW b \in Adapters
          PROVE  \/ answer'[b] = NoAnswer
                 \/ Presentable(b, call) /\ answer'[b] = Served(b, call)
      BY <3>1 DEF Faithful
    <3> QED BY <3>1, <3>3, <3>4 DEF Faithful
  <2>2. CASE UNCHANGED vars
    BY <2>2 DEF Faithful, vars
  <2> QED BY <2>1, <2>2 DEF Next
<1> QED BY <1>1, <1>2, PTL DEF Spec

LEMMA Accepting ==
  ASSUME Faithful, NEW a \in Adapters, Status(a) = 202
  PROVE  answer[a] = Served(a, call) /\ Served(a, call).status = 202
BY DEF Faithful, Status, NoAnswer

\* What one adapter's checks let pass is what the handler asks of a call.
THEOREM Completeness == Spec => []AcceptedIsComplete
<1>1. Faithful => AcceptedIsComplete
  <2> SUFFICES ASSUME Faithful, NEW a \in Adapters, Status(a) = 202
               PROVE  /\ call.body = "usable" /\ call.over # "body"
                      /\ \/ call.method = "own"
                         \/ a = "fn" /\ call.method = "unset"
                      /\ \/ call.path = "own"
                         \/ a = "http" /\ call.path = "root"
                         \/ a = "fn" /\ call.path = "unset"
                      /\ a # "aws" => ~ Malformed(call)
                      /\ a = "aws" => /\ call.over = "nothing" /\ ~ call.base64
                                      /\ call.format # "structured"
    BY DEF AcceptedIsComplete
  <2>1. call \in Call
    BY DEF Faithful
  <2>2. CASE a = "http"
    BY <2>1, <2>2, Accepting, HttpAccepts DEF Served
  <2>3. CASE a = "fn"
    BY <2>1, <2>3, Accepting, FnAccepts DEF Served
  <2>4. CASE a = "aws"
    BY <2>1, <2>4, Accepting, AwsAccepts DEF Served
  <2> QED BY <2>2, <2>3, <2>4 DEF Adapters
<1> QED BY <1>1, Invariant, PTL

LEMMA EarlierValue ==
  /\ Earlier("http") = [event |-> {}, header |-> {"event"}]
  /\ Earlier("fn") = [call |-> {}, event |-> {"call"}, header |-> {"call", "event"}]
  /\ Earlier("aws") = [call |-> {}]
BY DEF Earlier

\* An accepted call carries the first id its caller gave, where that is usable.
THEOREM Correlation == Spec => []Correlated
<1>1. Faithful => Correlated
  <2> SUFFICES ASSUME Faithful, NEW a \in Adapters, Status(a) = 202
      PROVE  LET id == answer[a].id
                 given == Given(a, call)
             IN  /\ id \in DOMAIN Earlier(a) \cup {"generated"}
                 /\ id # "generated" => given[id] = "usable"
                 /\ \A k \in DOMAIN Earlier(a) :
                      given[k] = "usable" /\ (\A j \in Earlier(a)[k] : given[j] = "absent")
                        => id = k
                 /\ id = "generated" =>
                      \A k \in DOMAIN Earlier(a) :
                        given[k] = "usable"
                          => a = "fn" /\ \E j \in Earlier(a)[k] : given[j] = "unusable"
    BY DEF Correlated
  <2>1. call \in Call
    BY DEF Faithful
  <2>2. CASE a = "http"
    <3>1. answer[a].id = HttpId(call)
      BY <2>1, <2>2, Accepting, HttpAccepts DEF Served
    <3>2. CASE call.eventId = "usable"
      <4>1. answer[a].id = "event"
        BY <3>1, <3>2 DEF HttpId
      <4> QED BY <2>2, <3>2, <4>1, EarlierValue DEF Given
    <3>3. CASE call.eventId # "usable" /\ call.headerId = "usable"
      <4>1. answer[a].id = "header"
        BY <3>1, <3>3 DEF HttpId
      <4> QED BY <2>2, <3>3, <4>1, EarlierValue DEF Given
    <3>4. CASE call.eventId # "usable" /\ call.headerId # "usable"
      <4>1. answer[a].id = "generated"
        BY <3>1, <3>4 DEF HttpId
      <4> QED BY <2>2, <3>4, <4>1, EarlierValue DEF Given
    <3> QED BY <3>2, <3>3, <3>4
  <2>3. CASE a = "fn"
    <3> DEFINE e == IF call.format = "structured" THEN "absent" ELSE call.eventId
    <3>1. answer[a].id = FnId(call)
      BY <2>1, <2>3, Accepting, FnAccepts DEF Served
    <3>2. call.callId \in {"absent", "usable"} /\ e \in Presence
      BY <2>1 DEF Call, Presence
    <3>3. FnId(call) = CASE call.callId = "usable" -> "call"
                         [] call.callId = "absent" /\ e = "usable" -> "event"
                         [] call.callId = "absent" /\ e = "absent" /\ call.headerId = "usable"
                              -> "header"
                         [] OTHER -> "generated"
      BY DEF FnId
    <3>4. Given(a, call) = [call |-> call.callId, event |-> e, header |-> call.headerId]
      BY <2>3 DEF Given
    <3> HIDE DEF e
    <3>5. CASE call.callId = "usable"
      <4>1. answer[a].id = "call"
        BY <3>1, <3>3, <3>5
      <4> QED BY <2>3, <3>4, <3>5, <4>1, EarlierValue
    <3>6. CASE call.callId = "absent" /\ e = "usable"
      <4>1. answer[a].id = "event"
        BY <3>1, <3>3, <3>6
      <4> QED BY <2>3, <3>4, <3>6, <4>1, EarlierValue
    <3>7. CASE call.callId = "absent" /\ e = "absent" /\ call.headerId = "usable"
      <4>1. answer[a].id = "header"
        BY <3>1, <3>3, <3>7
      <4> QED BY <2>3, <3>4, <3>7, <4>1, EarlierValue
    <3>8. CASE call.callId = "absent" /\ e = "absent" /\ call.headerId # "usable"
      <4>1. answer[a].id = "generated"
        BY <3>1, <3>3, <3>8
      <4> QED BY <2>3, <3>4, <3>8, <4>1, EarlierValue
    <3>9. CASE call.callId = "absent" /\ e = "unusable"
      <4>1. answer[a].id = "generated"
        BY <3>1, <3>3, <3>9
      <4> QED BY <2>3, <3>4, <3>9, <4>1, EarlierValue
    <3> QED BY <3>2, <3>5, <3>6, <3>7, <3>8, <3>9 DEF Presence
  <2>4. CASE a = "aws"
    <3>1. answer[a].id = AwsId(call)
      BY <2>1, <2>4, Accepting, AwsAccepts DEF Served
    <3> QED BY <2>4, <3>1, EarlierValue DEF AwsId, Given
  <2> QED BY <2>2, <2>3, <2>4 DEF Adapters
<1> QED BY <1>1, Invariant, PTL

-----------------------------------------------------------------------------
(* Statuses.                                                               *)

\* dispatch_request's answers, each with the first check that fails.
LEMMA DispatchDecides ==
  ASSUME NEW over \in BOOLEAN, NEW path \in BOOLEAN, NEW method \in BOOLEAN,
         NEW usable \in BOOLEAN, NEW id
  PROVE  DispatchRequest(over, path, method, usable, id) =
           Reply(IF over THEN 413
                 ELSE IF ~ path THEN 404
                 ELSE IF ~ method THEN 405
                 ELSE IF ~ usable THEN 422 ELSE 202, id)
<1>1. CASE over
  BY <1>1 DEF DispatchRequest
<1>2. CASE ~ over /\ ~ path
  BY <1>2 DEF DispatchRequest
<1>3. CASE ~ over /\ path /\ ~ method
  BY <1>3 DEF DispatchRequest
<1>4. CASE ~ over /\ path /\ method /\ ~ usable
  BY <1>4 DEF DispatchRequest
<1>5. CASE ~ over /\ path /\ method /\ usable
  BY <1>5 DEF DispatchRequest
<1> QED BY <1>1, <1>2, <1>3, <1>4, <1>5

LEMMA DispatchPasses ==
  ASSUME NEW over \in BOOLEAN, NEW path \in BOOLEAN, NEW method \in BOOLEAN,
         NEW usable \in BOOLEAN, NEW id
  PROVE  DispatchRequest(over, path, method, usable, id).status # 202
           => over \/ ~ path \/ ~ method \/ ~ usable
BY DEF DispatchRequest, Reply

\* The id has no part in the decision.
LEMMA DispatchUnnamed ==
  ASSUME NEW over \in BOOLEAN, NEW path \in BOOLEAN, NEW method \in BOOLEAN,
         NEW usable \in BOOLEAN, NEW i, NEW j
  PROVE  DispatchRequest(over, path, method, usable, i).status =
           DispatchRequest(over, path, method, usable, j).status
BY DispatchDecides DEF Reply

LEMMA DispatchStatus ==
  ASSUME NEW over \in BOOLEAN, NEW path \in BOOLEAN, NEW method \in BOOLEAN,
         NEW usable \in BOOLEAN, NEW id
  PROVE  \E s \in {202, 404, 405, 413, 422} :
           DispatchRequest(over, path, method, usable, id) = Reply(s, id)
BY DispatchDecides

\* Each adapter's answers are among those that its code has.
LEMMA HttpAnswers == ASSUME NEW c \in Call PROVE Http(c) \in Answers("http")
<1> DEFINE o == FALSE  p == (c.path \in {"own", "root"})  m == Own(c.method)
           u == HasRequiredValue(c)  i == HttpId(c)  I == {"none", "generated", "event", "header"}
<1>1. CASE c.path = "health"
  BY <1>1 DEF Http, Reply, Answers
<1>2. CASE c.path # "health" /\ HttpUnread(c)
  BY <1>2 DEF Http, Reply, Answers
<1>3. CASE c.path # "health" /\ ~ HttpUnread(c) /\ ~ HttpDecodes(c)
  BY <1>3 DEF Http, Reply, Answers
<1>4. CASE c.path # "health" /\ ~ HttpUnread(c) /\ HttpDecodes(c)
  <2>1. Http(c) = DispatchRequest(o, p, m, u, i)
    BY <1>4 DEF Http
  <2>2. o \in BOOLEAN /\ p \in BOOLEAN /\ m \in BOOLEAN /\ u \in BOOLEAN
    BY DEF Own, HasRequiredValue
  <2>3. i \in I
    BY DEF HttpId
  <2> HIDE DEF o, p, m, u, i, I
  <2>4. \E s \in {202, 404, 405, 413, 422} : DispatchRequest(o, p, m, u, i) = Reply(s, i)
    BY <2>2, DispatchStatus
  <2> QED BY <2>1, <2>3, <2>4 DEF Answers, I, Reply
<1> QED BY <1>1, <1>2, <1>3, <1>4

LEMMA FnIds == ASSUME NEW c \in Call PROVE FnId(c) \in {"generated", "call", "event", "header"}
BY DEF FnId

LEMMA FnAnswers == ASSUME NEW c \in Call PROVE Fn(c) \in Answers("fn")
<1> DEFINE o == FALSE  p == (c.path \in {"own", "unset"})  m == (c.method \in {"own", "unset"})
           u == HasRequiredValue(c)  i == FnId(c)  I == {"generated", "call", "event", "header"}
<1>1. CASE c.over = "body"
  BY <1>1 DEF Fn, FnWhole, Reply, Answers
<1>2. CASE FnWhole(c) /\ ~ FnDecodes(c)
  BY <1>2, FnIds DEF Fn, FnWhole, Reply, Answers
<1>3. CASE FnWhole(c) /\ FnDecodes(c)
  <2>1. Fn(c) = DispatchRequest(o, p, m, u, i)
    BY <1>3 DEF Fn, FnWhole
  <2>2. o \in BOOLEAN /\ p \in BOOLEAN /\ m \in BOOLEAN /\ u \in BOOLEAN
    BY DEF HasRequiredValue
  <2>3. i \in I
    BY FnIds
  <2> HIDE DEF o, p, m, u, i, I
  <2>4. \E s \in {202, 404, 405, 413, 422} : DispatchRequest(o, p, m, u, i) = Reply(s, i)
    BY <2>2, DispatchStatus
  <2> QED BY <2>1, <2>3, <2>4 DEF Answers, I, Reply
<1>4. CASE c.over # "body" /\ c.body \in Broken
  <2>1. Fn(c) = FnBroken(c)
    BY <1>4 DEF Fn, FnWhole
  <2> QED BY <2>1 DEF FnBroken, Reply, Answers
<1> QED BY <1>1, <1>2, <1>3, <1>4 DEF FnWhole

LEMMA AwsAnswers == ASSUME NEW c \in Call PROVE Aws(c) \in Answers("aws")
<1> DEFINE o == (c.over # "nothing")  p == Own(c.path)  m == Own(c.method)
           u == AwsHasValue(c)  i == AwsId(c)  I == {"generated", "call"}
<1>1. i \in I
  BY DEF AwsId
<1>2. CASE c.base64
  BY <1>1, <1>2 DEF Aws, Reply, Answers
<1>3. CASE ~ c.base64
  <2>1. Aws(c) = DispatchRequest(o, p, m, u, i)
    BY <1>3 DEF Aws
  <2>2. o \in BOOLEAN /\ p \in BOOLEAN /\ m \in BOOLEAN /\ u \in BOOLEAN
    BY DEF Own, AwsHasValue, HasRequiredValue
  <2> HIDE DEF o, p, m, u, i, I
  <2>3. i \in I
    BY <1>1
  <2>4. \E s \in {202, 404, 405, 413, 422} : DispatchRequest(o, p, m, u, i) = Reply(s, i)
    BY <2>2, DispatchStatus
  <2> QED BY <2>1, <2>3, <2>4 DEF Answers, I, Reply
<1> QED BY <1>2, <1>3

\* The types of Dispatch hold in every reachable state.
THEOREM TypeCorrect == Spec => []TypeOK
<1>1. Faithful => TypeOK
  <2> SUFFICES ASSUME Faithful, NEW a \in Adapters, answer[a] # NoAnswer
               PROVE  Served(a, call) \in Answers(a)
    BY DEF Faithful, TypeOK
  <2>1. call \in Call
    BY DEF Faithful
  <2> QED BY <2>1, HttpAnswers, FnAnswers, AwsAnswers DEF Served, Adapters
<1> QED BY <1>1, Invariant, PTL

\* The container and the Fn function refuse the same plain paths alike.
LEMMA SameServed ==
  ASSUME NEW c \in Call, Presentable("http", c), c.path \notin {"root", "health"},
         c.body \notin Broken, c.format = "plain" \/ c.body # "empty"
  PROVE  Http(c).status = Fn(c).status
<1> DEFINE o == FALSE  p == (c.path \in {"own", "root"})  q == (c.path \in {"own", "unset"})
           m == Own(c.method)  n == (c.method \in {"own", "unset"})
           u == HasRequiredValue(c)  i == HttpId(c)  j == FnId(c)
<1>1. /\ o \in BOOLEAN /\ u \in BOOLEAN /\ q \in BOOLEAN /\ n \in BOOLEAN
      /\ p = q /\ m = n
  BY DEF Presentable, Own, HasRequiredValue, Call
<1>2. HttpDecodes(c) <=> FnDecodes(c)
  BY DEF HttpDecodes, FnDecodes, Malformed
<1>3. HttpUnread(c) <=> ~ FnWhole(c)
  BY DEF HttpUnread, FnWhole
<1>4. CASE c.over = "body"
  <2>1. c.path # "health" /\ HttpUnread(c)
    BY <1>4 DEF HttpUnread
  <2>2. Http(c) = Reply(413, "none")
    BY <2>1 DEF Http
  <2>3. Fn(c) = Reply(413, "generated")
    BY <1>4 DEF Fn, FnWhole
  <2> QED BY <2>2, <2>3 DEF Reply
<1>5. CASE FnWhole(c) /\ ~ FnDecodes(c)
  <2>1. c.path # "health"
    OBVIOUS
  <2>2. Http(c) = Reply(400, "none")
    BY <1>2, <1>3, <1>5, <2>1 DEF Http
  <2> QED BY <1>5, <2>2 DEF Fn, FnWhole, Reply
<1>6. CASE FnWhole(c) /\ FnDecodes(c)
  <2>1. Http(c) = DispatchRequest(o, p, m, u, i)
    BY <1>2, <1>3, <1>6 DEF Http
  <2>2. Fn(c) = DispatchRequest(o, q, n, u, j)
    BY <1>6 DEF Fn, FnWhole
  <2> HIDE DEF o, p, q, m, n, u, i, j
  <2>3. Http(c) = DispatchRequest(o, q, n, u, i)
    BY <1>1, <2>1
  <2> QED BY <1>1, <2>2, <2>3, DispatchUnnamed
<1> QED BY <1>4, <1>5, <1>6 DEF FnWhole

\* A plain call to the route by its path, which fits: what one accepts has
\* all that each asks for.
LEMMA AcceptedByAll ==
  ASSUME NEW c \in Call, c.format = "plain", c.path = "own", c.method = "own",
         c.over = "nothing", ~ c.base64, c.body = "usable"
  PROVE  Http(c).status = 202 /\ Fn(c).status = 202 /\ Aws(c).status = 202
<1>1. HttpDecodes(c) /\ FnDecodes(c) /\ ~ HttpUnread(c) /\ FnWhole(c)
  BY DEF HttpDecodes, FnDecodes, Malformed, HttpUnread, FnWhole, Broken
<1>2. Http(c).status = 202
  <2> DEFINE o == FALSE  p == (c.path \in {"own", "root"})  m == Own(c.method)
             u == HasRequiredValue(c)  i == HttpId(c)
  <2>1. o \in BOOLEAN /\ p \in BOOLEAN /\ m \in BOOLEAN /\ u \in BOOLEAN
    BY DEF Own, HasRequiredValue
  <2>2. ~ o /\ p /\ m /\ u
    BY DEF Own, HasRequiredValue
  <2>3. Http(c) = DispatchRequest(o, p, m, u, i)
    BY <1>1 DEF Http
  <2> HIDE DEF o, p, m, u, i
  <2>4. DispatchRequest(o, p, m, u, i).status # 202 => o \/ ~ p \/ ~ m \/ ~ u
    BY <2>1, DispatchPasses
  <2> QED BY <2>2, <2>3, <2>4
<1>3. Fn(c).status = 202
  <2> DEFINE o == FALSE  p == (c.path \in {"own", "unset"})  m == (c.method \in {"own", "unset"})
             u == HasRequiredValue(c)  i == FnId(c)
  <2>1. o \in BOOLEAN /\ p \in BOOLEAN /\ m \in BOOLEAN /\ u \in BOOLEAN
    BY DEF HasRequiredValue
  <2>2. ~ o /\ p /\ m /\ u
    BY DEF HasRequiredValue
  <2>3. Fn(c) = DispatchRequest(o, p, m, u, i)
    BY <1>1 DEF Fn, FnWhole
  <2> HIDE DEF o, p, m, u, i
  <2>4. DispatchRequest(o, p, m, u, i).status # 202 => o \/ ~ p \/ ~ m \/ ~ u
    BY <2>1, DispatchPasses
  <2> QED BY <2>2, <2>3, <2>4
<1>4. Aws(c).status = 202
  <2> DEFINE o == (c.over # "nothing")  p == Own(c.path)  m == Own(c.method)
             u == AwsHasValue(c)  i == AwsId(c)
  <2>1. o \in BOOLEAN /\ p \in BOOLEAN /\ m \in BOOLEAN /\ u \in BOOLEAN
    BY DEF Own, AwsHasValue, HasRequiredValue
  <2>2. ~ o /\ p /\ m /\ u
    BY DEF Own, AwsHasValue, HasRequiredValue
  <2>3. Aws(c) = DispatchRequest(o, p, m, u, i)
    BY DEF Aws
  <2> HIDE DEF o, p, m, u, i
  <2>4. DispatchRequest(o, p, m, u, i).status # 202 => o \/ ~ p \/ ~ m \/ ~ u
    BY <2>1, DispatchPasses
  <2> QED BY <2>2, <2>3, <2>4
<1> QED BY <1>2, <1>3, <1>4

\* A route may be moved from one platform to another: the adapters differ
\* only where OneVerdict says so.
THEOREM Verdict == Spec => []OneVerdict
<1>1. Faithful => SameStatus
  <2> SUFFICES ASSUME Faithful, Answered({"http", "fn"}), call.path \notin {"root", "health"}
               PROVE  IF call.body \in Broken \/ (call.format # "plain" /\ call.body = "empty")
                      THEN Status("http") # 202 /\ Status("fn") # 202
                      ELSE Status("http") = Status("fn")
    BY DEF SameStatus
  <2>1. /\ call \in Call /\ Presentable("http", call)
        /\ Status("http") = Http(call).status /\ Status("fn") = Fn(call).status
    BY DEF Faithful, Answered, Adapters, Served, Status
  <2>2. CASE call.body \in Broken \/ (call.format # "plain" /\ call.body = "empty")
    BY <2>1, <2>2, HttpAccepts, FnAccepts DEF Broken
  <2>3. CASE call.body \notin Broken /\ (call.format = "plain" \/ call.body # "empty")
    BY <2>1, <2>3, SameServed
  <2> QED BY <2>2, <2>3
<1>2. Faithful => AcceptedAlike
  <2> SUFFICES ASSUME Faithful,
                      call.format = "plain", call.path = "own", call.method # "unset",
                      call.over = "nothing", ~ call.base64,
                      NEW a \in Adapters, NEW b \in Adapters,
                      Answered({b}), Status(a) = 202
               PROVE  Status(b) = 202
    BY DEF AcceptedAlike
  <2>1. call \in Call /\ answer[b] = Served(b, call)
    BY DEF Faithful, Answered
  <2>2. call.method = "own" /\ call.body = "usable"
    <3>1. CASE a = "http"
      BY <2>1, <3>1, Accepting, HttpAccepts DEF Served
    <3>2. CASE a = "fn"
      BY <2>1, <3>2, Accepting, FnAccepts DEF Served
    <3>3. CASE a = "aws"
      BY <2>1, <3>3, Accepting, AwsAccepts DEF Served
    <3> QED BY <3>1, <3>2, <3>3 DEF Adapters
  <2>3. Served(b, call).status = 202
    BY <2>1, <2>2, AcceptedByAll DEF Served, Adapters
  <2> QED BY <2>1, <2>3 DEF Status
<1> QED BY <1>1, <1>2, Invariant, PTL DEF OneVerdict
=============================================================================
