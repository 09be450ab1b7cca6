------------------------ MODULE JetStreamStatusProofs ------------------------
(***************************************************************************)
(* JetStreamStatus for every set of operations and every deadline.         *)
(*                                                                         *)
(* What makes the avenue durable is decided once, in connect: before it    *)
(* nothing was published, after it both streams are known to be safe.      *)
(* The invariant carries that fact to every later step of the broker and   *)
(* of the worker.                                                          *)
(*                                                                         *)
(* The last two sections say what the refinement gives a caller, and that  *)
(* the polling loop only moves towards its deadline.                       *)
(***************************************************************************)
EXTENDS JetStreamStatus, TLAPS

\* The process publishes only over the topology that connect accepted.
Accepted ==
  /\ transport = "ready" =>
       ValidRequestStream(requestCfg) /\ ValidResponseStream(responseCfg)
  /\ transport # "ready" => \A o \in Operations : call[o] = "idle"

\* Every request anywhere is one that some call published.
Published ==
  /\ \A o \in outbox \cup requests \cup acked \cup produced : call[o] # "idle"
  /\ working \subseteq requests
  /\ \A o \in Operations : responses[o] = "ok" => o \in produced

IInv == TypeOK /\ Accepted /\ Published /\ DurableRequest /\ AnswerIsReadable

\* Nothing is stored or answered before connect accepted the streams.
LEMMA ReadyWhenUsed ==
  ASSUME Accepted, Published, TypeOK,
         NEW o \in outbox \cup requests \cup acked \cup produced
  PROVE  ValidRequestStream(requestCfg) /\ ValidResponseStream(responseCfg)
BY DEF Accepted, Published, TypeOK

-----------------------------------------------------------------------------
(* Type correctness.                                                       *)

LEMMA InitTypes == Init => TypeOK
BY DeadlineAssumption DEF Init, TypeOK

LEMMA NextTypes ==
  ASSUME TypeOK, [Next]_vars
  PROVE  TypeOK'
<1> USE DeadlineAssumption DEF TypeOK, Ended, End, config, client, broker, worker
<1>1. CASE Connect
  BY <1>1 DEF Connect
<1>2. ASSUME NEW o \in Operations, Publish(o) PROVE TypeOK'
  BY <1>2 DEF Publish
<1>3. ASSUME NEW o \in Operations, Acknowledged(o) PROVE TypeOK'
  BY <1>3 DEF Acknowledged
<1>4. ASSUME NEW o \in Operations, PublishError(o) PROVE TypeOK'
  BY <1>4 DEF PublishError
<1>5. ASSUME NEW o \in Operations, PollHit(o) PROVE TypeOK'
  BY <1>5 DEF PollHit, Decode
<1>6. ASSUME NEW o \in Operations, PollMiss(o) PROVE TypeOK'
  BY <1>6 DEF PollMiss
<1>7. ASSUME NEW o \in Operations, PollTimeout(o) PROVE TypeOK'
  BY <1>7 DEF PollTimeout
<1>8. ASSUME NEW o \in Operations, Cancel(o) PROVE TypeOK'
  BY <1>8 DEF Cancel
<1>9. ASSUME NEW o \in Operations, Store(o) PROVE TypeOK'
  BY <1>9 DEF Store
<1>10. ASSUME NEW o \in Operations, Lose(o) PROVE TypeOK'
  BY <1>10 DEF Lose
<1>11. ASSUME NEW o \in Operations, Take(o) PROVE TypeOK'
  BY <1>11 DEF Take
<1>12. ASSUME NEW o \in Operations, NEW answer \in Answers, NEW dies \in BOOLEAN,
            Respond(o, answer, dies)
      PROVE  TypeOK'
  BY <1>12 DEF Respond, Answers
<1>13. ASSUME NEW o \in Operations, WorkerDies(o) PROVE TypeOK'
  BY <1>13 DEF WorkerDies
<1>14. CASE BrokerRestart
  BY <1>14 DEF BrokerRestart
<1>15. CASE UNCHANGED vars
  BY <1>15 DEF vars
<1> QED
  BY <1>1, <1>2, <1>3, <1>4, <1>5, <1>6, <1>7, <1>8, <1>9,
     <1>10, <1>11, <1>12, <1>13, <1>14, <1>15
  DEF Next, Status, Environment

\* Every reachable state is well typed: in particular the time that a poll
\* loop has spent never passes ASYNC_TIMEOUT.
THEOREM TypeCorrect == Spec => []TypeOK
<1> QED BY InitTypes, NextTypes, PTL DEF Spec

-----------------------------------------------------------------------------
(* The parts of the invariant, one action at a time.                       *)

LEMMA AcceptedStep ==
  ASSUME TypeOK, Accepted, [Next]_vars
  PROVE  Accepted'
<1> USE DEF TypeOK, Accepted, ValidRequestStream, ValidResponseStream, End,
      Ended, config, client, broker, worker
<1>1. CASE Connect
  BY <1>1 DEF Connect
<1>2. ASSUME NEW o \in Operations, Publish(o) PROVE Accepted'
  BY <1>2 DEF Publish
<1>3. ASSUME NEW o \in Operations, Acknowledged(o) PROVE Accepted'
  BY <1>3 DEF Acknowledged
<1>4. ASSUME NEW o \in Operations, PublishError(o) PROVE Accepted'
  BY <1>4 DEF PublishError
<1>5. ASSUME NEW o \in Operations, PollHit(o) PROVE Accepted'
  BY <1>5 DEF PollHit, Decode
<1>6. ASSUME NEW o \in Operations, PollMiss(o) PROVE Accepted'
  BY <1>6 DEF PollMiss
<1>7. ASSUME NEW o \in Operations, PollTimeout(o) PROVE Accepted'
  BY <1>7 DEF PollTimeout
<1>8. ASSUME NEW o \in Operations, Cancel(o) PROVE Accepted'
  BY <1>8 DEF Cancel
<1>9. ASSUME NEW o \in Operations, Store(o) PROVE Accepted'
  BY <1>9 DEF Store
<1>10. ASSUME NEW o \in Operations, Lose(o) PROVE Accepted'
  BY <1>10 DEF Lose
<1>11. ASSUME NEW o \in Operations, Take(o) PROVE Accepted'
  BY <1>11 DEF Take
<1>12. ASSUME NEW o \in Operations, NEW answer \in Answers, NEW dies \in BOOLEAN,
            Respond(o, answer, dies)
      PROVE  Accepted'
  BY <1>12 DEF Respond, Answers
<1>13. ASSUME NEW o \in Operations, WorkerDies(o) PROVE Accepted'
  BY <1>13 DEF WorkerDies
<1>14. CASE BrokerRestart
  BY <1>14 DEF BrokerRestart
<1>15. CASE UNCHANGED vars
  BY <1>15 DEF vars
<1> QED
  BY <1>1, <1>2, <1>3, <1>4, <1>5, <1>6, <1>7, <1>8, <1>9,
     <1>10, <1>11, <1>12, <1>13, <1>14, <1>15
  DEF Next, Status, Environment

LEMMA PublishedStep ==
  ASSUME TypeOK, Accepted, Published, [Next]_vars
  PROVE  Published'
<1> USE DEF TypeOK, Published, End, Ended, config, client, broker, worker
<1>1. CASE Connect
  BY <1>1 DEF Connect
<1>2. ASSUME NEW o \in Operations, Publish(o) PROVE Published'
  BY <1>2 DEF Publish
<1>3. ASSUME NEW o \in Operations, Acknowledged(o) PROVE Published'
  BY <1>3 DEF Acknowledged
<1>4. ASSUME NEW o \in Operations, PublishError(o) PROVE Published'
  BY <1>4 DEF PublishError
<1>5. ASSUME NEW o \in Operations, PollHit(o) PROVE Published'
  BY <1>5 DEF PollHit, Decode
<1>6. ASSUME NEW o \in Operations, PollMiss(o) PROVE Published'
  BY <1>6 DEF PollMiss
<1>7. ASSUME NEW o \in Operations, PollTimeout(o) PROVE Published'
  BY <1>7 DEF PollTimeout
<1>8. ASSUME NEW o \in Operations, Cancel(o) PROVE Published'
  BY <1>8 DEF Cancel
<1>9. ASSUME NEW o \in Operations, Store(o) PROVE Published'
  BY <1>9 DEF Store
<1>10. ASSUME NEW o \in Operations, Lose(o) PROVE Published'
  BY <1>10 DEF Lose
<1>11. ASSUME NEW o \in Operations, Take(o) PROVE Published'
  BY <1>11 DEF Take
<1>12. ASSUME NEW o \in Operations, NEW answer \in Answers, NEW dies \in BOOLEAN,
            Respond(o, answer, dies)
      PROVE  Published'
  BY <1>12 DEF Respond, Answers
<1>13. ASSUME NEW o \in Operations, WorkerDies(o) PROVE Published'
  BY <1>13 DEF WorkerDies
<1>14. CASE BrokerRestart
  BY <1>14 DEF BrokerRestart
<1>15. CASE UNCHANGED vars
  BY <1>15 DEF vars
<1> QED
  BY <1>1, <1>2, <1>3, <1>4, <1>5, <1>6, <1>7, <1>8, <1>9,
     <1>10, <1>11, <1>12, <1>13, <1>14, <1>15
  DEF Next, Status, Environment

LEMMA DurableStep ==
  ASSUME TypeOK, Accepted, Published, DurableRequest, [Next]_vars
  PROVE  DurableRequest'
<1> USE ReadyWhenUsed DEF TypeOK, DurableRequest, ValidRequestStream,
      ValidResponseStream, config, client, broker, worker
<1>1. CASE Connect
  BY <1>1 DEF Connect
<1>2. ASSUME NEW o \in Operations, Publish(o) PROVE DurableRequest'
  BY <1>2 DEF Publish
<1>3. ASSUME NEW o \in Operations, Acknowledged(o) PROVE DurableRequest'
  BY <1>3 DEF Acknowledged
<1>4. ASSUME NEW o \in Operations, PublishError(o) PROVE DurableRequest'
  BY <1>4 DEF PublishError
<1>5. ASSUME NEW o \in Operations, PollHit(o) PROVE DurableRequest'
  BY <1>5 DEF PollHit
<1>6. ASSUME NEW o \in Operations, PollMiss(o) PROVE DurableRequest'
  BY <1>6 DEF PollMiss
<1>7. ASSUME NEW o \in Operations, PollTimeout(o) PROVE DurableRequest'
  BY <1>7 DEF PollTimeout
<1>8. ASSUME NEW o \in Operations, Cancel(o) PROVE DurableRequest'
  BY <1>8 DEF Cancel
<1>9. ASSUME NEW o \in Operations, Store(o) PROVE DurableRequest'
  BY <1>9 DEF Store
<1>10. ASSUME NEW o \in Operations, Lose(o) PROVE DurableRequest'
  BY <1>10 DEF Lose
<1>11. ASSUME NEW o \in Operations, Take(o) PROVE DurableRequest'
  BY <1>11 DEF Take
<1>12. ASSUME NEW o \in Operations, NEW answer \in Answers, NEW dies \in BOOLEAN,
            Respond(o, answer, dies)
      PROVE  DurableRequest'
  <2>1. o \in requests
    BY <1>12 DEF Respond, Published
  <2>2. responseCfg.retention = "Limits" /\ responseCfg.direct
    BY <2>1
  <2>3. responses' = [responses EXCEPT ![o] = answer] /\ answer # "none"
    BY <1>12, <2>2 DEF Respond, Answers
  <2>4. \A q \in Operations \ {o} : q \in requests' <=> q \in requests
    BY <1>12 DEF Respond
  <2>5. UNCHANGED <<acked, responseCfg>> /\ produced' \subseteq produced \cup {o}
    BY <1>12 DEF Respond
  <2> QED BY <2>2, <2>3, <2>4, <2>5
<1>13. ASSUME NEW o \in Operations, WorkerDies(o) PROVE DurableRequest'
  BY <1>13 DEF WorkerDies
<1>14. CASE BrokerRestart
  BY <1>14 DEF BrokerRestart
<1>15. CASE UNCHANGED vars
  BY <1>15 DEF vars
<1> QED
  BY <1>1, <1>2, <1>3, <1>4, <1>5, <1>6, <1>7, <1>8, <1>9,
     <1>10, <1>11, <1>12, <1>13, <1>14, <1>15
  DEF Next, Status, Environment

LEMMA ReadableStep ==
  ASSUME TypeOK, Accepted, Published, AnswerIsReadable, [Next]_vars
  PROVE  AnswerIsReadable'
<1> USE ReadyWhenUsed DEF TypeOK, AnswerIsReadable, ValidRequestStream,
      ValidResponseStream, config, client, broker, worker
<1>1. CASE Connect
  BY <1>1 DEF Connect
<1>2. ASSUME NEW o \in Operations, Publish(o) PROVE AnswerIsReadable'
  BY <1>2 DEF Publish
<1>3. ASSUME NEW o \in Operations, Acknowledged(o) PROVE AnswerIsReadable'
  BY <1>3 DEF Acknowledged
<1>4. ASSUME NEW o \in Operations, PublishError(o) PROVE AnswerIsReadable'
  BY <1>4 DEF PublishError
<1>5. ASSUME NEW o \in Operations, PollHit(o) PROVE AnswerIsReadable'
  BY <1>5 DEF PollHit
<1>6. ASSUME NEW o \in Operations, PollMiss(o) PROVE AnswerIsReadable'
  BY <1>6 DEF PollMiss
<1>7. ASSUME NEW o \in Operations, PollTimeout(o) PROVE AnswerIsReadable'
  BY <1>7 DEF PollTimeout
<1>8. ASSUME NEW o \in Operations, Cancel(o) PROVE AnswerIsReadable'
  BY <1>8 DEF Cancel
<1>9. ASSUME NEW o \in Operations, Store(o) PROVE AnswerIsReadable'
  BY <1>9 DEF Store
<1>10. ASSUME NEW o \in Operations, Lose(o) PROVE AnswerIsReadable'
  BY <1>10 DEF Lose
<1>11. ASSUME NEW o \in Operations, Take(o) PROVE AnswerIsReadable'
  BY <1>11 DEF Take
<1>12. ASSUME NEW o \in Operations, NEW answer \in Answers, NEW dies \in BOOLEAN,
            Respond(o, answer, dies)
      PROVE  AnswerIsReadable'
  <2>1. o \in requests
    BY <1>12 DEF Respond, Published
  <2>2. responseCfg.retention = "Limits" /\ responseCfg.direct
    BY <2>1
  <2>3. responses' = [responses EXCEPT ![o] = answer] /\ answer # "none"
    BY <1>12, <2>2 DEF Respond, Answers
  <2>4. \A q \in Operations \ {o} : q \in requests' <=> q \in requests
    BY <1>12 DEF Respond
  <2>5. UNCHANGED <<acked, responseCfg>> /\ produced' \subseteq produced \cup {o}
    BY <1>12 DEF Respond
  <2> QED BY <2>2, <2>3, <2>4, <2>5
<1>13. ASSUME NEW o \in Operations, WorkerDies(o) PROVE AnswerIsReadable'
  BY <1>13 DEF WorkerDies
<1>14. CASE BrokerRestart
  BY <1>14 DEF BrokerRestart
<1>15. CASE UNCHANGED vars
  BY <1>15 DEF vars
<1> QED
  BY <1>1, <1>2, <1>3, <1>4, <1>5, <1>6, <1>7, <1>8, <1>9,
     <1>10, <1>11, <1>12, <1>13, <1>14, <1>15
  DEF Next, Status, Environment

LEMMA InitIInv == Init => IInv
<1> SUFFICES ASSUME Init PROVE IInv
  OBVIOUS
<1>1. TypeOK
  BY InitTypes
<1>2. Accepted /\ Published /\ DurableRequest /\ AnswerIsReadable
  BY DEF Init, Accepted, Published, DurableRequest, AnswerIsReadable
<1> QED BY <1>1, <1>2 DEF IInv

\* The inductive invariant holds in every state of every behaviour.
THEOREM Invariant == Spec => []IInv
<1>1. IInv /\ [Next]_vars => IInv'
  BY NextTypes, AcceptedStep, PublishedStep, DurableStep, ReadableStep DEF IInv
<1> QED BY InitIInv, <1>1, PTL DEF Spec

-----------------------------------------------------------------------------
(* What the avenue promises.                                               *)

\* DurableRequest and AnswerIsReadable of JetStreamStatus: the checks of
\* validate_request_stream and validate_response_stream are sufficient.
THEOREM Durability == Spec => [](DurableRequest /\ AnswerIsReadable)
<1>1. IInv => DurableRequest /\ AnswerIsReadable
  BY DEF IInv
<1> QED BY <1>1, Invariant, PTL

\* AnswerIsReadable of JetStreamStatus by itself: a response that was
\* acknowledged can be read by subject, across any number of restarts.
THEOREM Readability == Spec => []AnswerIsReadable
BY Durability, PTL

LEMMA EndMapsTo ==
  ASSUME TypeOK, NEW o \in Operations, NEW how \in Ended, End(o, how),
         call[o] \in {"publishing", "polling"}, produced' = produced,
         how = "answered" => o \in produced
  PROVE  Rpc!Return(o) \/ Rpc!Fail(o)
<1> DEFINE Called == {q \in Operations : call[q] # "idle"}
<1>1. call \in [Operations -> {"idle", "publishing", "polling"} \cup Ended]
  BY DEF TypeOK
<1>2. call' = [call EXCEPT ![o] = how]
  BY DEF End
<1>3. Called' = Called /\ o \in Called
  BY <1>1, <1>2 DEF Ended
<1>4. Result[o] = "none"
  BY <1>1 DEF Result, Ended
<1>5. Result' = [Result EXCEPT ![o] = IF how = "answered" THEN "payload" ELSE "failed"]
  BY <1>1, <1>2 DEF Result, Ended
<1> QED BY <1>3, <1>4, <1>5 DEF Rpc!Return, Rpc!Fail

LEMMA StepMapsTo ==
  ASSUME IInv, [Next]_vars
  PROVE  [Rpc!Next]_(Rpc!rpcVars)
<1> DEFINE Called == {q \in Operations : call[q] # "idle"}
<1>0. /\ TypeOK /\ Published
      /\ call \in [Operations -> {"idle", "publishing", "polling"} \cup Ended]
  BY DEF IInv, TypeOK
<1>1. ASSUME NEW o \in Operations, Publish(o) PROVE Rpc!Call(o)
  <2>1. o \notin Called /\ Called' = Called \cup {o}
    BY <1>0, <1>1 DEF Publish
  <2>2. Result' = Result /\ produced' = produced
    BY <1>0, <1>1 DEF Publish, Result, worker, Ended
  <2> QED BY <2>1, <2>2 DEF Rpc!Call
<1>2. ASSUME NEW o \in Operations, Acknowledged(o) PROVE UNCHANGED Rpc!rpcVars
  <2>1. Called' = Called
    BY <1>0, <1>2 DEF Acknowledged
  <2>2. Result' = Result /\ produced' = produced
    BY <1>0, <1>2 DEF Acknowledged, Result, worker, Ended
  <2> QED BY <2>1, <2>2 DEF Rpc!rpcVars
<1>3. ASSUME NEW o \in Operations,
             PublishError(o) \/ PollTimeout(o) \/ Cancel(o)
      PROVE  Rpc!Return(o) \/ Rpc!Fail(o)
  BY <1>0, <1>3, EndMapsTo DEF PublishError, PollTimeout, Cancel, worker, Ended
<1>4. ASSUME NEW o \in Operations, PollHit(o) PROVE Rpc!Return(o) \/ Rpc!Fail(o)
  <2>1. Decode(responses[o]) \in Ended
    BY DEF Decode, Ended
  <2>2. Decode(responses[o]) = "answered" => o \in produced
    BY <1>0 DEF Decode, Published
  <2> QED BY <1>0, <1>4, <2>1, <2>2, EndMapsTo DEF PollHit, worker
<1>5. ASSUME NEW o \in Operations, NEW answer \in Answers, NEW dies \in BOOLEAN,
             Respond(o, answer, dies)
      PROVE  Rpc!Serve(o) \/ UNCHANGED Rpc!rpcVars
  <2>1. Called' = Called /\ Result' = Result
    BY <1>5 DEF Respond, client, Result
  <2>2. o \in Called
    BY <1>0, <1>5 DEF Respond, Published
  <2>3. CASE answer = "ok" /\ o \notin produced
    BY <1>5, <2>1, <2>2, <2>3 DEF Respond, Rpc!Serve
  <2>4. CASE answer # "ok" \/ o \in produced
    <3>1. produced' = produced
      BY <1>5, <2>4 DEF Respond
    <3> QED BY <2>1, <3>1 DEF Rpc!rpcVars
  <2> QED BY <2>3, <2>4
<1>6. ASSUME call' = call, produced' = produced PROVE UNCHANGED Rpc!rpcVars
  BY <1>6 DEF Rpc!rpcVars, Result
<1> QED
  BY <1>1, <1>2, <1>3, <1>4, <1>5, <1>6
  DEF Next, Status, Environment, Connect, PollMiss, Store, Lose, Take, WorkerDies,
      BrokerRestart, vars, client, broker, worker, Rpc!Next

\* ImplementsRpc of JetStreamStatus: redelivery, late answers and dropped
\* handlers are invisible to the caller of status.
THEOREM Refinement == Spec => ImplementsRpc
<1>1. Init => Rpc!Init
  BY DEF Init, Rpc!Init, Result, Ended
<1>2. IInv /\ [Next]_vars => [Rpc!Next]_(Rpc!rpcVars)
  BY StepMapsTo
<1> QED BY <1>1, <1>2, Invariant, PTL DEF Spec, ImplementsRpc, Rpc!Spec

\* What the caller of status may rely on: a payload is one that the API
\* produced for this operation, and nobody is told twice.
THEOREM Guarantee == Spec => []Rpc!Honest /\ [][Rpc!Told]_(Rpc!rpcVars)
<1> DEFINE Typed == Rpc!Honest /\ Result \in [Operations -> {"none", "payload", "failed"}]
<1>1. Rpc!Init => Typed
  BY DEF Rpc!Init, Rpc!Honest
<1>2. Typed /\ [Rpc!Next]_(Rpc!rpcVars) => Typed' /\ [Rpc!Told]_(Rpc!rpcVars)
  <2> SUFFICES ASSUME Typed, [Rpc!Next]_(Rpc!rpcVars)
               PROVE  Typed' /\ (Rpc!Told \/ UNCHANGED Rpc!rpcVars)
    OBVIOUS
  <2>1. ASSUME NEW o \in Operations, Rpc!Call(o) PROVE Typed' /\ Rpc!Told
    BY <2>1 DEF Rpc!Call, Rpc!Honest, Rpc!Told
  <2>2. ASSUME NEW o \in Operations, Rpc!Serve(o) PROVE Typed' /\ Rpc!Told
    BY <2>2 DEF Rpc!Serve, Rpc!Honest, Rpc!Told
  <2>3. ASSUME NEW o \in Operations, Rpc!Return(o) \/ Rpc!Fail(o)
        PROVE  Typed' /\ Rpc!Told
    BY <2>3 DEF Rpc!Return, Rpc!Fail, Rpc!Honest, Rpc!Told
  <2>4. CASE UNCHANGED Rpc!rpcVars
    BY <2>4 DEF Rpc!rpcVars, Rpc!Honest
  <2> QED BY <2>1, <2>2, <2>3, <2>4 DEF Rpc!Next
<1>3. Typed => Rpc!Honest
  OBVIOUS
<1> HIDE DEF Typed
<1> QED BY <1>1, <1>2, <1>3, Refinement, PTL DEF ImplementsRpc, Rpc!Spec

-----------------------------------------------------------------------------
(* What EveryStatusEnds rests on: a call has only so many steps.           *)

\* How far a call is from its end.
Rank(where) == CASE where = "idle"       -> 3
                 [] where = "publishing" -> 2
                 [] where = "polling"    -> 1
                 [] where \in Ended      -> 0

\* The call of o is nearer to its end, or has used up some of its time.
Nearer(o) ==
  \/ Rank(call'[o]) < Rank(call[o])
  \/ call'[o] = call[o] /\ age'[o] > age[o]

\* Nothing that the broker, the worker or another caller does takes a call
\* back or gives its time back, and each step of status brings it nearer.
OnlyForward ==
  \A o \in Operations :
    /\ Nearer(o) \/ (call'[o] = call[o] /\ age'[o] = age[o])
    /\ Status(o) => Nearer(o)

\* status takes Deadline + 2 steps at most: there is no answer it would wait
\* for, and no error after which it would start again.
THEOREM Descent == Spec => [][OnlyForward]_vars
<1>1. TypeOK /\ [Next]_vars => [OnlyForward]_vars
  <2> SUFFICES ASSUME TypeOK, Next PROVE OnlyForward
    BY DEF vars
  <2>0. /\ call \in [Operations -> {"idle", "publishing", "polling"} \cup Ended]
        /\ age \in [Operations -> 0 .. Deadline]
    BY DEF TypeOK
  <2>1. /\ Rank("polling") = 1 /\ Rank("publishing") = 2 /\ Rank("idle") = 3
        /\ \A how \in Ended : Rank(how) = 0
    BY DEF Rank, Ended
  <2>2. ASSUME NEW o \in Operations, NEW how \in Ended,
               call[o] \in {"publishing", "polling"}, End(o, how)
        PROVE  Nearer(o) /\ \A q \in Operations \ {o} :
                              call'[q] = call[q] /\ age'[q] = age[q]
    <3>1. call'[o] = how
      BY <2>0, <2>2 DEF End
    <3>2. Rank(call'[o]) < Rank(call[o])
      BY <2>1, <2>2, <3>1
    <3>3. \A q \in Operations \ {o} : call'[q] = call[q] /\ age'[q] = age[q]
      BY <2>0, <2>2 DEF End
    <3> QED BY <3>2, <3>3 DEF Nearer
  <2>3. ASSUME NEW o \in Operations, Status(o) \/ Cancel(o) \/ Publish(o)
        PROVE  Nearer(o) /\ \A q \in Operations \ {o} :
                              call'[q] = call[q] /\ age'[q] = age[q]
    <3>1. CASE PublishError(o) \/ PollTimeout(o) \/ Cancel(o)
      BY <2>2, <3>1 DEF PublishError, PollTimeout, Cancel, Ended
    <3>2. CASE PollHit(o)
      <4>1. Decode(responses[o]) \in Ended
        BY DEF Decode, Ended
      <4> QED BY <2>2, <3>2, <4>1 DEF PollHit
    <3>3. CASE Publish(o)
      <4>1. /\ call[o] = "idle" /\ call'[o] = "publishing" /\ age' = age
            /\ \A q \in Operations \ {o} : call'[q] = call[q]
        BY <2>0, <3>3 DEF Publish
      <4>2. Rank(call'[o]) < Rank(call[o])
        BY <2>1, <4>1
      <4> QED BY <4>1, <4>2 DEF Nearer
    <3>4. CASE Acknowledged(o)
      <4>1. /\ call[o] = "publishing" /\ call'[o] = "polling" /\ age' = age
            /\ \A q \in Operations \ {o} : call'[q] = call[q]
        BY <2>0, <3>4 DEF Acknowledged
      <4>2. Rank(call'[o]) < Rank(call[o])
        BY <2>1, <4>1
      <4> QED BY <4>1, <4>2 DEF Nearer
    <3>5. CASE PollMiss(o)
      <4>1. PICK now \in age[o] + 1 .. Deadline : age' = [age EXCEPT ![o] = now]
        BY <3>5 DEF PollMiss
      <4>2. /\ call' = call /\ age'[o] = now
            /\ \A q \in Operations \ {o} : age'[q] = age[q]
        BY <2>0, <3>5, <4>1 DEF PollMiss
      <4>3. now > age[o]
        BY <2>0, <4>1, DeadlineAssumption
      <4> QED BY <4>2, <4>3 DEF Nearer
    <3> QED BY <2>3, <3>1, <3>2, <3>3, <3>4, <3>5 DEF Status
  <2>4. \A o \in Operations : Status(o) => Nearer(o)
    BY <2>3
  <2>5. ASSUME UNCHANGED <<call, age>> PROVE OnlyForward
    BY <2>4, <2>5 DEF OnlyForward
  <2>6. ASSUME NEW o \in Operations, Status(o) \/ Cancel(o) \/ Publish(o)
        PROVE  OnlyForward
    BY <2>3, <2>4, <2>6 DEF OnlyForward
  <2> QED
    BY <2>5, <2>6
    DEF Next, Connect, Environment, Store, Lose, Take, WorkerDies, Respond,
        BrokerRestart, client
<1> QED BY <1>1, TypeCorrect, PTL DEF Spec
=============================================================================
