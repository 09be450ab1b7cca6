-------------------------- MODULE TcpChannelProofs --------------------------
(***************************************************************************)
(* What TcpChannel guarantees for every set of requests, every Boundary    *)
(* and every kind of API.                                                  *)
(*                                                                         *)
(* The argument rests on one number.  Base counts the frames of the round  *)
(* trips that are over, read the replies that were consumed.  Every round  *)
(* trip that is over moves Base by one; only those that consumed a reply   *)
(* move read too.  So read lags behind Base exactly when some round trip   *)
(* was given up, and nothing ever makes it catch up.                       *)
(*                                                                         *)
(* The last two sections say what the refinement gives a caller, and that  *)
(* a round trip only moves towards its end, also while it flushes what     *)
(* others left in the write buffer.                                        *)
(***************************************************************************)
EXTENDS TcpChannel, SequenceTheorems, TLAPS

Base == IF TripOpen THEN Len(sent) - 1 ELSE Len(sent)

\* The mutex queue holds each waiting handler once.
Queue ==
  /\ \A k \in 1 .. Len(waiters) : stage[waiters[k]] = "waiting"
  /\ \A j, k \in 1 .. Len(waiters) : waiters[j] = waiters[k] => j = k

\* A handler past the mutex is the holder, and has no outcome yet.
Exclusion ==
  /\ holder # NoRequest => stage[holder] \in {"ready", "flushing", "receiving"}
  /\ \A r \in Requests :
        stage[r] \in {"ready", "flushing", "receiving"} => holder = r
  /\ \A r \in Requests : outcome[r] = "none" <=> stage[r] # "done"

\* Each request is encoded once; the frame of an open round trip is the last.
Frames ==
  /\ \A i, j \in DOMAIN sent : sent[i] = sent[j] => i = j
  /\ \A i \in DOMAIN sent : stage[sent[i]] \in {"flushing", "receiving", "done"}
  /\ TripOpen => sent # <<>> /\ sent[Len(sent)] = holder

\* An API that answers in order answers the k-th frame with the k-th reply.
InOrder ==
  Ordered => /\ Len(replies) <= flushed
             /\ \A k \in DOMAIN replies : replies[k].id = sent[k]

\* The reply cursor lags exactly when a round trip was given up.
Lag ==
  /\ read <= Base
  /\ read < Base <=> \E i \in DOMAIN sent : Abandoned(sent[i])

IInv == TypeOK /\ Queue /\ Exclusion /\ Frames /\ InOrder /\ Lag

-----------------------------------------------------------------------------
(* Lemmas.                                                                 *)

\* RemoveAt of SequencesExt drops one position and keeps the order.
LEMMA RemoveAtProperties ==
  ASSUME NEW S, NEW s \in Seq(S), NEW k \in 1 .. Len(s)
  PROVE  /\ RemoveAt(s, k) \in Seq(S)
         /\ Len(RemoveAt(s, k)) = Len(s) - 1
         /\ \A i \in 1 .. Len(s) - 1 :
               RemoveAt(s, k)[i] = IF i < k THEN s[i] ELSE s[i + 1]
<1> DEFINE front == SubSeq(s, 1, k - 1)
           back  == SubSeq(s, k + 1, Len(s))
<1>0. Len(s) \in Nat /\ \A i \in 1 .. Len(s) : s[i] \in S
  BY LenProperties, ElementOfSeq
<1>1. /\ front \in Seq(S) /\ Len(front) = k - 1
      /\ \A i \in 1 .. k - 1 : front[i] = s[i]
  BY <1>0, SubSeqProperties
<1>2. /\ back \in Seq(S) /\ Len(back) = Len(s) - k
      /\ \A i \in 1 .. Len(s) - k : back[i] = s[k + i]
  <2>1. \A i \in (k + 1) .. Len(s) : s[i] \in S
    BY <1>0
  <2>2. /\ back \in Seq(S)
        /\ Len(back) = IF k + 1 <= Len(s) THEN Len(s) - (k + 1) + 1 ELSE 0
        /\ \A i \in 1 .. Len(s) - (k + 1) + 1 : back[i] = s[(k + 1) + i - 1]
    BY <1>0, <2>1, SubSeqProperties
  <2> QED BY <1>0, <2>2
<1> HIDE DEF front, back
<1>3. /\ front \o back \in Seq(S)
      /\ Len(front \o back) = Len(front) + Len(back)
      /\ \A i \in 1 .. Len(front) + Len(back) :
            (front \o back)[i] = IF i <= Len(front) THEN front[i]
                                 ELSE back[i - Len(front)]
  BY <1>1, <1>2, ConcatProperties
<1>4. RemoveAt(s, k) = front \o back
  BY DEF RemoveAt, front, back
<1>5. Len(front \o back) = Len(s) - 1
  BY <1>0, <1>1, <1>2, <1>3
<1>6. ASSUME NEW i \in 1 .. Len(s) - 1
      PROVE  (front \o back)[i] = IF i < k THEN s[i] ELSE s[i + 1]
  <2>1. CASE i < k
    BY <2>1, <1>0, <1>1, <1>2, <1>3
  <2>2. CASE ~(i < k)
    <3>1. (front \o back)[i] = back[i - (k - 1)] /\ i - (k - 1) \in 1 .. Len(s) - k
      BY <2>2, <1>0, <1>1, <1>2, <1>3
    <3> QED BY <3>1, <2>2, <1>0, <1>2
  <2> QED BY <2>1, <2>2, <1>0
<1> QED BY <1>3, <1>4, <1>5, <1>6

\* Ending a call keeps the types of the three variables it writes.
LEMMA FinishTypes ==
  ASSUME TypeOK, NEW r \in Requests, NEW how \in Outcomes, Finish(r, how)
  PROVE  /\ stage' \in [Requests -> Stages]
         /\ outcome' \in [Requests -> Outcomes]
         /\ holder' \in Requests \cup {NoRequest}
         /\ waiters' \in Seq(Requests)
BY DEF TypeOK, Finish, Stages

-----------------------------------------------------------------------------
(* Type correctness.                                                       *)

LEMMA InitTypes == Init => TypeOK
BY BoundaryAssumption DEF Init, TypeOK, Stages, Outcomes, Reply

LEMMA NextTypes ==
  ASSUME TypeOK, [Next]_vars
  PROVE  TypeOK'
<1> USE DEF TypeOK
<1>1. ASSUME NEW r \in Requests, Call(r) PROVE TypeOK'
  BY <1>1 DEF Call, pipe, Stages
<1>2. ASSUME NEW r \in Requests, Lock(r) PROVE TypeOK'
  BY <1>2, HeadTailProperties DEF Lock, pipe, Stages
<1>3. ASSUME NEW r \in Requests, RejectFrame(r) PROVE TypeOK'
  BY <1>3, FinishTypes DEF RejectFrame, pipe, Outcomes
<1>4. ASSUME NEW r \in Requests, Encode(r) PROVE TypeOK'
  BY <1>4, AppendProperties DEF Encode, Stages
<1>5. ASSUME NEW r \in Requests, Flush(r) PROVE TypeOK'
  BY <1>5 DEF Flush, MustFlush, Backlog, At, Stages
<1>6. ASSUME NEW r \in Requests, SendTimeout(r) \/ SendError(r) PROVE TypeOK'
  BY <1>6, FinishTypes DEF SendTimeout, SendError, pipe, Outcomes
<1>7. ASSUME NEW r \in Requests, Receive(r) PROVE TypeOK'
  <2>1. Verdict(replies[read + 1], r) \in Outcomes
    BY DEF Verdict, Outcomes
  <2> QED BY <1>7, <2>1, FinishTypes DEF Receive
<1>8. ASSUME NEW r \in Requests, ReceiveOversize(r) PROVE TypeOK'
  BY <1>8, FinishTypes DEF ReceiveOversize, Outcomes
<1>9. ASSUME NEW r \in Requests, ReceiveClosed(r) \/ ReceiveTimeout(r)
      PROVE  TypeOK'
  BY <1>9, FinishTypes DEF ReceiveClosed, ReceiveTimeout, pipe, Outcomes
<1>10. ASSUME NEW r \in Requests, LeaveQueue(r) PROVE TypeOK'
  BY <1>10, RemoveAtProperties DEF LeaveQueue, pipe, Stages, Outcomes
<1>11. ASSUME NEW r \in Requests, Cancel(r) PROVE TypeOK'
  BY <1>11, FinishTypes DEF Cancel, pipe, Outcomes
<1>12. ASSUME NEW r \in Requests, NEW kind \in {"payload", "refused", "oversize"},
              ApiAnswer(r, kind)
       PROVE  TypeOK'
  BY <1>12, AppendProperties DEF ApiAnswer, Reply
<1>13. CASE Deliver
  BY <1>13 DEF Deliver
<1>14. CASE ApiClose
  BY <1>14 DEF ApiClose
<1>15. CASE UNCHANGED vars
  BY <1>15 DEF vars, pipe
<1> QED
  BY <1>1, <1>2, <1>3, <1>4, <1>5, <1>6, <1>7, <1>8, <1>9, <1>10, <1>11, <1>12,
     <1>13, <1>14, <1>15
  DEF Next, HandlerStep, Environment

\* Every reachable state is well typed: in particular flushed, arrived and
\* read stay within the logs they index (the cursors of Channel::framed).
THEOREM TypeCorrect == Spec => []TypeOK
<1> QED BY InitTypes, NextTypes, PTL DEF Spec

-----------------------------------------------------------------------------
(* The inductive invariant.                                                *)

\* Every way to end a call without consuming a reply.
GivesUp(r) ==
  /\ holder = r
  /\ \E how \in {"timeout", "cancelled", "failed", "unsent"} :
        Finish(r, how) /\ (how = "unsent" => stage[r] = "ready")
  /\ UNCHANGED <<sent, flushed, replies, read>>

\* What the invariant can tell apart in a step of the channel.
LEMMA StepKinds ==
  ASSUME [Next]_vars
  PROVE  \/ \E r \in Requests : \/ Call(r) \/ Lock(r) \/ LeaveQueue(r)
                                \/ Encode(r) \/ Flush(r) \/ Receive(r)
                                \/ GivesUp(r)
         \/ \E r \in Requests, kind \in {"payload", "refused", "oversize"} :
               ApiAnswer(r, kind)
         \/ UNCHANGED <<stage, waiters, holder, sent, flushed, replies, read,
                        outcome>>
<1>1. ASSUME NEW r \in Requests, RejectFrame(r) PROVE GivesUp(r)
  BY <1>1 DEF RejectFrame, GivesUp, At, pipe
<1>2. ASSUME NEW r \in Requests, SendTimeout(r) \/ ReceiveTimeout(r)
      PROVE  GivesUp(r)
  BY <1>2 DEF SendTimeout, ReceiveTimeout, MustFlush, GivesUp, At, pipe
<1>3. ASSUME NEW r \in Requests,
             SendError(r) \/ ReceiveOversize(r) \/ ReceiveClosed(r)
      PROVE  GivesUp(r)
  BY <1>3 DEF SendError, ReceiveOversize, ReceiveClosed, MustFlush, GivesUp, At,
              pipe
<1>4. ASSUME NEW r \in Requests, Cancel(r) PROVE GivesUp(r)
  BY <1>4 DEF Cancel, GivesUp, pipe
<1>5. CASE Deliver \/ ApiClose \/ UNCHANGED vars
  BY <1>5 DEF Deliver, ApiClose, vars, pipe
<1> QED BY <1>1, <1>2, <1>3, <1>4, <1>5 DEF Next, HandlerStep, Environment

LEMMA InitIInv == Init => IInv
<1> SUFFICES ASSUME Init PROVE IInv
  OBVIOUS
<1>1. TypeOK
  BY InitTypes
<1>2. Queue /\ Exclusion /\ Frames /\ InOrder /\ Lag
  BY NoRequestAssumption
  DEF Init, Queue, Exclusion, Frames, InOrder, Lag, Base, TripOpen
<1> QED BY <1>1, <1>2 DEF IInv

LEMMA QueueStep ==
  ASSUME TypeOK, Queue, Exclusion, [Next]_vars
  PROVE  Queue'
<1> USE DEF Queue
<1>0. /\ waiters \in Seq(Requests) /\ Len(waiters) \in Nat
      /\ \A k \in 1 .. Len(waiters) : waiters[k] \in Requests
      /\ stage \in [Requests -> Stages]
  BY DEF TypeOK
<1>1. ASSUME NEW r \in Requests, Call(r) PROVE Queue'
  <2>1. \A k \in 1 .. Len(waiters) : waiters[k] # r
    BY <1>1 DEF Call
  <2>2. /\ Len(waiters') = Len(waiters) + 1 /\ waiters'[Len(waiters) + 1] = r
        /\ \A k \in 1 .. Len(waiters) : waiters'[k] = waiters[k]
    BY <1>0, <1>1, AppendProperties DEF Call
  <2>3. stage' = [stage EXCEPT ![r] = "waiting"]
    BY <1>1 DEF Call
  <2>4. \A k \in 1 .. Len(waiters') : stage'[waiters'[k]] = "waiting"
    BY <1>0, <2>2, <2>3
  <2>5. \A k \in 1 .. Len(waiters') :
          waiters'[k] = IF k = Len(waiters) + 1 THEN r ELSE waiters[k]
    BY <1>0, <2>2
  <2>6. ASSUME NEW j \in 1 .. Len(waiters'), NEW k \in 1 .. Len(waiters'),
               waiters'[j] = waiters'[k]
        PROVE  j = k
    BY <1>0, <2>1, <2>2, <2>5, <2>6
  <2> QED BY <2>4, <2>6
<1>2. ASSUME NEW r \in Requests, Lock(r) PROVE Queue'
  <2>1. /\ waiters[1] = r /\ Len(waiters) >= 1
        /\ Len(waiters') = Len(waiters) - 1
        /\ \A k \in 1 .. Len(waiters) - 1 : waiters'[k] = waiters[k + 1]
    BY <1>0, <1>2, HeadTailProperties DEF Lock
  <2>2. ASSUME NEW k \in 1 .. Len(waiters')
        PROVE  waiters'[k] # r /\ waiters'[k] \in Requests
    <3>1. waiters'[k] = waiters[k + 1] /\ k + 1 \in 1 .. Len(waiters) /\ k + 1 # 1
      BY <1>0, <2>1
    <3> QED BY <1>0, <2>1, <3>1
  <2>3. stage' = [stage EXCEPT ![r] = "ready"]
    BY <1>2 DEF Lock
  <2>4. ASSUME NEW j \in 1 .. Len(waiters'), NEW k \in 1 .. Len(waiters'),
               waiters'[j] = waiters'[k]
        PROVE  j = k
    <3>1. waiters[j + 1] = waiters[k + 1]
      BY <1>0, <2>1, <2>4
    <3> QED BY <1>0, <2>1, <3>1
  <2>5. \A k \in 1 .. Len(waiters') : stage[waiters'[k]] = "waiting"
    BY <1>0, <2>1
  <2> QED BY <1>0, <2>2, <2>3, <2>4, <2>5
<1>3. ASSUME NEW r \in Requests, LeaveQueue(r) PROVE Queue'
  <2>1. PICK k \in 1 .. Len(waiters) :
          waiters[k] = r /\ waiters' = RemoveAt(waiters, k)
    BY <1>0, <1>3 DEF LeaveQueue
  <2>2. /\ Len(waiters') = Len(waiters) - 1
        /\ \A i \in 1 .. Len(waiters) - 1 :
              waiters'[i] = IF i < k THEN waiters[i] ELSE waiters[i + 1]
    BY <1>0, <2>1, RemoveAtProperties
  <2>3. \A i, j \in 1 .. Len(waiters') : waiters'[i] = waiters'[j] => i = j
    BY <1>0, <2>2
  <2>4. \A i \in 1 .. Len(waiters') :
          waiters'[i] # r /\ waiters'[i] \in Requests
          /\ stage[waiters'[i]] = "waiting"
    BY <1>0, <2>1, <2>2
  <2>5. stage' = [stage EXCEPT ![r] = "done"]
    BY <1>3 DEF LeaveQueue
  <2> QED BY <1>0, <2>3, <2>4, <2>5
<1>4. ASSUME NEW r \in Requests,
             Encode(r) \/ Flush(r) \/ Receive(r) \/ GivesUp(r)
      PROVE  Queue'
  <2>1. stage[r] # "waiting" /\ waiters' = waiters
    BY <1>4, NoRequestAssumption
    DEF Encode, Flush, MustFlush, Receive, GivesUp, Finish, At, Exclusion
  <2>2. \A q \in Requests \ {r} : stage'[q] = stage[q]
    BY <1>4, <1>0 DEF Encode, Flush, Receive, GivesUp, Finish
  <2> QED BY <1>0, <2>1, <2>2
<1>5. ASSUME UNCHANGED <<stage, waiters>> PROVE Queue'
  BY <1>5
<1> QED BY <1>1, <1>2, <1>3, <1>4, <1>5, StepKinds DEF ApiAnswer

LEMMA ExclusionStep ==
  ASSUME TypeOK, Queue, Exclusion, [Next]_vars
  PROVE  Exclusion'
<1> USE DEF Exclusion, TypeOK
<1>1. ASSUME NEW r \in Requests, Call(r) PROVE Exclusion'
  BY <1>1, NoRequestAssumption DEF Call
<1>2. ASSUME NEW r \in Requests, Lock(r) PROVE Exclusion'
  <2>1. stage[r] = "waiting"
    BY <1>2 DEF Lock, Queue
  <2> QED BY <1>2, <2>1, NoRequestAssumption DEF Lock
<1>3. ASSUME NEW r \in Requests, LeaveQueue(r) PROVE Exclusion'
  <2>1. stage[r] = "waiting"
    BY <1>3 DEF LeaveQueue, Queue
  <2> QED BY <1>3, <2>1 DEF LeaveQueue
<1>4. ASSUME NEW r \in Requests, Encode(r) PROVE Exclusion'
  BY <1>4, NoRequestAssumption DEF Encode, At
<1>5. ASSUME NEW r \in Requests, Flush(r) PROVE Exclusion'
  BY <1>5, NoRequestAssumption DEF Flush, MustFlush, At
<1>6. ASSUME NEW r \in Requests, NEW how \in Outcomes \ {"none"},
             holder = r, Finish(r, how)
      PROVE  Exclusion'
  BY <1>6, NoRequestAssumption DEF Finish
<1>7. ASSUME NEW r \in Requests, Receive(r) PROVE Exclusion'
  <2>1. Verdict(replies[read + 1], r) \in Outcomes \ {"none"}
    BY DEF Verdict, Outcomes
  <2> QED BY <1>6, <1>7, <2>1 DEF Receive, At
<1>8. ASSUME NEW r \in Requests, GivesUp(r) PROVE Exclusion'
  BY <1>6, <1>8 DEF GivesUp, Outcomes
<1>9. ASSUME UNCHANGED <<stage, holder, outcome>> PROVE Exclusion'
  BY <1>9
<1> QED
  BY <1>1, <1>2, <1>3, <1>4, <1>5, <1>7, <1>8, <1>9, StepKinds DEF ApiAnswer

LEMMA FramesStep ==
  ASSUME TypeOK, Queue, Exclusion, Frames, [Next]_vars
  PROVE  Frames'
<1> USE DEF Frames
<1>0. /\ sent \in Seq(Requests) /\ Len(sent) \in Nat
      /\ \A i \in DOMAIN sent : sent[i] \in Requests
      /\ DOMAIN sent = 1 .. Len(sent)
      /\ stage \in [Requests -> Stages]
  BY DEF TypeOK
\* Any step that encodes nothing and moves a handler that is not in `sent`,
\* or moves one that stays flushing, receiving or done.
<1>1. ASSUME NEW r \in Requests, NEW s \in Stages, UNCHANGED sent,
             stage' = [stage EXCEPT ![r] = s],
             s \in {"flushing", "receiving", "done"} \/ ~ \E i \in DOMAIN sent : sent[i] = r,
             TripOpen' => sent # <<>> /\ sent[Len(sent)] = holder'
      PROVE  Frames'
  BY <1>0, <1>1
<1>2. ASSUME NEW r \in Requests, Call(r) PROVE Frames'
  <2>1. TripOpen' => TripOpen
    BY <1>2, <1>0, NoRequestAssumption DEF Call, TripOpen, Exclusion
  <2> QED BY <1>0, <1>1, <1>2, <2>1 DEF Call, pipe, Stages
<1>3. ASSUME NEW r \in Requests, Lock(r) PROVE Frames'
  <2>1. stage[r] = "waiting"
    BY <1>3, <1>0 DEF Lock, Queue
  <2>2. ~ TripOpen'
    BY <1>3, <1>0 DEF Lock, TripOpen
  <2> QED BY <1>0, <1>1, <1>3, <2>1, <2>2 DEF Lock, pipe, Stages
<1>4. ASSUME NEW r \in Requests, LeaveQueue(r) PROVE Frames'
  <2>1. stage[r] = "waiting"
    BY <1>4 DEF LeaveQueue, Queue, TypeOK
  <2>2. TripOpen' => TripOpen
    BY <1>4, <1>0, <2>1 DEF LeaveQueue, TripOpen, Exclusion, TypeOK
  <2> QED BY <1>0, <1>1, <1>4, <2>2 DEF LeaveQueue, pipe, Stages
<1>5. ASSUME NEW r \in Requests, Encode(r) PROVE Frames'
  <2>1. \A i \in DOMAIN sent : sent[i] # r
    BY <1>0, <1>5 DEF Encode, At
  <2>2. /\ Len(sent') = Len(sent) + 1 /\ sent'[Len(sent) + 1] = r
        /\ DOMAIN sent' = 1 .. Len(sent) + 1
        /\ \A i \in DOMAIN sent : sent'[i] = sent[i]
    BY <1>0, <1>5, AppendProperties DEF Encode
  <2>3. ASSUME NEW i \in DOMAIN sent', NEW j \in DOMAIN sent', sent'[i] = sent'[j]
        PROVE  i = j
    BY <1>0, <2>1, <2>2, <2>3
  <2>4. stage' = [stage EXCEPT ![r] = "flushing"] /\ holder' = r
    BY <1>5 DEF Encode, At
  <2>5. \A i \in DOMAIN sent' : stage'[sent'[i]] \in {"flushing", "receiving", "done"}
    BY <1>0, <2>2, <2>4
  <2> QED BY <1>0, <2>2, <2>3, <2>4, <2>5
<1>6. ASSUME NEW r \in Requests, Flush(r) PROVE Frames'
  <2>1. CASE stage[r] = "ready"
    BY <1>0, <1>6, <2>1 DEF Flush, MustFlush, At, TripOpen
  <2>2. CASE stage[r] = "flushing"
    <3>1. PICK s \in {"flushing", "receiving"} : stage' = [stage EXCEPT ![r] = s]
      BY <1>6, <2>2 DEF Flush
    <3>2. TripOpen
      BY <1>6, <2>2, NoRequestAssumption DEF Flush, MustFlush, At, TripOpen
    <3> QED BY <1>0, <1>1, <1>6, <3>1, <3>2 DEF Flush, Stages
  <2> QED BY <1>6, <2>1, <2>2 DEF Flush, MustFlush, At
<1>7. ASSUME NEW r \in Requests, Receive(r) \/ GivesUp(r) PROVE Frames'
  BY <1>0, <1>1, <1>7 DEF Receive, GivesUp, Finish, TripOpen, Stages
<1>8. ASSUME UNCHANGED <<stage, holder, sent>> PROVE Frames'
  BY <1>8 DEF TripOpen
<1> QED
  BY <1>2, <1>3, <1>4, <1>5, <1>6, <1>7, <1>8, StepKinds DEF ApiAnswer

LEMMA InOrderStep ==
  ASSUME TypeOK, Exclusion, Frames, InOrder, [Next]_vars
  PROVE  InOrder'
<1> SUFFICES ASSUME Ordered PROVE InOrder'
  BY DEF InOrder
<1>0. /\ sent \in Seq(Requests) /\ Len(sent) \in Nat /\ DOMAIN sent = 1 .. Len(sent)
      /\ replies \in Seq(Reply) /\ Len(replies) \in Nat
      /\ DOMAIN replies = 1 .. Len(replies)
      /\ flushed \in 0 .. Len(sent)
      /\ Len(replies) <= flushed
      /\ \A k \in DOMAIN replies : replies[k].id = sent[k]
  BY DEF TypeOK, InOrder
<1>1. ASSUME NEW r \in Requests, Encode(r) PROVE InOrder'
  <2>1. \A i \in DOMAIN sent : sent'[i] = sent[i]
    BY <1>0, <1>1, AppendProperties DEF Encode
  <2> QED BY <1>0, <1>1, <2>1 DEF Encode, InOrder
<1>2. ASSUME NEW r \in Requests, Flush(r) PROVE InOrder'
  <2>1. sent' = sent /\ replies' = replies /\ flushed' = flushed + 1
    BY <1>2 DEF Flush
  <2>2. Len(replies) <= flushed + 1
    BY <1>0
  <2> QED BY <1>0, <2>1, <2>2 DEF InOrder
<1>3. ASSUME NEW r \in Requests, NEW kind \in {"payload", "refused", "oversize"},
             ApiAnswer(r, kind)
      PROVE  InOrder'
  <2>1. sent[Len(replies) + 1] = r /\ Len(replies) + 1 <= flushed
    BY <1>0, <1>3 DEF ApiAnswer
  <2>2. /\ Len(replies') = Len(replies) + 1 /\ replies'[Len(replies) + 1].id = r
        /\ \A k \in DOMAIN replies : replies'[k] = replies[k]
        /\ DOMAIN replies' = 1 .. Len(replies) + 1
    BY <1>0, <1>3, AppendProperties DEF ApiAnswer, Reply
  <2> QED BY <1>0, <1>3, <2>1, <2>2 DEF ApiAnswer, InOrder
<1>4. ASSUME UNCHANGED <<sent, flushed, replies>> PROVE InOrder'
  BY <1>4 DEF InOrder
<1> QED
  BY <1>1, <1>2, <1>3, <1>4, StepKinds
  DEF Call, Lock, LeaveQueue, Receive, GivesUp, pipe

LEMMA LagStep ==
  ASSUME TypeOK, Queue, Exclusion, Frames, Lag, [Next]_vars
  PROVE  Lag'
<1> DEFINE GivenUp == \E i \in DOMAIN sent : Abandoned(sent[i])
<1>0. /\ sent \in Seq(Requests) /\ Len(sent) \in Nat /\ DOMAIN sent = 1 .. Len(sent)
      /\ \A i \in DOMAIN sent : sent[i] \in Requests
      /\ read \in Nat /\ outcome \in [Requests -> Outcomes]
      /\ stage \in [Requests -> Stages]
      /\ Base \in Int /\ read <= Base
      /\ read < Base <=> GivenUp
  BY DEF TypeOK, Lag, Base
\* Steps that leave the frames, the outcomes of their callers and the open
\* trip alone.
<1>1. ASSUME UNCHANGED <<sent, read>>, TripOpen' <=> TripOpen,
             \A i \in DOMAIN sent : outcome'[sent[i]] = outcome[sent[i]]
      PROVE  Lag'
  BY <1>0, <1>1 DEF Lag, Base, Abandoned
<1>2. ASSUME NEW r \in Requests, Call(r) PROVE Lag'
  <2>1. TripOpen' <=> TripOpen
    BY <1>2, <1>0, NoRequestAssumption DEF Call, TripOpen, Exclusion
  <2> QED BY <1>1, <1>2, <2>1 DEF Call, pipe
<1>3. ASSUME NEW r \in Requests, Lock(r) PROVE Lag'
  <2>1. ~ TripOpen /\ ~ TripOpen'
    BY <1>3, <1>0 DEF Lock, TripOpen
  <2> QED BY <1>1, <1>3, <2>1 DEF Lock, pipe
<1>4. ASSUME NEW r \in Requests, LeaveQueue(r) PROVE Lag'
  <2>1. stage[r] = "waiting"
    BY <1>4 DEF LeaveQueue, Queue, TypeOK
  <2>2. TripOpen' <=> TripOpen
    BY <1>4, <1>0, <2>1, NoRequestAssumption
    DEF LeaveQueue, TripOpen, Exclusion, TypeOK
  <2>3. \A i \in DOMAIN sent : sent[i] # r
    BY <2>1, <1>0 DEF Frames
  <2> QED BY <1>0, <1>1, <1>4, <2>2, <2>3 DEF LeaveQueue, pipe
<1>5. ASSUME NEW r \in Requests, Encode(r) PROVE Lag'
  <2>1. ~ TripOpen /\ TripOpen'
    BY <1>5, <1>0, NoRequestAssumption DEF Encode, At, TripOpen
  <2>2. /\ Len(sent') = Len(sent) + 1 /\ sent'[Len(sent) + 1] = r
        /\ DOMAIN sent' = 1 .. Len(sent) + 1
        /\ \A i \in DOMAIN sent : sent'[i] = sent[i]
    BY <1>0, <1>5, AppendProperties DEF Encode
  <2>3. outcome[r] = "none" /\ outcome' = outcome /\ read' = read
    BY <1>5 DEF Encode, At, Exclusion
  <2>4. Base' = Base
    BY <1>0, <2>1, <2>2 DEF Base
  <2>5. GivenUp' <=> GivenUp
    BY <1>0, <2>2, <2>3 DEF Abandoned
  <2> QED BY <1>0, <2>3, <2>4, <2>5 DEF Lag
<1>6. ASSUME NEW r \in Requests, Flush(r) PROVE Lag'
  <2>1. TripOpen' <=> TripOpen
    BY <1>6, <1>0 DEF Flush, MustFlush, At, TripOpen
  <2> QED BY <1>1, <1>6, <2>1 DEF Flush
<1>7. ASSUME NEW r \in Requests, Receive(r) PROVE Lag'
  <2>1. TripOpen /\ ~ TripOpen' /\ sent' = sent /\ read' = read + 1
    BY <1>7, NoRequestAssumption DEF Receive, At, Finish, TripOpen
  <2>2. Base' = Base + 1
    BY <1>0, <2>1 DEF Base
  <2>3. ~ Abandoned(r) /\ ~ Abandoned(r)'
    BY <1>0, <1>7 DEF Receive, Finish, Verdict, Abandoned, At, Exclusion
  <2>4. \A q \in Requests \ {r} : outcome'[q] = outcome[q]
    BY <1>0, <1>7 DEF Receive, Finish
  <2>5. GivenUp' <=> GivenUp
    BY <1>0, <2>1, <2>3, <2>4 DEF Abandoned
  <2> QED BY <1>0, <2>1, <2>2, <2>5 DEF Lag
<1>8. ASSUME NEW r \in Requests, GivesUp(r) PROVE Lag'
  <2>0. PICK how \in {"timeout", "cancelled", "failed", "unsent"} :
          Finish(r, how) /\ (how = "unsent" => stage[r] = "ready")
    BY <1>8 DEF GivesUp
  <2>1. ~ TripOpen' /\ UNCHANGED <<sent, read>> /\ holder = r
    BY <1>8 DEF GivesUp, Finish, TripOpen
  <2>2. CASE TripOpen
    <3>1. sent[Len(sent)] = r /\ Len(sent) \in DOMAIN sent /\ how # "unsent"
      BY <1>0, <2>0, <2>1, <2>2 DEF Frames, TripOpen
    <3>2. Abandoned(r)'
      BY <1>0, <2>0, <3>1 DEF Finish, Abandoned
    <3>3. GivenUp'
      BY <1>0, <2>1, <3>1, <3>2 DEF Abandoned
    <3>4. Base' = Base + 1
      BY <1>0, <2>1, <2>2 DEF Base
    <3> QED BY <1>0, <2>1, <3>3, <3>4 DEF Lag
  <2>3. CASE ~ TripOpen
    <3>1. stage[r] = "ready"
      BY <2>1, <2>3, NoRequestAssumption DEF TripOpen, Exclusion
    <3>2. \A i \in DOMAIN sent : sent[i] # r
      BY <3>1 DEF Frames
    <3> QED BY <1>0, <1>1, <2>0, <2>1, <2>3, <3>2 DEF Finish
  <2> QED BY <2>2, <2>3
<1>9. ASSUME UNCHANGED <<stage, holder, sent, read, outcome>> PROVE Lag'
  BY <1>9, <1>1 DEF TripOpen
<1> QED
  BY <1>2, <1>3, <1>4, <1>5, <1>6, <1>7, <1>8, <1>9, StepKinds DEF ApiAnswer

\* The strengthening: well typed, and the five conjuncts above.
THEOREM Invariant == Spec => []IInv
<1>1. IInv /\ [Next]_vars => IInv'
  BY NextTypes, QueueStep, ExclusionStep, FramesStep, InOrderStep, LagStep
  DEF IInv
<1> QED BY InitIInv, <1>1, PTL DEF Spec

-----------------------------------------------------------------------------
(* What the callers observe.                                               *)

\* OneOpenTrip of TcpChannel: the MutexGuard lives across send and next, so
\* the frames of two round trips never interleave.
THEOREM Isolation == Spec => []OneOpenTrip
<1>1. ASSUME IInv PROVE OneOpenTrip
  <2> SUFFICES ASSUME NEW i \in DOMAIN sent, outcome[sent[i]] = "none"
               PROVE  i = Len(sent) /\ sent[i] = holder /\ TripOpen
    BY DEF OneOpenTrip
  <2>1. sent \in Seq(Requests) /\ sent[i] \in Requests
    BY <1>1 DEF IInv, TypeOK
  <2>2. stage[sent[i]] \in {"flushing", "receiving"}
    BY <1>1, <2>1 DEF IInv, Exclusion, Frames
  <2>3. holder = sent[i] /\ TripOpen
    BY <1>1, <2>1, <2>2, NoRequestAssumption DEF IInv, Exclusion, TripOpen
  <2> QED BY <1>1, <2>1, <2>3 DEF IInv, Frames
<1> QED BY <1>1, Invariant, PTL

\* A step decides the fate of the last frame only, and only once.
LEMMA FrameOutcomes ==
  ASSUME IInv, [Next]_vars
  PROVE  \/ /\ sent' = sent
            /\ \A i \in DOMAIN sent :
                 \/ outcome'[sent[i]] = outcome[sent[i]]
                 \/ i = Len(sent) /\ Abandoned(sent[i])'
                 \/ i = Len(sent) /\ Receive(sent[i])
         \/ /\ outcome' = outcome
            /\ \E r \in Requests : outcome[r] = "none" /\ sent' = Append(sent, r)
<1>0. /\ sent \in Seq(Requests) /\ DOMAIN sent = 1 .. Len(sent)
      /\ \A i \in DOMAIN sent : sent[i] \in Requests
      /\ outcome \in [Requests -> Outcomes] /\ stage \in [Requests -> Stages]
  BY DEF IInv, TypeOK
<1>1. ASSUME NEW r \in Requests, LeaveQueue(r)
      PROVE  \A i \in DOMAIN sent : outcome'[sent[i]] = outcome[sent[i]]
  <2>1. stage[r] = "waiting"
    BY <1>1 DEF LeaveQueue, IInv, Queue, TypeOK
  <2>2. \A i \in DOMAIN sent : sent[i] # r
    BY <2>1 DEF IInv, Frames
  <2> QED BY <1>0, <1>1, <2>2 DEF LeaveQueue
<1>2. ASSUME NEW r \in Requests, NEW i \in DOMAIN sent, holder = r, sent[i] = r
      PROVE  i = Len(sent) /\ stage[r] # "ready"
  <2>1. stage[r] \in {"flushing", "receiving"}
    BY <1>0, <1>2, NoRequestAssumption DEF IInv, Exclusion, Frames
  <2>2. sent[Len(sent)] = r /\ Len(sent) \in DOMAIN sent
    BY <1>0, <1>2, <2>1, NoRequestAssumption DEF IInv, Frames, TripOpen
  <2> QED BY <1>2, <2>1, <2>2 DEF IInv, Frames
<1>3. ASSUME NEW r \in Requests, GivesUp(r), NEW i \in DOMAIN sent
      PROVE  \/ outcome'[sent[i]] = outcome[sent[i]]
             \/ i = Len(sent) /\ Abandoned(sent[i])'
  BY <1>0, <1>2, <1>3 DEF GivesUp, Finish, Abandoned
<1>4. ASSUME NEW r \in Requests, Receive(r), NEW i \in DOMAIN sent
      PROVE  \/ outcome'[sent[i]] = outcome[sent[i]]
             \/ i = Len(sent) /\ Receive(sent[i])
  BY <1>0, <1>2, <1>4 DEF Receive, At, Finish
<1>5. ASSUME NEW r \in Requests, Encode(r)
      PROVE  outcome' = outcome /\ outcome[r] = "none" /\ sent' = Append(sent, r)
  BY <1>5 DEF Encode, At, IInv, Exclusion
<1> QED
  BY <1>1, <1>3, <1>4, <1>5, StepKinds
  DEF Call, Lock, LeaveQueue, Flush, Receive, GivesUp, ApiAnswer, pipe

\* With an in-order API the reply that the holder consumes is its own exactly
\* when no earlier round trip was given up.
LEMMA ReceivePairs ==
  ASSUME IInv, Ordered, NEW r \in Requests, Receive(r)
  PROVE  replies[read + 1].id = r <=> ~ \E i \in DOMAIN sent : Abandoned(sent[i])
<1>1. /\ sent \in Seq(Requests) /\ Len(sent) \in Nat /\ DOMAIN sent = 1 .. Len(sent)
      /\ read \in Nat /\ arrived \in Nat /\ Len(replies) \in Nat
      /\ arrived <= Len(replies) /\ DOMAIN replies = 1 .. Len(replies)
      /\ flushed <= Len(sent) /\ flushed \in Nat
  BY DEF IInv, TypeOK
<1>2. TripOpen /\ sent[Len(sent)] = r /\ Base = Len(sent) - 1
  BY NoRequestAssumption DEF Receive, At, TripOpen, IInv, Frames, Base
<1>3. read + 1 \in DOMAIN replies /\ read + 1 \in DOMAIN sent
  BY <1>1 DEF Receive, IInv, InOrder
<1>4. replies[read + 1].id = sent[read + 1]
  BY <1>3 DEF IInv, InOrder
<1>5. Frames /\ Lag
  BY DEF IInv
<1>6. sent[read + 1] = r <=> read + 1 = Len(sent)
  <2>1. Len(sent) \in DOMAIN sent
    BY <1>1, <1>3
  <2>2. \A i, j \in DOMAIN sent : sent[i] = sent[j] => i = j
    BY <1>5 DEF Frames
  <2> QED BY <1>2, <1>3, <2>1, <2>2
<1>7. read + 1 = Len(sent) <=> ~ (read < Base)
  <2>1. read <= Base
    BY <1>5 DEF Lag
  <2>2. read \in Nat /\ Len(sent) \in Nat /\ Base = Len(sent) - 1
    BY <1>1, <1>2
  <2> HIDE DEF Base
  <2> QED BY <2>1, <2>2
<1> QED BY <1>4, <1>5, <1>6, <1>7 DEF Lag

\* AbandonmentIsPermanent and MismatchHasACause of TcpChannel: a round trip
\* that is given up spoils every later one of the process, and nothing else
\* does; `cases` has no step that brings the cursors together again.
THEOREM Pairing == Spec => [](AbandonmentIsPermanent /\ MismatchHasACause)
<1> DEFINE Inv == AbandonmentIsPermanent /\ MismatchHasACause
<1>1. Init => Inv
  BY DEF Init, AbandonmentIsPermanent, MismatchHasACause
<1>2. ASSUME IInv, Inv, [Next]_vars PROVE Inv'
  <2> SUFFICES ASSUME Ordered PROVE Inv'
    BY DEF AbandonmentIsPermanent, MismatchHasACause
  <2>0. /\ sent \in Seq(Requests) /\ Len(sent) \in Nat
        /\ DOMAIN sent = 1 .. Len(sent)
        /\ \A i \in DOMAIN sent : sent[i] \in Requests
        /\ outcome \in [Requests -> Outcomes]
    BY <1>2 DEF IInv, TypeOK
  <2>1. CASE outcome' = outcome
             /\ \E r \in Requests : outcome[r] = "none" /\ sent' = Append(sent, r)
    <3>1. PICK r \in Requests : outcome[r] = "none" /\ sent' = Append(sent, r)
      BY <2>1
    <3>2. /\ DOMAIN sent' = 1 .. Len(sent) + 1 /\ sent'[Len(sent) + 1] = r
          /\ \A i \in DOMAIN sent : sent'[i] = sent[i]
      BY <2>0, <3>1, AppendProperties
    <3> QED
      BY <1>2, <2>0, <2>1, <3>1, <3>2
      DEF AbandonmentIsPermanent, MismatchHasACause, Abandoned
  <2>2. CASE /\ sent' = sent
             /\ \A i \in DOMAIN sent :
                  \/ outcome'[sent[i]] = outcome[sent[i]]
                  \/ i = Len(sent) /\ Abandoned(sent[i])'
                  \/ i = Len(sent) /\ Receive(sent[i])
    <3>1. ASSUME Len(sent) \in DOMAIN sent, Receive(sent[Len(sent)])
          PROVE  /\ outcome'[sent[Len(sent)]] \in {"payload", "mismatched", "refused"}
                 /\ outcome'[sent[Len(sent)]] = "mismatched"
                      <=> \E i \in DOMAIN sent : Abandoned(sent[i])
                 /\ outcome[sent[Len(sent)]] = "none"
      <4>1. replies[read + 1].id = sent[Len(sent)]
              <=> ~ \E i \in DOMAIN sent : Abandoned(sent[i])
        BY <1>2, <2>0, <3>1, ReceivePairs
      <4>2. outcome[sent[Len(sent)]] = "none"
        BY <1>2, <2>0, <3>1 DEF Receive, At, IInv, Exclusion
      <4>3. outcome'[sent[Len(sent)]] = Verdict(replies[read + 1], sent[Len(sent)])
        BY <2>0, <3>1 DEF Receive, Finish
      <4>4. /\ Verdict(replies[read + 1], sent[Len(sent)])
                 \in {"payload", "mismatched", "refused"}
            /\ Verdict(replies[read + 1], sent[Len(sent)]) = "mismatched"
                 <=> replies[read + 1].id # sent[Len(sent)]
        BY DEF Verdict
      <4> QED BY <4>1, <4>2, <4>3, <4>4
    <3>2. \A i \in DOMAIN sent : i # Len(sent) =>
            outcome'[sent[i]] = outcome[sent[i]]
      BY <2>2
    <3>3. AbandonmentIsPermanent'
      <4> SUFFICES ASSUME NEW i \in DOMAIN sent, NEW j \in DOMAIN sent, i < j,
                          Abandoned(sent[i])'
                   PROVE  outcome'[sent[j]] # "payload"
        BY <2>2 DEF AbandonmentIsPermanent, Abandoned
      <4>1. Abandoned(sent[i])
        BY <2>0, <2>2, <3>2 DEF Abandoned
      <4>2. CASE outcome'[sent[j]] = outcome[sent[j]]
        BY <1>2, <4>1, <4>2 DEF AbandonmentIsPermanent
      <4>3. CASE j = Len(sent) /\ Abandoned(sent[j])'
        BY <2>2, <4>3 DEF Abandoned
      <4>4. CASE j = Len(sent) /\ Receive(sent[j])
        BY <3>1, <4>1, <4>4
      <4> QED BY <2>2, <4>2, <4>3, <4>4
    <3>4. MismatchHasACause'
      <4> SUFFICES ASSUME NEW j \in DOMAIN sent, outcome'[sent[j]] = "mismatched"
                   PROVE  \E i \in 1 .. j - 1 : outcome'[sent[i]] \in
                             {"timeout", "cancelled", "failed"}
        BY <2>2 DEF MismatchHasACause, Abandoned
      <4>1. ASSUME NEW i \in 1 .. j - 1, Abandoned(sent[i])
            PROVE  outcome'[sent[i]] \in {"timeout", "cancelled", "failed"}
        BY <2>0, <3>2, <4>1 DEF Abandoned
      <4>2. CASE outcome'[sent[j]] = outcome[sent[j]]
        BY <1>2, <4>1, <4>2 DEF MismatchHasACause
      <4>3. CASE j = Len(sent) /\ Abandoned(sent[j])'
        BY <2>2, <4>3 DEF Abandoned
      <4>4. CASE j = Len(sent) /\ Receive(sent[j])
        <5>1. PICK i \in DOMAIN sent : Abandoned(sent[i])
          BY <3>1, <4>4
        <5>2. i # Len(sent)
          BY <3>1, <4>4, <5>1 DEF Abandoned
        <5> QED BY <2>0, <4>1, <4>4, <5>1, <5>2
      <4> QED BY <2>2, <4>2, <4>3, <4>4
    <3> QED BY <3>3, <3>4
  <2> QED BY <1>2, <2>1, <2>2, FrameOutcomes
<1> QED BY <1>1, <1>2, Invariant, PTL DEF Spec

\* MismatchHasACause of TcpChannel by itself: a caller that is told of a
\* mismatch comes after one that was given up, with an in-order API.
THEOREM Causation == Spec => []MismatchHasACause
BY Pairing, PTL

\* PayloadWasServed of TcpChannel: the request_id check of `cases` gives a
\* caller nothing but what the API produced for it, in whatever order.
THEOREM Correlation == Spec => []PayloadWasServed
<1>1. Init => PayloadWasServed
  BY DEF Init, PayloadWasServed
<1>2. ASSUME TypeOK, PayloadWasServed, [Next]_vars PROVE PayloadWasServed'
  <2>0. /\ outcome \in [Requests -> Outcomes]
        /\ read \in Nat /\ arrived \in Nat /\ Len(replies) \in Nat
        /\ arrived <= Len(replies) /\ replies \in Seq(Reply) /\ read <= arrived
    BY <1>2 DEF TypeOK
  <2>1. ASSUME NEW r \in Requests, Receive(r) PROVE PayloadWasServed'
    <3>1. /\ read' = read + 1 /\ replies' = replies
          /\ outcome' = [outcome EXCEPT ![r] = Verdict(replies[read + 1], r)]
          /\ read + 1 \in 1 .. Len(replies)
      BY <2>0, <2>1 DEF Receive, Finish
    <3>2. replies[read + 1] \in Reply
      BY <2>0, <3>1
    <3>3. Verdict(replies[read + 1], r) = "payload" =>
            replies[read + 1] = [id |-> r, kind |-> "payload"]
      BY <3>2 DEF Verdict, Reply
    <3>4. ASSUME NEW q \in Requests \ {r}, outcome'[q] = "payload"
          PROVE  \E i \in 1 .. read' : replies'[i] = [id |-> q, kind |-> "payload"]
      <4>1. PICK i \in 1 .. read : replies[i] = [id |-> q, kind |-> "payload"]
        BY <1>2, <2>0, <3>1, <3>4 DEF PayloadWasServed
      <4> QED BY <2>0, <3>1, <4>1
    <3>5. ASSUME outcome'[r] = "payload"
          PROVE  \E i \in 1 .. read' : replies'[i] = [id |-> r, kind |-> "payload"]
      <4>1. replies'[read + 1] = [id |-> r, kind |-> "payload"]
        BY <2>0, <3>1, <3>3, <3>5
      <4> QED BY <2>0, <3>1, <4>1
    <3> QED BY <3>4, <3>5 DEF PayloadWasServed
  <2>2. ASSUME NEW r \in Requests, NEW how \in Outcomes \ {"payload"},
               outcome' = [outcome EXCEPT ![r] = how], UNCHANGED <<replies, read>>
        PROVE  PayloadWasServed'
    BY <1>2, <2>0, <2>2 DEF PayloadWasServed
  <2>3. ASSUME NEW r \in Requests, GivesUp(r) \/ LeaveQueue(r)
        PROVE  PayloadWasServed'
    BY <2>2, <2>3 DEF GivesUp, Finish, LeaveQueue, pipe, Outcomes
  <2>4. ASSUME NEW r \in Requests, NEW kind \in {"payload", "refused", "oversize"},
               ApiAnswer(r, kind)
        PROVE  PayloadWasServed'
    <3>1. \A i \in 1 .. read : replies'[i] = replies[i]
      BY <2>0, <2>4, AppendProperties DEF ApiAnswer, Reply
    <3> QED BY <1>2, <2>4, <3>1 DEF ApiAnswer, PayloadWasServed
  <2>5. ASSUME UNCHANGED <<replies, read, outcome>> PROVE PayloadWasServed'
    BY <1>2, <2>5 DEF PayloadWasServed
  <2> QED
    BY <1>2, <2>1, <2>3, <2>4, <2>5, StepKinds DEF Call, Lock, Encode, Flush, pipe
<1> QED BY <1>1, <1>2, TypeCorrect, PTL DEF Spec

-----------------------------------------------------------------------------
(* The channel implements the at-most-once call.                           *)

\* Ending a call that is not over returns or fails its abstract counterpart.
LEMMA FinishMapsTo ==
  ASSUME TypeOK, Exclusion, NEW r \in Requests, NEW how \in Outcomes \ {"none"},
         stage[r] \notin {"idle", "done"},
         stage' = [stage EXCEPT ![r] = "done"],
         outcome' = [outcome EXCEPT ![r] = how],
         Served' = Served,
         how = "payload" => r \in Served
  PROVE  Rpc!Return(r) \/ Rpc!Fail(r)
<1>0. /\ stage \in [Requests -> Stages] /\ outcome \in [Requests -> Outcomes]
      /\ outcome[r] = "none"
  BY DEF TypeOK, Exclusion
<1>1. r \in Called /\ Called' = Called
  BY <1>0 DEF Called
<1>2. Result[r] = "none"
  BY <1>0 DEF Result
<1>3. Result' = [Result EXCEPT ![r] = IF how = "payload" THEN "payload" ELSE "failed"]
  BY <1>0 DEF Result
<1> QED BY <1>1, <1>2, <1>3 DEF Rpc!Return, Rpc!Fail

\* A channel step that moves none of the mapped variables.
LEMMA QuietMapsTo ==
  ASSUME Called' = Called, Served' = Served, Result' = Result
  PROVE  UNCHANGED Rpc!rpcVars
BY DEF Rpc!rpcVars

\* The result of a step, given what it does to stage and outcome.
LEMMA StepMapsTo ==
  ASSUME IInv, [Next]_vars
  PROVE  [Rpc!Next]_(Rpc!rpcVars)
<1>0. /\ TypeOK /\ Exclusion /\ Queue /\ Frames
      /\ stage \in [Requests -> Stages] /\ outcome \in [Requests -> Outcomes]
      /\ replies \in Seq(Reply) /\ Len(replies) \in Nat
      /\ DOMAIN replies = 1 .. Len(replies)
      /\ read \in Nat /\ arrived \in Nat /\ arrived <= Len(replies)
      /\ flushed \in 0 .. Len(sent) /\ Len(sent) \in Nat
  BY DEF IInv, TypeOK
<1>1. ASSUME NEW r \in Requests, Call(r) PROVE Rpc!Call(r)
  <2>1. r \notin Called /\ Called' = Called \cup {r}
    BY <1>0, <1>1 DEF Call, Called
  <2>2. Served' = Served /\ Result' = Result
    BY <1>1 DEF Call, pipe, Served, Result
  <2> QED BY <2>1, <2>2 DEF Rpc!Call
<1>2. ASSUME NEW r \in Requests, Lock(r) \/ Encode(r) \/ Flush(r)
      PROVE  UNCHANGED Rpc!rpcVars
  <2>1. stage[r] # "idle"
    BY <1>0, <1>2 DEF Lock, Encode, Flush, MustFlush, At, Queue, TypeOK
  <2>2. \E s \in Stages \ {"idle"} : stage' = [stage EXCEPT ![r] = s]
    <3>1. CASE Lock(r)
      BY <3>1 DEF Lock, Stages
    <3>2. CASE Encode(r)
      BY <3>2 DEF Encode, Stages
    <3>3. CASE Flush(r)
      <4>1. stage[r] \in Stages \ {"idle"}
        BY <1>0, <2>1
      <4> QED BY <3>3, <4>1 DEF Flush, Stages
    <3> QED BY <1>2, <3>1, <3>2, <3>3
  <2>3. Called' = Called
    BY <1>0, <2>1, <2>2 DEF Called
  <2>4. Served' = Served /\ Result' = Result
    BY <1>2 DEF Lock, Encode, Flush, pipe, Served, Result
  <2> QED BY <2>3, <2>4, QuietMapsTo
<1>3. ASSUME NEW r \in Requests, LeaveQueue(r) \/ GivesUp(r)
      PROVE  Rpc!Return(r) \/ Rpc!Fail(r)
  <2>1. stage[r] \notin {"idle", "done"}
    BY <1>0, <1>3, NoRequestAssumption
    DEF LeaveQueue, GivesUp, Queue, Exclusion, TypeOK
  <2>2. Served' = Served
    BY <1>3 DEF LeaveQueue, GivesUp, pipe, Served
  <2>3. PICK how \in Outcomes \ {"none", "payload"} :
          /\ stage' = [stage EXCEPT ![r] = "done"]
          /\ outcome' = [outcome EXCEPT ![r] = how]
    BY <1>3 DEF LeaveQueue, GivesUp, Finish, Outcomes
  <2> QED BY <1>0, <2>1, <2>2, <2>3, FinishMapsTo
<1>4. ASSUME NEW r \in Requests, Receive(r) PROVE Rpc!Return(r) \/ Rpc!Fail(r)
  <2> DEFINE m == replies[read + 1]
  <2>1. stage[r] \notin {"idle", "done"}
    BY <1>4 DEF Receive, At
  <2>2. Served' = Served
    BY <1>4 DEF Receive, Served
  <2>3. read + 1 \in DOMAIN replies /\ Verdict(m, r) \in Outcomes \ {"none"}
    BY <1>0, <1>4 DEF Receive, Verdict, Outcomes
  <2>4. Verdict(m, r) = "payload" => r \in Served
    BY <2>3 DEF Verdict, Served
  <2>5. /\ stage' = [stage EXCEPT ![r] = "done"]
        /\ outcome' = [outcome EXCEPT ![r] = Verdict(m, r)]
    BY <1>4 DEF Receive, Finish
  <2> HIDE DEF m
  <2> QED BY <1>0, <2>1, <2>2, <2>3, <2>4, <2>5, FinishMapsTo
<1>5. ASSUME NEW r \in Requests, NEW kind \in {"payload", "refused", "oversize"},
             ApiAnswer(r, kind)
      PROVE  Rpc!Serve(r) \/ UNCHANGED Rpc!rpcVars
  <2>1. /\ DOMAIN replies' = 1 .. Len(replies) + 1
        /\ replies'[Len(replies) + 1] = [id |-> r, kind |-> kind]
        /\ \A i \in DOMAIN replies : replies'[i] = replies[i]
    BY <1>0, <1>5, AppendProperties DEF ApiAnswer, Reply
  <2>2. Called' = Called /\ Result' = Result
    BY <1>5 DEF ApiAnswer, Called, Result
  <2>3. r \in Called \ Served
    <3>1. PICK i \in DOMAIN sent : sent[i] = r
      BY <1>0, <1>5 DEF ApiAnswer
    <3>2. stage[r] # "idle"
      BY <1>0, <3>1 DEF Frames
    <3>3. r \notin Served
      BY <1>5 DEF ApiAnswer, Answered, Served
    <3> QED BY <3>2, <3>3 DEF Called
  <2>4. CASE kind = "payload"
    <3>1. Served' = Served \cup {r}
      BY <1>0, <2>1, <2>4 DEF Served
    <3> QED BY <2>2, <2>3, <3>1 DEF Rpc!Serve
  <2>5. CASE kind # "payload"
    <3>1. Served' = Served
      BY <1>0, <2>1, <2>5 DEF Served
    <3> QED BY <2>2, <3>1, QuietMapsTo
  <2> QED BY <2>4, <2>5
<1>6. ASSUME UNCHANGED <<stage, replies, outcome>> PROVE UNCHANGED Rpc!rpcVars
  BY <1>6, QuietMapsTo DEF Called, Served, Result
<1> QED
  BY <1>1, <1>2, <1>3, <1>4, <1>5, <1>6, StepKinds DEF Rpc!Next

\* ImplementsRpc of TcpChannel: whatever the peer and the network do, a call
\* ends at most once, with a payload only if the API produced it.
THEOREM Refinement == Spec => ImplementsRpc
<1>1. Init => Rpc!Init
  BY DEF Init, Rpc!Init, Called, Served, Result
<1>2. IInv /\ [Next]_vars => [Rpc!Next]_(Rpc!rpcVars)
  BY StepMapsTo
<1> QED BY <1>1, <1>2, Invariant, PTL DEF Spec, ImplementsRpc, Rpc!Spec

\* What follows for the callers of Channel::cases: a payload is one that the
\* API produced, and a call that ended is not ended otherwise.
THEOREM Guarantee == Spec => []Rpc!Honest /\ [][Rpc!Told]_(Rpc!rpcVars)
<1> DEFINE Typed == Rpc!Honest /\ Result \in [Requests -> {"none", "payload", "failed"}]
<1>1. Rpc!Init => Typed
  BY DEF Rpc!Init, Rpc!Honest
<1>2. Typed /\ [Rpc!Next]_(Rpc!rpcVars) => Typed' /\ [Rpc!Told]_(Rpc!rpcVars)
  <2> SUFFICES ASSUME Typed, [Rpc!Next]_(Rpc!rpcVars)
               PROVE  Typed' /\ (Rpc!Told \/ UNCHANGED Rpc!rpcVars)
    OBVIOUS
  <2>1. ASSUME NEW r \in Requests, Rpc!Call(r) PROVE Typed' /\ Rpc!Told
    BY <2>1 DEF Rpc!Call, Rpc!Honest, Rpc!Told
  <2>2. ASSUME NEW r \in Requests, Rpc!Serve(r) PROVE Typed' /\ Rpc!Told
    BY <2>2 DEF Rpc!Serve, Rpc!Honest, Rpc!Told
  <2>3. ASSUME NEW r \in Requests, Rpc!Return(r) \/ Rpc!Fail(r)
        PROVE  Typed' /\ Rpc!Told
    BY <2>3 DEF Rpc!Return, Rpc!Fail, Rpc!Honest, Rpc!Told
  <2>4. CASE UNCHANGED Rpc!rpcVars
    BY <2>4 DEF Rpc!rpcVars, Rpc!Honest
  <2> QED BY <2>1, <2>2, <2>3, <2>4 DEF Rpc!Next
<1>3. Typed => Rpc!Honest
  OBVIOUS
<1> HIDE DEF Typed
<1> QED BY <1>1, <1>2, <1>3, Refinement, PTL DEF ImplementsRpc, Rpc!Spec

-----------------------------------------------------------------------------
(* What EveryCallEnds rests on: a round trip has only so many steps.       *)

\* How far a handler is from its end.
Rank == [idle |-> 5, waiting |-> 4, ready |-> 3, flushing |-> 2, receiving |-> 1,
         done |-> 0]

\* Nothing that happens takes a handler back, or adds to what the holder of
\* the mutex has to flush.
NeverBack ==
  \A r \in Requests :
    \/ Rank[stage'[r]] < Rank[stage[r]]
    \/ stage'[r] = stage[r] /\ (holder = r => Backlog' <= Backlog)

\* Each of its own steps takes the holder further.
OnlyForward ==
  \A r \in Requests : HandlerStep(r) =>
    \/ Rank[stage'[r]] < Rank[stage[r]]
    \/ stage'[r] = stage[r] /\ Backlog' < Backlog

\* send and next of a round trip are finite: whoever leaves and whatever
\* arrives, each step of the holder brings it nearer to its end.
THEOREM Descent == Spec => [][NeverBack /\ OnlyForward]_vars
<1>1. IInv /\ [Next]_vars => [NeverBack /\ OnlyForward]_vars
  <2> SUFFICES ASSUME IInv, Next PROVE NeverBack /\ OnlyForward
    BY DEF vars
  <2>0. /\ stage \in [Requests -> Stages] /\ Queue /\ Exclusion
        /\ sent \in Seq(Requests) /\ Len(sent) \in Nat
        /\ flushed \in 0 .. Len(sent) /\ waiters \in Seq(Requests)
    BY DEF IInv, TypeOK
  <2>1. Backlog \in Int
    BY <2>0 DEF Backlog
  <2>2. ASSUME NEW r \in Requests, NEW s \in Stages,
               stage' = [stage EXCEPT ![r] = s],
               Rank[s] < Rank[stage[r]],
               holder = r \/ UNCHANGED <<sent, flushed>>
        PROVE  NeverBack
    <3>1. stage'[r] = s /\ \A q \in Requests \ {r} : stage'[q] = stage[q]
      BY <2>0, <2>2
    <3>2. ASSUME NEW q \in Requests \ {r}, holder = q PROVE Backlog' <= Backlog
      <4>1. Backlog' = Backlog
        BY <2>2, <3>2 DEF Backlog
      <4> QED BY <2>1, <4>1
    <3> HIDE DEF Rank
    <3> QED BY <2>2, <3>1, <3>2 DEF NeverBack
  <2>3. ASSUME NEW r \in Requests, HandlerStep(r)
        PROVE  /\ \/ Rank[stage'[r]] < Rank[stage[r]]
                  \/ stage'[r] = stage[r] /\ Backlog' < Backlog
               /\ NeverBack
    <3>1. CASE Encode(r)
      <4>1. stage[r] = "ready" /\ holder = r
            /\ stage' = [stage EXCEPT ![r] = "flushing"]
        BY <3>1 DEF Encode, At
      <4>2. stage'[r] = "flushing" /\ Rank["flushing"] < Rank["ready"]
        BY <2>0, <4>1 DEF Rank
      <4> QED BY <2>2, <4>1, <4>2 DEF Stages
    <3>2. CASE Flush(r)
      <4>1. /\ stage[r] \in {"ready", "flushing"} /\ holder = r
            /\ flushed < Len(sent) /\ flushed' = flushed + 1 /\ sent' = sent
            /\ stage' = [stage EXCEPT ![r] =
                 IF @ = "flushing" /\ flushed' = Len(sent) THEN "receiving" ELSE @]
        BY <3>2 DEF Flush, MustFlush, At
      <4>2. Backlog' < Backlog
        BY <2>0, <4>1 DEF Backlog
      <4>3. CASE stage[r] = "flushing" /\ flushed' = Len(sent)
        <5>1. /\ stage' = [stage EXCEPT ![r] = "receiving"]
              /\ stage'[r] = "receiving"
          BY <2>0, <4>1, <4>3
        <5>2. Rank["receiving"] < Rank[stage[r]]
          BY <4>3 DEF Rank
        <5> QED BY <2>2, <4>1, <5>1, <5>2 DEF Stages
      <4>4. CASE ~ (stage[r] = "flushing" /\ flushed' = Len(sent))
        <5>1. stage' = stage
          BY <2>0, <4>1, <4>4
        <5>2. Backlog' <= Backlog
          BY <2>0, <4>1 DEF Backlog
        <5> HIDE DEF Rank
        <5> QED BY <4>2, <5>1, <5>2 DEF NeverBack
      <4> QED BY <4>3, <4>4
    <3>3. CASE ~ Encode(r) /\ ~ Flush(r)
      <4>1. /\ holder = r /\ stage[r] \in {"ready", "flushing", "receiving"}
            /\ stage' = [stage EXCEPT ![r] = "done"]
        BY <2>3, <3>3
        DEF HandlerStep, RejectFrame, SendTimeout, SendError, Receive,
            ReceiveOversize, ReceiveClosed, ReceiveTimeout, MustFlush, At, Finish
      <4>2. stage'[r] = "done" /\ Rank["done"] < Rank[stage[r]]
        BY <2>0, <4>1 DEF Rank
      <4> QED BY <2>2, <4>1, <4>2 DEF Stages
    <3> QED BY <3>1, <3>2, <3>3
  <2>4. ASSUME NEW r \in Requests, Call(r) PROVE NeverBack
    <3>1. /\ stage[r] = "idle" /\ UNCHANGED <<sent, flushed>>
          /\ stage' = [stage EXCEPT ![r] = "waiting"]
      BY <2>4 DEF Call, pipe
    <3>2. Rank["waiting"] < Rank["idle"]
      BY DEF Rank
    <3> QED BY <2>2, <3>1, <3>2 DEF Stages
  <2>5. ASSUME NEW r \in Requests, Lock(r) PROVE NeverBack
    <3>1. /\ stage[r] = "waiting" /\ UNCHANGED <<sent, flushed>>
          /\ stage' = [stage EXCEPT ![r] = "ready"]
      BY <2>0, <2>5 DEF Lock, Queue, pipe
    <3>2. Rank["ready"] < Rank["waiting"]
      BY DEF Rank
    <3> QED BY <2>2, <3>1, <3>2 DEF Stages
  <2>6. ASSUME NEW r \in Requests, LeaveQueue(r) \/ Cancel(r) PROVE NeverBack
    <3>1. /\ stage[r] \in {"waiting", "ready", "flushing", "receiving"}
          /\ UNCHANGED <<sent, flushed>>
          /\ stage' = [stage EXCEPT ![r] = "done"]
      BY <2>0, <2>6, NoRequestAssumption
      DEF LeaveQueue, Cancel, Finish, Queue, Exclusion, pipe
    <3>2. Rank["done"] < Rank[stage[r]]
      BY <3>1 DEF Rank
    <3> QED BY <2>2, <3>1, <3>2 DEF Stages
  <2>7. ASSUME Environment PROVE NeverBack
    <3>1. stage' = stage /\ UNCHANGED <<sent, flushed>>
      BY <2>7 DEF Environment, ApiAnswer, Deliver, ApiClose
    <3>2. Backlog' <= Backlog
      BY <2>0, <3>1 DEF Backlog
    <3> QED BY <3>1, <3>2 DEF NeverBack
  <2>8. OnlyForward
    BY <2>3 DEF OnlyForward
  <2> QED BY <2>3, <2>4, <2>5, <2>6, <2>7, <2>8 DEF Next
<1> QED BY <1>1, Invariant, PTL DEF Spec
=============================================================================
