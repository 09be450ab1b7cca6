----------------------------- MODULE TcpChannel -----------------------------
(***************************************************************************)
(* The stateful mTLS avenue: one data_plane::tcp::Channel per process,     *)
(* shared by every handler behind an Arc<Mutex<_>> (main.rs), and the API  *)
(* at the other end of its only connection.                                *)
(*                                                                         *)
(* The connection is a log with cursors.  `sent` holds, in the order they  *)
(* were encoded, the request_id of every frame put in the write buffer;    *)
(* `replies` the API's answers in the order it wrote them:                 *)
(*                                                                         *)
(*   sent     1 ....... flushed ....... Len(sent)                          *)
(*            on the wire | still in the Framed write buffer               *)
(*   replies  1 .. read .. arrived ... Len(replies)                        *)
(*            consumed | readable | on their way                           *)
(*                                                                         *)
(* A round trip that is given up (timeout, client gone) leaves its frame   *)
(* in `sent`: neither buffer is reset and the channel is never replaced.   *)
(***************************************************************************)
EXTENDS Naturals, Sequences, SequencesExt

CONSTANTS
  Requests,     \* calls of Channel::cases, identified by their fresh UUID
  NoRequest,    \* the mutex is free
  Boundary,     \* unflushed frames at which the sink reports back-pressure
  Ordered       \* the API answers the frames of the connection in order

ASSUME NoRequestAssumption == NoRequest \notin Requests
ASSUME BoundaryAssumption == Boundary \in Nat \ {0}
ASSUME OrderedAssumption == Ordered \in BOOLEAN

VARIABLES
  stage,      \* stage[r]: where the handler of r is
  waiters,    \* handlers queued on the mutex, first come first served
  holder,     \* the handler whose MutexGuard is alive, or NoRequest
  sent, flushed,
  replies, arrived, read,
  conn,       \* "open", or "closed" by the peer
  decoder,    \* "framing", or "stuck" at a frame over MAX_RESPONSE_BYTES
  outcome     \* outcome[r]: how the call of r ended

pipe == <<sent, flushed, replies, arrived, read, conn, decoder>>
vars == <<stage, waiters, holder, pipe, outcome>>

Stages == {"idle", "waiting", "ready", "flushing", "receiving", "done"}
Outcomes == {"none", "payload", "refused", "mismatched", "timeout", "failed",
             "unsent", "cancelled"}
Reply == [id : Requests, kind : {"payload", "refused", "oversize"}]

TypeOK ==
  /\ stage \in [Requests -> Stages]
  /\ waiters \in Seq(Requests)
  /\ holder \in Requests \cup {NoRequest}
  /\ sent \in Seq(Requests)
  /\ replies \in Seq(Reply)
  /\ flushed \in 0 .. Len(sent)
  /\ arrived \in 0 .. Len(replies)
  /\ read \in 0 .. arrived
  /\ conn \in {"open", "closed"}
  /\ decoder \in {"framing", "stuck"}
  /\ outcome \in [Requests -> Outcomes]

\* main opens the connection, once, before it listens: Channel::connect.
Init ==
  /\ stage = [r \in Requests |-> "idle"]
  /\ waiters = <<>>
  /\ holder = NoRequest
  /\ sent = <<>> /\ flushed = 0
  /\ replies = <<>> /\ arrived = 0 /\ read = 0
  /\ conn = "open"
  /\ decoder = "framing"
  /\ outcome = [r \in Requests |-> "none"]

Backlog == Len(sent) - flushed
At(r, s) == holder = r /\ stage[r] = s

\* The future of r is finished or dropped: its MutexGuard goes with it.
Finish(r, how) ==
  /\ stage' = [stage EXCEPT ![r] = "done"]
  /\ outcome' = [outcome EXCEPT ![r] = how]
  /\ holder' = NoRequest
  /\ UNCHANGED waiters

-----------------------------------------------------------------------------
(* The handler: `transport.lock().await.cases(...).await`.                 *)

Call(r) ==
  /\ stage[r] = "idle"
  /\ stage' = [stage EXCEPT ![r] = "waiting"]
  /\ waiters' = Append(waiters, r)
  /\ UNCHANGED <<holder, pipe, outcome>>

\* Mutant of Lock: the MutexGuard does not exclude.
LockShared(r) ==
  /\ waiters # <<>> /\ Head(waiters) = r
  /\ holder' = r
  /\ waiters' = Tail(waiters)
  /\ stage' = [stage EXCEPT ![r] = "ready"]
  /\ UNCHANGED <<pipe, outcome>>

Lock(r) ==
  /\ holder = NoRequest
  /\ waiters # <<>> /\ Head(waiters) = r
  /\ holder' = r
  /\ waiters' = Tail(waiters)
  /\ stage' = [stage EXCEPT ![r] = "ready"]
  /\ UNCHANGED <<pipe, outcome>>

\* validate_token, or the frame is over MAX_REQUEST_BYTES: nothing is written.
RejectFrame(r) ==
  /\ At(r, "ready")
  /\ Finish(r, "unsent")
  /\ UNCHANGED pipe

\* Sink::send is poll_ready, start_send, poll_flush.
Encode(r) ==
  /\ At(r, "ready")
  /\ Backlog < Boundary
  /\ sent' = Append(sent, r)
  /\ stage' = [stage EXCEPT ![r] = "flushing"]
  /\ UNCHANGED <<waiters, holder, flushed, replies, arrived, read, conn,
                 decoder, outcome>>

MustFlush(r) ==
  \/ At(r, "flushing")
  \/ At(r, "ready") /\ Backlog >= Boundary

\* Mutant of Flush: the write cursor runs past the write buffer.
FlushTwice(r) ==
  /\ MustFlush(r)
  /\ flushed < Len(sent)
  /\ flushed' = flushed + 2
  /\ stage' = [stage EXCEPT ![r] = IF @ = "flushing" THEN "receiving" ELSE @]
  /\ UNCHANGED <<waiters, holder, sent, replies, arrived, read, conn, decoder,
                 outcome>>

Flush(r) ==
  /\ MustFlush(r)
  /\ flushed < Len(sent)
  /\ flushed' = flushed + 1
  /\ stage' = [stage EXCEPT ![r] =
                 IF @ = "flushing" /\ flushed' = Len(sent) THEN "receiving" ELSE @]
  /\ UNCHANGED <<waiters, holder, sent, replies, arrived, read, conn, decoder,
                 outcome>>

SendTimeout(r) ==
  /\ MustFlush(r)
  /\ Finish(r, "timeout")
  /\ UNCHANGED pipe

SendError(r) ==
  /\ conn = "closed"
  /\ MustFlush(r)
  /\ Finish(r, "failed")
  /\ UNCHANGED pipe

\* Mutant of Verdict: the reply's request_id is not compared.
VerdictAnyId(m, r) == IF m.kind = "payload" THEN "payload" ELSE "refused"

\* What FrameResponse must satisfy to be the answer to r.
Verdict(m, r) ==
  IF m.id # r THEN "mismatched"
  ELSE IF m.kind = "payload" THEN "payload" ELSE "refused"

\* Mutant of Receive: the frame is looked at and left in the read buffer.
ReceivePeek(r) ==
  /\ At(r, "receiving")
  /\ decoder = "framing"
  /\ read < arrived
  /\ replies[read + 1].kind # "oversize"
  /\ Finish(r, Verdict(replies[read + 1], r))
  /\ UNCHANGED pipe

Receive(r) ==
  /\ At(r, "receiving")
  /\ decoder = "framing"
  /\ read < arrived
  /\ replies[read + 1].kind # "oversize"
  /\ read' = read + 1
  /\ Finish(r, Verdict(replies[read + 1], r))
  /\ UNCHANGED <<sent, flushed, replies, arrived, conn, decoder>>

\* LengthDelimitedCodec refuses the length field without consuming it.
ReceiveOversize(r) ==
  /\ At(r, "receiving")
  /\ \/ decoder = "stuck"
     \/ read < arrived /\ replies[read + 1].kind = "oversize"
  /\ decoder' = "stuck"
  /\ Finish(r, "failed")
  /\ UNCHANGED <<sent, flushed, replies, arrived, read, conn>>

ReceiveClosed(r) ==
  /\ At(r, "receiving")
  /\ conn = "closed" /\ read = arrived
  /\ Finish(r, "failed")
  /\ UNCHANGED pipe

\* Mutant of ReceiveTimeout: no timeout around next().
ReceiveForever(r) == FALSE

\* timeout() polls the stream first: it expires only if nothing is readable.
ReceiveTimeout(r) ==
  /\ At(r, "receiving")
  /\ read = arrived \/ decoder = "stuck"
  /\ Finish(r, "timeout")
  /\ UNCHANGED pipe

\* The browser goes away and the server drops the handler at an await: the one
\* on the mutex, or one inside `cases`.
LeaveQueue(r) ==
  /\ \E k \in DOMAIN waiters :
        /\ waiters[k] = r
        /\ waiters' = RemoveAt(waiters, k)
  /\ stage' = [stage EXCEPT ![r] = "done"]
  /\ outcome' = [outcome EXCEPT ![r] = "cancelled"]
  /\ UNCHANGED <<holder, pipe>>

Cancel(r) ==
  /\ holder = r
  /\ Finish(r, "cancelled")
  /\ UNCHANGED pipe

-----------------------------------------------------------------------------
(* The API process and the network between (external).                     *)

Answered == {replies[i].id : i \in DOMAIN replies}

ApiAnswer(r, kind) ==
  /\ conn = "open"
  /\ r \notin Answered
  /\ \E i \in 1 .. flushed :
        /\ sent[i] = r
        /\ Ordered => i = Len(replies) + 1
  /\ replies' = Append(replies, [id |-> r, kind |-> kind])
  /\ UNCHANGED <<stage, waiters, holder, sent, flushed, arrived, read, conn,
                 decoder, outcome>>

Deliver ==
  /\ conn = "open"
  /\ arrived < Len(replies)
  /\ arrived' = arrived + 1
  /\ UNCHANGED <<stage, waiters, holder, sent, flushed, replies, read, conn,
                 decoder, outcome>>

ApiClose ==
  /\ conn = "open"
  /\ conn' = "closed"
  /\ UNCHANGED <<stage, waiters, holder, sent, flushed, replies, arrived, read,
                 decoder, outcome>>

-----------------------------------------------------------------------------

\* What the runtime owes the handler of r once it holds the mutex.
HandlerStep(r) ==
  \/ RejectFrame(r) \/ Encode(r) \/ Flush(r) \/ SendTimeout(r) \/ SendError(r)
  \/ Receive(r) \/ ReceiveOversize(r) \/ ReceiveClosed(r) \/ ReceiveTimeout(r)

Environment ==
  \/ \E r \in Requests, kind \in {"payload", "refused", "oversize"} :
        ApiAnswer(r, kind)
  \/ Deliver
  \/ ApiClose

Next ==
  \/ \E r \in Requests :
       Call(r) \/ Lock(r) \/ HandlerStep(r) \/ LeaveQueue(r) \/ Cancel(r)
  \/ Environment

Spec == Init /\ [][Next]_vars

(***************************************************************************)
(* tokio polls a woken task and its timers fire; the mutex wakes its       *)
(* waiters in order.  Nothing is assumed of the API, of the network or of  *)
(* the browsers.                                                           *)
(***************************************************************************)
Fairness == \A r \in Requests : WF_vars(Lock(r)) /\ WF_vars(HandlerStep(r))

FairSpec == Spec /\ Fairness

-----------------------------------------------------------------------------
(* Properties.                                                             *)

\* The round trip of the holder is open: its frame was encoded.
TripOpen == holder # NoRequest /\ stage[holder] \in {"flushing", "receiving"}

\* r ended without having read a reply (a frame it encoded is still answered).
Abandoned(r) == outcome[r] \in {"timeout", "cancelled", "failed"}

(***************************************************************************)
(* AbandonmentIsPermanent: with an API that answers in order, once a round *)
(* trip is given up after its frame was encoded, no later round trip of    *)
(* the process succeeds: each reads the reply of a predecessor.  `cases`   *)
(* neither drains the stream nor reconnects (data_plane.rs, Channel).      *)
(***************************************************************************)
AbandonmentIsPermanent ==
  Ordered => \A i, j \in DOMAIN sent :
    i < j /\ Abandoned(sent[i]) => outcome[sent[j]] # "payload"

(***************************************************************************)
(* MismatchHasACause: conversely, an in-order API never makes `cases`      *)
(* reject a reply for its request_id unless an earlier round trip of the   *)
(* connection was given up: Boundary, partial flushes and callers that     *)
(* leave the queue never shift the pairing of frames and replies.          *)
(***************************************************************************)
MismatchHasACause ==
  Ordered => \A j \in DOMAIN sent : outcome[sent[j]] = "mismatched" =>
    \E i \in 1 .. j - 1 : Abandoned(sent[i])

(***************************************************************************)
(* PayloadWasServed: a caller is given a payload only when the API         *)
(* produced one for that very request, whatever replies were left behind   *)
(* by others and in whatever order the API answers (the request_id check   *)
(* of `cases`).                                                            *)
(***************************************************************************)
PayloadWasServed ==
  \A r \in Requests : outcome[r] = "payload" =>
    \E i \in 1 .. read : replies[i] = [id |-> r, kind |-> "payload"]

(***************************************************************************)
(* OneOpenTrip: frames of one round trip never interleave with another's:  *)
(* the only frame whose caller has not ended is the last one encoded, and  *)
(* its caller holds the mutex (the guard lives across send and next).      *)
(***************************************************************************)
OneOpenTrip ==
  \A i \in DOMAIN sent : outcome[sent[i]] = "none" =>
    i = Len(sent) /\ sent[i] = holder /\ TripOpen

(***************************************************************************)
(* EveryCallEnds: a handler queued on the mutex ends, even if the API      *)
(* never answers and the socket never drains: every holder ahead of it is  *)
(* bounded by the timeouts around send and next.                           *)
(***************************************************************************)
EveryCallEnds ==
  \A r \in Requests : stage[r] = "waiting" ~> stage[r] = "done"

(***************************************************************************)
(* Rpc: the channel implements the at-most-once call of CasesRpc.          *)
(***************************************************************************)
Called == {r \in Requests : stage[r] # "idle"}
Served == {replies[i].id : i \in {k \in DOMAIN replies : replies[k].kind = "payload"}}
Result == [r \in Requests |->
             CASE outcome[r] = "none"    -> "none"
               [] outcome[r] = "payload" -> "payload"
               [] OTHER                  -> "failed"]

Rpc == INSTANCE CasesRpc WITH called <- Called, served <- Served, result <- Result

ImplementsRpc == Rpc!Spec

(***************************************************************************)
(* TimeoutsArePerRoundTrip: a timeout ends the round trip it belongs to    *)
(* and no other: no caller is failed over a reply that is not its own.     *)
(* README.md says so of the tcp avenue; the code does not do it.           *)
(***************************************************************************)
TimeoutsArePerRoundTrip == \A r \in Requests : outcome[r] # "mismatched"
=============================================================================
