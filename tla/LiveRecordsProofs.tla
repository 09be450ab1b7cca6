-------------------------- MODULE LiveRecordsProofs --------------------------
(***************************************************************************)
(* LiveRecords for every set of clients, every ring and every wire: a page *)
(* whose socket is subscribed is never left with a list older than the     *)
(* last record announced to it.                                            *)
(*                                                                         *)
(* The properties speak of pages at rest.  What is inductive is why a page *)
(* that is not at rest will be right: a reload that has not been served    *)
(* yet is on its way, or the last snapshot that the page has, shown or     *)
(* about to be, is new enough.                                             *)
(*                                                                         *)
(* The last section is about a page that is not at rest: its reloads do    *)
(* not overlap, so that it never goes back to an older list.               *)
(***************************************************************************)
EXTENDS LiveRecords, TLAPS

\* A reload that will see every record of now is on its way to p.
Reloading(p) ==
  \/ \E q \in Forms : post[q] = "announcing"
  \/ next[p] < tail \/ busy[p] \/ wire[p] > 0
  \/ get[p] = "asked" \/ queued[p]

\* htmx keeps a request only behind another one.
QueuedBehind == \A p \in Pages : queued[p] => get[p] # "idle"

WatcherInv ==
  \A p \in Watchers : sock[p] = "live" /\ since[p] < items =>
    \/ Reloading(p)
    \/ get[p] = "answered" /\ snap[p] = items
    \/ get[p] = "idle" /\ view[p] = items

WriterInv ==
  \A p \in Forms \cap Pages : sock[p] = "live" /\ since[p] < mine[p] =>
    \/ Reloading(p)
    \/ get[p] = "answered" /\ snap[p] >= mine[p]
    \/ get[p] = "idle" /\ (view[p] = Alert \/ view[p] >= mine[p])

\* create_item reads the list after its own push.
ReplyInv ==
  \A p \in Forms :
    post[p] = "replied" => reply[p] = Alert \/ reply[p] >= mine[p]

IInv == TypeOK /\ QueuedBehind /\ WatcherInv /\ WriterInv /\ ReplyInv

-----------------------------------------------------------------------------
(* Type correctness.                                                       *)

LEMMA InitTypes == Init => TypeOK
BY CapacityAssumption DEF Init, TypeOK, Alert

LEMMA NextTypes ==
  ASSUME TypeOK, [Next]_vars
  PROVE  TypeOK'
<1> USE CapacityAssumption DEF TypeOK, Alert, channel, browser, server
<1>1. ASSUME NEW p \in Forms, Submit(p) PROVE TypeOK'
  BY <1>1 DEF Submit, Clients
<1>2. ASSUME NEW p \in Forms, SubmitBlank(p) PROVE TypeOK'
  BY <1>2 DEF SubmitBlank, Clients
<1>3. ASSUME NEW p \in Forms, Push(p) PROVE TypeOK'
  BY <1>3 DEF Push, Clients
<1>4. ASSUME NEW p \in Forms, Announce(p) PROVE TypeOK'
  BY <1>4 DEF Announce, Clients
<1>5. ASSUME NEW p \in Forms, ReadBack(p) PROVE TypeOK'
  BY <1>5 DEF ReadBack, Clients
<1>6. ASSUME NEW p \in Forms, Cancel(p) PROVE TypeOK'
  BY <1>6 DEF Cancel, Clients
<1>7. ASSUME NEW p \in Forms, SwapReply(p) PROVE TypeOK'
  BY <1>7 DEF SwapReply, Clients
<1>8. ASSUME NEW p \in Pages, OpenPage(p) PROVE TypeOK'
  BY <1>8 DEF OpenPage, Clients
<1>9. ASSUME NEW p \in Pages, Subscribe(p) PROVE TypeOK'
  BY <1>9 DEF Subscribe, Clients
<1>10. ASSUME NEW p \in Pages, RecvEvent(p) PROVE TypeOK'
  BY <1>10 DEF RecvEvent, Waiting, Clients
<1>11. ASSUME NEW p \in Pages, RecvLagged(p) PROVE TypeOK'
  BY <1>11 DEF RecvLagged, Waiting, Retained, Clients
<1>12. ASSUME NEW p \in Pages, SendText(p) PROVE TypeOK'
  BY <1>12 DEF SendText, Clients
<1>13. ASSUME NEW p \in Pages, RecordChanged(p) PROVE TypeOK'
  <2>1. wire' \in [Clients -> 0 .. WireCapacity]
    BY <1>13 DEF RecordChanged, Clients
  <2>2. get' \in [Clients -> {"idle", "asked", "answered"}] /\ queued' \in [Clients -> BOOLEAN]
    BY <1>13 DEF RecordChanged, Clients
  <2> QED BY <1>13, <2>1, <2>2 DEF RecordChanged
<1>14. ASSUME NEW p \in Pages, ServeFragment(p) PROVE TypeOK'
  BY <1>14 DEF ServeFragment, Clients
<1>15. ASSUME NEW p \in Pages, SwapFragment(p) PROVE TypeOK'
  BY <1>15 DEF SwapFragment, Clients
<1>16. ASSUME NEW p \in Pages, Disconnect(p) PROVE TypeOK'
  BY <1>16 DEF Disconnect, Clients
<1>17. CASE UNCHANGED vars
  BY <1>17 DEF vars
<1> QED
  BY <1>1, <1>2, <1>3, <1>4, <1>5, <1>6, <1>7, <1>8, <1>9, <1>10, <1>11, <1>12,
     <1>13, <1>14, <1>15, <1>16, <1>17
  DEF Next, Form, Refresh

\* Every reachable state is well typed: no receiver's cursor passes the tail
\* of the broadcast ring, no snapshot is ahead of the list.
THEOREM TypeCorrect == Spec => []TypeOK
<1> QED BY InitTypes, NextTypes, PTL DEF Spec

-----------------------------------------------------------------------------
(* The parts of the invariant, one action at a time.                       *)

LEMMA QueuedStep ==
  ASSUME TypeOK, QueuedBehind, [Next]_vars
  PROVE  QueuedBehind'
<1> USE CapacityAssumption DEF TypeOK, QueuedBehind, Clients, channel, browser, server
<1>1. ASSUME NEW p \in Forms, Submit(p) PROVE QueuedBehind'
  BY <1>1 DEF Submit
<1>2. ASSUME NEW p \in Forms, SubmitBlank(p) PROVE QueuedBehind'
  BY <1>2 DEF SubmitBlank
<1>3. ASSUME NEW p \in Forms, Push(p) PROVE QueuedBehind'
  BY <1>3 DEF Push
<1>4. ASSUME NEW p \in Forms, Announce(p) PROVE QueuedBehind'
  BY <1>4 DEF Announce
<1>5. ASSUME NEW p \in Forms, ReadBack(p) PROVE QueuedBehind'
  BY <1>5 DEF ReadBack
<1>6. ASSUME NEW p \in Forms, Cancel(p) PROVE QueuedBehind'
  BY <1>6 DEF Cancel
<1>7. ASSUME NEW p \in Forms, SwapReply(p) PROVE QueuedBehind'
  BY <1>7 DEF SwapReply
<1>8. ASSUME NEW p \in Pages, OpenPage(p) PROVE QueuedBehind'
  BY <1>8 DEF OpenPage
<1>9. ASSUME NEW p \in Pages, Subscribe(p) PROVE QueuedBehind'
  BY <1>9 DEF Subscribe
<1>10. ASSUME NEW p \in Pages, RecvEvent(p) PROVE QueuedBehind'
  BY <1>10 DEF RecvEvent, Waiting
<1>11. ASSUME NEW p \in Pages, RecvLagged(p) PROVE QueuedBehind'
  BY <1>11 DEF RecvLagged, Waiting, Retained
<1>12. ASSUME NEW p \in Pages, SendText(p) PROVE QueuedBehind'
  BY <1>12 DEF SendText
<1>13. ASSUME NEW p \in Pages, RecordChanged(p) PROVE QueuedBehind'
  BY <1>13 DEF RecordChanged
<1>14. ASSUME NEW p \in Pages, ServeFragment(p) PROVE QueuedBehind'
  BY <1>14 DEF ServeFragment
<1>15. ASSUME NEW p \in Pages, SwapFragment(p) PROVE QueuedBehind'
  BY <1>15 DEF SwapFragment
<1>16. ASSUME NEW p \in Pages, Disconnect(p) PROVE QueuedBehind'
  BY <1>16 DEF Disconnect
<1>17. CASE UNCHANGED vars
  BY <1>17 DEF vars
<1> QED
  BY <1>1, <1>2, <1>3, <1>4, <1>5, <1>6, <1>7, <1>8, <1>9, <1>10, <1>11, <1>12,
     <1>13, <1>14, <1>15, <1>16, <1>17
  DEF Next, Form, Refresh

LEMMA ReplyStep ==
  ASSUME TypeOK, ReplyInv, [Next]_vars
  PROVE  ReplyInv'
<1> USE CapacityAssumption DEF TypeOK, ReplyInv, Alert, Clients, channel, browser, server
<1>1. ASSUME NEW p \in Forms, Submit(p) PROVE ReplyInv'
  BY <1>1 DEF Submit
<1>2. ASSUME NEW p \in Forms, SubmitBlank(p) PROVE ReplyInv'
  BY <1>2 DEF SubmitBlank
<1>3. ASSUME NEW p \in Forms, Push(p) PROVE ReplyInv'
  BY <1>3 DEF Push
<1>4. ASSUME NEW p \in Forms, Announce(p) PROVE ReplyInv'
  BY <1>4 DEF Announce
<1>5. ASSUME NEW p \in Forms, ReadBack(p) PROVE ReplyInv'
  BY <1>5 DEF ReadBack
<1>6. ASSUME NEW p \in Forms, Cancel(p) PROVE ReplyInv'
  BY <1>6 DEF Cancel
<1>7. ASSUME NEW p \in Forms, SwapReply(p) PROVE ReplyInv'
  BY <1>7 DEF SwapReply
<1>8. ASSUME NEW p \in Pages, OpenPage(p) PROVE ReplyInv'
  BY <1>8 DEF OpenPage
<1>9. ASSUME NEW p \in Pages, Subscribe(p) PROVE ReplyInv'
  BY <1>9 DEF Subscribe
<1>10. ASSUME NEW p \in Pages, RecvEvent(p) PROVE ReplyInv'
  BY <1>10 DEF RecvEvent, Waiting
<1>11. ASSUME NEW p \in Pages, RecvLagged(p) PROVE ReplyInv'
  BY <1>11 DEF RecvLagged, Waiting, Retained
<1>12. ASSUME NEW p \in Pages, SendText(p) PROVE ReplyInv'
  BY <1>12 DEF SendText
<1>13. ASSUME NEW p \in Pages, RecordChanged(p) PROVE ReplyInv'
  BY <1>13 DEF RecordChanged
<1>14. ASSUME NEW p \in Pages, ServeFragment(p) PROVE ReplyInv'
  BY <1>14 DEF ServeFragment
<1>15. ASSUME NEW p \in Pages, SwapFragment(p) PROVE ReplyInv'
  BY <1>15 DEF SwapFragment
<1>16. ASSUME NEW p \in Pages, Disconnect(p) PROVE ReplyInv'
  BY <1>16 DEF Disconnect
<1>17. CASE UNCHANGED vars
  BY <1>17 DEF vars
<1> QED
  BY <1>1, <1>2, <1>3, <1>4, <1>5, <1>6, <1>7, <1>8, <1>9, <1>10, <1>11, <1>12,
     <1>13, <1>14, <1>15, <1>16, <1>17
  DEF Next, Form, Refresh

LEMMA WatcherStep ==
  ASSUME TypeOK, QueuedBehind, WatcherInv, [Next]_vars
  PROVE  WatcherInv'
<1> USE CapacityAssumption DEF TypeOK, QueuedBehind, WatcherInv, Watchers,
      Reloading, Clients, channel, browser, server
<1>1. ASSUME NEW p \in Forms, Submit(p) PROVE WatcherInv'
  BY <1>1 DEF Submit
<1>2. ASSUME NEW p \in Forms, SubmitBlank(p) PROVE WatcherInv'
  BY <1>2 DEF SubmitBlank
<1>3. ASSUME NEW p \in Forms, Push(p) PROVE WatcherInv'
  BY <1>3 DEF Push
<1>4. ASSUME NEW p \in Forms, Announce(p) PROVE WatcherInv'
  BY <1>4 DEF Announce
<1>5. ASSUME NEW p \in Forms, ReadBack(p) PROVE WatcherInv'
  BY <1>5 DEF ReadBack
<1>6. ASSUME NEW p \in Forms, Cancel(p) PROVE WatcherInv'
  BY <1>6 DEF Cancel
<1>7. ASSUME NEW p \in Forms, SwapReply(p) PROVE WatcherInv'
  BY <1>7 DEF SwapReply
<1>8. ASSUME NEW p \in Pages, OpenPage(p) PROVE WatcherInv'
  BY <1>8 DEF OpenPage
<1>9. ASSUME NEW p \in Pages, Subscribe(p) PROVE WatcherInv'
  BY <1>9 DEF Subscribe
<1>10. ASSUME NEW p \in Pages, RecvEvent(p) PROVE WatcherInv'
  BY <1>10 DEF RecvEvent, Waiting
<1>11. ASSUME NEW p \in Pages, RecvLagged(p) PROVE WatcherInv'
  BY <1>11 DEF RecvLagged, Waiting, Retained
<1>12. ASSUME NEW p \in Pages, SendText(p) PROVE WatcherInv'
  BY <1>12 DEF SendText
<1>13. ASSUME NEW p \in Pages, RecordChanged(p) PROVE WatcherInv'
  BY <1>13 DEF RecordChanged
<1>14. ASSUME NEW p \in Pages, ServeFragment(p) PROVE WatcherInv'
  BY <1>14 DEF ServeFragment
<1>15. ASSUME NEW p \in Pages, SwapFragment(p) PROVE WatcherInv'
  BY <1>15 DEF SwapFragment
<1>16. ASSUME NEW p \in Pages, Disconnect(p) PROVE WatcherInv'
  BY <1>16 DEF Disconnect
<1>17. CASE UNCHANGED vars
  BY <1>17 DEF vars
<1> QED
  BY <1>1, <1>2, <1>3, <1>4, <1>5, <1>6, <1>7, <1>8, <1>9, <1>10, <1>11, <1>12,
     <1>13, <1>14, <1>15, <1>16, <1>17
  DEF Next, Form, Refresh

LEMMA WriterStep ==
  ASSUME TypeOK, QueuedBehind, ReplyInv, WriterInv, [Next]_vars
  PROVE  WriterInv'
<1> USE CapacityAssumption DEF TypeOK, QueuedBehind, ReplyInv, WriterInv, Alert,
      Reloading, Clients, channel, browser, server
<1>1. ASSUME NEW p \in Forms, Submit(p) PROVE WriterInv'
  BY <1>1 DEF Submit
<1>2. ASSUME NEW p \in Forms, SubmitBlank(p) PROVE WriterInv'
  BY <1>2 DEF SubmitBlank
<1>3. ASSUME NEW p \in Forms, Push(p) PROVE WriterInv'
  BY <1>3 DEF Push
<1>4. ASSUME NEW p \in Forms, Announce(p) PROVE WriterInv'
  BY <1>4 DEF Announce
<1>5. ASSUME NEW p \in Forms, ReadBack(p) PROVE WriterInv'
  BY <1>5 DEF ReadBack
<1>6. ASSUME NEW p \in Forms, Cancel(p) PROVE WriterInv'
  BY <1>6 DEF Cancel
<1>7. ASSUME NEW p \in Forms, SwapReply(p) PROVE WriterInv'
  BY <1>7 DEF SwapReply
<1>8. ASSUME NEW p \in Pages, OpenPage(p) PROVE WriterInv'
  BY <1>8 DEF OpenPage
<1>9. ASSUME NEW p \in Pages, Subscribe(p) PROVE WriterInv'
  BY <1>9 DEF Subscribe
<1>10. ASSUME NEW p \in Pages, RecvEvent(p) PROVE WriterInv'
  BY <1>10 DEF RecvEvent, Waiting
<1>11. ASSUME NEW p \in Pages, RecvLagged(p) PROVE WriterInv'
  BY <1>11 DEF RecvLagged, Waiting, Retained
<1>12. ASSUME NEW p \in Pages, SendText(p) PROVE WriterInv'
  BY <1>12 DEF SendText
<1>13. ASSUME NEW p \in Pages, RecordChanged(p) PROVE WriterInv'
  BY <1>13 DEF RecordChanged
<1>14. ASSUME NEW p \in Pages, ServeFragment(p) PROVE WriterInv'
  BY <1>14 DEF ServeFragment
<1>15. ASSUME NEW p \in Pages, SwapFragment(p) PROVE WriterInv'
  BY <1>15 DEF SwapFragment
<1>16. ASSUME NEW p \in Pages, Disconnect(p) PROVE WriterInv'
  BY <1>16 DEF Disconnect
<1>17. CASE UNCHANGED vars
  BY <1>17 DEF vars
<1> QED
  BY <1>1, <1>2, <1>3, <1>4, <1>5, <1>6, <1>7, <1>8, <1>9, <1>10, <1>11, <1>12,
     <1>13, <1>14, <1>15, <1>16, <1>17
  DEF Next, Form, Refresh

LEMMA InitIInv == Init => IInv
<1> SUFFICES ASSUME Init PROVE IInv
  OBVIOUS
<1>1. TypeOK
  BY InitTypes
<1>2. QueuedBehind /\ WatcherInv /\ WriterInv /\ ReplyInv
  BY DEF Init, QueuedBehind, WatcherInv, WriterInv, ReplyInv, Watchers, Clients
<1> QED BY <1>1, <1>2 DEF IInv

\* The inductive invariant holds in every state of every behaviour.
THEOREM Invariant == Spec => []IInv
<1>1. IInv /\ [Next]_vars => IInv'
  BY NextTypes, QueuedStep, ReplyStep, WatcherStep, WriterStep DEF IInv
<1> QED BY InitIInv, <1>1, PTL DEF Spec

-----------------------------------------------------------------------------
(* What the pages show.                                                    *)

\* WatchersConverge of LiveRecords, for every RingCapacity: ws_loop may ignore
\* RecvError::Lagged because the newest event is always still to come.
THEOREM Convergence == Spec => []WatchersConverge
<1>1. IInv => WatchersConverge
  <2> SUFFICES ASSUME IInv, NEW p \in Watchers, sock[p] = "live",
                      since[p] < items, ~ RefreshPending(p)
               PROVE  view[p] = items
    BY DEF WatchersConverge
  <2>1. get[p] = "idle" /\ ~ Reloading(p)
    BY DEF RefreshPending, Reloading, IInv, QueuedBehind, Watchers
  <2> QED BY <2>1 DEF IInv, WatcherInv
<1> QED BY <1>1, Invariant, PTL

\* OwnRecordIsShown of LiveRecords, for every number of concurrent forms: the
\* event of create_item repairs what an older reload may have overwritten.
THEOREM OwnRecord == Spec => []OwnRecordIsShown
<1>1. IInv => OwnRecordIsShown
  <2> SUFFICES ASSUME IInv, NEW p \in Forms \cap Pages, sock[p] = "live",
                      since[p] < mine[p], ~ RefreshPending(p)
               PROVE  view[p] = Alert \/ view[p] >= mine[p]
    BY DEF OwnRecordIsShown
  <2>1. get[p] = "idle" /\ ~ Reloading(p)
    BY DEF RefreshPending, Reloading, IInv, QueuedBehind
  <2> QED BY <2>1 DEF IInv, WriterInv
<1> QED BY <1>1, Invariant, PTL

-----------------------------------------------------------------------------
(* What a page does not do: go back.                                       *)

\* The response that a watching page is about to show is no older than the
\* list it shows.
Fresh ==
  \A p \in Watchers :
    /\ view[p] \in 0 .. items
    /\ get[p] = "answered" => snap[p] >= view[p]

\* A list that a watching page shows is never replaced by a shorter one: the
\* fragments of items_fragment arrive in the order of their snapshots.
NothingVanishes == \A p \in Watchers : view'[p] >= view[p]

LEMMA FreshStep ==
  ASSUME TypeOK, Fresh, [Next]_vars
  PROVE  Fresh' /\ NothingVanishes
<1> USE DEF server, channel, browser
<1>0. /\ Watchers \subseteq Clients
      /\ items \in Nat /\ view \in [Clients -> Alert .. items]
      /\ snap \in [Clients -> 0 .. items]
      /\ get \in [Clients -> {"idle", "asked", "answered"}]
  BY CapacityAssumption DEF TypeOK, Watchers, Clients
<1>v. \A p \in Watchers : view[p] \in Int /\ view[p] <= items /\ view[p] >= 0
  BY <1>0 DEF Fresh
<1>1. ASSUME items' \in Nat, items' >= items, UNCHANGED <<get, snap, view>>
      PROVE  Fresh' /\ NothingVanishes
  BY <1>0, <1>v, <1>1 DEF Fresh, NothingVanishes
<1>2. ASSUME NEW p \in Forms, Push(p) PROVE Fresh' /\ NothingVanishes
  BY <1>0, <1>1, <1>2 DEF Push
<1>3. ASSUME NEW p \in Forms, SwapReply(p) PROVE Fresh' /\ NothingVanishes
  <2>1. \A q \in Watchers : view'[q] = view[q]
    BY <1>0, <1>3 DEF SwapReply, Watchers
  <2> QED BY <1>0, <1>3, <1>v, <2>1 DEF SwapReply, Fresh, NothingVanishes
<1>4. ASSUME NEW p \in Pages, ServeFragment(p) PROVE Fresh' /\ NothingVanishes
  <2>1. /\ \A q \in Watchers : q # p => get'[q] = get[q] /\ snap'[q] = snap[q]
        /\ p \in Watchers => snap'[p] = items
        /\ UNCHANGED <<items, view>>
    BY <1>0, <1>4 DEF ServeFragment
  <2> QED BY <1>v, <2>1 DEF Fresh, NothingVanishes
<1>5. ASSUME NEW p \in Pages, SwapFragment(p) PROVE Fresh' /\ NothingVanishes
  <2>1. /\ \A q \in Watchers : q # p =>
             get'[q] = get[q] /\ snap'[q] = snap[q] /\ view'[q] = view[q]
        /\ p \in Watchers => view'[p] = snap[p] /\ get'[p] # "answered"
        /\ get[p] = "answered" /\ items' = items
    BY <1>0, <1>5 DEF SwapFragment
  <2>2. p \in Watchers => snap[p] \in 0 .. items /\ snap[p] >= view[p]
    BY <1>0, <2>1 DEF Fresh
  <2> QED BY <1>0, <1>v, <2>1, <2>2 DEF Fresh, NothingVanishes
<1>6. ASSUME NEW p \in Pages, OpenPage(p) \/ RecordChanged(p)
      PROVE  Fresh' /\ NothingVanishes
  <2>1. /\ \A q \in Watchers : get'[q] = "answered" => get[q] = "answered"
        /\ UNCHANGED <<items, snap, view>>
    BY <1>0, <1>6 DEF OpenPage, RecordChanged
  <2> QED BY <1>v, <2>1 DEF Fresh, NothingVanishes
<1>7. ASSUME UNCHANGED <<items, get, snap, view>> PROVE Fresh' /\ NothingVanishes
  BY <1>0, <1>1, <1>7
<1> QED
  BY <1>2, <1>3, <1>4, <1>5, <1>6, <1>7
  DEF Next, Form, Refresh, Submit, SubmitBlank, Announce, ReadBack, Cancel, Subscribe,
      RecvEvent, RecvLagged, SendText, Disconnect, vars

\* Reloads of a watching page do not overlap, and the list only grows: what a
\* page has shown stays, whatever is lost, lagged or merged on the way.
THEOREM Monotone == Spec => [][NothingVanishes]_vars
<1>1. Init => Fresh
  BY DEF Init, Fresh, Watchers, Clients
<1>2. TypeOK /\ Fresh /\ [Next]_vars => Fresh' /\ NothingVanishes
  BY FreshStep
<1> QED BY <1>1, <1>2, TypeCorrect, PTL DEF Spec
=============================================================================
