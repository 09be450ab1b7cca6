---------------------------- MODULE LiveRecords ----------------------------
(***************************************************************************)
(* The live record list: items_fragment, create_item and ws_loop of        *)
(* main.rs on the server, the broadcast channel between them, and the      *)
(* pages that layout() renders (external: htmx and its WebSocket           *)
(* extension, as the attributes of the page use them).                     *)
(*                                                                         *)
(* The list only grows, so a snapshot of it is its length.  The broadcast  *)
(* ring is a pair of positions: `tail`, the events sent so far, and a      *)
(* cursor per receiver; an event is retained while it is one of the        *)
(* RingCapacity last ones.  All events carry the same text.                *)
(***************************************************************************)
EXTENDS Integers

CONSTANTS
  Forms,          \* clients that post a form to /items
  Pages,          \* browsers that open the page; one in Forms uses its form
  RingCapacity,   \* broadcast::channel(256)
  WireCapacity,   \* messages a socket takes before sender.send waits
  MaxItems        \* bound: records created

ASSUME CapacityAssumption ==
  /\ RingCapacity \in Nat \ {0}
  /\ WireCapacity \in Nat \ {0}
  /\ MaxItems \in Nat

Clients == Forms \cup Pages
Watchers == Pages \ Forms

\* What #items shows when it does not show the list.
Alert == -1

VARIABLES
  items,     \* the records in AppState.items
  post,      \* post[p]: where create_item is with the form of p
  mine,      \* mine[p]: position of the last record pushed for p, 0 if none
  reply,     \* reply[p]: body of the form's response
  tail,      \* events sent on AppState.events
  sock,      \* sock[p]: "none", "handshake", or "live" once ws_loop has subscribed
  next,      \* next[p]: next event of the broadcast::Receiver of p
  since,     \* since[p]: records at the subscription (history)
  busy,      \* busy[p]: ws_loop holds an event it has not written yet
  wire,      \* wire[p]: messages written and not yet seen by the page
  get,       \* get[p]: the page's request for the fragment
  queued,    \* queued[p]: htmx runs one more request after this one
  snap,      \* snap[p]: body of the fragment's response
  view       \* view[p]: what #items shows

server == <<items, post, mine, reply>>
channel == <<tail, sock, next, since, busy, wire>>
browser == <<get, queued, snap, view>>
vars == <<server, channel, browser>>

TypeOK ==
  /\ items \in 0 .. MaxItems
  /\ post \in [Clients -> {"idle", "writing", "announcing", "reading", "replied"}]
  /\ mine \in [Clients -> 0 .. items]
  /\ reply \in [Clients -> Alert .. items]
  /\ tail \in Nat
  /\ sock \in [Clients -> {"none", "handshake", "live"}]
  /\ next \in [Clients -> 0 .. tail]
  /\ since \in [Clients -> 0 .. items]
  /\ busy \in [Clients -> BOOLEAN]
  /\ wire \in [Clients -> 0 .. WireCapacity]
  /\ get \in [Clients -> {"idle", "asked", "answered"}]
  /\ queued \in [Clients -> BOOLEAN]
  /\ snap \in [Clients -> 0 .. items]
  /\ view \in [Clients -> Alert .. items]

Init ==
  /\ items = 0
  /\ post = [p \in Clients |-> "idle"]
  /\ mine = [p \in Clients |-> 0]
  /\ reply = [p \in Clients |-> 0]
  /\ tail = 0
  /\ sock = [p \in Clients |-> "none"]
  /\ next = [p \in Clients |-> 0]
  /\ since = [p \in Clients |-> 0]
  /\ busy = [p \in Clients |-> FALSE]
  /\ wire = [p \in Clients |-> 0]
  /\ get = [p \in Clients |-> "idle"]
  /\ queued = [p \in Clients |-> FALSE]
  /\ snap = [p \in Clients |-> 0]
  /\ view = [p \in Clients |-> 0]

-----------------------------------------------------------------------------
(* create_item: the write lock, the broadcast, then the read lock.  There  *)
(* is no await between the push and the send, so the handler of a client   *)
(* that goes away is dropped before both or after both.                    *)

Submit(p) ==
  /\ post[p] = "idle"
  /\ post' = [post EXCEPT ![p] = "writing"]
  /\ UNCHANGED <<items, mine, reply, channel, browser>>

\* A title of white space passes `required` in the page and not trim() here.
SubmitBlank(p) ==
  /\ post[p] = "idle"
  /\ post' = [post EXCEPT ![p] = "replied"]
  /\ reply' = [reply EXCEPT ![p] = Alert]
  /\ UNCHANGED <<items, mine, channel, browser>>

Push(p) ==
  /\ post[p] = "writing"
  /\ items < MaxItems
  /\ items' = items + 1
  /\ mine' = [mine EXCEPT ![p] = items + 1]
  /\ post' = [post EXCEPT ![p] = "announcing"]
  /\ UNCHANGED <<reply, channel, browser>>

\* Mutant of Announce: the record is stored and nobody is told.
AnnounceNothing(p) ==
  /\ post[p] = "announcing"
  /\ post' = [post EXCEPT ![p] = "reading"]
  /\ UNCHANGED <<items, mine, reply, channel, browser>>

\* Sender::send stores nothing when there is no receiver; the error is ignored.
Announce(p) ==
  /\ post[p] = "announcing"
  /\ tail' = IF \E q \in Pages : sock[q] = "live" THEN tail + 1 ELSE tail
  /\ post' = [post EXCEPT ![p] = "reading"]
  /\ UNCHANGED <<items, mine, reply, sock, next, since, busy, wire, browser>>

ReadBack(p) ==
  /\ post[p] = "reading"
  /\ post' = [post EXCEPT ![p] = "replied"]
  /\ reply' = [reply EXCEPT ![p] = items]
  /\ UNCHANGED <<items, mine, channel, browser>>

Cancel(p) ==
  /\ post[p] \in {"writing", "reading", "replied"}
  /\ post' = [post EXCEPT ![p] = "idle"]
  /\ reply' = [reply EXCEPT ![p] = 0]
  /\ UNCHANGED <<items, mine, channel, browser>>

\* items_fragment for the request of p.
ServeFragment(p) ==
  /\ get[p] = "asked"
  /\ get' = [get EXCEPT ![p] = "answered"]
  /\ snap' = [snap EXCEPT ![p] = items]
  /\ UNCHANGED <<server, channel, queued, view>>

-----------------------------------------------------------------------------
(* ws_upgrade and ws_loop.                                                 *)

\* The upgrade callback runs after the handshake has been answered.
Subscribe(p) ==
  /\ sock[p] = "handshake"
  /\ sock' = [sock EXCEPT ![p] = "live"]
  /\ next' = [next EXCEPT ![p] = tail]
  /\ since' = [since EXCEPT ![p] = items]
  /\ UNCHANGED <<server, tail, busy, wire, browser>>

Waiting(p) == sock[p] = "live" /\ ~ busy[p] /\ next[p] < tail
Retained(p) == tail - next[p] <= RingCapacity

\* Mutant of RecvEvent: the event is taken and its text not sent.
RecvAndDrop(p) ==
  /\ Waiting(p) /\ Retained(p)
  /\ next' = [next EXCEPT ![p] = @ + 1]
  /\ UNCHANGED <<server, tail, sock, since, busy, wire, browser>>

RecvEvent(p) ==
  /\ Waiting(p) /\ Retained(p)
  /\ next' = [next EXCEPT ![p] = @ + 1]
  /\ busy' = [busy EXCEPT ![p] = TRUE]
  /\ UNCHANGED <<server, tail, sock, since, wire, browser>>

\* Mutant of RecvLagged: the cursor is moved past the newest event.
LaggedToTail(p) ==
  /\ Waiting(p) /\ ~ Retained(p)
  /\ next' = [next EXCEPT ![p] = tail]
  /\ UNCHANGED <<server, tail, sock, since, busy, wire, browser>>

\* RecvError::Lagged: the cursor is moved to the oldest retained event and
\* ws_loop goes on.
RecvLagged(p) ==
  /\ Waiting(p) /\ ~ Retained(p)
  /\ next' = [next EXCEPT ![p] = tail - RingCapacity]
  /\ UNCHANGED <<server, tail, sock, since, busy, wire, browser>>

\* Mutant of SendText: it does not wait for the socket.
SendUnbounded(p) ==
  /\ busy[p]
  /\ busy' = [busy EXCEPT ![p] = FALSE]
  /\ wire' = [wire EXCEPT ![p] = @ + 1]
  /\ UNCHANGED <<server, tail, sock, next, since, browser>>

SendText(p) ==
  /\ busy[p] /\ wire[p] < WireCapacity
  /\ busy' = [busy EXCEPT ![p] = FALSE]
  /\ wire' = [wire EXCEPT ![p] = @ + 1]
  /\ UNCHANGED <<server, tail, sock, next, since, browser>>

\* The connection is lost: ws_loop breaks, its receiver is dropped, and the
\* extension connects again.
Disconnect(p) ==
  /\ sock[p] = "live"
  /\ sock' = [sock EXCEPT ![p] = "handshake"]
  /\ busy' = [busy EXCEPT ![p] = FALSE]
  /\ wire' = [wire EXCEPT ![p] = 0]
  /\ next' = [next EXCEPT ![p] = 0]
  /\ since' = [since EXCEPT ![p] = 0]
  /\ UNCHANGED <<server, tail, browser>>

-----------------------------------------------------------------------------
(* The page (external).  Requests of the same element do not overlap: htmx *)
(* keeps the last one that came while another was running.                 *)

OpenPage(p) ==
  /\ sock[p] = "none"
  /\ sock' = [sock EXCEPT ![p] = "handshake"]
  /\ get' = [get EXCEPT ![p] = "asked"]
  /\ UNCHANGED <<server, tail, next, since, busy, wire, queued, snap, view>>

\* htmx:wsAfterMessage dispatches record-changed, which #items listens to.
RecordChanged(p) ==
  /\ wire[p] > 0
  /\ wire' = [wire EXCEPT ![p] = @ - 1]
  /\ \/ /\ get[p] = "idle"
        /\ get' = [get EXCEPT ![p] = "asked"]
        /\ UNCHANGED queued
     \/ /\ get[p] # "idle"
        /\ queued' = [queued EXCEPT ![p] = TRUE]
        /\ UNCHANGED get
  /\ UNCHANGED <<server, tail, sock, next, since, busy, snap, view>>

SwapFragment(p) ==
  /\ get[p] = "answered"
  /\ view' = [view EXCEPT ![p] = snap[p]]
  /\ get' = [get EXCEPT ![p] = IF queued[p] THEN "asked" ELSE "idle"]
  /\ queued' = [queued EXCEPT ![p] = FALSE]
  /\ snap' = [snap EXCEPT ![p] = 0]
  /\ UNCHANGED <<server, channel>>

\* hx-target="#items": the form's response replaces the list as well.
SwapReply(p) ==
  /\ post[p] = "replied" /\ sock[p] # "none"
  /\ view' = [view EXCEPT ![p] = reply[p]]
  /\ post' = [post EXCEPT ![p] = "idle"]
  /\ reply' = [reply EXCEPT ![p] = 0]
  /\ UNCHANGED <<items, mine, channel, get, queued, snap>>

-----------------------------------------------------------------------------

Form(p) ==
  \/ Submit(p) \/ SubmitBlank(p) \/ Push(p) \/ Announce(p) \/ ReadBack(p)
  \/ Cancel(p) \/ SwapReply(p)

\* What the server's runtime and the page owe an open page.
Refresh(p) ==
  \/ RecvEvent(p) \/ RecvLagged(p) \/ SendText(p) \/ RecordChanged(p)
  \/ ServeFragment(p) \/ SwapFragment(p)

Next ==
  \/ \E p \in Forms : Form(p)
  \/ \E p \in Pages : OpenPage(p) \/ Subscribe(p) \/ Refresh(p) \/ Disconnect(p)

Spec == Init /\ [][Next]_vars

(***************************************************************************)
(* tokio polls woken tasks, a page that is open handles its messages and   *)
(* responses, and no response is lost.  Nothing is assumed of the forms:   *)
(* only a handler that has pushed goes on, having no await to be dropped   *)
(* at.                                                                     *)
(***************************************************************************)
Fairness ==
  /\ \A p \in Forms : WF_vars(Announce(p))
  /\ \A p \in Pages :
       /\ WF_vars(RecvEvent(p) \/ RecvLagged(p) \/ SendText(p))
       /\ WF_vars(RecordChanged(p))
       /\ WF_vars(ServeFragment(p) \/ SwapFragment(p))

FairSpec == Spec /\ Fairness

-----------------------------------------------------------------------------
(* Properties.                                                             *)

\* A refresh of p is still under way somewhere between create_item and #items.
RefreshPending(p) ==
  \/ \E q \in Forms : post[q] = "announcing"
  \/ next[p] < tail \/ busy[p] \/ wire[p] > 0
  \/ get[p] # "idle"

(***************************************************************************)
(* WatchersConverge: once a record was created after the socket of a page  *)
(* was subscribed, the page at rest shows every record: the ring may       *)
(* overwrite events, ws_loop may ignore Lagged and htmx may merge          *)
(* requests, but the last event is always followed by a full reload.       *)
(***************************************************************************)
WatchersConverge ==
  \A p \in Watchers :
    sock[p] = "live" /\ since[p] < items /\ ~ RefreshPending(p) => view[p] = items

(***************************************************************************)
(* OwnRecordIsShown: a page at rest that created a record while its socket *)
(* was subscribed shows it (or the alert of a later blank title), although *)
(* the response of create_item and the one of an older reload may arrive   *)
(* in either order.                                                        *)
(***************************************************************************)
OwnRecordIsShown ==
  \A p \in Forms \cap Pages :
    sock[p] = "live" /\ since[p] < mine[p] /\ ~ RefreshPending(p)
      => view[p] = Alert \/ view[p] >= mine[p]

(***************************************************************************)
(* RecordReachesWatchers: a record created while the socket of a watching  *)
(* page is subscribed is eventually shown there, unless the connection     *)
(* breaks first.                                                           *)
(***************************************************************************)
RecordReachesWatchers ==
  \A p \in Watchers, n \in 1 .. MaxItems :
    (sock[p] = "live" /\ since[p] < n /\ n <= items)
      ~> (view[p] >= n \/ sock[p] # "live")

(***************************************************************************)
(* ConnectedPageIsCurrent: a page that is connected and at rest shows      *)
(* every record: "WebSocket connected changes will refresh the list."      *)
(* (main.rs, layout).  The page loads the list and subscribes in either    *)
(* order, and does not load it again when it connects.                     *)
(***************************************************************************)
ConnectedPageIsCurrent ==
  \A p \in Watchers :
    sock[p] = "live" /\ ~ RefreshPending(p) => view[p] = items
=============================================================================
