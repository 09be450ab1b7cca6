------------------------------ MODULE FnSocket ------------------------------
(***************************************************************************)
(* The Unix socket of an Oracle/Fn function: socket::bind, one system call *)
(* per step, by processes that may crash between any two of them and be    *)
(* started again on the same FN_LISTENER path.                             *)
(*                                                                         *)
(* The directory has two names.  `phony` is bound; `link`, the path that   *)
(* FN_LISTENER gives and that the Fn agent waits for, is a symbolic link   *)
(* to it.  A socket stays in the directory when its process ends.          *)
(*                                                                         *)
(* Somebody else may put a file at a free name (external).  The platform   *)
(* starts one function process at a time; `alone` records of which starts  *)
(* that was true.                                                          *)
(***************************************************************************)
CONSTANTS
  Instances,   \* process lives, each of which binds once
  Nobody

ASSUME NobodyAssumption == Nobody \notin Instances

Names == {"link", "phony"}

VARIABLES
  pc,        \* pc[i]: the next system call of i
  kind,      \* kind[n]: what the directory holds at n
  owner,     \* whose listener the socket at phony is
  public,    \* the socket at phony has mode 0666
  dropped,   \* names at which somebody put a file (history)
  latest,    \* the process that was started last (history)
  alone      \* alone[i]: no other start overlapped that of i (history)

directory == <<kind, owner, public>>
history == <<dropped, latest, alone>>
vars == <<pc, directory, history>>

\* The calls on each name, and what follows once the name is free.
StatCall == [link |-> "stat link", phony |-> "stat phony"]
RemoveCall == [link |-> "remove link", phony |-> "remove phony"]
Freed == [link |-> "stat phony", phony |-> "bind"]

Calls == {"stat link", "remove link", "stat phony", "remove phony", "bind",
          "chmod", "symlink"}

TypeOK ==
  /\ pc \in [Instances -> Calls \cup {"new", "serving", "failed", "dead"}]
  /\ kind \in [Names -> {"none", "file", "link", "socket"}]
  /\ kind["link"] # "socket" /\ kind["phony"] # "link"
  /\ owner \in Instances \cup {Nobody}
  /\ public \in BOOLEAN
  /\ dropped \subseteq Names
  /\ latest \in Instances \cup {Nobody}
  /\ alone \in [Instances -> BOOLEAN]

Init ==
  /\ pc = [i \in Instances |-> "new"]
  /\ kind = [n \in Names |-> "none"]
  /\ owner = Nobody
  /\ public = FALSE
  /\ dropped = {}
  /\ latest = Nobody
  /\ alone = [i \in Instances |-> TRUE]

Starting(i) == pc[i] \in Calls

\* The link leads to a listener of i that the agent may connect to.
Reached(i) ==
  /\ pc[i] = "serving"
  /\ kind["link"] = "link" /\ kind["phony"] = "socket"
  /\ owner = i /\ public

-----------------------------------------------------------------------------
(* run and bind.                                                           *)

Goto(i, call) == pc' = [pc EXCEPT ![i] = call]
Put(n, what) == kind' = [kind EXCEPT ![n] = what]

Start(i) ==
  /\ pc[i] = "new"
  /\ Goto(i, "stat link")
  /\ latest' = i
  /\ alone' = [j \in Instances |->
                 IF j = i THEN \A k \in Instances : ~ Starting(k)
                 ELSE alone[j] /\ ~ Starting(j)]
  /\ UNCHANGED <<directory, dropped>>

\* Mutant of Stat: whatever is in the way is replaced.
StatAnything(i, n) ==
  /\ pc[i] = StatCall[n]
  /\ Goto(i, IF kind[n] = "none" THEN Freed[n] ELSE RemoveCall[n])
  /\ UNCHANGED <<directory, history>>

\* Mutant of Stat: the socket of a process that crashed is left there.
StatLinkOnly(i, n) ==
  /\ pc[i] = StatCall[n]
  /\ Goto(i, CASE kind[n] = "file" -> "failed"
               [] kind[n] = "link" -> RemoveCall[n]
               [] OTHER -> Freed[n])
  /\ UNCHANGED <<directory, history>>

\* remove_previous_socket: nothing but a socket or a link may be replaced.
Stat(i, n) ==
  /\ pc[i] = StatCall[n]
  /\ Goto(i, CASE kind[n] = "file" -> "failed"
               [] kind[n] = "none" -> Freed[n]
               [] OTHER -> RemoveCall[n])
  /\ UNCHANGED <<directory, history>>

\* Mutant of Remove: it is left to the process that bound the socket.
RemoveByOwner(i, n) ==
  /\ pc[i] = RemoveCall[n]
  /\ kind[n] = "none"
  /\ Goto(i, Freed[n])
  /\ UNCHANGED <<directory, history>>

\* It removes what is there now, which need not be what was seen.
Remove(i, n) ==
  /\ pc[i] = RemoveCall[n]
  /\ IF kind[n] = "none"
     THEN Goto(i, "failed") /\ UNCHANGED kind
     ELSE Goto(i, Freed[n]) /\ Put(n, "none")
  /\ UNCHANGED <<owner, public, history>>

\* Mutant of Bind: the listener is bound at the path of FN_LISTENER itself.
BindInPlace(i) ==
  /\ pc[i] = "bind"
  /\ IF kind["link"] # "none"
     THEN Goto(i, "failed") /\ UNCHANGED directory
     ELSE /\ Goto(i, "chmod")
          /\ Put("link", "socket")
          /\ owner' = i
          /\ public' \in BOOLEAN
  /\ UNCHANGED history

\* The mode of a new socket depends on the umask.
Bind(i) ==
  /\ pc[i] = "bind"
  /\ IF kind["phony"] # "none"
     THEN Goto(i, "failed") /\ UNCHANGED directory
     ELSE /\ Goto(i, "chmod")
          /\ Put("phony", "socket")
          /\ owner' = i
          /\ public' \in BOOLEAN
  /\ UNCHANGED history

\* Mutant of Chmod: the mode is left to the umask.
ChmodNothing(i) ==
  /\ pc[i] = "chmod"
  /\ Goto(i, "symlink")
  /\ UNCHANGED <<directory, history>>

\* By name: on the socket of another process if it has replaced this one's.
Chmod(i) ==
  /\ pc[i] = "chmod"
  /\ IF kind["phony"] = "none"
     THEN Goto(i, "failed") /\ UNCHANGED public
     ELSE /\ Goto(i, "symlink")
          /\ public' = (public \/ kind["phony"] = "socket")
  /\ UNCHANGED <<kind, owner, history>>

Symlink(i) ==
  /\ pc[i] = "symlink"
  /\ IF kind["link"] # "none"
     THEN Goto(i, "failed") /\ UNCHANGED kind
     ELSE Goto(i, "serving") /\ Put("link", "link")
  /\ UNCHANGED <<owner, public, history>>

BindStep(i) ==
  (\E n \in Names : Stat(i, n) \/ Remove(i, n)) \/ Bind(i) \/ Chmod(i) \/ Symlink(i)

-----------------------------------------------------------------------------
(* The environment (external).                                             *)

\* The process is killed; the directory keeps what it has put there.
Crash(i) ==
  /\ Starting(i) \/ pc[i] = "serving"
  /\ Goto(i, "dead")
  /\ UNCHANGED <<directory, history>>

\* Once at each name, which bounds the run.
Drop(n) ==
  /\ kind[n] = "none" /\ n \notin dropped
  /\ Put(n, "file")
  /\ dropped' = dropped \cup {n}
  /\ UNCHANGED <<pc, owner, public, latest, alone>>

-----------------------------------------------------------------------------

Next ==
  \/ \E i \in Instances : Start(i) \/ BindStep(i) \/ Crash(i)
  \/ \E n \in Names : Drop(n)

Spec == Init /\ [][Next]_vars

\* A process that is not killed makes its next system call.
FairSpec == Spec /\ \A i \in Instances : WF_vars(BindStep(i))

-----------------------------------------------------------------------------
(* Properties.                                                             *)

Orderly == \A i \in Instances : alone[i]

(***************************************************************************)
(* VisibleIsReady: the agent waits for the link and then connects, so the  *)
(* link must never be there before the socket it leads to is bound and may *)
(* be connected to, nor outlive it, whenever processes crash.              *)
(***************************************************************************)
VisibleIsReady ==
  Orderly /\ kind["link"] = "link" => kind["phony"] = "socket" /\ public

(***************************************************************************)
(* FilesAreKept: bind looks at a name and removes what is there in two     *)
(* calls; a file that somebody else put there is not removed all the same, *)
(* "refusing to replace a non-socket FN_LISTENER path".                    *)
(***************************************************************************)
FilesAreKept == Orderly => \A n \in dropped : kind[n] = "file"

(***************************************************************************)
(* LeftoversAreNoObstacle: whatever earlier processes left behind, and     *)
(* even if their starts overlapped, a start that overlaps no other fails   *)
(* only for a file that is in the way, and otherwise ends with the link    *)
(* leading to its own listener, until the next start.                      *)
(***************************************************************************)
LeftoversAreNoObstacle ==
  \A i \in Instances : alone[i] =>
    /\ pc[i] = "failed" => dropped # {}
    /\ i = latest /\ pc[i] = "serving" => Reached(i)

(***************************************************************************)
(* RestartRecovers: a process that is started on the leftovers of others   *)
(* and neither killed, nor disturbed, nor blocked by a file gets to serve. *)
(***************************************************************************)
RestartRecovers ==
  \A i \in Instances :
    Starting(i) ~> \/ Reached(i) \/ pc[i] = "dead"
                   \/ latest # i \/ ~ alone[i] \/ dropped # {}
=============================================================================
