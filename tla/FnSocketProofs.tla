--------------------------- MODULE FnSocketProofs ---------------------------
(***************************************************************************)
(* FnSocket for any number of process lives and any crashes: the link is   *)
(* never seen before its socket is ready, files of others are kept, and    *)
(* what earlier processes left is no obstacle.                             *)
(*                                                                         *)
(* What is inductive is what a start that overlaps no other knows at each  *)
(* of its system calls about the two names, since it alone changes them,   *)
(* apart from files that appear where it has freed a name.                 *)
(*                                                                         *)
(* The last section counts the system calls of a start.                    *)
(***************************************************************************)
EXTENDS FnSocket, Naturals, TLAPS

\* A lone start under way is the latest one; after a lone start, and until the
\* next, no other is under way.
Solitude ==
  \A i \in Instances :
    /\ pc[i] = "new" => alone[i]
    /\ alone[i] /\ Starting(i) => latest = i
    /\ alone[i] /\ latest = i => \A j \in Instances : Starting(j) => j = i

\* Only drops make files.
Origin == \A n \in Names : kind[n] = "file" => n \in dropped

Free(n) == kind[n] \in {"none", "file"}
Taken(n) == kind[n] \in {"link", "socket"}

\* What a lone start knows at each call.
Progress ==
  \A i \in Instances : alone[i] =>
    /\ pc[i] = "remove link" => Taken("link")
    /\ pc[i] \in {"stat phony", "remove phony", "bind", "chmod", "symlink"}
         => Free("link")
    /\ pc[i] = "remove phony" => Taken("phony")
    /\ pc[i] = "bind" => Free("phony")
    /\ pc[i] \in {"chmod", "symlink"} => kind["phony"] = "socket" /\ owner = i
    /\ pc[i] = "symlink" => public

IInv ==
  /\ TypeOK /\ Solitude /\ Origin /\ Progress
  /\ VisibleIsReady /\ FilesAreKept /\ LeftoversAreNoObstacle

-----------------------------------------------------------------------------

LEMMA Initially == Init => IInv
BY NobodyAssumption
   DEF Init, IInv, TypeOK, Solitude, Origin, Progress, VisibleIsReady, FilesAreKept,
       LeftoversAreNoObstacle, Orderly, Starting, Calls, Names, Reached

\* A new start makes every start under way a disturbed one.
LEMMA StartKeeps ==
  ASSUME IInv, NEW i \in Instances, Start(i)
  PROVE  IInv'
<1> USE DEF Start, Goto, directory
<1>1. TypeOK'
  BY DEF IInv, TypeOK, Calls
<1>2. \A j \in Instances : j # i => (Starting(j)' <=> Starting(j)) /\ pc'[j] = pc[j]
  BY DEF IInv, TypeOK, Starting
<1>3. \A j \in Instances : alone'[j] =>
        \/ j = i /\ \A k \in Instances : ~ Starting(k)
        \/ j # i /\ alone[j] /\ ~ Starting(j)
  BY DEF IInv, TypeOK
<1>4. pc'[i] = "stat link" /\ latest' = i
  BY DEF IInv, TypeOK
<1>5. Solitude'
  <2> SUFFICES ASSUME NEW j \in Instances
               PROVE  /\ pc'[j] = "new" => alone'[j]
                      /\ alone'[j] /\ Starting(j)' => latest' = j
                      /\ alone'[j] /\ latest' = j =>
                           \A k \in Instances : Starting(k)' => k = j
    BY DEF Solitude
  <2>1. pc'[j] = "new" => alone'[j]
    BY <1>2, <1>4 DEF IInv, TypeOK, Solitude, Starting, Calls
  <2>2. alone'[j] /\ Starting(j)' => latest' = j
    BY <1>2, <1>3, <1>4
  <2>3. alone'[j] /\ latest' = j => \A k \in Instances : Starting(k)' => k = j
    BY <1>2, <1>3, <1>4
  <2> QED
    BY <2>1, <2>2, <2>3
<1>6. Origin'
  BY DEF IInv, Origin
<1>7. Progress'
  BY <1>2, <1>3, <1>4 DEF Progress, Starting, Calls, Free, Taken
<1>8. Orderly' => Orderly
  BY <1>3 DEF IInv, Solitude, Orderly
<1>9. VisibleIsReady' /\ FilesAreKept'
  BY <1>8 DEF IInv, VisibleIsReady, FilesAreKept
<1>10. LeftoversAreNoObstacle'
  BY <1>2, <1>3, <1>4 DEF IInv, LeftoversAreNoObstacle
<1> QED
  BY <1>1, <1>5, <1>6, <1>7, <1>9, <1>10 DEF IInv

\* One step of bind by a process: what a step shows when it changes pc[i] only
\* within the start of i.
LEMMA StepKeepsSolitude ==
  ASSUME IInv, NEW i \in Instances, Starting(i), UNCHANGED <<latest, alone>>,
         NEW next, Goto(i, next), next # "new"
  PROVE  Solitude'
<1>1. \A j \in Instances : Starting(j)' => Starting(j)
  BY DEF IInv, TypeOK, Goto, Starting
<1>2. \A j \in Instances : pc'[j] = "new" => pc[j] = "new"
  BY DEF IInv, TypeOK, Goto
<1> QED
  BY <1>1, <1>2 DEF IInv, Solitude

\* While i binds, no other process is a lone start under way, or the latest and
\* lone.
LEMMA Bystanders ==
  ASSUME IInv, NEW i \in Instances, Starting(i),
         NEW j \in Instances, j # i, alone[j]
  PROVE  ~ Starting(j) /\ latest # j
BY DEF IInv, Solitude

\* The calls on a name, spelt out.
LEMMA CallsOn ==
  /\ StatCall["link"] = "stat link" /\ StatCall["phony"] = "stat phony"
  /\ RemoveCall["link"] = "remove link" /\ RemoveCall["phony"] = "remove phony"
  /\ Freed["link"] = "stat phony" /\ Freed["phony"] = "bind"
BY DEF StatCall, RemoveCall, Freed

LEMMA StatKeeps ==
  ASSUME IInv, NEW i \in Instances, NEW n \in Names, Stat(i, n)
  PROVE  IInv'
<1>1. PICK next :
        /\ Goto(i, next)
        /\ \/ kind[n] = "file" /\ next = "failed"
           \/ kind[n] = "none" /\ next = Freed[n]
           \/ Taken(n) /\ next = RemoveCall[n]
  <2>1. kind[n] \in {"none", "file", "link", "socket"}
    BY DEF IInv, TypeOK
  <2>2. CASE kind[n] = "file"
    <3>1. Goto(i, "failed")
      BY <2>2 DEF Stat
    <3> QED BY <2>2, <3>1
  <2>3. CASE kind[n] = "none"
    <3>1. Goto(i, Freed[n])
      BY <2>3 DEF Stat
    <3> QED BY <2>3, <3>1
  <2>4. CASE kind[n] \in {"link", "socket"}
    <3>1. Goto(i, RemoveCall[n])
      BY <2>4 DEF Stat
    <3> QED BY <2>4, <3>1 DEF Taken
  <2> QED
    BY <2>1, <2>2, <2>3, <2>4
<1>2. \/ n = "link" /\ pc[i] = "stat link"
         /\ next \in {"failed", "stat phony", "remove link"}
      \/ n = "phony" /\ pc[i] = "stat phony"
         /\ next \in {"failed", "bind", "remove phony"}
  BY <1>1, CallsOn DEF Stat, Names
<1>3. UNCHANGED <<kind, owner, public, dropped, latest, alone>>
  BY DEF Stat, directory, history
<1>4. next \in Calls \cup {"failed"} /\ Starting(i)
  BY <1>2 DEF Calls, Starting
<1>5. pc' = [pc EXCEPT ![i] = next]
  BY <1>1 DEF Goto
<1>6. TypeOK'
  BY <1>3, <1>4, <1>5 DEF IInv, TypeOK
<1>7. Solitude'
  BY <1>1, <1>3, <1>4, StepKeepsSolitude DEF Calls
<1>8. Origin' /\ VisibleIsReady' /\ FilesAreKept'
  BY <1>3 DEF IInv, Origin, VisibleIsReady, FilesAreKept, Orderly
<1>9. Progress'
  BY <1>1, <1>2, <1>3, <1>5, CallsOn DEF IInv, TypeOK, Progress, Free, Taken
<1>10. LeftoversAreNoObstacle'
  <2>1. next = "failed" => dropped # {}
    BY <1>1, <1>2, CallsOn DEF IInv, Origin
  <2> QED
    BY <1>3, <1>4, <1>5, <2>1 DEF IInv, TypeOK, LeftoversAreNoObstacle, Reached, Calls
<1> QED
  BY <1>6, <1>7, <1>8, <1>9, <1>10 DEF IInv

LEMMA RemoveKeeps ==
  ASSUME IInv, NEW i \in Instances, NEW n \in Names, Remove(i, n)
  PROVE  IInv'
<1>1. PICK next :
        /\ pc' = [pc EXCEPT ![i] = next]
        /\ \/ kind[n] = "none" /\ next = "failed" /\ kind' = kind
           \/ kind[n] # "none" /\ next = Freed[n] /\ kind' = [kind EXCEPT ![n] = "none"]
  BY DEF Remove, Goto, Put
<1>2. /\ pc[i] = RemoveCall[n]
      /\ UNCHANGED <<owner, public, dropped, latest, alone>>
  BY DEF Remove, history
<1>3. \/ n = "link" /\ pc[i] = "remove link" /\ next \in {"failed", "stat phony"}
      \/ n = "phony" /\ pc[i] = "remove phony" /\ next \in {"failed", "bind"}
  BY <1>1, <1>2, CallsOn DEF Names
<1>4. next \in Calls \cup {"failed"} /\ Starting(i)
  BY <1>3 DEF Calls, Starting
<1>5. TypeOK'
  <2>1. \/ kind' = kind
        \/ kind' = [kind EXCEPT ![n] = "none"]
    BY <1>1
  <2>2. "link" \in Names /\ "phony" \in Names
    BY DEF Names
  <2>3. /\ kind' \in [Names -> {"none", "file", "link", "socket"}]
        /\ kind'["link"] # "socket" /\ kind'["phony"] # "link"
    BY <2>1, <2>2 DEF IInv, TypeOK
  <2>4. pc' \in [Instances -> Calls \cup {"new", "serving", "failed", "dead"}]
    BY <1>1, <1>4 DEF IInv, TypeOK
  <2> QED BY <1>2, <2>3, <2>4 DEF IInv, TypeOK
<1>6. Solitude'
  BY <1>1, <1>2, <1>4, StepKeepsSolitude DEF Calls, Goto
<1>7. Origin'
  BY <1>1, <1>2 DEF IInv, TypeOK, Origin
<1>8. ASSUME alone[i]
      PROVE  /\ Taken(n) /\ next = Freed[n] /\ kind' = [kind EXCEPT ![n] = "none"]
             /\ n = "phony" => Free("link")
             /\ latest = i /\ \A j \in Instances : j # i => ~ Starting(j)
  BY <1>1, <1>3, <1>4, <1>8 DEF IInv, Progress, Taken, Solitude
<1>9. VisibleIsReady' /\ FilesAreKept'
  <2> SUFFICES ASSUME Orderly'
               PROVE  /\ kind'["link"] = "link" => kind'["phony"] = "socket" /\ public'
                      /\ \A m \in dropped' : kind'[m] = "file"
    BY DEF VisibleIsReady, FilesAreKept
  <2>1. Orderly /\ alone[i]
    BY <1>2 DEF Orderly
  <2>2. kind'["link"] = "link" => kind'["phony"] = "socket" /\ public'
    BY <1>2, <1>3, <1>8, <2>1 DEF IInv, TypeOK, VisibleIsReady, Free, Names
  <2>3. \A m \in dropped' : kind'[m] = "file"
    BY <1>2, <1>8, <2>1 DEF IInv, TypeOK, FilesAreKept, Taken
  <2> QED
    BY <2>2, <2>3
<1>10. Progress'
  <2> SUFFICES ASSUME NEW j \in Instances, alone'[j], Starting(j)'
               PROVE  /\ pc'[j] = "remove link" => Taken("link")'
                      /\ pc'[j] \in {"stat phony", "remove phony", "bind", "chmod",
                                     "symlink"} => Free("link")'
                      /\ pc'[j] = "remove phony" => Taken("phony")'
                      /\ pc'[j] = "bind" => Free("phony")'
                      /\ pc'[j] \in {"chmod", "symlink"} =>
                           kind'["phony"] = "socket" /\ owner' = j
                      /\ pc'[j] = "symlink" => public'
    BY DEF Progress, Starting, Calls
  <2>1. j = i
    BY <1>1, <1>2, <1>4 DEF IInv, TypeOK, Solitude, Starting
  <2>2. alone[i]
    BY <1>2, <2>1
  <2> QED
    BY <1>1, <1>2, <1>3, <1>8, <2>1, <2>2, CallsOn DEF IInv, TypeOK, Free, Taken, Names
<1>11. LeftoversAreNoObstacle'
  <2> SUFFICES ASSUME NEW j \in Instances, alone'[j]
               PROVE  /\ pc'[j] = "failed" => dropped' # {}
                      /\ j = latest' /\ pc'[j] = "serving" => Reached(j)'
    BY DEF LeftoversAreNoObstacle
  <2>1. CASE j = i
    BY <1>1, <1>2, <1>3, <1>8, <2>1, CallsOn DEF IInv, TypeOK
  <2>2. CASE j # i
    <3>1. pc'[j] = pc[j] /\ alone[j]
      BY <1>1, <1>2, <2>2 DEF IInv, TypeOK
    <3>2. pc[j] = "failed" => dropped' # {}
      BY <1>2, <3>1 DEF IInv, LeftoversAreNoObstacle
    <3>3. latest # j
      BY <1>4, <2>2, <3>1, Bystanders
    <3> QED
      BY <1>2, <3>1, <3>2, <3>3
  <2> QED
    BY <2>1, <2>2
<1> QED
  BY <1>5, <1>6, <1>7, <1>9, <1>10, <1>11 DEF IInv

\* A call of i, in a lone start of i or not, leaves what the others know.
LEMMA OthersKeep ==
  ASSUME IInv, NEW i \in Instances, Starting(i), UNCHANGED <<dropped, latest, alone>>,
         NEW next, pc' = [pc EXCEPT ![i] = next],
         NEW j \in Instances, j # i, alone'[j]
  PROVE  /\ ~ Starting(j)' /\ pc'[j] = pc[j]
         /\ pc'[j] = "failed" => dropped' # {}
         /\ ~ (j = latest' /\ pc'[j] = "serving")
<1>1. pc'[j] = pc[j] /\ alone[j]
  BY DEF IInv, TypeOK
<1> QED
  BY <1>1, Bystanders DEF IInv, LeftoversAreNoObstacle, Starting

LEMMA BindKeeps ==
  ASSUME IInv, NEW i \in Instances, Bind(i)
  PROVE  IInv'
<1>1. PICK next :
        /\ pc' = [pc EXCEPT ![i] = next]
        /\ \/ /\ kind["phony"] # "none" /\ next = "failed"
              /\ UNCHANGED <<kind, owner, public>>
           \/ /\ kind["phony"] = "none" /\ next = "chmod"
              /\ kind' = [kind EXCEPT !["phony"] = "socket"]
              /\ owner' = i /\ public' \in BOOLEAN
  BY DEF Bind, Goto, Put, directory
<1>2. pc[i] = "bind" /\ Starting(i) /\ UNCHANGED <<dropped, latest, alone>>
  BY DEF Bind, history, Starting, Calls
<1>3. TypeOK'
  BY <1>1, <1>2 DEF IInv, TypeOK, Names, Calls
<1>4. Solitude'
  BY <1>1, <1>2, StepKeepsSolitude DEF Goto
<1>5. Origin'
  BY <1>1, <1>2 DEF IInv, TypeOK, Origin
<1>6. alone[i] => Free("link") /\ Free("phony") /\ latest = i
  BY <1>2 DEF IInv, Progress, Solitude
<1>7. VisibleIsReady' /\ FilesAreKept'
  <2>1. Orderly' => Orderly /\ alone[i]
    BY <1>2 DEF Orderly
  <2> QED
    BY <1>1, <1>2, <1>6, <2>1
       DEF IInv, TypeOK, VisibleIsReady, FilesAreKept, Free, Names
<1>8. Progress'
  <2> SUFFICES ASSUME NEW j \in Instances, alone'[j], Starting(j)'
               PROVE  /\ pc'[j] = "chmod" /\ Free("link")'
                      /\ kind'["phony"] = "socket" /\ owner' = j
    BY DEF Progress, Starting, Calls
  <2>1. j = i
    BY <1>1, <1>2, OthersKeep
  <2> QED
    BY <1>1, <1>2, <1>6, <2>1 DEF IInv, TypeOK, Free, Names, Starting, Calls
<1>9. LeftoversAreNoObstacle'
  <2>1. alone'[i] => (pc'[i] = "failed" => dropped' # {}) /\ pc'[i] # "serving"
    BY <1>1, <1>2, <1>6 DEF IInv, TypeOK, Origin, Free, Names
  <2> QED
    BY <1>1, <1>2, <2>1, OthersKeep DEF LeftoversAreNoObstacle
<1> QED
  BY <1>3, <1>4, <1>5, <1>7, <1>8, <1>9 DEF IInv

LEMMA ChmodKeeps ==
  ASSUME IInv, NEW i \in Instances, Chmod(i)
  PROVE  IInv'
<1>1. PICK next :
        /\ pc' = [pc EXCEPT ![i] = next]
        /\ \/ kind["phony"] = "none" /\ next = "failed" /\ public' = public
           \/ /\ kind["phony"] # "none" /\ next = "symlink"
              /\ public' = (public \/ kind["phony"] = "socket")
  BY DEF Chmod, Goto
<1>2. /\ pc[i] = "chmod" /\ Starting(i)
      /\ UNCHANGED <<kind, owner, dropped, latest, alone>>
  BY DEF Chmod, history, Starting, Calls
<1>3. public' \in BOOLEAN /\ (public => public')
      /\ (kind["phony"] = "socket" => public')
  BY <1>1, Zenon DEF IInv, TypeOK
<1>4. TypeOK'
  BY <1>1, <1>2, <1>3 DEF IInv, TypeOK, Calls
<1>5. Solitude'
  BY <1>1, <1>2, StepKeepsSolitude DEF Goto
<1>6. Origin'
  BY <1>2 DEF IInv, Origin
<1>7. VisibleIsReady' /\ FilesAreKept'
  BY <1>2, <1>3 DEF IInv, VisibleIsReady, FilesAreKept, Orderly
<1>8. alone[i] => Free("link") /\ kind["phony"] = "socket" /\ owner = i /\ latest = i
  BY <1>2 DEF IInv, Progress, Solitude
<1>9. Progress'
  <2> SUFFICES ASSUME NEW j \in Instances, alone'[j], Starting(j)'
               PROVE  /\ pc'[j] = "symlink" /\ Free("link")'
                      /\ kind'["phony"] = "socket" /\ owner' = j /\ public'
    BY DEF Progress, Starting, Calls
  <2>1. j = i
    BY <1>1, <1>2, OthersKeep
  <2> QED
    BY <1>1, <1>2, <1>3, <1>8, <2>1 DEF IInv, TypeOK, Free, Starting, Calls
<1>10. LeftoversAreNoObstacle'
  <2>1. alone'[i] => pc'[i] = "symlink"
    BY <1>1, <1>2, <1>8 DEF IInv, TypeOK
  <2> QED
    BY <1>1, <1>2, <2>1, OthersKeep DEF LeftoversAreNoObstacle
<1> QED
  BY <1>4, <1>5, <1>6, <1>7, <1>9, <1>10 DEF IInv

LEMMA SymlinkKeeps ==
  ASSUME IInv, NEW i \in Instances, Symlink(i)
  PROVE  IInv'
<1>1. PICK next :
        /\ pc' = [pc EXCEPT ![i] = next]
        /\ \/ kind["link"] # "none" /\ next = "failed" /\ kind' = kind
           \/ /\ kind["link"] = "none" /\ next = "serving"
              /\ kind' = [kind EXCEPT !["link"] = "link"]
  BY DEF Symlink, Goto, Put
<1>2. /\ pc[i] = "symlink" /\ Starting(i)
      /\ UNCHANGED <<owner, public, dropped, latest, alone>>
  BY DEF Symlink, history, Starting, Calls
<1>3. TypeOK'
  BY <1>1, <1>2 DEF IInv, TypeOK, Names
<1>4. Solitude'
  BY <1>1, <1>2, StepKeepsSolitude DEF Goto
<1>5. Origin'
  BY <1>1, <1>2 DEF IInv, TypeOK, Origin
<1>6. alone[i] => /\ Free("link") /\ kind["phony"] = "socket"
                  /\ owner = i /\ public
  BY <1>2 DEF IInv, Progress
<1>7. VisibleIsReady' /\ FilesAreKept'
  <2>1. Orderly' => Orderly /\ alone[i]
    BY <1>2 DEF Orderly
  <2> QED
    BY <1>1, <1>2, <1>6, <2>1
       DEF IInv, TypeOK, VisibleIsReady, FilesAreKept, Free, Names
<1>8. \A j \in Instances : alone'[j] => ~ Starting(j)'
  BY <1>1, <1>2, OthersKeep DEF IInv, TypeOK, Starting, Calls
<1>9. Progress'
  BY <1>8 DEF Progress, Starting, Calls
<1>10. LeftoversAreNoObstacle'
  <2>1. alone'[i] => /\ pc'[i] = "failed" => dropped' # {}
                     /\ pc'[i] = "serving" => Reached(i)'
    BY <1>1, <1>2, <1>6 DEF IInv, TypeOK, Origin, Free, Names, Reached
  <2> QED
    BY <1>1, <1>2, <2>1, OthersKeep DEF LeftoversAreNoObstacle
<1> QED
  BY <1>3, <1>4, <1>5, <1>7, <1>9, <1>10 DEF IInv

LEMMA CrashKeeps ==
  ASSUME IInv, NEW i \in Instances, Crash(i)
  PROVE  IInv'
<1>1. /\ pc' = [pc EXCEPT ![i] = "dead"]
      /\ UNCHANGED <<kind, owner, public, dropped, latest, alone>>
      /\ pc[i] # "new"
  BY DEF Crash, Goto, directory, history, Starting, Calls
<1>2. \A j \in Instances : pc'[j] # "dead" => pc'[j] = pc[j]
  BY <1>1 DEF IInv, TypeOK
<1>3. TypeOK'
  BY <1>1 DEF IInv, TypeOK
<1>4. Solitude'
  BY <1>1, <1>2 DEF IInv, Solitude, Starting, Calls
<1>5. Origin' /\ VisibleIsReady' /\ FilesAreKept'
  BY <1>1 DEF IInv, Origin, VisibleIsReady, FilesAreKept, Orderly
<1>6. Progress'
  BY <1>1, <1>2 DEF IInv, Progress, Free, Taken
<1>7. LeftoversAreNoObstacle'
  BY <1>1, <1>2 DEF IInv, LeftoversAreNoObstacle, Reached
<1> QED
  BY <1>3, <1>4, <1>5, <1>6, <1>7 DEF IInv

LEMMA DropKeeps ==
  ASSUME IInv, NEW n \in Names, Drop(n)
  PROVE  IInv'
<1>1. /\ kind[n] = "none" /\ kind' = [kind EXCEPT ![n] = "file"]
      /\ dropped' = dropped \cup {n}
      /\ UNCHANGED <<pc, owner, public, latest, alone>>
  BY DEF Drop, Put
<1>2. /\ kind'[n] = "file"
      /\ \A m \in Names : m # n => kind'[m] = kind[m]
  BY <1>1 DEF IInv, TypeOK
<1>3. TypeOK' /\ Origin'
  BY <1>1, <1>2 DEF IInv, TypeOK, Origin
<1>4. Solitude'
  BY <1>1 DEF IInv, Solitude, Starting
<1>5. VisibleIsReady' /\ FilesAreKept'
  BY <1>1, <1>2 DEF IInv, TypeOK, VisibleIsReady, FilesAreKept, Orderly, Names
<1>6. Progress'
  BY <1>1, <1>2 DEF IInv, Progress, Free, Taken, Names
<1>7. LeftoversAreNoObstacle'
  BY <1>1, <1>2 DEF IInv, LeftoversAreNoObstacle, Reached, Names
<1> QED
  BY <1>3, <1>4, <1>5, <1>6, <1>7 DEF IInv

-----------------------------------------------------------------------------

LEMMA Inductive == IInv /\ [Next]_vars => IInv'
<1> SUFFICES ASSUME IInv, [Next]_vars PROVE IInv'
  OBVIOUS
<1>1. ASSUME NEW i \in Instances, Start(i) PROVE IInv'
  BY <1>1, StartKeeps
<1>2. ASSUME NEW i \in Instances, BindStep(i) PROVE IInv'
  BY <1>2, StatKeeps, RemoveKeeps, BindKeeps, ChmodKeeps, SymlinkKeeps DEF BindStep
<1>3. ASSUME NEW i \in Instances, Crash(i) PROVE IInv'
  BY <1>3, CrashKeeps
<1>4. ASSUME NEW n \in Names, Drop(n) PROVE IInv'
  BY <1>4, DropKeeps
<1>5. CASE UNCHANGED vars
  BY <1>5 DEF vars, directory, history, IInv, TypeOK, Solitude, Origin, Progress,
       VisibleIsReady, FilesAreKept, LeftoversAreNoObstacle, Orderly, Starting,
       Free, Taken, Reached
<1> QED
  BY <1>1, <1>2, <1>3, <1>4, <1>5 DEF Next

\* The inductive invariant: each lone start knows what is at the two names.
THEOREM Invariant == Spec => []IInv
BY Initially, Inductive, PTL DEF Spec

\* The state of the model is of its type in every behaviour.
THEOREM TypeCorrect == Spec => []TypeOK
<1>1. IInv => TypeOK
  BY DEF IInv
<1> QED
  BY <1>1, Invariant, PTL

\* An agent that sees the link may connect to a socket (socket::bind's order).
THEOREM Readiness == Spec => []VisibleIsReady
<1>1. IInv => VisibleIsReady
  BY DEF IInv
<1> QED
  BY <1>1, Invariant, PTL

\* remove_previous_socket never removes a file of somebody else.
THEOREM Restraint == Spec => []FilesAreKept
<1>1. IInv => FilesAreKept
  BY DEF IInv
<1> QED
  BY <1>1, Invariant, PTL

\* Crashes leave nothing that makes a later bind fail or miss its listener.
THEOREM Recovery == Spec => []LeftoversAreNoObstacle
<1>1. IInv => LeftoversAreNoObstacle
  BY DEF IInv
<1> QED
  BY <1>1, Invariant, PTL

-----------------------------------------------------------------------------
(* What RestartRecovers rests on: bind has only so many system calls.      *)

\* How many steps are ahead of a process.
Left(call) == CASE call = "new"           -> 9
                [] call = "stat link"     -> 8
                [] call = "remove link"   -> 7
                [] call = "stat phony"    -> 6
                [] call = "remove phony"  -> 5
                [] call = "bind"          -> 4
                [] call = "chmod"         -> 3
                [] call = "symlink"       -> 2
                [] call = "serving"       -> 1
                [] call \in {"failed", "dead"} -> 0

\* bind and remove_previous_socket retry nothing: each call leaves fewer to
\* make, whatever the others do to the directory meanwhile.
OnlyForward ==
  \A i \in Instances :
    /\ pc'[i] = pc[i] \/ Left(pc'[i]) < Left(pc[i])
    /\ BindStep(i) => Left(pc'[i]) < Left(pc[i])

LEMMA LeftValues ==
  /\ Left("new") = 9 /\ Left("stat link") = 8 /\ Left("remove link") = 7
  /\ Left("stat phony") = 6 /\ Left("remove phony") = 5 /\ Left("bind") = 4
  /\ Left("chmod") = 3 /\ Left("symlink") = 2 /\ Left("serving") = 1
  /\ Left("failed") = 0 /\ Left("dead") = 0
BY DEF Left

\* Each call has fewer left than those that may precede it.
LEMMA LeftFalls ==
  /\ Left("stat link") < Left("new")
  /\ Left("remove link") < Left("stat link") /\ Left("stat phony") < Left("stat link")
  /\ Left("stat phony") < Left("remove link")
  /\ Left("remove phony") < Left("stat phony") /\ Left("bind") < Left("stat phony")
  /\ Left("bind") < Left("remove phony")
  /\ Left("chmod") < Left("bind") /\ Left("symlink") < Left("chmod")
  /\ Left("serving") < Left("symlink")
  /\ \A call \in Calls \cup {"serving"} :
       Left("failed") < Left(call) /\ Left("dead") < Left(call)
<1>1. /\ 8 < 9 /\ 7 < 8 /\ 6 < 8 /\ 6 < 7 /\ 5 < 6 /\ 4 < 6 /\ 4 < 5 /\ 3 < 4
      /\ 2 < 3 /\ 1 < 2
  OBVIOUS
<1>2. \A k \in {1, 2, 3, 4, 5, 6, 7, 8} : 0 < k
  OBVIOUS
<1>3. \A call \in Calls \cup {"serving"} : Left(call) \in {1, 2, 3, 4, 5, 6, 7, 8}
  BY LeftValues DEF Calls
<1> QED BY <1>1, <1>2, <1>3, LeftValues, Zenon

\* A start makes at most seven system calls, and a process starts once.
THEOREM Descent == Spec => [][OnlyForward]_vars
<1>1. TypeOK /\ [Next]_vars => [OnlyForward]_vars
  <2> SUFFICES ASSUME TypeOK, Next PROVE OnlyForward
    BY DEF vars
  <2>0. pc \in [Instances -> Calls \cup {"new", "serving", "failed", "dead"}]
    BY DEF TypeOK
  <2>1. ASSUME NEW i \in Instances, NEW call,
               Goto(i, call), Left(call) < Left(pc[i])
        PROVE  Left(pc'[i]) < Left(pc[i]) /\
               \A j \in Instances : pc'[j] = pc[j] \/ Left(pc'[j]) < Left(pc[j])
    <3>1. pc'[i] = call /\ \A j \in Instances \ {i} : pc'[j] = pc[j]
      BY <2>0, <2>1 DEF Goto
    <3> QED BY <2>1, <3>1
  <2>2. ASSUME NEW i \in Instances, BindStep(i)
        PROVE  Left(pc'[i]) < Left(pc[i]) /\
               \A j \in Instances : pc'[j] = pc[j] \/ Left(pc'[j]) < Left(pc[j])
    <3>1. ASSUME NEW n \in Names, Stat(i, n)
          PROVE  \E call : Goto(i, call) /\ Left(call) < Left(pc[i])
      <4>1. PICK call \in {"failed", Freed[n], RemoveCall[n]} : Goto(i, call)
        BY <3>1 DEF Stat
      <4>2. /\ Left(Freed[n]) < Left(StatCall[n])
            /\ Left(RemoveCall[n]) < Left(StatCall[n])
            /\ Left("failed") < Left(StatCall[n])
        <5>1. CASE n = "link"
          BY <5>1, LeftFalls DEF StatCall, RemoveCall, Freed, Calls
        <5>2. CASE n = "phony"
          BY <5>2, LeftFalls DEF StatCall, RemoveCall, Freed, Calls
        <5> QED BY <5>1, <5>2 DEF Names
      <4> QED BY <3>1, <4>1, <4>2 DEF Stat
    <3>2. ASSUME NEW n \in Names, Remove(i, n)
          PROVE  \E call : Goto(i, call) /\ Left(call) < Left(pc[i])
      <4>1. PICK call \in {"failed", Freed[n]} : Goto(i, call)
        BY <3>2 DEF Remove
      <4>2. /\ Left(Freed[n]) < Left(RemoveCall[n])
            /\ Left("failed") < Left(RemoveCall[n])
        <5>1. CASE n = "link"
          BY <5>1, LeftFalls DEF RemoveCall, Freed, Calls
        <5>2. CASE n = "phony"
          BY <5>2, LeftFalls DEF RemoveCall, Freed, Calls
        <5> QED BY <5>1, <5>2 DEF Names
      <4> QED BY <3>2, <4>1, <4>2 DEF Remove
    <3>3. ASSUME Bind(i) \/ Chmod(i) \/ Symlink(i)
          PROVE  \E call : Goto(i, call) /\ Left(call) < Left(pc[i])
      BY <3>3, LeftFalls DEF Bind, Chmod, Symlink, Calls
    <3> QED BY <2>1, <2>2, <3>1, <3>2, <3>3 DEF BindStep
  <2>3. ASSUME NEW i \in Instances, Start(i)
        PROVE  \A j \in Instances : pc'[j] = pc[j] \/ Left(pc'[j]) < Left(pc[j])
    <3>1. Left("stat link") < Left(pc[i])
      BY <2>3, LeftFalls DEF Start
    <3> QED BY <2>1, <2>3, <3>1 DEF Start
  <2>4. ASSUME NEW i \in Instances, Crash(i)
        PROVE  \A j \in Instances : pc'[j] = pc[j] \/ Left(pc'[j]) < Left(pc[j])
    <3>1. Left("dead") < Left(pc[i])
      BY <2>4, LeftFalls DEF Crash, Starting, Calls
    <3> QED BY <2>1, <2>4, <3>1 DEF Crash
  <2>5. ASSUME NEW n \in Names, Drop(n) PROVE UNCHANGED pc
    BY <2>5 DEF Drop
  <2> QED BY <2>2, <2>3, <2>4, <2>5 DEF Next, OnlyForward
<1> QED BY <1>1, TypeCorrect, PTL DEF Spec
=============================================================================
