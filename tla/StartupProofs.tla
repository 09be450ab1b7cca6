--------------------------- MODULE StartupProofs ---------------------------
(***************************************************************************)
(* Theorems about Startup, for every environment and every behaviour of    *)
(* the peers.  What a listening process holds is the work of six steps, so *)
(* the invariant says it of the settings read so far (Passed): each is     *)
(* held exactly if it could be read, nothing that was not yet read is, and *)
(* a peer that was reached came after settings that were all in order, the *)
(* verifier's first of all.                                                *)
(* A function has one step that decides: Resolved keeps what it decided.   *)
(***************************************************************************)
EXTENDS Startup, Naturals, TLAPS

Web == {"auth", "database", "http", "tcp", "nats", "address"}

\* The settings read before the program is at p.
Passed(p) ==
  CASE p = "auth" -> {}
    [] p = "database" -> {"auth"}
    [] p = "http" -> {"auth", "database"}
    [] p = "tcp" -> {"auth", "database", "http"}
    [] p = "nats" -> {"auth", "database", "http", "tcp"}
    [] p = "address" -> {"auth", "database", "http", "tcp", "nats"}
    [] OTHER -> Web

Place ==
  /\ program \in Programs
  /\ program = "web" => pc \in Web \cup {"bind", "listening", "exited"}
  /\ program # "web" => pc \notin Web \cup {"azure", "generic"}

Settled ==
  program = "web" /\ pc # "exited" =>
    /\ holds \subseteq Passed(pc)
    /\ \A s \in Passed(pc) : Unread(s) <=> s \notin holds
    /\ \A s \in holds : config[s] = "good"
    /\ pc # "auth" => config.auth = "good"

Contacted == CautiousContact

IInv == Place /\ Settled /\ Contacted

LEMMA WebSettings == Settings["web"] = Web /\ Settings.web = Web
BY DEF Settings, Web

LEMMA OtherSettings ==
  ASSUME NEW p \in Programs, p # "web", NEW s \in Settings[p]
  PROVE  s \in {"azure", "generic", "format", "listener"}
<1>1. CASE p = "function"
  BY <1>1 DEF Settings
<1>2. CASE p = "fn"
  BY <1>2 DEF Settings
<1> QED BY <1>1, <1>2 DEF Programs

\* Reading a setting of the web program leads to the next.
LEMMA Order ==
  ASSUME NEW s \in Web
  PROVE  /\ Following[s] \in (Web \cup {"bind"}) \ {"auth"}
         /\ Passed(Following[s]) = Passed(s) \cup {s}
         /\ s \notin Passed(s)
         /\ s # "auth" => "auth" \in Passed(s)
<1>1. CASE s = "auth"
  BY <1>1 DEF Following, Passed, Web
<1>2. CASE s = "database"
  BY <1>2 DEF Following, Passed, Web
<1>3. CASE s = "http"
  BY <1>3 DEF Following, Passed, Web
<1>4. CASE s = "tcp"
  BY <1>4 DEF Following, Passed, Web
<1>5. CASE s = "nats"
  BY <1>5 DEF Following, Passed, Web
<1>6. CASE s = "address"
  BY <1>6 DEF Following, Passed, Web
<1> QED BY <1>1, <1>2, <1>3, <1>4, <1>5, <1>6 DEF Web

\* What main reads before a peer is what precedes it in the order of reading.
LEMMA BeforePassed ==
  ASSUME NEW s \in Peers PROVE Before[s] = Passed(s) /\ s \in Web /\ s # "auth"
<1>1. CASE s = "database"
  BY <1>1 DEF Before, Passed, Web
<1>2. CASE s = "tcp"
  BY <1>2 DEF Before, Passed, Web
<1>3. CASE s = "nats"
  BY <1>3 DEF Before, Passed, Web
<1> QED BY <1>1, <1>2, <1>3 DEF Peers

LEMMA OtherOrder ==
  ASSUME NEW s \in {"format", "listener"} PROVE Following[s] \in {"listener", "bind"}
<1>1. CASE s = "format"
  BY <1>1 DEF Following
<1>2. CASE s = "listener"
  BY <1>2 DEF Following
<1> QED BY <1>1, <1>2

LEMMA InitIInv == Init => IInv
<1> SUFFICES ASSUME Init PROVE IInv
  OBVIOUS
<1>1. program \in Programs /\ pc = First[program] /\ holds = {}
      /\ reached = {} /\ spoken = {}
  BY DEF Init
<1>2. CASE program = "web"
  <2>1. pc = "auth" /\ Passed(pc) = {}
    BY <1>1, <1>2 DEF First, Passed
  <2> QED BY <1>1, <1>2, <2>1 DEF IInv, Place, Settled, Contacted, CautiousContact, Web
<1>3. CASE program # "web"
  <2>1. pc \in {"port", "format"}
    BY <1>1, <1>3 DEF First, Programs
  <2> QED BY <1>1, <1>3, <2>1 DEF IInv, Place, Settled, Contacted, CautiousContact, Web
<1> QED BY <1>2, <1>3

\* A step that ends the process.
LEMMA ExitPreserves ==
  ASSUME IInv, Exit, Contacted' PROVE IInv'
BY DEF IInv, Exit, Place, Settled, environment, Web

\* A step of the web program that keeps a setting exactly if it is enabled.
LEMMA ProceedPreserves ==
  ASSUME IInv, program = "web", NEW s \in Web, pc = s, NEW kept, Proceed(s, kept),
         kept \in {{}, {s}}, Unread(s) <=> kept = {}, kept = {s} => config[s] = "good",
         s = "auth" => config.auth = "good"
  PROVE  Place' /\ Settled'
<1>1. /\ pc' = Following[s] /\ holds' = holds \cup kept
      /\ program' = program /\ built' = built /\ config' = config
  BY DEF Proceed, environment
<1>2. pc' \in (Web \cup {"bind"}) \ {"auth"} /\ Passed(pc') = Passed(s) \cup {s}
  BY <1>1, Order
<1>3. s \notin Passed(s) /\ pc # "exited"
  BY Order DEF Web
<1>4. Place'
  BY <1>1, <1>2 DEF IInv, Place, Web
<1>5. /\ holds \subseteq Passed(s)
      /\ \A t \in Passed(s) : Unread(t) <=> t \notin holds
      /\ \A t \in holds : config[t] = "good"
      /\ s # "auth" => config.auth = "good"
  BY <1>3 DEF IInv, Settled
<1>6. \A t : Unread(t)' <=> Unread(t)
  BY <1>1 DEF Unread, Ignored
<1>7. (holds \subseteq Passed(pc))'
  BY <1>1, <1>2, <1>5
<1>8. (\A t \in Passed(pc) : Unread(t) <=> t \notin holds)'
  <2> SUFFICES ASSUME NEW t \in Passed(pc') PROVE Unread(t)' <=> t \notin holds'
    OBVIOUS
  <2>1. CASE t = s
    <3>1. t \in holds' <=> kept = {s}
      BY <1>1, <1>3, <1>5, <2>1
    <3> QED BY <3>1, <1>6, <2>1
  <2>2. CASE t \in Passed(s) /\ t # s
    <3>1. t \in holds' <=> t \in holds
      BY <1>1, <2>2
    <3> QED BY <3>1, <1>5, <1>6, <2>2
  <2> QED BY <2>1, <2>2, <1>2
<1>9. (\A t \in holds : config[t] = "good")'
  BY <1>1, <1>5
<1> QED BY <1>1, <1>4, <1>5, <1>7, <1>8, <1>9 DEF Settled

\* A step of a function, which contacts nobody.
LEMMA FunctionPreserves ==
  ASSUME IInv, program # "web", NEW s \in Settings[program], pc = s, NEW kept,
         Proceed(s, kept), s \notin {"azure", "generic"}
  PROVE  Place' /\ Settled'
<1>1. s \in {"format", "listener"}
  BY OtherSettings DEF IInv, Place
<1>2. pc' \in {"listener", "bind"} /\ program' = program
  BY <1>1, OtherOrder DEF Proceed, environment
<1> QED BY <1>2 DEF IInv, Place, Settled, Web

\* Contacts that were in order stay so.
LEMMA ContactedStays ==
  ASSUME IInv, UNCHANGED <<built, config, contacts>> PROVE Contacted'
<1>1. \A t : Unread(t)' <=> Unread(t)
  BY DEF Unread, Ignored
<1> QED BY <1>1 DEF IInv, Contacted, CautiousContact, contacts

\* The settings that precede a peer are in order when it is looked for.
LEMMA PeerInOrder ==
  ASSUME IInv, NEW s, Connecting(s)
  PROVE  /\ program = "web" /\ s \in Web /\ config.auth = "good"
         /\ \A t \in Before[s] : Unread(t) \/ config[t] = "good"
<1>1. pc = s /\ s \in Peers
  BY DEF Connecting
<1>2. s \in Web /\ s # "auth" /\ Before[s] = Passed(s)
  BY <1>1, BeforePassed
<1>3. program = "web" /\ pc # "exited"
  BY <1>1, <1>2 DEF IInv, Place, Web
<1> QED BY <1>1, <1>2, <1>3 DEF IInv, Settled

LEMMA ContactedGrows ==
  ASSUME IInv, NEW s, Connecting(s), UNCHANGED <<built, config>>,
         config[s] \notin {"absent", "garbled", "partial", "invalid"},
         reached' \in {reached, reached \cup {s}},
         spoken' = spoken \/ (/\ spoken' = spoken \cup {s}
                              /\ s \in reached /\ config[s] # "misnamed")
  PROVE  Contacted'
<1>1. config.auth = "good" /\ \A t \in Before[s] : Unread(t) \/ config[t] = "good"
  BY PeerInOrder
<1>2. ~ Unread(s)
  BY DEF Connecting, Unread
<1>3. \A t : Unread(t)' <=> Unread(t)
  BY DEF Unread, Ignored
<1>4. \A p \in reached' :
        /\ config.auth = "good"
        /\ \A t \in Before[p] : Unread(t) \/ config[t] = "good"
        /\ ~ Unread(p) /\ config[p] \notin {"partial", "invalid"}
  <2> SUFFICES ASSUME NEW p \in reached'
               PROVE  /\ config.auth = "good"
                      /\ \A t \in Before[p] : Unread(t) \/ config[t] = "good"
                      /\ ~ Unread(p) /\ config[p] \notin {"partial", "invalid"}
    OBVIOUS
  <2>1. CASE p \in reached
    BY <2>1 DEF IInv, Contacted, CautiousContact
  <2>2. CASE p = s
    BY <1>1, <1>2, <2>2
  <2> QED BY <2>1, <2>2
<1>5. \A p \in spoken' : p \in reached' /\ config[p] # "misnamed"
  BY DEF IInv, Contacted, CautiousContact
<1> QED BY <1>3, <1>4, <1>5 DEF Contacted, CautiousContact

LEMMA DisabledPreserves ==
  ASSUME IInv, NEW s \in Settings[program], Disabled(s) PROVE IInv'
<1>1. Contacted'
  BY ContactedStays DEF Disabled, Proceed, environment
<1>2. Proceed(s, {}) /\ pc = s /\ s \notin Required /\ Unread(s)
  BY DEF Disabled
<1>3. CASE program = "web"
  <2>1. s \in Web /\ s # "auth"
    BY <1>2, <1>3, WebSettings DEF Required
  <2> QED BY <1>1, <1>2, <1>3, <2>1, ProceedPreserves DEF IInv
<1>4. CASE program # "web"
  <2>1. pc # "azure" /\ pc # "generic"
    BY <1>2, <1>4 DEF IInv, Place
  <2> QED BY <1>1, <1>2, <1>4, <2>1, FunctionPreserves DEF IInv
<1> QED BY <1>3, <1>4

LEMMA AcceptPreserves ==
  ASSUME IInv, NEW s \in Settings[program], Accept(s) PROVE IInv'
<1>1. Contacted'
  BY ContactedStays DEF Accept, Proceed, environment
<1>2. Proceed(s, {s}) /\ pc = s /\ config[s] = "good" /\ ~ Unread(s)
  BY DEF Accept, Unread, Ignored, Features, Peers
<1>3. CASE program = "web"
  <2>1. s \in Web
    BY <1>3, WebSettings
  <2> QED BY <1>1, <1>2, <1>3, <2>1, ProceedPreserves DEF IInv
<1>4. CASE program # "web"
  <2>1. pc # "azure" /\ pc # "generic"
    BY <1>2, <1>4 DEF IInv, Place
  <2> QED BY <1>1, <1>2, <1>4, <2>1, FunctionPreserves DEF IInv
<1> QED BY <1>3, <1>4

\* A step that opens a connection and stays at the setting.
LEMMA ReachPreserves ==
  ASSUME IInv, NEW s, Reach(s) PROVE IInv'
<1>1. Contacted'
  BY ContactedGrows DEF Reach, environment
<1>2. program' = program /\ built' = built /\ config' = config
      /\ pc' = pc /\ holds' = holds
  BY DEF Reach, environment
<1> QED BY <1>1, <1>2 DEF IInv, Place, Settled, Unread, Ignored, Passed

LEMMA HandshakePreserves ==
  ASSUME IInv, NEW s, Handshake(s) PROVE IInv'
<1>1. UNCHANGED environment /\ pc = s
  BY DEF Handshake, Connecting, Proceed, Exit
<1>2. program = "web" /\ s \in Web
  BY PeerInOrder DEF Handshake
<1>3. Contacted'
  BY <1>1, ContactedGrows DEF Handshake, environment
<1>4. CASE config[s] = "good"
  <2>1. Proceed(s, {s}) /\ ~ Unread(s)
    BY <1>4 DEF Handshake, Connecting, Unread
  <2> QED BY <1>1, <1>2, <1>3, <1>4, <2>1, ProceedPreserves DEF IInv
<1>5. CASE config[s] # "good"
  BY <1>3, <1>5, ExitPreserves DEF Handshake
<1> QED BY <1>4, <1>5

LEMMA GiveUpPreserves ==
  ASSUME IInv, NEW s, GiveUp(s) PROVE IInv'
<1>1. Exit /\ UNCHANGED environment
  BY DEF GiveUp, Exit
<1>2. Contacted'
  BY <1>1, ContactedGrows DEF GiveUp, environment
<1> QED BY <1>1, <1>2, ExitPreserves

LEMMA RefusePreserves ==
  ASSUME IInv, NEW s \in Settings[program], Refuse(s) PROVE IInv'
BY ContactedStays, ExitPreserves DEF Refuse, Exit, environment

LEMMA RefuseNamePreserves ==
  ASSUME IInv, NEW s, RefuseName(s) PROVE IInv'
BY ContactedStays, ExitPreserves DEF RefuseName, Exit, environment

LEMMA PortAndBindPreserve ==
  ASSUME IInv, ChoosePort \/ Bind PROVE IInv'
<1>1. UNCHANGED <<environment, contacts, holds>> /\ pc' \in {"exited", "bind", "listening"}
  BY DEF ChoosePort, Bind
<1>2. Contacted'
  BY <1>1, ContactedStays DEF environment
<1>3. Place'
  BY <1>1 DEF IInv, Place, environment, Web
<1>4. Settled'
  <2>1. CASE ChoosePort
    BY <2>1, <1>1 DEF IInv, Place, Settled, ChoosePort, environment, Web
  <2>2. CASE Bind
    <3>1. Passed(pc) = Web
      BY <2>2 DEF Bind, Passed
    <3>2. pc' # "exited" => Passed(pc') = Web /\ pc' = "listening"
      BY <2>2 DEF Bind, Passed
    <3>3. program' = program /\ holds' = holds /\ config' = config /\ built' = built
      BY <1>1 DEF environment
    <3>4. \A t : Unread(t)' <=> Unread(t)
      BY <3>3 DEF Unread, Ignored
    <3> QED BY <2>2, <3>1, <3>2, <3>3, <3>4 DEF IInv, Settled, Bind
  <2> QED BY <2>1, <2>2
<1> QED BY <1>2, <1>3, <1>4 DEF IInv

LEMMA StutterPreserves ==
  ASSUME IInv, UNCHANGED <<environment, pc, contacts, holds>> PROVE IInv'
<1>1. program' = program /\ built' = built /\ config' = config
      /\ pc' = pc /\ holds' = holds
  BY DEF environment
<1>2. Contacted'
  BY <1>1, ContactedStays
<1> QED BY <1>1, <1>2 DEF IInv, Place, Settled, Unread, Ignored, Passed

\* What was read is settled and what was contacted had its turn.
THEOREM Invariant == Spec => []IInv
<1>1. IInv /\ [Next]_vars => IInv'
  <2> SUFFICES ASSUME IInv, [Next]_vars PROVE IInv'
    OBVIOUS
  <2>1. CASE \E s \in Settings[program] : Read(s)
    BY <2>1, DisabledPreserves, RefusePreserves, AcceptPreserves, ReachPreserves,
       RefuseNamePreserves, HandshakePreserves, GiveUpPreserves DEF Read, Contact
  <2>2. CASE ChoosePort \/ Bind
    BY <2>2, PortAndBindPreserve
  <2>3. CASE \E p \in Peers : PeerChanges(p)
    BY <2>3, StutterPreserves DEF PeerChanges
  <2>4. CASE UNCHANGED vars
    BY <2>4, StutterPreserves DEF vars
  <2> QED BY <2>1, <2>2, <2>3, <2>4 DEF Next, Advance
<1> QED BY <1>1, InitIInv, PTL DEF Spec

\* A web process that listens has exactly the transports whose enabling
\* variables could be read, and nothing partial, invalid or rejected: the rest
\* of main's settings were read after those peers were reached.
THEOREM Configuration == Spec => []ListensAsConfigured
<1>1. IInv => ListensAsConfigured
  <2> SUFFICES ASSUME IInv, pc = "listening", program = "web"
               PROVE  \A s \in Settings.web : /\ Unread(s) <=> s \notin holds
                                              /\ s \in holds => config[s] = "good"
    BY DEF ListensAsConfigured
  <2>1. Passed(pc) = Web
    BY DEF Passed
  <2> QED BY <2>1, WebSettings DEF IInv, Settled
<1> QED BY <1>1, Invariant, PTL

\* A peer is reached only after every setting before it was found in order,
\* accepted by its peer where it has one, and nothing is sent over a connection
\* whose server name was not looked at.
THEOREM Caution == Spec => []CautiousContact
<1>1. IInv => CautiousContact
  BY DEF IInv, Contacted
<1> QED BY <1>1, Invariant, PTL

-----------------------------------------------------------------------------
(* Types.                                                                  *)

LEMMA FollowingTyped ==
  /\ DOMAIN Following = Web \cup {"format", "listener"}
  /\ \A s \in DOMAIN Following : Following[s] \in DOMAIN Following \cup {"bind"}
<1>1. DOMAIN Following = Web \cup {"format", "listener"}
  BY DEF Following, Web
<1>2. ASSUME NEW s \in Web PROVE Following[s] \in DOMAIN Following \cup {"bind"}
  BY <1>1, Order
<1>3. ASSUME NEW s \in {"format", "listener"}
      PROVE  Following[s] \in DOMAIN Following \cup {"bind"}
  BY <1>1, <1>3, OtherOrder
<1> QED BY <1>1, <1>2, <1>3

\* A setting that is being read is one that another follows.
LEMMA ReadTyped ==
  ASSUME TypeOK, NEW s \in Settings[program], pc = s PROVE s \in DOMAIN Following
<1>1. s # "port" /\ s # "bind" /\ s # "listening" /\ s # "exited"
  <2>1. CASE program = "web"
    BY <2>1, WebSettings DEF Web
  <2>2. CASE program # "web"
    BY <2>2, OtherSettings DEF TypeOK
  <2> QED BY <2>1, <2>2
<1> QED BY <1>1 DEF TypeOK

LEMMA InitTyped == Init => TypeOK
<1> SUFFICES ASSUME Init PROVE TypeOK
  OBVIOUS
<1>1. pc \in DOMAIN Following \cup {"port"}
  <2>1. program \in Programs /\ pc = First[program]
    BY DEF Init
  <2>2. CASE program = "web"
    BY <2>1, <2>2, FollowingTyped DEF First, Web
  <2>3. CASE program = "function"
    BY <2>1, <2>3 DEF First
  <2>4. CASE program = "fn"
    BY <2>1, <2>4, FollowingTyped DEF First
  <2> QED BY <2>1, <2>2, <2>3, <2>4 DEF Programs
<1>2. built \subseteq Features
  <2>1. CASE program = "web"
    BY <2>1 DEF Init
  <2>2. CASE program # "web"
    BY <2>2 DEF Init
  <2> QED BY <2>1, <2>2
<1> QED BY <1>1, <1>2 DEF Init, TypeOK

\* A step to the next setting, or to the end.
LEMMA ProceedTyped ==
  ASSUME TypeOK, NEW s \in Settings[program], pc = s,
         NEW kept, kept \subseteq {s}, kept = {} \/ ~ Ignored(s), Proceed(s, kept),
         reached' \subseteq Peers, spoken' \subseteq Peers
  PROVE  TypeOK'
<1>1. s \in DOMAIN Following
  BY ReadTyped
<1>2. /\ pc' \in DOMAIN Following \cup {"bind"} /\ holds' = holds \cup kept
      /\ program' = program /\ built' = built /\ config' = config
      /\ up' = up /\ port' = port
  BY <1>1, FollowingTyped DEF Proceed, environment
<1>3. holds' \subseteq DOMAIN Following \ (Features \ built)
  BY <1>1, <1>2 DEF TypeOK, Ignored
<1> QED BY <1>2, <1>3 DEF TypeOK

LEMMA ExitTyped ==
  ASSUME TypeOK, Exit, reached' \subseteq Peers, spoken' \subseteq Peers PROVE TypeOK'
BY DEF Exit, environment, TypeOK

LEMMA ReadPreservesTypes ==
  ASSUME TypeOK, NEW s \in Settings[program], Read(s) PROVE TypeOK'
<1>0. reached \subseteq Peers /\ spoken \subseteq Peers
  BY DEF TypeOK
<1>1. CASE Disabled(s)
  BY <1>0, <1>1, ProceedTyped DEF Disabled, contacts
<1>2. CASE Refuse(s)
  BY <1>0, <1>2, ExitTyped DEF Refuse, contacts
<1>3. CASE Accept(s)
  BY <1>0, <1>3, ProceedTyped DEF Accept, contacts, Ignored, Features, Peers
<1>4. CASE Reach(s)
  BY <1>4 DEF Reach, Connecting, environment, TypeOK
<1>5. CASE RefuseName(s)
  BY <1>0, <1>5, ExitTyped DEF RefuseName, contacts
<1>6. CASE Handshake(s)
  <2>1. reached' \subseteq Peers /\ spoken' \subseteq Peers /\ pc = s /\ ~ Ignored(s)
    BY <1>0, <1>6 DEF Handshake, Connecting
  <2>2. Proceed(s, {s}) \/ Exit
    BY <1>6 DEF Handshake
  <2> QED BY <2>1, <2>2, ProceedTyped, ExitTyped
<1>7. CASE GiveUp(s)
  BY <1>0, <1>7, ExitTyped DEF GiveUp, Connecting
<1> QED BY <1>1, <1>2, <1>3, <1>4, <1>5, <1>6, <1>7 DEF Read, Contact

LEMMA PortResolved ==
  ASSUME NEW azure, NEW generic
  PROVE  /\ ResolvePort(azure, generic) \in {"none", "azure", "generic", "default"}
         /\ ResolvePort(azure, generic) # "none" =>
              /\ ResolvePort(azure, generic) = "azure" <=> azure = "good"
              /\ ResolvePort(azure, generic) = "generic" <=>
                   azure = "absent" /\ generic = "good"
              /\ ResolvePort(azure, generic) = "default" <=>
                   azure = "absent" /\ generic = "absent"
<1>1. CASE azure = "absent" /\ generic = "absent"
  BY <1>1 DEF ResolvePort
<1>2. CASE azure = "absent" /\ generic = "good"
  BY <1>2 DEF ResolvePort
<1>3. CASE azure = "good"
  BY <1>3 DEF ResolvePort
<1>4. CASE /\ azure # "good"
           /\ ~ (azure = "absent" /\ generic = "absent")
           /\ ~ (azure = "absent" /\ generic = "good")
  BY <1>4 DEF ResolvePort
<1> QED BY <1>1, <1>2, <1>3, <1>4

\* The types of Startup hold in every reachable state.
THEOREM TypeCorrect == Spec => []TypeOK
<1>1. TypeOK /\ [Next]_vars => TypeOK'
  <2> SUFFICES ASSUME TypeOK, [Next]_vars PROVE TypeOK'
    OBVIOUS
  <2>1. CASE \E s \in Settings[program] : Read(s)
    BY <2>1, ReadPreservesTypes
  <2>2. CASE ChoosePort
    <3>1. port' \in {"none", "azure", "generic", "default"} /\ pc' \in {"exited", "bind"}
      BY <2>2, PortResolved DEF ChoosePort
    <3> QED BY <2>2, <3>1 DEF ChoosePort, environment, contacts, TypeOK
  <2>3. CASE Bind
    BY <2>3 DEF Bind, environment, contacts, TypeOK
  <2>4. CASE \E p \in Peers : PeerChanges(p)
    BY <2>4 DEF PeerChanges, environment, contacts, TypeOK
  <2>5. CASE UNCHANGED vars
    BY <2>5 DEF vars, environment, contacts, TypeOK
  <2> QED BY <2>1, <2>2, <2>3, <2>4, <2>5 DEF Next, Advance
<1> QED BY <1>1, InitTyped, PTL DEF Spec

-----------------------------------------------------------------------------
(* The port of a function.                                                 *)

\* A function reads no setting but its port, and binds with one resolved.
Resolved ==
  program = "function" =>
    /\ pc \in {"port", "bind", "listening", "exited"}
    /\ pc \in {"bind", "listening"} =>
         port # "none" /\ port = ResolvePort(config.azure, config.generic)

LEMMA FunctionReadsNothing ==
  ASSUME Resolved, program = "function", NEW s \in Settings[program], Read(s) PROVE FALSE
<1>1. s \in {"azure", "generic"}
  BY DEF Settings
<1>2. pc = s
  BY DEF Read, Disabled, Refuse, Accept, Contact, Reach, RefuseName, Handshake, GiveUp,
         Connecting
<1> QED BY <1>1, <1>2 DEF Resolved

\* Whatever the environment says, a function binds only with the port that
\* configured_port resolves, and ends where there is none.
THEOREM Resolution == Spec => []Resolved
<1>1. Init => Resolved
  BY DEF Init, Resolved, First
<1>2. Resolved /\ [Next]_vars => Resolved'
  <2> SUFFICES ASSUME Resolved, [Next]_vars, program' = "function" PROVE Resolved'
    BY DEF Resolved
  <2>1. program' = program /\ config' = config
    <3>1. ASSUME NEW s \in Settings[program], Read(s) PROVE UNCHANGED environment
      BY <3>1 DEF Read, Disabled, Refuse, Accept, Contact, Reach, RefuseName, Handshake,
                  GiveUp, Proceed, Exit
    <3>2. UNCHANGED environment
      BY <3>1 DEF Next, Advance, ChoosePort, Bind, PeerChanges, vars
    <3> QED BY <3>2 DEF environment
  <2>2. CASE \E s \in Settings[program] : Read(s)
    BY <2>1, <2>2, FunctionReadsNothing
  <2>3. CASE ChoosePort
    BY <2>1, <2>3 DEF ChoosePort, Resolved
  <2>4. CASE Bind
    BY <2>1, <2>4 DEF Bind, Resolved
  <2>5. CASE \E p \in Peers : PeerChanges(p)
    BY <2>1, <2>5 DEF PeerChanges, Resolved
  <2>6. CASE UNCHANGED vars
    BY <2>1, <2>6 DEF vars, Resolved
  <2> QED BY <2>2, <2>3, <2>4, <2>5, <2>6 DEF Next, Advance
<1> QED BY <1>1, <1>2, PTL DEF Spec

\* A function that listens does so on the port of the first variable that is
\* set: one that is no port has ended it.
THEOREM Preference == Spec => []PreferredPortDecides
<1>1. Resolved => PreferredPortDecides
  BY PortResolved DEF Resolved, PreferredPortDecides
<1> QED BY <1>1, Resolution, PTL

-----------------------------------------------------------------------------
(* What StartupEnds rests on: a startup has only so many steps.            *)

\* How many steps the startup may take yet from a setting, and from where it
\* is: a peer takes two, one of which is done when its connection is open.
Left == [auth |-> 10, database |-> 9, http |-> 7, tcp |-> 6, nats |-> 4, address |-> 2,
         format |-> 3, listener |-> 2, port |-> 2, bind |-> 1,
         listening |-> 0, exited |-> 0]

Remaining == IF pc \in reached THEN Left[pc] - 1 ELSE Left[pc]

\* A step of the startup leaves fewer, and what the peers do changes nothing.
OnlyForward ==
  \/ Advance /\ Remaining' < Remaining
  \/ ~ Advance /\ UNCHANGED <<pc, reached>>

LEMMA LeftTyped ==
  /\ \A p \in DOMAIN Following \cup {"port", "bind", "listening", "exited"} : Left[p] \in Nat
  /\ \A p \in Peers : Left[p] > 1
<1>1. ASSUME NEW p \in Web PROVE Left[p] \in Nat
  <2>1. CASE p \in {"auth", "database", "http"}
    BY <2>1 DEF Left
  <2>2. CASE p \in {"tcp", "nats", "address"}
    BY <2>2 DEF Left
  <2> QED BY <2>1, <2>2 DEF Web
<1>2. ASSUME NEW p \in {"format", "listener", "port", "bind", "listening", "exited"}
      PROVE  Left[p] \in Nat
  BY <1>2 DEF Left
<1>3. \A p \in Peers : Left[p] > 1
  BY DEF Left, Peers
<1> QED BY <1>1, <1>2, <1>3, FollowingTyped

\* The next setting leaves fewer steps, two fewer after a peer.
LEMMA LeftFalls ==
  ASSUME NEW s \in DOMAIN Following
  PROVE  /\ Left[Following[s]] < Left[s] /\ Left["exited"] < Left[s]
         /\ s \in Peers => Left[Following[s]] < Left[s] - 1 /\ Left["exited"] < Left[s] - 1
<1>1. CASE s \in {"auth", "database", "http"}
  BY <1>1 DEF Following, Left, Peers
<1>2. CASE s \in {"tcp", "nats", "address"}
  BY <1>2 DEF Following, Left, Peers
<1>3. CASE s \in {"format", "listener"}
  BY <1>3 DEF Following, Left, Peers
<1> QED BY <1>1, <1>2, <1>3, FollowingTyped DEF Web

\* Wherever the startup goes on or ends, fewer steps remain.
LEMMA RemainingFalls ==
  ASSUME TypeOK, NEW n \in Nat,
         \/ Left[pc'] < n /\ pc \notin reached /\ Left[pc] = n
         \/ Left[pc'] < n /\ pc \in reached /\ Left[pc] - 1 = n,
         Left[pc'] \in Nat, Left[pc] \in Nat
  PROVE  Remaining' < Remaining
<1>1. Remaining = n
  BY DEF Remaining
<1>2. Left[pc'] < n
  OBVIOUS
<1>3. CASE pc' \in reached'
  <2>1. Remaining' = Left[pc'] - 1
    BY <1>3 DEF Remaining
  <2> QED BY <1>1, <1>2, <2>1
<1>4. CASE pc' \notin reached'
  <2>1. Remaining' = Left[pc']
    BY <1>4 DEF Remaining
  <2> QED BY <1>1, <1>2, <2>1
<1> QED BY <1>3, <1>4

\* A step that leaves a setting, for the next or for the end.
LEMMA LeavingFalls ==
  ASSUME TypeOK, NEW s \in DOMAIN Following, pc = s, pc' \in {Following[s], "exited"}
  PROVE  Remaining' < Remaining
<1>1. Left[s] \in Nat /\ Left[pc'] \in Nat
  BY LeftTyped, FollowingTyped
<1>2. Left[pc'] < Left[s] /\ (s \in Peers => Left[pc'] < Left[s] - 1)
  BY LeftFalls
<1>3. reached \subseteq Peers
  BY DEF TypeOK
<1>4. CASE s \in reached
  <2>1. Left[s] - 1 \in Nat /\ Left[pc'] < Left[s] - 1
    BY <1>1, <1>2, <1>3, <1>4
  <2> QED BY <1>1, <1>4, <2>1, RemainingFalls
<1>5. CASE s \notin reached
  BY <1>1, <1>2, <1>5, RemainingFalls
<1> QED BY <1>4, <1>5

\* Whatever the peers do meanwhile, a startup never goes back to a setting,
\* connects to each peer once, and takes at most ten steps.
THEOREM Descent == Spec => [][OnlyForward]_vars
<1>1. TypeOK /\ [Next]_vars => [OnlyForward]_vars
  <2> SUFFICES ASSUME TypeOK, Next PROVE OnlyForward
    BY DEF vars
  <2>1. ASSUME NEW s \in Settings[program], Read(s) PROVE OnlyForward
    <3>1. Advance /\ pc = s
      BY <2>1 DEF Advance, Read, Disabled, Refuse, Accept, Contact, Reach, RefuseName,
                  Handshake, GiveUp, Connecting
    <3>2. s \in DOMAIN Following
      BY <3>1, ReadTyped
    <3>3. CASE Reach(s)
      <4>1. pc' = s /\ s \in reached' /\ s \notin reached
        BY <3>1, <3>3 DEF Reach
      <4>2. Left[s] \in Nat
        BY <3>2, LeftTyped
      <4> QED BY <3>1, <4>1, <4>2 DEF OnlyForward, Remaining
    <3>4. CASE ~ Reach(s)
      <4>1. pc' \in {Following[s], "exited"}
        BY <2>1, <3>4 DEF Read, Disabled, Refuse, Accept, Contact, RefuseName, Handshake,
                          GiveUp, Proceed, Exit
      <4> QED BY <3>1, <3>2, <4>1, LeavingFalls DEF OnlyForward
    <3> QED BY <3>3, <3>4
  <2>2. CASE ChoosePort \/ Bind
    <3>1. Advance /\ UNCHANGED reached
          /\ \/ pc = "port" /\ pc' \in {"exited", "bind"}
             \/ pc = "bind" /\ pc' \in {"exited", "listening"}
      BY <2>2 DEF Advance, ChoosePort, Bind, contacts
    <3>2. pc \notin reached /\ pc' \notin reached'
      BY <3>1 DEF TypeOK, Peers
    <3> QED BY <3>1, <3>2 DEF OnlyForward, Remaining, Left
  <2>3. CASE ~ Advance
    BY <2>3 DEF Next, PeerChanges, contacts, OnlyForward
  <2> QED BY <2>1, <2>2, <2>3 DEF Next, Advance
<1> QED BY <1>1, TypeCorrect, PTL DEF Spec
=============================================================================
