------------------------------ MODULE Startup ------------------------------
(***************************************************************************)
(* What a process does before it listens: main of the web program, which   *)
(* reads its settings one after the other and connects to the peers they   *)
(* enable, run_http of a function, which resolves its port, and run of an  *)
(* Oracle/Fn function.  Any error ends the process.                        *)
(*                                                                         *)
(* A setting is one or several environment variables, and its value says   *)
(* what is wrong with them: the variable that enables it is not there or   *)
(* blank ("absent") or not Unicode ("garbled"), another one that it needs  *)
(* is missing ("partial"), one breaks a rule of this code ("invalid"; for  *)
(* the name of the tcp peer, "misnamed"), or the peer finds them wrong     *)
(* ("rejected").  The peers may fall silent at any time.                   *)
(***************************************************************************)
EXTENDS FiniteSets

Programs == {"web", "function", "fn"}
Peers == {"database", "tcp", "nats"}
Features == {"tcp", "nats"}

Settings ==
  [web |-> {"auth", "database", "http", "tcp", "nats", "address"},
   function |-> {"azure", "generic"},
   fn |-> {"format", "listener"}]

Required == {"auth", "format", "listener"}

\* A required variable that is not Unicode counts as absent at once, an address
\* that is blank as invalid, and a stream name that is neither as its default.
Values(s) ==
  {"absent", "invalid", "good"}
    \cup (IF s \in Required THEN {} ELSE {"garbled"})
    \cup (IF s \in Features THEN {"partial"} ELSE {})
    \cup (IF s = "tcp" THEN {"misnamed"} ELSE {})
    \cup (IF s \in Peers THEN {"rejected"} ELSE {})

VARIABLES
  program,
  built,      \* the transports compiled in
  config,     \* config[s]: what the environment says of setting s
  pc,         \* the setting read next, or "port", "bind", "listening", "exited"
  up,         \* the peers that answer
  reached,    \* the peers this process has opened a connection to
  spoken,     \* those it has sent anything, a greeting or its credentials
  holds,      \* what the state it serves with has
  port        \* which variable its port is from

environment == <<program, built, config>>
contacts == <<reached, spoken>>
vars == <<environment, pc, up, contacts, holds, port>>

First == [web |-> "auth", function |-> "port", fn |-> "format"]

Following == [auth |-> "database", database |-> "http", http |-> "tcp", tcp |-> "nats",
              nats |-> "address", address |-> "bind", format |-> "listener",
              listener |-> "bind"]

TypeOK ==
  /\ program \in Programs /\ built \subseteq Features
  /\ DOMAIN config = Settings[program]
  /\ \A s \in Settings[program] : config[s] \in Values(s)
  /\ pc \in DOMAIN Following \cup {"port", "bind", "listening", "exited"}
  /\ up \subseteq Peers /\ reached \subseteq Peers /\ spoken \subseteq Peers
  /\ holds \subseteq DOMAIN Following \ (Features \ built)
  /\ port \in {"none", "azure", "generic", "default"}

Init ==
  /\ program \in Programs
  /\ built \in IF program = "web" THEN SUBSET Features ELSE {{}}
  /\ config \in {f \in [Settings[program] -> UNION {Values(s) : s \in Settings[program]}] :
                   \A s \in Settings[program] : f[s] \in Values(s)}
  /\ pc = First[program]
  /\ up = Peers
  /\ reached = {} /\ spoken = {} /\ holds = {}
  /\ port = "none"

-----------------------------------------------------------------------------
(* Reading a setting.                                                      *)

\* A transport that is not compiled in does not look at its variables.
Ignored(s) == s \in Features \ built

Exit == pc' = "exited" /\ UNCHANGED <<environment, up, holds, port>>

Proceed(s, kept) ==
  /\ pc' = Following[s]
  /\ holds' = holds \cup kept
  /\ UNCHANGED <<environment, up, port>>

\* env::var(..).ok() and `_ => None` make no difference between the two.
Unread(s) == Ignored(s) \/ config[s] \in {"absent", "garbled"}

\* Mutant of Disabled: None is kept as a transport of its own.
DisabledKept(s) ==
  /\ pc = s /\ s \in Settings[program] \ Required
  /\ Unread(s)
  /\ Proceed(s, {s})
  /\ UNCHANGED contacts

\* The field is None; the address has a default.
Disabled(s) ==
  /\ pc = s /\ s \in Settings[program] \ Required
  /\ Unread(s)
  /\ Proceed(s, {})
  /\ UNCHANGED contacts

\* Mutant of Refuse: a partial or invalid configuration disables the transport.
RefuseRequired(s) ==
  /\ pc = s /\ s \in Settings[program] /\ ~ Ignored(s)
  /\ config[s] \in {"partial", "invalid"} \/ (s \in Required /\ config[s] = "absent")
  /\ IF s \in Required THEN Exit ELSE Proceed(s, {})
  /\ UNCHANGED contacts

\* Found before a peer is looked for: in from_env, in try_new or validate, or
\* while connect reads the files that the variables name.
Refuse(s) ==
  /\ pc = s /\ s \in Settings[program] /\ ~ Ignored(s)
  /\ config[s] \in {"partial", "invalid"} \/ (s \in Required /\ config[s] = "absent")
  /\ Exit
  /\ UNCHANGED contacts

Accept(s) ==
  /\ pc = s /\ s \in Settings[program] \ Peers
  /\ config[s] = "good"
  /\ Proceed(s, {s})
  /\ UNCHANGED contacts

-----------------------------------------------------------------------------
(* Connecting to a peer: Database::connect, Channel::connect and           *)
(* Transport::connect.                                                     *)

Connecting(s) == pc = s /\ s \in Peers /\ ~ Ignored(s)

\* Mutant of Reach: the peer is tried before its variables are validated.
ReachFirst(s) ==
  /\ Connecting(s) /\ s \notin reached
  /\ config[s] \notin {"absent", "garbled"}
  /\ s \in up
  /\ reached' = reached \cup {s}
  /\ UNCHANGED <<environment, pc, up, spoken, holds, port>>

\* The connection is open, and nothing has been sent over it yet.
Reach(s) ==
  /\ Connecting(s) /\ s \notin reached
  /\ config[s] \in {"good", "misnamed", "rejected"}
  /\ s \in up
  /\ reached' = reached \cup {s}
  /\ UNCHANGED <<environment, pc, up, spoken, holds, port>>

\* ServerName::try_from comes after TcpStream::connect.
RefuseName(s) ==
  /\ Connecting(s) /\ s \in reached
  /\ config[s] = "misnamed"
  /\ Exit
  /\ UNCHANGED contacts

\* TLS and login: the peer, or what it is seen to be, decides.
Handshake(s) ==
  /\ Connecting(s) /\ s \in reached
  /\ config[s] \in {"good", "rejected"}
  /\ s \in up
  /\ spoken' = spoken \cup {s}
  /\ IF config[s] = "good" THEN Proceed(s, {s}) ELSE Exit
  /\ UNCHANGED reached

\* Mutant of GiveUp: the tcp peer and the broker are awaited without a timeout.
GiveUpOnlyDatabase(s) ==
  /\ Connecting(s) /\ s = "database" /\ s \notin up
  /\ \/ /\ s \notin reached /\ config[s] \in {"good", "misnamed", "rejected"}
        /\ UNCHANGED spoken
     \/ /\ s \in reached /\ config[s] \in {"good", "rejected"}
        /\ spoken' \in {spoken, spoken \cup {s}}
  /\ Exit
  /\ UNCHANGED reached

\* Refused, broken off, or silent for as long as the timeouts of the client
\* allow, before there is a connection or over it.
GiveUp(s) ==
  /\ Connecting(s) /\ s \notin up
  /\ \/ /\ s \notin reached /\ config[s] \in {"good", "misnamed", "rejected"}
        /\ UNCHANGED spoken
     \/ /\ s \in reached /\ config[s] \in {"good", "rejected"}
        /\ spoken' \in {spoken, spoken \cup {s}}
  /\ Exit
  /\ UNCHANGED reached

-----------------------------------------------------------------------------
(* run_http: configured_port.                                              *)

\* Mutant of ResolvePort: a port that cannot be used gives way to the next.
ResolvePortLenient(azure, generic) ==
  CASE azure = "good" -> "azure"
    [] azure # "good" /\ generic = "good" -> "generic"
    [] OTHER -> "default"

\* The variable the port is from, or "none" for an error: the first that is
\* not blank decides, even if it is no port.
ResolvePort(azure, generic) ==
  CASE azure = "absent" /\ generic = "absent" -> "default"
    [] azure = "absent" /\ generic = "good" -> "generic"
    [] azure = "good" -> "azure"
    [] OTHER -> "none"

\* Both are read first, and neither may be anything but text.
ChoosePort ==
  /\ pc = "port"
  /\ port' = IF "garbled" \in {config.azure, config.generic} THEN "none"
             ELSE ResolvePort(config.azure, config.generic)
  /\ pc' = IF port' = "none" THEN "exited" ELSE "bind"
  /\ UNCHANGED <<environment, up, contacts, holds>>

-----------------------------------------------------------------------------

\* The address may be taken; the socket of a function is FnSocket's.
Bind ==
  /\ pc = "bind"
  /\ pc' \in {"listening", "exited"}
  /\ UNCHANGED <<environment, up, contacts, holds, port>>

\* (external) A peer falls silent, answers again, or was not there from the
\* start; what it does is noticed only by who is connecting to it.
PeerChanges(p) ==
  /\ Connecting(p)
  /\ up' = IF p \in up THEN up \ {p} ELSE up \cup {p}
  /\ UNCHANGED <<environment, pc, contacts, holds, port>>

Contact(s) == Reach(s) \/ RefuseName(s) \/ Handshake(s) \/ GiveUp(s)

Read(s) == Disabled(s) \/ Refuse(s) \/ Accept(s) \/ Contact(s)

Advance == (\E s \in Settings[program] : Read(s)) \/ ChoosePort \/ Bind

Next == Advance \/ \E p \in Peers : PeerChanges(p)

Spec == Init /\ [][Next]_vars

\* Reading is never held up, and every wait for a peer has a timeout.
FairSpec == Spec /\ WF_vars(Advance)

-----------------------------------------------------------------------------
(* Properties.                                                             *)

\* The settings that main reads before it looks for a peer.
Before == [database |-> {"auth"},
           tcp |-> {"auth", "database", "http"},
           nats |-> {"auth", "database", "http", "tcp"}]

(***************************************************************************)
(* ListensAsConfigured: a web process that listens has each transport      *)
(* whose enabling variable could be read, and only those, and none that is *)
(* partial, invalid or rejected, although the last setting is read long    *)
(* after the first peer was reached.  This is "Optional transports are     *)
(* disabled when their enabling variable is absent and fail startup on     *)
(* partial or unsafe configuration" (README.md) except for a variable that *)
(* is set to something other than Unicode: Unread has it disabled as well. *)
(***************************************************************************)
ListensAsConfigured ==
  pc = "listening" /\ program = "web" =>
    \A s \in Settings.web : /\ Unread(s) <=> s \notin holds
                            /\ s \in holds => config[s] = "good"

(***************************************************************************)
(* CautiousContact: a process that connects to a peer could verify a       *)
(* caller, has every setting it read before in order, those of the peers   *)
(* accepted by them, and finds nothing partial or invalid in the peer's    *)
(* own, save the name of the tcp server, which connect looks at over an    *)
(* open connection; and over that connection nothing is sent before it     *)
(* has.                                                                    *)
(***************************************************************************)
CautiousContact ==
  /\ \A p \in reached :
       /\ config.auth = "good"
       /\ \A s \in Before[p] : Unread(s) \/ config[s] = "good"
       /\ ~ Unread(p) /\ config[p] \notin {"partial", "invalid"}
  /\ \A p \in spoken : p \in reached /\ config[p] # "misnamed"

(***************************************************************************)
(* PreferredPortDecides: a function listens on Azure's port whenever that  *)
(* variable is set: one that is no port is not papered over by PORT or the *)
(* default, where the platform would not find the function.                *)
(***************************************************************************)
PreferredPortDecides ==
  pc = "listening" /\ program = "function" =>
    /\ port = "azure" <=> config.azure = "good"
    /\ port = "generic" <=> config.azure = "absent" /\ config.generic = "good"
    /\ port = "default" <=> config.azure = "absent" /\ config.generic = "absent"

(***************************************************************************)
(* StartupEnds: however the peers come, go or fall silent, a process does  *)
(* not stay in its startup: it listens, or it has ended and can be started *)
(* again.                                                                  *)
(***************************************************************************)
StartupEnds == <>(pc \in {"listening", "exited"})
=============================================================================
