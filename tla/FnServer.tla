------------------------------ MODULE FnServer ------------------------------
(***************************************************************************)
(* The server of an Oracle/Fn function (oracle_fn/mod.rs): one thread that *)
(* accepts a connection, reads one request from it (http_stream.rs),       *)
(* answers and closes it, and only then accepts the next.  It sets no read *)
(* timeout, so a client that does not finish its request, silent or not,   *)
(* holds all the others.                                                   *)
(*                                                                         *)
(* A request is read in units: a line, a piece of the body, the two bytes  *)
(* after a chunk.  A unit is what it is to the code that reads it: Units   *)
(* gives the kinds at each stage.  What a dispatched request is answered   *)
(* is the subject of Dispatch.                                             *)
(***************************************************************************)
EXTENDS Naturals, Sequences, FiniteSets

CONSTANTS
  Clients,    \* each connects once
  Nobody,
  MaxBody,    \* max_event_bytes, in units
  MaxLines,   \* MAX_HEADER_LINES, the blank line included
  MaxInput    \* bound: the units a client sends that the history tells apart

ASSUME ServerAssumption ==
  /\ Nobody \notin Clients
  /\ MaxBody \in Nat /\ MaxLines \in Nat \ {0} /\ MaxInput \in Nat

VARIABLES
  where,     \* where[c]: "away", "queued" (the listener's backlog), "current", "gone"
  queue,     \* the backlog
  current,   \* the client being served
  closed,    \* closed[c]: what c has closed of its connection
  answers,   \* answers[c]: the answer that reached c
  stage,     \* what the server reads next
  headers,   \* the header lines read: how many, and what decides the body
  room,      \* the size of the body buffer
  filled,    \* how much of it has been read
  verdict,   \* what read_request returned
  input      \* the units read from the current client (history)

clients == <<where, queue, closed>>
parser == <<stage, headers, room, filled, verdict, input>>
vars == <<clients, current, answers, parser>>

Verdicts == {"dispatch", "bad_request", "too_large", "io", "silence"}

NoHeaders == [lines |-> 0, chunked |-> FALSE, length |-> "absent", n |-> 0]

Unit == [k : {"request", "field", "chunked", "length", "nonsense", "blank",
              "size", "data", "crlf", "bad", "garbage"}, n : 0 .. MaxBody + 1]

Kind(k) == [k |-> k, n |-> 0]
Kinds(K) == {Kind(k) : k \in K}
Numbers(k) == {[k |-> k, n |-> m] : m \in 0 .. MaxBody + 1}

\* "bad" fails the reader's own check, "garbage" is not UTF-8, "nonsense" is
\* a content-length that is no number.
Units(s) ==
  CASE s = "request"  -> Kinds({"request", "bad", "garbage"})
    [] s = "headers"  -> Kinds({"field", "chunked", "nonsense", "blank", "bad", "garbage"})
                           \cup Numbers("length")
    [] s = "size"     -> Kinds({"bad", "garbage"}) \cup Numbers("size")
    [] s = "trailers" -> Kinds({"field", "blank", "garbage"})
    [] s = "end"      -> Kinds({"crlf", "bad"})
    [] OTHER          -> Kinds({"data"})

Reading == {"request", "headers", "size", "trailers", "end", "body", "chunk"}

TypeOK ==
  /\ where \in [Clients -> {"away", "queued", "current", "gone"}]
  /\ queue \in Seq(Clients)
  /\ current \in Clients \cup {Nobody}
  /\ closed \in [Clients -> {"no", "write", "both"}]
  /\ answers \in [Clients -> Verdicts \cup {"none"}]
  /\ stage \in Reading \cup {"idle", "decided"}
  /\ headers \in [lines : 0 .. MaxLines, chunked : BOOLEAN,
                  length : {"absent", "number", "invalid"}, n : 0 .. MaxBody + 1]
  /\ room \in Nat /\ filled \in Nat
  /\ verdict \in Verdicts \cup {"none"}
  /\ input \in Seq(Unit)

Fresh(s) ==
  /\ stage' = s
  /\ headers' = NoHeaders
  /\ room' = 0 /\ filled' = 0
  /\ verdict' = "none"
  /\ input' = <<>>

Init ==
  /\ where = [c \in Clients |-> "away"]
  /\ queue = <<>>
  /\ current = Nobody
  /\ closed = [c \in Clients |-> "no"]
  /\ answers = [c \in Clients |-> "none"]
  /\ stage = "idle"
  /\ headers = NoHeaders
  /\ room = 0 /\ filled = 0
  /\ verdict = "none"
  /\ input = <<>>

-----------------------------------------------------------------------------
(* The clients (external): the Fn agent's connections.                     *)

Connect(c) ==
  /\ where[c] = "away"
  /\ where' = [where EXCEPT ![c] = "queued"]
  /\ queue' = Append(queue, c)
  /\ UNCHANGED <<closed, current, answers, parser>>

\* It will send no more; if it closes both ways it will read no more either.
Close(c, how) ==
  /\ where[c] \in {"queued", "current"}
  /\ closed[c] = "no"
  /\ closed' = [closed EXCEPT ![c] = how]
  /\ UNCHANGED <<where, queue, current, answers, parser>>

-----------------------------------------------------------------------------
(* run: the accept loop.                                                   *)

\* A connection whose descriptor cannot be cloned is logged and closed.
Accept ==
  /\ stage = "idle" /\ queue # <<>>
  /\ queue' = Tail(queue)
  /\ \/ /\ current' = Head(queue)
        /\ where' = [where EXCEPT ![Head(queue)] = "current"]
        /\ Fresh("request")
     \/ /\ where' = [where EXCEPT ![Head(queue)] = "gone"]
        /\ UNCHANGED <<current, parser>>
  /\ UNCHANGED <<closed, answers>>

-----------------------------------------------------------------------------
(* read_request, a unit at a time.                                         *)

\* The next unit is u, and the client is still there to have sent it.
Takes(s, u) ==
  /\ stage = s /\ closed[current] = "no"
  /\ Len(input) < MaxInput
  /\ input' = Append(input, u)
  /\ UNCHANGED <<clients, current, answers>>

Return(what) ==
  /\ stage' = "decided" /\ verdict' = what
  /\ UNCHANGED <<headers, room, filled>>

GoOn(s) == stage' = s /\ UNCHANGED <<headers, room, filled, verdict>>

\* Mutant of Refuse: a line that says nothing is taken for a broken connection.
RefuseAsBroken(u) == u.k \in {"bad", "garbage"} /\ Return("io")

\* A line that is not UTF-8 is an error of read_line.
Refuse(u) ==
  \/ u.k = "bad" /\ Return("bad_request")
  \/ u.k = "garbage" /\ Return("io")

ReadRequestLine(u) ==
  /\ Takes("request", u)
  /\ \/ u.k = "request" /\ GoOn("headers")
     \/ Refuse(u)

\* Two values of a header are joined by a comma, which is not a number.
WithHeader(u) ==
  [lines |-> headers.lines + 1,
   chunked |-> headers.chunked \/ u.k = "chunked",
   length |-> CASE u.k = "length" /\ headers.length = "absent" -> "number"
                [] u.k = "length" /\ headers.length # "absent" -> "invalid"
                [] u.k = "nonsense" -> "invalid"
                [] OTHER -> headers.length,
   n |-> IF u.k = "length" /\ headers.length = "absent" THEN u.n ELSE headers.n]

\* Mutant of HeaderLine: nothing counts the lines.
HeaderLineUncounted(u) ==
  /\ u.k \in {"field", "chunked", "length", "nonsense"}
  /\ headers' = WithHeader(u)
  /\ UNCHANGED <<stage, room, filled, verdict>>

\* Mutant of HeaderLine: the last of several values counts.
HeaderLineLast(u) ==
  /\ u.k \in {"field", "chunked", "length", "nonsense"}
  /\ headers.lines + 1 < MaxLines
  /\ headers' = [WithHeader(u) EXCEPT
                   !.length = IF u.k = "length" THEN "number" ELSE @,
                   !.n = IF u.k = "length" THEN u.n ELSE @]
  /\ UNCHANGED <<stage, room, filled, verdict>>

HeaderLine(u) ==
  /\ u.k \in {"field", "chunked", "length", "nonsense"}
  /\ headers.lines + 1 < MaxLines
  /\ headers' = WithHeader(u)
  /\ UNCHANGED <<stage, room, filled, verdict>>

\* The loop ends after MAX_HEADER_LINES lines without a blank one.
TooManyLines(u) ==
  /\ u.k \in {"field", "chunked", "length", "nonsense"}
  /\ headers.lines + 1 >= MaxLines
  /\ Return("bad_request")

\* A buffer for n more units of the body, read at stage s.
Reserve(n, s) ==
  /\ room' = room + n
  /\ stage' = s
  /\ UNCHANGED <<headers, filled, verdict>>

\* What the headers say of the body; transfer-encoding wins.
HeadersEnd(u) ==
  /\ u.k = "blank"
  /\ \/ headers.chunked /\ GoOn("size")
     \/ /\ ~ headers.chunked
        /\ \/ headers.length = "absent" /\ Return("dispatch")
           \/ headers.length = "invalid" /\ Return("bad_request")
           \/ headers.length = "number" /\ headers.n > MaxBody /\ Return("too_large")
           \/ headers.length = "number" /\ headers.n = 0 /\ Return("dispatch")
           \/ headers.length = "number" /\ headers.n \in 1 .. MaxBody
                /\ Reserve(headers.n, "body")

ReadHeader(u) ==
  /\ Takes("headers", u)
  /\ HeaderLine(u) \/ TooManyLines(u) \/ HeadersEnd(u) \/ Refuse(u)

ReadBody(u) ==
  /\ Takes("body", u)
  /\ filled' = filled + 1
  /\ IF filled + 1 = room
     THEN stage' = "decided" /\ verdict' = "dispatch"
     ELSE UNCHANGED <<stage, verdict>>
  /\ UNCHANGED <<headers, room>>

\* Mutant of ReadSize: each chunk is held against the limit by itself.
ReadSizeAlone(u) ==
  /\ Takes("size", u)
  /\ \/ Refuse(u)
     \/ u.k = "size" /\ u.n = 0 /\ GoOn("trailers")
     \/ u.k = "size" /\ u.n > MaxBody /\ Return("too_large")
     \/ u.k = "size" /\ u.n \in 1 .. MaxBody /\ Reserve(u.n, "chunk")

\* The chunks so far and this one together are held against the limit.
ReadSize(u) ==
  /\ Takes("size", u)
  /\ \/ Refuse(u)
     \/ u.k = "size" /\ u.n = 0 /\ GoOn("trailers")
     \/ u.k = "size" /\ u.n > 0 /\ filled + u.n > MaxBody /\ Return("too_large")
     \/ u.k = "size" /\ u.n > 0 /\ filled + u.n <= MaxBody /\ Reserve(u.n, "chunk")

ReadChunk(u) ==
  /\ Takes("chunk", u)
  /\ filled' = filled + 1
  /\ stage' = IF filled + 1 = room THEN "end" ELSE "chunk"
  /\ UNCHANGED <<headers, room, verdict>>

ReadTerminator(u) ==
  /\ Takes("end", u)
  /\ \/ u.k = "crlf" /\ GoOn("size")
     \/ Refuse(u)

\* Any number of them: nothing bounds it, and nothing is kept of them.
ReadTrailer(u) ==
  /\ Takes("trailers", u)
  /\ \/ u.k = "field" /\ GoOn("trailers")
     \/ u.k = "blank" /\ Return("dispatch")
     \/ Refuse(u)

\* No more lines, or fewer bytes than read_exact wants.
EndOfInput ==
  /\ stage \in Reading /\ closed[current] # "no"
  /\ Return(CASE stage = "request" -> "silence"
              [] stage \in {"headers", "size", "trailers"} -> "bad_request"
              [] OTHER -> "io")
  /\ UNCHANGED <<clients, current, answers, input>>

Read(u) ==
  \/ ReadRequestLine(u) \/ ReadHeader(u) \/ ReadBody(u)
  \/ ReadSize(u) \/ ReadChunk(u) \/ ReadTerminator(u) \/ ReadTrailer(u)

-----------------------------------------------------------------------------
(* handle_stream: the answer, by what read_request returned.               *)

Told(c) == IF verdict = "silence" \/ closed[c] = "both" THEN "none" ELSE verdict

\* Mutant of Answer: an answer that cannot be written ends the server.
AnswerOrEnd ==
  /\ stage = "decided" /\ closed[current] # "both"
  /\ answers' = [answers EXCEPT ![current] = Told(current)]
  /\ where' = [where EXCEPT ![current] = "gone"]
  /\ current' = Nobody
  /\ Fresh("idle")
  /\ UNCHANGED <<queue, closed>>

\* An answer that cannot be written is logged; the connection is closed.
Answer ==
  /\ stage = "decided"
  /\ answers' = [answers EXCEPT ![current] = Told(current)]
  /\ where' = [where EXCEPT ![current] = "gone"]
  /\ current' = Nobody
  /\ Fresh("idle")
  /\ UNCHANGED <<queue, closed>>

-----------------------------------------------------------------------------

Next ==
  \/ \E c \in Clients : Connect(c) \/ Close(c, "write") \/ Close(c, "both")
  \/ \E u \in Units(stage) : Read(u)
  \/ Accept \/ EndOfInput \/ Answer

Spec == Init /\ [][Next]_vars

\* The server's thread runs whenever it can; a client need not go on, and
\* one that sends without end gets as far as MaxInput and stays there.
FairSpec ==
  Spec /\ WF_vars(Accept) /\ WF_vars(EndOfInput) /\ WF_vars(Answer)

-----------------------------------------------------------------------------
(* Properties.                                                             *)

FieldKinds == {"field", "chunked", "length", "nonsense"}

\* How much of the units s is body.
Size(s) == Cardinality({i \in DOMAIN s : s[i].k = "data"})

\* s starts with a request line and fewer than MaxLines header lines, and a
\* blank line ends them at b.
HeadEnds(s, b) ==
  /\ b \in DOMAIN s /\ b \in 2 .. MaxLines + 1
  /\ s[1].k = "request" /\ s[b].k = "blank"
  /\ \A i \in 2 .. b - 1 : s[i].k \in FieldKinds

Has(s, b, kind) == \E i \in 2 .. b - 1 : s[i].k = kind

\* At most one content-length among the header lines, and it is a number.
OneLength(s, b) ==
  /\ ~ Has(s, b, "nonsense")
  /\ \A i, j \in 2 .. b - 1 : s[i].k = "length" /\ s[j].k = "length" => i = j

\* From a to z, s is a sequence of chunks, each with its data and its end.
Chunks(s, a, z) ==
  /\ a <= z => s[a].k = "size"
  /\ \A i \in a .. z :
       /\ s[i].k \in {"size", "data", "crlf"}
       /\ s[i].k = "size" =>
            /\ s[i].n > 0 /\ i + s[i].n + 1 <= z
            /\ \A j \in i + 1 .. i + s[i].n : s[j].k = "data"
            /\ s[i + s[i].n + 1].k = "crlf"
            /\ i + s[i].n + 2 <= z => s[i + s[i].n + 2].k = "size"

\* The body after b, as RFC 9112 frames it.
ChunkedBody(s, b) ==
  \E z \in b + 1 .. Len(s) - 1 :
    /\ s[z] = [k |-> "size", n |-> 0]
    /\ Chunks(s, b + 1, z - 1)
    /\ \A i \in z + 1 .. Len(s) - 1 : s[i].k = "field"
    /\ s[Len(s)].k = "blank"

PlainBody(s, b) ==
  /\ OneLength(s, b)
  /\ \A i \in b + 1 .. Len(s) : s[i].k = "data"
  /\ IF Has(s, b, "length")
     THEN \A i \in 2 .. b - 1 : s[i].k = "length" => Len(s) - b = s[i].n
     ELSE Len(s) = b

WellFormed(s) ==
  /\ Size(s) <= MaxBody
  /\ \E b \in DOMAIN s :
       /\ HeadEnds(s, b)
       /\ IF Has(s, b, "chunked") THEN ChunkedBody(s, b) ELSE PlainBody(s, b)

(***************************************************************************)
(* DispatchedIsWhole: however its client stalls, half-closes or leaves, a  *)
(* request is dispatched if and only if all of it has been read and it is  *)
(* one well-formed request within the limits: a request that was cut off   *)
(* is never taken for a shorter one.                                       *)
(***************************************************************************)
DispatchedIsWhole ==
  stage # "idle" => (verdict = "dispatch" <=> WellFormed(input))

(***************************************************************************)
(* RefusalsAreFair: what a client is told when its request is not          *)
(* dispatched: that it is too large only if the one length it gave, or the *)
(* chunks it sent and the one it announced last, exceed the limit, that    *)
(* reading failed (502) only if it closed or sent no text, and nothing at  *)
(* all only if it sent nothing.                                            *)
(***************************************************************************)
Exceeds(s) ==
  \E i \in DOMAIN s :
    \/ s[i].k = "length" /\ s[i].n > MaxBody /\ OneLength(s, Len(s))
    \/ i = Len(s) /\ s[i].k = "size" /\ Size(s) + s[i].n > MaxBody

RefusalsAreFair ==
  /\ verdict = "too_large" => Exceeds(input)
  /\ verdict = "io" => closed[current] # "no" \/ \E i \in DOMAIN input : input[i].k = "garbage"
  /\ verdict = "silence" <=> stage = "decided" /\ input = <<>>

(***************************************************************************)
(* BodyBounded: the buffer read_request and read_chunked_body reserve is   *)
(* never larger than max_event_bytes, whatever the client announces and in *)
(* however many chunks, and no more is read into it than it has room for.  *)
(***************************************************************************)
BodyBounded == room <= MaxBody /\ filled <= room

\* c has not finished what the server reads of it: it is silent, or sends a
\* line or trailers without end, which leaves read_request where it is.
Unfinished(c) == current = c /\ stage \in Reading /\ closed[c] = "no"

(***************************************************************************)
(* EveryClientHasItsTurn: only a client that neither finishes its request  *)
(* nor closes keeps the others waiting.  Nothing of the server's own does: *)
(* a request that was refused or cut off, or a client that left before its *)
(* answer.  There is no read timeout and no limit of the trailers, so what *)
(* such a client does instead, to say nothing or to go on sending, makes   *)
(* no difference.                                                          *)
(***************************************************************************)
EveryClientHasItsTurn ==
  (\A d \in Clients : []<>(~ Unfinished(d))) =>
    \A c \in Clients : (where[c] = "queued") ~> (where[c] = "gone")
=============================================================================
