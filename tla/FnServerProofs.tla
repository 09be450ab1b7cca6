--------------------------- MODULE FnServerProofs ---------------------------
(***************************************************************************)
(* Theorems about FnServer, for every number of clients and every value of *)
(* the limits: type correctness, the bound of the body buffer, and what    *)
(* the parser makes of what it has read.                                   *)
(*                                                                         *)
(* The bound alone is not inductive.  A chunk is admitted by what has been *)
(* read (filled), and the buffer then grows from what it was (room); Room  *)
(* says that the two agree wherever a length or a size is read, and that   *)
(* there is room left wherever a unit of the body is.                      *)
(*                                                                         *)
(* That a request is dispatched if and only if it is whole says nothing of *)
(* a request half read.  Parse says, stage by stage, what the units read   *)
(* so far are, and that the few variables which the parser keeps instead   *)
(* of them (headers, room, filled) are their summary.                      *)
(*                                                                         *)
(* The last section is about the clients: in which order they have their   *)
(* turn, and that an answer goes to the connection whose request it is.    *)
(***************************************************************************)
EXTENDS FnServer, FiniteSetTheorems, TLAPS

Room ==
  /\ room <= MaxBody /\ filled <= room
  /\ stage \in {"request", "headers"} => room = 0
  /\ stage \in {"body", "chunk"} => filled < room
  /\ stage \in {"size", "end", "trailers"} => filled = room

IInv == TypeOK /\ Room

LEMMA UnitsTyped == ASSUME NEW s, NEW u \in Units(s) PROVE u \in Unit
<1> USE ServerAssumption
<1>1. \A K : K \subseteq {"request", "field", "chunked", "length", "nonsense", "blank",
                          "size", "data", "crlf", "bad", "garbage"}
             => Kinds(K) \subseteq Unit
  BY DEF Kinds, Kind, Unit
<1>2. Numbers("length") \subseteq Unit /\ Numbers("size") \subseteq Unit
  BY DEF Numbers, Unit
<1>3. CASE s = "headers"
  <2>1. u \in Kinds({"field", "chunked", "nonsense", "blank", "bad", "garbage"})
        \/ u \in Numbers("length")
    BY <1>3 DEF Units
  <2> QED BY <2>1, <1>1, <1>2
<1>4. CASE s = "size"
  <2>1. u \in Kinds({"bad", "garbage"}) \/ u \in Numbers("size")
    BY <1>4 DEF Units
  <2> QED BY <2>1, <1>1, <1>2
<1>5. CASE s \notin {"headers", "size"}
  <2>1. \/ u \in Kinds({"request", "bad", "garbage"})
        \/ u \in Kinds({"field", "blank", "garbage"})
        \/ u \in Kinds({"crlf", "bad"})
        \/ u \in Kinds({"data"})
    BY <1>5 DEF Units
  <2> QED BY <2>1, <1>1
<1> QED BY <1>3, <1>4, <1>5

LEMMA InitIInv == Init => IInv
BY ServerAssumption DEF Init, IInv, TypeOK, Room, NoHeaders, Reading

LEMMA FreshParser ==
  ASSUME NEW s \in {"idle", "request"}, Fresh(s)
  PROVE  /\ stage' = s
         /\ headers' \in [lines : 0 .. MaxLines, chunked : BOOLEAN,
                          length : {"absent", "number", "invalid"}, n : 0 .. MaxBody + 1]
         /\ room' = 0 /\ filled' = 0
         /\ verdict' \in Verdicts \cup {"none"}
         /\ input' \in Seq(Unit)
BY ServerAssumption DEF Fresh, NoHeaders

LEMMA ConnectPreserves ==
  ASSUME IInv, NEW c \in Clients, Connect(c) PROVE IInv'
BY DEF IInv, TypeOK, Room, Connect, parser

LEMMA ClosePreserves ==
  ASSUME IInv, NEW c \in Clients, NEW how \in {"write", "both"}, Close(c, how) PROVE IInv'
BY DEF IInv, TypeOK, Room, Close, parser

LEMMA AcceptPreserves == ASSUME IInv, Accept PROVE IInv'
<1> USE ServerAssumption DEF IInv
<1>1. Head(queue) \in Clients /\ Tail(queue) \in Seq(Clients)
  BY DEF TypeOK, Accept
<1>2. CASE Fresh("request")
  <2>1. TypeOK'
    BY <1>1, <1>2, FreshParser DEF TypeOK, Accept, Reading, clients, parser, Fresh
  <2>2. Room'
    BY <1>2, FreshParser DEF Room, Fresh
  <2> QED BY <2>1, <2>2
<1>3. CASE UNCHANGED <<current, parser>>
  BY <1>1, <1>3 DEF TypeOK, Room, Accept, parser
<1> QED BY <1>2, <1>3 DEF Accept, Fresh, parser

LEMMA TakesPreserves ==
  ASSUME TypeOK, NEW s, NEW u \in Unit, Takes(s, u)
  PROVE  /\ (where \in [Clients -> {"away", "queued", "current", "gone"}])'
         /\ (queue \in Seq(Clients))'
         /\ (current \in Clients \cup {Nobody})'
         /\ (closed \in [Clients -> {"no", "write", "both"}])'
         /\ (answers \in [Clients -> Verdicts \cup {"none"}])'
         /\ (input \in Seq(Unit))'
BY DEF TypeOK, Takes, clients

LEMMA ReturnPreserves ==
  ASSUME IInv, NEW what \in Verdicts, Return(what)
  PROVE  /\ Room'
         /\ (stage \in Reading \cup {"idle", "decided"})'
         /\ (headers \in [lines : 0 .. MaxLines, chunked : BOOLEAN,
                 length : {"absent", "number", "invalid"}, n : 0 .. MaxBody + 1])'
         /\ (room \in Nat)' /\ (filled \in Nat)'
         /\ (verdict \in Verdicts \cup {"none"})'
BY DEF IInv, TypeOK, Room, Return, Reading

LEMMA ReadPreserves == ASSUME IInv, NEW u \in Unit, Read(u) PROVE IInv'
<1> USE ServerAssumption DEF IInv
<1> DEFINE Parsed ==
      /\ Room'
      /\ (stage \in Reading \cup {"idle", "decided"})'
      /\ (headers \in [lines : 0 .. MaxLines, chunked : BOOLEAN,
              length : {"absent", "number", "invalid"}, n : 0 .. MaxBody + 1])'
      /\ (room \in Nat)' /\ (filled \in Nat)'
      /\ (verdict \in Verdicts \cup {"none"})'
<1>1. \E s : Takes(s, u)
  BY DEF Read, ReadRequestLine, ReadHeader, ReadBody, ReadSize, ReadChunk,
         ReadTerminator, ReadTrailer
<1>2. SUFFICES Parsed
  BY <1>1, TakesPreserves DEF TypeOK
<1>3. ASSUME NEW what \in Verdicts, Return(what) PROVE Parsed
  BY <1>3, ReturnPreserves
<1>4. ASSUME Refuse(u) PROVE Parsed
  BY <1>3, <1>4 DEF Refuse, Verdicts
<1> HIDE DEF Parsed
<1>5. CASE ReadRequestLine(u)
  <2>1. CASE Refuse(u)
    BY <2>1, <1>4
  <2>2. CASE GoOn("headers")
    BY <1>5, <2>2 DEF ReadRequestLine, Takes, GoOn, TypeOK, Room, Reading, Parsed
  <2> QED BY <1>5, <2>1, <2>2 DEF ReadRequestLine
<1>6. CASE ReadHeader(u)
  <2> USE <1>6 DEF ReadHeader, Takes
  <2>1. CASE Refuse(u)
    BY <2>1, <1>4
  <2>2. CASE TooManyLines(u)
    BY <2>2, <1>3 DEF TooManyLines, Verdicts
  <2>3. CASE HeaderLine(u)
    <3>1. WithHeader(u) \in [lines : 0 .. MaxLines, chunked : BOOLEAN,
              length : {"absent", "number", "invalid"}, n : 0 .. MaxBody + 1]
      <4>1. headers.lines + 1 \in 0 .. MaxLines
        BY <2>3 DEF HeaderLine, TypeOK
      <4>2. headers.chunked \in BOOLEAN /\ headers.n \in 0 .. MaxBody + 1
            /\ headers.length \in {"absent", "number", "invalid"}
        BY DEF TypeOK
      <4>3. u.n \in 0 .. MaxBody + 1
        BY DEF Unit
      <4>4. (CASE u.k = "length" /\ headers.length = "absent" -> "number"
               [] u.k = "length" /\ headers.length # "absent" -> "invalid"
               [] u.k = "nonsense" -> "invalid"
               [] OTHER -> headers.length) \in {"absent", "number", "invalid"}
        BY <4>2
      <4>5. (headers.chunked \/ u.k = "chunked") \in BOOLEAN
        OBVIOUS
      <4>6. (IF u.k = "length" /\ headers.length = "absent" THEN u.n ELSE headers.n)
              \in 0 .. MaxBody + 1
        BY <4>2, <4>3
      <4> QED BY <4>1, <4>4, <4>5, <4>6, Zenon DEF WithHeader
    <3> QED BY <2>3, <3>1 DEF HeaderLine, TypeOK, Room, Reading, Parsed
  <2>4. CASE HeadersEnd(u)
    <3>1. CASE GoOn("size")
      BY <3>1 DEF GoOn, TypeOK, Room, Reading, Parsed
    <3>2. CASE \E what \in Verdicts : Return(what)
      BY <3>2, <1>3
    <3>3. CASE headers.n \in 1 .. MaxBody /\ Reserve(headers.n, "body")
      BY <3>3 DEF Reserve, TypeOK, Room, Reading, Parsed
    <3> QED BY <2>4, <3>1, <3>2, <3>3 DEF HeadersEnd, Verdicts
  <2> QED BY <2>1, <2>2, <2>3, <2>4
<1>7. CASE ReadBody(u)
  BY <1>7 DEF ReadBody, Takes, TypeOK, Room, Reading, Verdicts, Parsed
<1>8. CASE ReadSize(u)
  <2> USE <1>8 DEF ReadSize, Takes
  <2>1. CASE Refuse(u)
    BY <2>1, <1>4
  <2>2. CASE GoOn("trailers")
    BY <2>2 DEF GoOn, TypeOK, Room, Reading, Parsed
  <2>3. CASE Return("too_large")
    BY <2>3, <1>3 DEF Verdicts
  <2>4. CASE u.n > 0 /\ filled + u.n <= MaxBody /\ Reserve(u.n, "chunk")
    <3>1. u.n \in Nat
      BY DEF Unit
    <3> QED BY <2>4, <3>1 DEF Reserve, TypeOK, Room, Reading, Parsed
  <2> QED BY <2>1, <2>2, <2>3, <2>4
<1>9. CASE ReadChunk(u)
  BY <1>9 DEF ReadChunk, Takes, TypeOK, Room, Reading, Parsed
<1>10. CASE ReadTerminator(u)
  <2>1. CASE Refuse(u)
    BY <2>1, <1>4
  <2>2. CASE GoOn("size")
    BY <1>10, <2>2 DEF ReadTerminator, Takes, GoOn, TypeOK, Room, Reading, Parsed
  <2> QED BY <1>10, <2>1, <2>2 DEF ReadTerminator
<1>11. CASE ReadTrailer(u)
  <2>1. CASE Refuse(u)
    BY <2>1, <1>4
  <2>2. CASE GoOn("trailers")
    BY <1>11, <2>2 DEF ReadTrailer, Takes, GoOn, TypeOK, Room, Reading, Parsed
  <2>3. CASE Return("dispatch")
    BY <2>3, <1>3 DEF Verdicts
  <2> QED BY <1>11, <2>1, <2>2, <2>3 DEF ReadTrailer
<1> QED BY <1>5, <1>6, <1>7, <1>8, <1>9, <1>10, <1>11 DEF Read

LEMMA EndOfInputPreserves == ASSUME IInv, EndOfInput PROVE IInv'
<1>1. PICK what \in Verdicts : Return(what)
  <2>1. (CASE stage = "request" -> "silence"
           [] stage \in {"headers", "size", "trailers"} -> "bad_request"
           [] OTHER -> "io") \in Verdicts
    BY DEF Verdicts
  <2> QED BY <2>1 DEF EndOfInput
<1> QED BY <1>1, ReturnPreserves DEF EndOfInput, IInv, TypeOK, clients

LEMMA AnswerPreserves == ASSUME IInv, Answer PROVE IInv'
<1>1. Told(current) \in Verdicts \cup {"none"}
  BY DEF IInv, TypeOK, Told
<1>2. Fresh("idle")
  BY DEF Answer
<1>3. Room'
  BY <1>2, FreshParser, ServerAssumption DEF Room
<1>4. /\ (where \in [Clients -> {"away", "queued", "current", "gone"}])'
      /\ (queue \in Seq(Clients))'
      /\ (current \in Clients \cup {Nobody})'
      /\ (closed \in [Clients -> {"no", "write", "both"}])'
      /\ (answers \in [Clients -> Verdicts \cup {"none"}])'
  BY <1>1 DEF IInv, TypeOK, Answer
<1>5. TypeOK'
  BY <1>2, <1>4, FreshParser DEF TypeOK
<1> QED BY <1>3, <1>5 DEF IInv

LEMMA StutterPreserves == ASSUME IInv, UNCHANGED vars PROVE IInv'
BY DEF IInv, TypeOK, Room, vars, clients, parser

\* Types and Room hold in every reachable state.
THEOREM Invariant == Spec => []IInv
<1>1. IInv /\ [Next]_vars => IInv'
  <2> SUFFICES ASSUME IInv, [Next]_vars PROVE IInv'
    OBVIOUS
  <2>1. CASE \E c \in Clients : Connect(c) \/ Close(c, "write") \/ Close(c, "both")
    BY <2>1, ConnectPreserves, ClosePreserves
  <2>2. CASE \E u \in Units(stage) : Read(u)
    BY <2>2, UnitsTyped, ReadPreserves
  <2>3. CASE Accept
    BY <2>3, AcceptPreserves
  <2>4. CASE EndOfInput
    BY <2>4, EndOfInputPreserves
  <2>5. CASE Answer
    BY <2>5, AnswerPreserves
  <2>6. CASE UNCHANGED vars
    BY <2>6, StutterPreserves
  <2> QED BY <2>1, <2>2, <2>3, <2>4, <2>5, <2>6 DEF Next
<1> QED BY <1>1, InitIInv, PTL DEF Spec

\* The types of FnServer hold in every reachable state.
THEOREM TypeCorrect == Spec => []TypeOK
<1>1. IInv => TypeOK
  BY DEF IInv
<1> QED BY <1>1, Invariant, PTL

\* The body buffer of read_request and read_chunked_body stays within
\* max_event_bytes, for any limit, any chunks and any announced length.
THEOREM Bounded == Spec => []BodyBounded
<1>1. IInv => BodyBounded
  BY DEF IInv, Room, BodyBounded
<1> QED BY <1>1, Invariant, PTL

-----------------------------------------------------------------------------
(* What has been read, by what the server reads next.                      *)

\* h is the summary of the header lines of s before b.
Summary(h, s, b) ==
  /\ h.lines = b - 2
  /\ h.chunked <=> Has(s, b, "chunked")
  /\ h.length = "absent" => ~ Has(s, b, "length") /\ ~ Has(s, b, "nonsense")
  /\ h.length = "number" =>
       OneLength(s, b) /\ \E i \in 2 .. b - 1 : s[i].k = "length" /\ s[i].n = h.n
  /\ h.length = "invalid" => ~ OneLength(s, b)

InHead(h, s) ==
  /\ s # <<>> /\ Len(s) <= MaxLines
  /\ s[1].k = "request"
  /\ \A i \in 2 .. Len(s) : s[i].k \in FieldKinds
  /\ Summary(h, s, Len(s) + 1)

InBody(s, b, r, f) ==
  /\ ~ Has(s, b, "chunked") /\ OneLength(s, b)
  /\ \E i \in 2 .. b - 1 : s[i].k = "length" /\ s[i].n = r
  /\ \A i \in b + 1 .. Len(s) : s[i].k = "data"
  /\ f = Len(s) - b

Between(s, b) == Has(s, b, "chunked") /\ Chunks(s, b + 1, Len(s))

\* left is what is still to come of the chunk that starts at p.
InChunk(s, b, left) ==
  /\ Has(s, b, "chunked")
  /\ \E p \in b + 1 .. Len(s) :
       /\ Chunks(s, b + 1, p - 1)
       /\ s[p].k = "size" /\ s[p].n > 0 /\ left = s[p].n - (Len(s) - p)
       /\ \A i \in p + 1 .. Len(s) : s[i].k = "data"

InTrailers(s, b) ==
  /\ Has(s, b, "chunked")
  /\ \E z \in b + 1 .. Len(s) :
       /\ s[z] = [k |-> "size", n |-> 0]
       /\ Chunks(s, b + 1, z - 1)
       /\ \A i \in z + 1 .. Len(s) : s[i].k = "field"

Parse ==
  /\ stage # "idle" => filled = Size(input)
  /\ verdict = "none" <=> stage # "decided"
  /\ stage = "request" => input = <<>> /\ headers = NoHeaders
  /\ stage = "headers" => InHead(headers, input)
  /\ stage \in {"body", "size", "chunk", "end", "trailers"} =>
       \E b \in DOMAIN input :
         /\ HeadEnds(input, b)
         /\ stage = "body" => InBody(input, b, room, filled)
         /\ stage = "size" => Between(input, b)
         /\ stage \in {"chunk", "end"} => InChunk(input, b, room - filled)
         /\ stage = "trailers" => InTrailers(input, b)
  /\ stage = "decided" =>
       /\ verdict = "dispatch" <=> WellFormed(input)
       /\ RefusalsAreFair

-----------------------------------------------------------------------------
(* Lemmas about sequences of units: what one unit more changes, and when   *)
(* they are no request.                                                    *)

LEMMA Appended ==
  ASSUME NEW s \in Seq(Unit), NEW u \in Unit
  PROVE  /\ Append(s, u) \in Seq(Unit)
         /\ Len(s) \in Nat /\ DOMAIN s = 1 .. Len(s)
         /\ Len(Append(s, u)) = Len(s) + 1
         /\ DOMAIN Append(s, u) = 1 .. Len(s) + 1
         /\ \A i \in 1 .. Len(s) : Append(s, u)[i] = s[i]
         /\ Append(s, u)[Len(s) + 1] = u
OBVIOUS

LEMMA SizeIsNat == ASSUME NEW s \in Seq(Unit) PROVE Size(s) \in Nat
<1> DEFINE D == {i \in DOMAIN s : s[i].k = "data"}
<1>1. IsFiniteSet(1 .. Len(s))
  BY FS_Interval
<1>2. D \subseteq 1 .. Len(s)
  OBVIOUS
<1>3. IsFiniteSet(D)
  BY <1>1, <1>2, FS_Subset
<1> QED BY <1>3, FS_CardinalityType DEF Size

LEMMA SizeGrows ==
  ASSUME NEW s \in Seq(Unit), NEW u \in Unit
  PROVE  Size(Append(s, u)) = IF u.k = "data" THEN Size(s) + 1 ELSE Size(s)
<1> DEFINE t == Append(s, u)
           D(v) == {i \in DOMAIN v : v[i].k = "data"}
<1>1. /\ Len(s) \in Nat /\ DOMAIN s = 1 .. Len(s) /\ DOMAIN t = 1 .. Len(s) + 1
      /\ \A i \in 1 .. Len(s) : t[i] = s[i]
      /\ t[Len(s) + 1] = u
  BY Appended
<1> HIDE DEF t
<1>2. IsFiniteSet(D(s))
  <2>1. IsFiniteSet(1 .. Len(s))
    BY FS_Interval
  <2> QED BY <1>1, <2>1, FS_Subset
<1>3. CASE u.k = "data"
  <2>1. D(t) = D(s) \cup {Len(s) + 1} /\ Len(s) + 1 \notin D(s)
    BY <1>1, <1>3
  <2>2. Cardinality(D(t)) = Cardinality(D(s)) + 1
    BY <1>2, <2>1, FS_AddElement
  <2> QED BY <1>3, <2>2 DEF Size, t
<1>4. CASE u.k # "data"
  <2>1. D(t) = D(s)
    BY <1>1, <1>4
  <2> QED BY <1>4, <2>1 DEF Size, t
<1> QED BY <1>3, <1>4

LEMMA SizeOfNothing == Size(<<>>) = 0
<1>1. {i \in DOMAIN <<>> : <<>>[i].k = "data"} = {}
  OBVIOUS
<1> QED BY <1>1, FS_EmptySet DEF Size

\* Header lines that have been read stay what they are.
LEMMA HeadKept ==
  ASSUME NEW s \in Seq(Unit), NEW u \in Unit, NEW b \in 1 .. Len(s) + 1
  PROVE  /\ b <= Len(s) /\ HeadEnds(s, b) => HeadEnds(Append(s, u), b)
         /\ \A k : Has(Append(s, u), b, k) <=> Has(s, b, k)
         /\ OneLength(Append(s, u), b) <=> OneLength(s, b)
<1> DEFINE t == Append(s, u)
<1>1. /\ Len(s) \in Nat /\ DOMAIN s = 1 .. Len(s) /\ DOMAIN t = 1 .. Len(s) + 1
      /\ \A i \in 1 .. Len(s) : t[i] = s[i]
  BY Appended
<1> HIDE DEF t
<1>2. \A i \in 2 .. b - 1 : t[i] = s[i]
  BY <1>1
<1>3. b <= Len(s) /\ HeadEnds(s, b) => HeadEnds(t, b)
  BY <1>1, <1>2 DEF HeadEnds
<1>4. \A k : Has(t, b, k) <=> Has(s, b, k)
  BY <1>2 DEF Has
<1>5. OneLength(t, b) <=> OneLength(s, b)
  BY <1>2, <1>4 DEF OneLength
<1> QED BY <1>3, <1>4, <1>5 DEF t

LEMMA ChunksKept ==
  ASSUME NEW s \in Seq(Unit), NEW u \in Unit,
         NEW a \in Nat \ {0}, NEW z \in Int, z <= Len(s), Chunks(s, a, z)
  PROVE  Chunks(Append(s, u), a, z)
<1> DEFINE t == Append(s, u)
<1>1. Len(s) \in Nat /\ \A i \in 1 .. Len(s) : t[i] = s[i] /\ s[i].n \in Nat
  <2>1. Len(s) \in Nat /\ \A i \in 1 .. Len(s) : t[i] = s[i]
    BY Appended
  <2>2. \A i \in 1 .. Len(s) : s[i] \in Unit
    OBVIOUS
  <2>3. \A v \in Unit : v.n \in Nat
    BY DEF Unit
  <2> QED BY <2>1, <2>2, <2>3
<1> HIDE DEF t
<1>2. \A i \in a .. z : t[i] = s[i] /\ s[i].n \in Nat
  BY <1>1
<1>3. a <= z => t[a].k = "size"
  BY <1>2 DEF Chunks
<1>4. ASSUME NEW i \in a .. z
      PROVE  /\ t[i].k \in {"size", "data", "crlf"}
             /\ t[i].k = "size" =>
                  /\ t[i].n > 0 /\ i + t[i].n + 1 <= z
                  /\ \A j \in i + 1 .. i + t[i].n : t[j].k = "data"
                  /\ t[i + t[i].n + 1].k = "crlf"
                  /\ i + t[i].n + 2 <= z => t[i + t[i].n + 2].k = "size"
  <2> DEFINE n == s[i].n
  <2>1. t[i] = s[i] /\ n \in Nat
    BY <1>2
  <2>2. s[i].k \in {"size", "data", "crlf"}
    BY DEF Chunks
  <2>3. ASSUME s[i].k = "size"
        PROVE  /\ n > 0 /\ i + n + 1 <= z
               /\ \A j \in i + 1 .. i + n : s[j].k = "data"
               /\ s[i + n + 1].k = "crlf"
               /\ i + n + 2 <= z => s[i + n + 2].k = "size"
    BY <2>3 DEF Chunks
  <2> HIDE DEF n
  <2>4. ASSUME s[i].k = "size"
        PROVE  /\ \A j \in i + 1 .. i + n : t[j] = s[j]
               /\ t[i + n + 1] = s[i + n + 1]
               /\ i + n + 2 <= z => t[i + n + 2] = s[i + n + 2]
    BY <1>2, <2>1, <2>3, <2>4
  <2>5. t[i].n = n
    BY <2>1 DEF n
  <2> QED BY <2>1, <2>2, <2>3, <2>4, <2>5
<1> QED BY <1>3, <1>4 DEF Chunks, t

LEMMA OneHead ==
  ASSUME NEW s \in Seq(Unit), NEW b, NEW c, HeadEnds(s, b), HeadEnds(s, c)
  PROVE  b = c
BY DEF HeadEnds, FieldKinds

\* A request ends with the blank line or a piece of its body.
LEMMA LastUnit ==
  ASSUME NEW s \in Seq(Unit), WellFormed(s)
  PROVE  s # <<>> /\ s[Len(s)].k \in {"blank", "data"}
<1>1. PICK b \in DOMAIN s :
        /\ HeadEnds(s, b)
        /\ IF Has(s, b, "chunked") THEN ChunkedBody(s, b) ELSE PlainBody(s, b)
  BY DEF WellFormed
<1>2. b \in 1 .. Len(s) /\ s[b].k = "blank" /\ Len(s) \in Nat
  BY <1>1 DEF HeadEnds
<1>3. CASE Has(s, b, "chunked")
  BY <1>1, <1>2, <1>3 DEF ChunkedBody
<1>4. CASE ~ Has(s, b, "chunked")
  <2>1. \A i \in b + 1 .. Len(s) : s[i].k = "data"
    BY <1>1, <1>4 DEF PlainBody
  <2>2. CASE b = Len(s)
    BY <1>2, <2>2
  <2>3. CASE b # Len(s)
    BY <1>2, <2>1, <2>3
  <2> QED BY <2>2, <2>3
<1> QED BY <1>3, <1>4

LEMMA NoHead ==
  ASSUME NEW s \in Seq(Unit), \A i \in 2 .. Len(s) : s[i].k # "blank"
  PROVE  ~ WellFormed(s)
BY DEF WellFormed, HeadEnds

\* A chunked body that has not come to its last chunk.
LEMMA NoLastChunk ==
  ASSUME NEW s \in Seq(Unit), NEW b, HeadEnds(s, b), Has(s, b, "chunked"),
         \A i \in b + 1 .. Len(s) : s[i].k = "size" => s[i].n # 0
  PROVE  ~ WellFormed(s)
<1> SUFFICES ASSUME WellFormed(s) PROVE FALSE
  OBVIOUS
<1>1. ChunkedBody(s, b)
  BY OneHead DEF WellFormed
<1>2. PICK z \in b + 1 .. Len(s) - 1 : s[z] = [k |-> "size", n |-> 0]
  BY <1>1 DEF ChunkedBody
<1>3. b \in Int /\ Len(s) \in Nat
  BY DEF HeadEnds
<1>4. z \in b + 1 .. Len(s) /\ s[z].k = "size" /\ s[z].n = 0
  BY <1>2, <1>3
<1> QED BY <1>4

\* A body that is not as long as its announced length.
LEMMA OtherLength ==
  ASSUME NEW s \in Seq(Unit), NEW b, HeadEnds(s, b), ~ Has(s, b, "chunked"),
         NEW i \in 2 .. b - 1, s[i].k = "length", s[i].n # Len(s) - b
  PROVE  ~ WellFormed(s)
<1> SUFFICES ASSUME WellFormed(s) PROVE FALSE
  OBVIOUS
<1>1. PlainBody(s, b)
  BY OneHead DEF WellFormed
<1>2. Has(s, b, "length")
  BY DEF Has
<1> QED BY <1>1, <1>2 DEF PlainBody

LEMMA ChunksHaveNoZero ==
  ASSUME NEW s, NEW a, NEW z, Chunks(s, a, z)
  PROVE  \A i \in a .. z : s[i].k = "size" => s[i].n # 0
BY DEF Chunks

\* What is still being read is no request yet.
LEMMA NotYet ==
  ASSUME IInv, Parse, stage \in Reading
  PROVE  /\ ~ WellFormed(input)
         /\ stage = "request" <=> input = <<>>
<1> DEFINE s == input
<1>1. s \in Seq(Unit) /\ Len(s) \in Nat
  BY DEF IInv, TypeOK
<1> HIDE DEF s
<1>2. CASE stage = "request"
  <2>1. s = <<>>
    BY <1>2 DEF Parse, s
  <2> QED BY <1>1, <1>2, <2>1, LastUnit DEF s
<1>3. CASE stage = "headers"
  <2>1. InHead(headers, s)
    BY <1>3 DEF Parse, s
  <2>2. s # <<>> /\ \A i \in 2 .. Len(s) : s[i].k # "blank"
    BY <2>1 DEF InHead, FieldKinds
  <2> QED BY <1>1, <1>3, <2>2, NoHead DEF s
<1>4. CASE stage \notin {"request", "headers"}
  <2>1. PICK b \in DOMAIN s :
          /\ HeadEnds(s, b)
          /\ stage = "body" => InBody(s, b, room, filled)
          /\ stage = "size" => Between(s, b)
          /\ stage \in {"chunk", "end"} => InChunk(s, b, room - filled)
          /\ stage = "trailers" => InTrailers(s, b)
    BY <1>4 DEF Parse, Reading, s
  <2>2. s # <<>> /\ b \in Nat
    BY <1>1, <2>1 DEF HeadEnds
  <2>3. ~ WellFormed(s)
    <3>1. CASE stage = "body"
      <4>1. filled < room /\ filled \in Nat /\ room \in Nat
        BY <3>1 DEF IInv, TypeOK, Room
      <4>2. ~ Has(s, b, "chunked") /\ filled = Len(s) - b
        BY <2>1, <3>1 DEF InBody
      <4>3. PICK i \in 2 .. b - 1 : s[i].k = "length" /\ s[i].n = room
        BY <2>1, <3>1 DEF InBody
      <4>4. s[i].n # Len(s) - b
        BY <4>1, <4>2, <4>3
      <4> QED BY <1>1, <2>1, <4>2, <4>3, <4>4, OtherLength
    <3>2. CASE stage = "size"
      BY <1>1, <2>1, <3>2, NoLastChunk, ChunksHaveNoZero DEF Between
    <3>3. CASE stage \in {"chunk", "end"}
      <4>1. Has(s, b, "chunked")
        BY <2>1, <3>3 DEF InChunk
      <4>2. PICK p \in b + 1 .. Len(s) :
              /\ Chunks(s, b + 1, p - 1)
              /\ s[p].k = "size" /\ s[p].n > 0
              /\ \A i \in p + 1 .. Len(s) : s[i].k = "data"
        BY <2>1, <3>3 DEF InChunk
      <4>3. \A i \in b + 1 .. p - 1 : s[i].k = "size" => s[i].n # 0
        BY <4>2, ChunksHaveNoZero
      <4>4. \A i \in b + 1 .. Len(s) : s[i].k = "size" => s[i].n # 0
        <5> TAKE i \in b + 1 .. Len(s)
        <5>1. i \in b + 1 .. p - 1 \/ i = p \/ i \in p + 1 .. Len(s)
          BY <1>1, <2>2
        <5> QED BY <4>2, <4>3, <5>1
      <4> QED BY <1>1, <2>1, <4>1, <4>4, NoLastChunk
    <3>4. CASE stage = "trailers"
      <4>1. PICK z \in b + 1 .. Len(s) :
              /\ s[z] = [k |-> "size", n |-> 0]
              /\ \A i \in z + 1 .. Len(s) : s[i].k = "field"
        BY <2>1, <3>4 DEF InTrailers
      <4>2. s[Len(s)].k \in {"size", "field"}
        <5>1. z = Len(s) \/ Len(s) \in z + 1 .. Len(s)
          BY <1>1, <2>2
        <5> QED BY <4>1, <5>1
      <4> QED BY <1>1, <4>2, LastUnit
    <3> QED BY <1>4, <3>1, <3>2, <3>3, <3>4 DEF Reading, IInv, TypeOK
  <2> QED BY <1>4, <2>2, <2>3 DEF s
<1> QED BY <1>2, <1>3, <1>4

-----------------------------------------------------------------------------
(* Each reader keeps Parse.                                                *)

LEMMA DecidedParse ==
  ASSUME stage' = "decided", verdict' # "none", filled' = Size(input'),
         verdict' = "dispatch" <=> WellFormed(input'), RefusalsAreFair'
  PROVE  Parse'
BY DEF Parse

\* The unit u makes the request a bad one.
LEMMA ReturnParse ==
  ASSUME IInv, Parse, stage \in Reading, NEW u \in Unit, u.k # "data",
         input' = Append(input, u), UNCHANGED <<closed, current>>,
         NEW what \in {"bad_request", "too_large", "io"}, Return(what),
         ~ WellFormed(Append(input, u)),
         what = "io" => u.k = "garbage",
         what = "too_large" => Exceeds(Append(input, u))
  PROVE  Parse'
<1>1. input \in Seq(Unit)
  BY DEF IInv, TypeOK
<1>2. stage' = "decided" /\ verdict' = what /\ filled' = filled
  BY DEF Return
<1>3. filled' = Size(input')
  <2>1. filled = Size(input)
    BY DEF Parse, Reading
  <2> QED BY <1>1, <1>2, <2>1, SizeGrows
<1>4. RefusalsAreFair'
  <2>1. input' # <<>>
    BY <1>1, Appended
  <2>2. what = "io" => \E i \in DOMAIN input' : input'[i].k = "garbage"
    BY <1>1, Appended
  <2> QED BY <1>2, <2>1, <2>2 DEF RefusalsAreFair
<1> QED BY <1>2, <1>3, <1>4, DecidedParse

\* The unit u completes a request.
LEMMA DispatchParse ==
  ASSUME IInv, Parse, NEW u \in Unit, input' = Append(input, u),
         stage' = "decided", verdict' = "dispatch", filled' = Size(input'),
         WellFormed(Append(input, u))
  PROVE  Parse'
<1>1. input \in Seq(Unit)
  BY DEF IInv, TypeOK
<1>2. input' # <<>>
  BY <1>1, Appended
<1>3. RefusalsAreFair'
  BY <1>2 DEF RefusalsAreFair
<1> QED BY <1>3, DecidedParse

LEMMA RefuseParse ==
  ASSUME IInv, Parse, NEW s, s \in Reading, NEW u \in Unit, Takes(s, u), Refuse(u)
  PROVE  Parse'
<1>1. input \in Seq(Unit) /\ stage \in Reading /\ input' = Append(input, u)
      /\ UNCHANGED <<closed, current>>
  BY DEF IInv, TypeOK, Takes, clients
<1>2. ~ WellFormed(Append(input, u))
  <2>1. Append(input, u)[Len(Append(input, u))] = u /\ Append(input, u) \in Seq(Unit)
    BY <1>1, Appended
  <2> QED BY <2>1, LastUnit DEF Refuse
<1>3. CASE u.k = "bad" /\ Return("bad_request")
  BY <1>1, <1>2, <1>3, ReturnParse
<1>4. CASE u.k = "garbage" /\ Return("io")
  BY <1>1, <1>2, <1>4, ReturnParse
<1> QED BY <1>3, <1>4 DEF Refuse

LEMMA RequestLineParse ==
  ASSUME IInv, Parse, NEW u \in Unit, ReadRequestLine(u)
  PROVE  Parse'
<1>1. stage = "request" /\ Takes("request", u) /\ input = <<>> /\ headers = NoHeaders
      /\ filled = Size(<<>>)
  BY DEF ReadRequestLine, Takes, Parse
<1>2. CASE Refuse(u)
  BY <1>1, <1>2, RefuseParse DEF Reading
<1>3. CASE u.k = "request" /\ GoOn("headers")
  <2> DEFINE t == Append(<<>>, u)
  <2>1. input' = t /\ stage' = "headers" /\ headers' = NoHeaders /\ filled' = filled
        /\ verdict' = "none"
    BY <1>1, <1>3 DEF Takes, GoOn, Parse
  <2>2. Len(t) = 1 /\ t # <<>> /\ t[1].k = "request"
    BY <1>3
  <2>3. Size(t) = Size(<<>>)
    <3>1. <<>> \in Seq(Unit)
      OBVIOUS
    <3> QED BY <1>3, <3>1, SizeGrows
  <2> HIDE DEF t
  <2>4. InHead(NoHeaders, t)
    BY <2>2, ServerAssumption DEF InHead, Summary, NoHeaders, Has, OneLength
  <2>5. InHead(headers', input') /\ filled' = Size(input')
    BY <1>1, <2>1, <2>3, <2>4
  <2> QED BY <2>1, <2>5 DEF Parse
<1> QED BY <1>2, <1>3 DEF ReadRequestLine

\* WithHeader sums up one more header line.
LEMMA HeadGrows ==
  ASSUME NEW s \in Seq(Unit), NEW u \in Unit, IInv, InHead(headers, s),
         u.k \in FieldKinds, headers.lines + 1 < MaxLines
  PROVE  InHead(WithHeader(u), Append(s, u))
<1> DEFINE t == Append(s, u)  h == headers  g == WithHeader(u)  b == Len(s) + 1
<1>1. /\ Len(s) \in Nat /\ b = Len(s) + 1 /\ t \in Seq(Unit) /\ Len(t) = b
      /\ \A i \in 1 .. Len(s) : t[i] = s[i]
      /\ t[b] = u
  BY Appended
<1>2. s # <<>> /\ Len(s) >= 1 /\ s[1].k = "request"
      /\ \A i \in 2 .. Len(s) : s[i].k \in FieldKinds
  BY <1>1 DEF InHead
<1>3. Summary(h, s, b)
  BY DEF InHead
<1>4. h.length \in {"absent", "number", "invalid"} /\ h.chunked \in BOOLEAN /\ h.lines = b - 2
  BY <1>3 DEF IInv, TypeOK, Summary
<1>5. /\ g.lines = h.lines + 1
      /\ g.chunked <=> h.chunked \/ u.k = "chunked"
      /\ g.length = (CASE u.k = "length" /\ h.length = "absent" -> "number"
                       [] u.k = "length" /\ h.length # "absent" -> "invalid"
                       [] u.k = "nonsense" -> "invalid"
                       [] OTHER -> h.length)
      /\ g.n = IF u.k = "length" /\ h.length = "absent" THEN u.n ELSE h.n
  BY DEF WithHeader
<1> HIDE DEF t, h, g, b
<1>6. \A k : Has(t, b + 1, k) <=> Has(s, b, k) \/ u.k = k
  <2> TAKE k
  <2>1. ASSUME NEW i \in 2 .. (b + 1) - 1, t[i].k = k PROVE Has(s, b, k) \/ u.k = k
    <3>1. i = b \/ i \in 2 .. b - 1
      BY <1>1
    <3> QED BY <1>1, <2>1, <3>1 DEF Has
  <2>2. ASSUME NEW i \in 2 .. b - 1, s[i].k = k PROVE Has(t, b + 1, k)
    BY <1>1, <2>2 DEF Has
  <2>3. u.k = k => Has(t, b + 1, k)
    <3>1. b \in 2 .. (b + 1) - 1
      BY <1>1, <1>2
    <3> QED BY <1>1, <3>1 DEF Has
  <2>4. Has(t, b + 1, k) => Has(s, b, k) \/ u.k = k
    BY <2>1 DEF Has
  <2>5. Has(s, b, k) => Has(t, b + 1, k)
    BY <2>2 DEF Has
  <2> QED BY <2>3, <2>4, <2>5
<1>7. OneLength(t, b + 1) <=>
        (OneLength(s, b) /\ u.k # "nonsense" /\ (u.k = "length" => ~ Has(s, b, "length")))
  <2>1. \A i \in 2 .. (b + 1) - 1 : i = b \/ (i \in 2 .. b - 1 /\ t[i] = s[i])
    BY <1>1
  <2>2. 2 .. b - 1 \subseteq 2 .. (b + 1) - 1 /\ b \in 2 .. (b + 1) - 1 /\ b \notin 2 .. b - 1
    BY <1>1, <1>2
  <2>3. ASSUME OneLength(t, b + 1)
        PROVE  /\ OneLength(s, b) /\ u.k # "nonsense"
               /\ u.k = "length" => ~ Has(s, b, "length")
    <3>1. ~ Has(s, b, "nonsense") /\ u.k # "nonsense"
      BY <1>6, <2>3 DEF OneLength
    <3>2. \A i, j \in 2 .. b - 1 : s[i].k = "length" /\ s[j].k = "length" => i = j
      BY <2>1, <2>2, <2>3 DEF OneLength
    <3>3. u.k = "length" => ~ Has(s, b, "length")
      BY <1>1, <2>1, <2>2, <2>3 DEF OneLength, Has
    <3> QED BY <3>1, <3>2, <3>3 DEF OneLength
  <2>4. ASSUME OneLength(s, b), u.k # "nonsense", u.k = "length" => ~ Has(s, b, "length")
        PROVE  OneLength(t, b + 1)
    <3>1. ~ Has(t, b + 1, "nonsense")
      BY <1>6, <2>4 DEF OneLength
    <3>2. ASSUME NEW i \in 2 .. (b + 1) - 1, NEW j \in 2 .. (b + 1) - 1,
                 t[i].k = "length", t[j].k = "length"
          PROVE  i = j
      BY <1>1, <2>1, <2>4, <3>2 DEF OneLength, Has
    <3> QED BY <3>1, <3>2 DEF OneLength
  <2> QED BY <2>3, <2>4
<1>8. Summary(g, t, b + 1)
  <2>1. g.lines = (b + 1) - 2
    BY <1>1, <1>4, <1>5
  <2>2. g.chunked <=> Has(t, b + 1, "chunked")
    BY <1>3, <1>4, <1>5, <1>6 DEF Summary
  <2>3. g.length = "absent" => ~ Has(t, b + 1, "length") /\ ~ Has(t, b + 1, "nonsense")
    BY <1>3, <1>4, <1>5, <1>6 DEF Summary
  <2>4. g.length = "invalid" => ~ OneLength(t, b + 1)
    <3>1. h.length # "absent" => Has(s, b, "length") \/ ~ OneLength(s, b)
      BY <1>3, <1>4 DEF Summary, Has
    <3>2. h.length = "invalid" => ~ OneLength(s, b)
      BY <1>3 DEF Summary
    <3>3. g.length = "invalid" =>
            u.k = "nonsense" \/ (u.k = "length" /\ h.length # "absent") \/ h.length = "invalid"
      <4>1. CASE u.k = "length" /\ h.length = "absent"
        BY <1>5, <4>1
      <4>2. CASE u.k \notin {"length", "nonsense"}
        BY <1>5, <4>2
      <4> QED BY <4>1, <4>2
    <3> QED BY <1>7, <3>1, <3>2, <3>3
  <2>5. ASSUME g.length = "number"
        PROVE  /\ OneLength(t, b + 1)
               /\ \E i \in 2 .. (b + 1) - 1 : t[i].k = "length" /\ t[i].n = g.n
    <3>1. CASE u.k = "length" /\ h.length = "absent"
      <4>1. OneLength(s, b) /\ ~ Has(s, b, "length")
        BY <1>3, <3>1 DEF Summary, OneLength, Has
      <4>2. b \in 2 .. (b + 1) - 1
        BY <1>1, <1>2
      <4>3. t[b].k = "length" /\ t[b].n = g.n
        BY <1>1, <1>5, <3>1
      <4>4. OneLength(t, b + 1)
        BY <1>7, <3>1, <4>1
      <4> QED BY <4>2, <4>3, <4>4
    <3>2. CASE ~ (u.k = "length" /\ h.length = "absent")
      <4>1. h.length = "number" /\ u.k \notin {"length", "nonsense"} /\ g.n = h.n
        BY <1>5, <2>5, <3>2
      <4>2. OneLength(t, b + 1)
        BY <1>3, <1>7, <4>1 DEF Summary
      <4>3. PICK i \in 2 .. b - 1 : s[i].k = "length" /\ s[i].n = h.n
        BY <1>3, <4>1 DEF Summary
      <4>4. i \in 2 .. (b + 1) - 1 /\ t[i] = s[i]
        BY <1>1
      <4> QED BY <4>1, <4>2, <4>3, <4>4
    <3> QED BY <3>1, <3>2
  <2> QED BY <2>1, <2>2, <2>3, <2>4, <2>5 DEF Summary
<1>9. t # <<>> /\ Len(t) <= MaxLines /\ t[1].k = "request"
      /\ \A i \in 2 .. Len(t) : t[i].k \in FieldKinds
  BY <1>1, <1>2, <1>4, ServerAssumption DEF h
<1> QED BY <1>1, <1>8, <1>9 DEF InHead, t, g, b

LEMMA HeaderParse ==
  ASSUME IInv, Parse, NEW u \in Unit, ReadHeader(u)
  PROVE  Parse'
<1> DEFINE s == input  t == Append(input, u)  b == Len(input) + 1
<1>1. /\ stage = "headers" /\ Takes("headers", u) /\ InHead(headers, s)
      /\ filled = Size(s) /\ verdict = "none"
  BY DEF ReadHeader, Takes, Parse
<1>2. /\ s \in Seq(Unit) /\ Len(s) \in Nat /\ t \in Seq(Unit) /\ Len(t) = b
      /\ t[b] = u /\ DOMAIN t = 1 .. b
      /\ \A i \in 1 .. Len(s) : t[i] = s[i]
  BY Appended DEF IInv, TypeOK
<1>3. input' = t /\ UNCHANGED <<closed, current>> /\ stage \in Reading
  BY <1>1 DEF Takes, clients, Reading
<1>4. filled = 0 /\ room = 0
  BY <1>1 DEF IInv, TypeOK, Room
<1>5. s # <<>> /\ Len(s) >= 1 /\ Len(s) <= MaxLines /\ s[1].k = "request"
      /\ \A i \in 2 .. Len(s) : s[i].k \in FieldKinds
  BY <1>1, <1>2 DEF InHead
<1>6. Summary(headers, s, b)
  BY <1>1 DEF InHead
<1>7. Size(t) = IF u.k = "data" THEN Size(s) + 1 ELSE Size(s)
  BY <1>2, SizeGrows
<1>8. CASE Refuse(u)
  BY <1>1, <1>8, RefuseParse DEF Reading
<1>9. CASE HeaderLine(u)
  <2>1. InHead(WithHeader(u), t)
    BY <1>1, <1>2, <1>9, HeadGrows DEF HeaderLine, FieldKinds
  <2>2. headers' = WithHeader(u) /\ stage' = "headers" /\ filled' = filled /\ verdict' = "none"
    BY <1>1, <1>9 DEF HeaderLine
  <2>3. Size(t) = Size(s)
    BY <1>7, <1>9 DEF HeaderLine
  <2> HIDE DEF t
  <2>4. InHead(headers', input') /\ filled' = Size(input')
    BY <1>1, <1>3, <2>1, <2>2, <2>3
  <2> QED BY <2>2, <2>4 DEF Parse
<1>10. CASE TooManyLines(u)
  <2>1. u.k \notin {"blank", "data"}
    BY <1>10 DEF TooManyLines
  <2>2. ~ WellFormed(t)
    BY <1>2, <2>1, LastUnit
  <2> QED BY <1>3, <1>10, <2>1, <2>2, ReturnParse DEF TooManyLines
<1>11. CASE HeadersEnd(u)
  <2> HIDE DEF t, b
  <2>1. u.k = "blank"
    BY <1>11 DEF HeadersEnd
  <2>2. HeadEnds(t, b) /\ b \in Nat
    <3>1. b \in 1 .. b /\ b \in 2 .. MaxLines + 1 /\ t[1].k = "request"
      BY <1>2, <1>5, ServerAssumption DEF b
    <3>2. \A i \in 2 .. b - 1 : t[i].k \in FieldKinds
      BY <1>2, <1>5 DEF b
    <3> QED BY <1>2, <2>1, <3>1, <3>2 DEF HeadEnds
  <2>3. /\ \A k : Has(t, b, k) <=> Has(s, b, k)
        /\ OneLength(t, b) <=> OneLength(s, b)
    BY <1>2, HeadKept DEF t, b
  <2>4. headers.chunked <=> Has(t, b, "chunked")
    BY <1>6, <2>3 DEF Summary
  <2>5. Size(t) = 0
    BY <1>1, <1>4, <1>7, <2>1
  <2>6. \A i \in b + 1 .. Len(t) : FALSE
    BY <1>2, <2>2
  <2>7. CASE headers.chunked /\ GoOn("size")
    <3>1. stage' = "size" /\ filled' = Size(t) /\ verdict' = "none"
      BY <1>1, <1>4, <2>5, <2>7 DEF GoOn
    <3>2. Between(t, b)
      <4>1. ~ (b + 1 <= Len(t))
        BY <1>2, <2>2
      <4> QED BY <2>4, <2>6, <2>7, <4>1 DEF Between, Chunks
    <3>3. b \in DOMAIN t
      BY <2>2 DEF HeadEnds
    <3> QED BY <1>3, <2>2, <3>1, <3>2, <3>3 DEF Parse
  <2>8. CASE ~ headers.chunked /\ headers.length = "absent" /\ Return("dispatch")
    <3>1. ~ Has(t, b, "length") /\ ~ Has(t, b, "nonsense")
      BY <1>6, <2>3, <2>8 DEF Summary
    <3>2. PlainBody(t, b)
      BY <1>2, <2>6, <3>1 DEF PlainBody, OneLength, Has
    <3>3. WellFormed(t)
      BY <2>2, <2>4, <2>5, <2>8, <3>2, ServerAssumption DEF WellFormed, HeadEnds
    <3>4. stage' = "decided" /\ verdict' = "dispatch" /\ filled' = Size(input')
      BY <1>3, <1>4, <2>5, <2>8 DEF Return
    <3> QED BY <1>3, <3>3, <3>4, DispatchParse DEF t
  <2>9. CASE ~ headers.chunked /\ headers.length = "invalid" /\ Return("bad_request")
    <3>1. ~ OneLength(t, b)
      BY <1>6, <2>3, <2>9 DEF Summary
    <3>2. ~ WellFormed(t)
      BY <1>2, <2>2, <2>4, <2>9, <3>1, OneHead DEF WellFormed, PlainBody
    <3> QED BY <1>3, <2>1, <2>9, <3>2, ReturnParse DEF t
  <2>10. CASE ~ headers.chunked /\ headers.length = "number"
    <3>1. OneLength(t, b)
      BY <1>6, <2>3, <2>10 DEF Summary
    <3>2. PICK i \in 2 .. b - 1 : s[i].k = "length" /\ s[i].n = headers.n
      BY <1>6, <2>10 DEF Summary
    <3>3. i \in DOMAIN t /\ t[i].k = "length" /\ t[i].n = headers.n
      BY <1>2, <3>2 DEF b
    <3>4. headers.n \in Nat
      BY DEF IInv, TypeOK
    <3>5. Has(t, b, "length") /\ ~ Has(t, b, "chunked")
      BY <2>4, <2>10, <3>2, <3>3 DEF Has
    <3>6. CASE headers.n > MaxBody /\ Return("too_large")
      <4>1. t[i].n # Len(t) - b
        BY <1>2, <2>2, <3>3, <3>4, <3>6, ServerAssumption
      <4>2. ~ WellFormed(t)
        BY <1>2, <2>2, <3>2, <3>3, <3>5, <4>1, OtherLength
      <4>3. Exceeds(t)
        BY <1>2, <3>1, <3>3, <3>6 DEF Exceeds
      <4> QED BY <1>3, <2>1, <3>6, <4>2, <4>3, ReturnParse DEF t
    <3>7. CASE headers.n = 0 /\ Return("dispatch")
      <4>1. ASSUME NEW j \in 2 .. b - 1, t[j].k = "length"
            PROVE  Len(t) - b = t[j].n
        <5>1. j = i
          BY <3>1, <3>2, <3>3, <4>1 DEF OneLength
        <5> QED BY <1>2, <2>2, <3>3, <3>7, <5>1
      <4>2. PlainBody(t, b)
        BY <2>6, <3>1, <3>5, <4>1 DEF PlainBody
      <4>3. WellFormed(t)
        BY <2>2, <2>5, <3>5, <4>2, ServerAssumption DEF WellFormed, HeadEnds
      <4>4. stage' = "decided" /\ verdict' = "dispatch" /\ filled' = Size(input')
        BY <1>3, <1>4, <2>5, <3>7 DEF Return
      <4> QED BY <1>3, <4>3, <4>4, DispatchParse DEF t
    <3>8. CASE headers.n \in 1 .. MaxBody /\ Reserve(headers.n, "body")
      <4>1. stage' = "body" /\ room' = headers.n /\ filled' = 0 /\ verdict' = "none"
        BY <1>1, <1>4, <3>4, <3>8 DEF Reserve
      <4>2. InBody(t, b, headers.n, 0)
        BY <1>2, <2>2, <2>6, <3>1, <3>2, <3>3, <3>5 DEF InBody
      <4>3. b \in DOMAIN t
        BY <2>2 DEF HeadEnds
      <4> QED BY <1>3, <2>2, <2>5, <4>1, <4>2, <4>3 DEF Parse
    <3> QED BY <1>11, <2>10, <3>6, <3>7, <3>8 DEF HeadersEnd
  <2> QED BY <1>11, <2>7, <2>8, <2>9, <2>10 DEF HeadersEnd
<1> QED BY <1>8, <1>9, <1>10, <1>11 DEF ReadHeader

\* In the body of a request, one unit more leaves the header lines as they are.
LEMMA BodyContext ==
  ASSUME IInv, Parse, NEW s, NEW u \in Units(s), Takes(s, u),
         s \in {"body", "size", "chunk", "end", "trailers"}
  PROVE  /\ stage = s /\ input' = Append(input, u) /\ u \in Unit
         /\ UNCHANGED <<closed, current>> /\ verdict = "none" /\ filled = Size(input)
         /\ filled \in Nat /\ room \in Nat /\ room <= MaxBody
         /\ \E b \in DOMAIN input :
              /\ HeadEnds(input, b)
              /\ s = "body" => InBody(input, b, room, filled)
              /\ s = "size" => Between(input, b)
              /\ s \in {"chunk", "end"} => InChunk(input, b, room - filled)
              /\ s = "trailers" => InTrailers(input, b)
<1>1. stage = s /\ input' = Append(input, u) /\ UNCHANGED <<closed, current>>
  BY DEF Takes, clients
<1>2. u \in Unit
  BY UnitsTyped
<1> QED BY <1>1, <1>2 DEF Parse, IInv, TypeOK, Room

\* The same of the sequences alone.
LEMMA BodyUnit ==
  ASSUME NEW s \in Seq(Unit), NEW u \in Unit, NEW b \in DOMAIN s, HeadEnds(s, b)
  PROVE  /\ Append(s, u) \in Seq(Unit) /\ Len(s) \in Nat /\ DOMAIN s = 1 .. Len(s)
         /\ b \in 1 .. Len(s) /\ b \in DOMAIN Append(s, u)
         /\ Len(Append(s, u)) = Len(s) + 1 /\ Append(s, u)[Len(s) + 1] = u
         /\ \A i \in 1 .. Len(s) : Append(s, u)[i] = s[i]
         /\ HeadEnds(Append(s, u), b)
         /\ \A k : Has(Append(s, u), b, k) <=> Has(s, b, k)
         /\ OneLength(Append(s, u), b) <=> OneLength(s, b)
<1>1. /\ Append(s, u) \in Seq(Unit) /\ Len(s) \in Nat /\ DOMAIN s = 1 .. Len(s)
      /\ DOMAIN Append(s, u) = 1 .. Len(s) + 1
      /\ Len(Append(s, u)) = Len(s) + 1 /\ Append(s, u)[Len(s) + 1] = u
      /\ \A i \in 1 .. Len(s) : Append(s, u)[i] = s[i]
  BY Appended
<1>2. b \in 1 .. Len(s) /\ b \in 1 .. Len(s) + 1 /\ b <= Len(s)
  BY <1>1
<1> QED BY <1>1, <1>2, HeadKept

LEMMA BodyParse ==
  ASSUME IInv, Parse, NEW u \in Units("body"), ReadBody(u)
  PROVE  Parse'
<1> DEFINE s == input  t == Append(input, u)
<1>1. /\ Takes("body", u) /\ stage = "body" /\ input' = t /\ u \in Unit
      /\ verdict = "none" /\ filled = Size(s)
      /\ filled \in Nat /\ room \in Nat /\ room <= MaxBody
  BY BodyContext DEF ReadBody
<1>2. PICK b \in DOMAIN s : HeadEnds(s, b) /\ InBody(s, b, room, filled)
  BY <1>1, BodyContext DEF ReadBody
<1>3. s \in Seq(Unit)
  BY DEF IInv, TypeOK
<1>4. /\ t \in Seq(Unit) /\ Len(s) \in Nat /\ b \in 1 .. Len(s) /\ b \in DOMAIN t
      /\ Len(t) = Len(s) + 1 /\ t[Len(s) + 1] = u
      /\ \A i \in 1 .. Len(s) : t[i] = s[i]
      /\ HeadEnds(t, b)
      /\ \A k : Has(t, b, k) <=> Has(s, b, k)
      /\ OneLength(t, b) <=> OneLength(s, b)
  BY <1>1, <1>2, <1>3, BodyUnit
<1>5. u.k = "data"
  BY DEF Units, Kinds, Kind
<1>6. Size(t) = filled + 1 /\ filled' = filled + 1 /\ room' = room
  BY <1>1, <1>3, <1>5, SizeGrows DEF ReadBody
<1> HIDE DEF s, t
<1>7. InBody(t, b, room, filled + 1)
  <2>1. ~ Has(t, b, "chunked") /\ OneLength(t, b)
    BY <1>2, <1>4 DEF InBody
  <2>2. PICK i \in 2 .. b - 1 : s[i].k = "length" /\ s[i].n = room
    BY <1>2 DEF InBody
  <2>3. t[i] = s[i]
    BY <1>4
  <2>4. \A j \in b + 1 .. Len(t) : t[j].k = "data"
    <3> TAKE j \in b + 1 .. Len(t)
    <3>1. j = Len(s) + 1 \/ (j \in b + 1 .. Len(s) /\ j \in 1 .. Len(s))
      BY <1>4
    <3> QED BY <1>2, <1>4, <1>5, <3>1 DEF InBody
  <2>5. filled + 1 = Len(t) - b
    BY <1>2, <1>4 DEF InBody
  <2> QED BY <2>1, <2>2, <2>3, <2>4, <2>5 DEF InBody
<1>8. CASE filled + 1 = room
  <2>1. stage' = "decided" /\ verdict' = "dispatch"
    BY <1>8 DEF ReadBody
  <2>2. PlainBody(t, b)
    <3>1. ASSUME NEW j \in 2 .. b - 1, t[j].k = "length" PROVE Len(t) - b = t[j].n
      <4>1. PICK i \in 2 .. b - 1 : t[i].k = "length" /\ t[i].n = room
        BY <1>7 DEF InBody
      <4>2. i = j
        BY <1>7, <3>1, <4>1 DEF InBody, OneLength
      <4> QED BY <1>7, <1>8, <4>1, <4>2 DEF InBody
    <3>2. Has(t, b, "length")
      BY <1>7 DEF InBody, Has
    <3> QED BY <1>7, <3>1, <3>2 DEF InBody, PlainBody
  <2>3. WellFormed(t)
    BY <1>1, <1>4, <1>6, <1>7, <1>8, <2>2 DEF WellFormed, InBody
  <2> QED BY <1>1, <1>6, <2>1, <2>3, DispatchParse DEF t
<1>9. CASE filled + 1 # room
  <2>1. stage' = "body" /\ verdict' = "none"
    BY <1>1, <1>9 DEF ReadBody
  <2> QED BY <1>1, <1>4, <1>6, <1>7, <2>1 DEF Parse
<1> QED BY <1>8, <1>9

LEMMA SizeParse ==
  ASSUME IInv, Parse, NEW u \in Units("size"), ReadSize(u)
  PROVE  Parse'
<1> DEFINE s == input  t == Append(input, u)
<1>1. /\ Takes("size", u) /\ stage = "size" /\ input' = t /\ u \in Unit
      /\ verdict = "none" /\ filled = Size(s) /\ UNCHANGED <<closed, current>>
      /\ filled \in Nat /\ room \in Nat /\ room <= MaxBody
  BY BodyContext DEF ReadSize
<1>2. PICK b \in DOMAIN s : HeadEnds(s, b) /\ Between(s, b)
  BY <1>1, BodyContext DEF ReadSize
<1>3. s \in Seq(Unit) /\ filled = room
  BY <1>1 DEF IInv, TypeOK, Room
<1>4. /\ t \in Seq(Unit) /\ Len(s) \in Nat /\ b \in 1 .. Len(s) /\ b \in DOMAIN t
      /\ Len(t) = Len(s) + 1 /\ t[Len(s) + 1] = u
      /\ HeadEnds(t, b)
      /\ \A k : Has(t, b, k) <=> Has(s, b, k)
  BY <1>1, <1>2, <1>3, BodyUnit
<1>5. u.k # "data" /\ u.n \in Nat /\ u = [k |-> u.k, n |-> u.n]
  BY DEF Units, Kinds, Kind, Numbers
<1>6. Size(t) = filled
  BY <1>1, <1>3, <1>5, SizeGrows
<1>7. Has(t, b, "chunked") /\ Chunks(t, b + 1, Len(s))
  <2>1. Chunks(s, b + 1, Len(s))
    BY <1>2 DEF Between
  <2>2. b + 1 \in Nat \ {0} /\ Len(s) \in Int /\ Len(s) <= Len(s)
    BY <1>4
  <2>3. Chunks(t, b + 1, Len(s))
    BY <1>1, <1>3, <2>1, <2>2, ChunksKept
  <2> QED BY <1>2, <1>4, <2>3 DEF Between
<1> HIDE DEF s, t
<1>8. Len(t) - 1 = Len(s) /\ Len(t) \in b + 1 .. Len(t) /\ t[Len(t)] = u
      /\ \A i \in Len(t) + 1 .. Len(t) : FALSE
  BY <1>4
<1>9. CASE Refuse(u)
  BY <1>1, <1>9, RefuseParse DEF Reading
<1>10. CASE u.k = "size" /\ u.n = 0 /\ GoOn("trailers")
  <2>1. stage' = "trailers" /\ filled' = filled /\ verdict' = "none"
    BY <1>1, <1>10 DEF GoOn
  <2>2. InTrailers(t, b)
    BY <1>5, <1>7, <1>8, <1>10 DEF InTrailers
  <2> QED BY <1>1, <1>4, <1>6, <2>1, <2>2 DEF Parse
<1>11. CASE u.k = "size" /\ u.n > 0 /\ filled + u.n > MaxBody /\ Return("too_large")
  <2>1. ~ WellFormed(t)
    BY <1>4, <1>8, <1>11, LastUnit
  <2>2. Exceeds(t)
    BY <1>4, <1>6, <1>8, <1>11 DEF Exceeds
  <2> QED BY <1>1, <1>5, <1>11, <2>1, <2>2, ReturnParse DEF t, Reading
<1>12. CASE u.k = "size" /\ u.n > 0 /\ filled + u.n <= MaxBody /\ Reserve(u.n, "chunk")
  <2>1. stage' = "chunk" /\ room' = room + u.n /\ filled' = filled /\ verdict' = "none"
    BY <1>1, <1>12 DEF Reserve
  <2>2. room' - filled' = u.n - (Len(t) - Len(t))
    BY <1>1, <1>3, <1>4, <1>5, <2>1
  <2>3. InChunk(t, b, room' - filled')
    BY <1>7, <1>8, <1>12, <2>2 DEF InChunk
  <2> QED BY <1>1, <1>4, <1>6, <2>1, <2>3 DEF Parse
<1> QED BY <1>9, <1>10, <1>11, <1>12 DEF ReadSize

LEMMA NumbersAreNat == \A s \in Seq(Unit) : \A i \in 1 .. Len(s) : s[i].n \in Nat
<1>1. \A v \in Unit : v.n \in Nat
  BY DEF Unit
<1>2. \A s \in Seq(Unit) : \A i \in 1 .. Len(s) : s[i] \in Unit
  OBVIOUS
<1> QED BY <1>1, <1>2

LEMMA ChunkParse ==
  ASSUME IInv, Parse, NEW u \in Units("chunk"), ReadChunk(u)
  PROVE  Parse'
<1> DEFINE s == input  t == Append(input, u)
<1>1. /\ stage = "chunk" /\ input' = t /\ u \in Unit
      /\ verdict = "none" /\ filled = Size(s) /\ filled \in Nat /\ room \in Nat
  BY BodyContext DEF ReadChunk
<1>2. PICK b \in DOMAIN s : HeadEnds(s, b) /\ InChunk(s, b, room - filled)
  BY <1>1, BodyContext DEF ReadChunk
<1>3. s \in Seq(Unit)
  BY DEF IInv, TypeOK
<1>4. /\ t \in Seq(Unit) /\ Len(s) \in Nat /\ b \in 1 .. Len(s) /\ b \in DOMAIN t
      /\ Len(t) = Len(s) + 1 /\ t[Len(s) + 1] = u
      /\ \A i \in 1 .. Len(s) : t[i] = s[i]
      /\ HeadEnds(t, b)
      /\ \A k : Has(t, b, k) <=> Has(s, b, k)
  BY <1>1, <1>2, <1>3, BodyUnit
<1>5. u.k = "data"
  BY DEF Units, Kinds, Kind
<1>6. Size(t) = filled + 1 /\ filled' = filled + 1 /\ room' = room /\ verdict' = "none"
      /\ stage' \in {"chunk", "end"}
  BY <1>1, <1>3, <1>5, SizeGrows DEF ReadChunk
<1>7. PICK p \in b + 1 .. Len(s) :
        /\ Chunks(s, b + 1, p - 1)
        /\ s[p].k = "size" /\ s[p].n > 0 /\ room - filled = s[p].n - (Len(s) - p)
        /\ \A i \in p + 1 .. Len(s) : s[i].k = "data"
  BY <1>2 DEF InChunk
<1>8. Chunks(t, b + 1, p - 1)
  BY <1>1, <1>3, <1>4, <1>7, ChunksKept
<1>9. p \in 1 .. Len(s) /\ p \in Nat /\ s[p].n \in Nat
  <2>1. p \in 1 .. Len(s) /\ p \in Nat
    BY <1>4
  <2> QED BY <1>3, <2>1, NumbersAreNat
<1> HIDE DEF s, t
<1>10. InChunk(t, b, room - (filled + 1))
  <2>1. p \in b + 1 .. Len(t) /\ t[p] = s[p]
    BY <1>4
  <2>2. \A i \in p + 1 .. Len(t) : t[i].k = "data"
    <3> TAKE i \in p + 1 .. Len(t)
    <3>1. i = Len(s) + 1 \/ (i \in p + 1 .. Len(s) /\ i \in 1 .. Len(s))
      BY <1>4
    <3> QED BY <1>4, <1>5, <1>7, <3>1
  <2>3. room - (filled + 1) = t[p].n - (Len(t) - p)
    <3>1. PICK m \in Nat : m = s[p].n
      BY <1>9
    <3>2. room - filled = m - (Len(s) - p)
      BY <1>7, <3>1
    <3>3. /\ Len(s) \in Nat /\ Len(t) = Len(s) + 1
          /\ p \in Nat /\ room \in Nat /\ filled \in Nat
      BY <1>1, <1>4, <1>9
    <3>4. room - (filled + 1) = m - (Len(t) - p)
      BY <3>2, <3>3
    <3> QED BY <2>1, <3>1, <3>4
  <2>4. Has(t, b, "chunked")
    BY <1>2, <1>4 DEF InChunk
  <2> QED BY <1>7, <1>8, <2>1, <2>2, <2>3, <2>4 DEF InChunk
<1> QED BY <1>1, <1>4, <1>6, <1>10 DEF Parse

\* The two bytes after a chunk complete it.
LEMMA ChunkEnds ==
  ASSUME NEW s \in Seq(Unit), NEW u \in Unit, u.k = "crlf",
         NEW b \in DOMAIN s, HeadEnds(s, b), InChunk(s, b, 0)
  PROVE  Between(Append(s, u), b)
<1> DEFINE t == Append(s, u)  z == Len(s) + 1
<1>1. /\ t \in Seq(Unit) /\ Len(s) \in Nat /\ b \in 1 .. Len(s)
      /\ Len(t) = z /\ t[z] = u
      /\ \A i \in 1 .. Len(s) : t[i] = s[i]
      /\ Has(t, b, "chunked") <=> Has(s, b, "chunked")
  BY BodyUnit
<1>2. PICK p \in b + 1 .. Len(s) :
        /\ Chunks(s, b + 1, p - 1)
        /\ s[p].k = "size" /\ s[p].n > 0 /\ 0 = s[p].n - (Len(s) - p)
        /\ \A i \in p + 1 .. Len(s) : s[i].k = "data"
  BY DEF InChunk
<1>3. Chunks(t, b + 1, p - 1)
  BY <1>1, <1>2, ChunksKept
<1>4. \A i \in 1 .. z : t[i].n \in Nat
  BY <1>1, NumbersAreNat
<1>p. p \in Nat /\ p \in 1 .. Len(s)
  BY <1>1
<1>n. PICK n \in Nat : n = s[p].n
  BY <1>p, NumbersAreNat
<1>5. p \in Nat /\ p \in 1 .. Len(s) /\ z = p + n + 1 /\ Len(s) = p + n
  <2>1. 0 = n - (Len(s) - p)
    BY <1>2, <1>n
  <2>2. Len(s) = p + n
    BY <1>1, <1>p, <2>1
  <2> QED BY <1>p, <2>2
<1> HIDE DEF t, z
<1>6. /\ t[p].k = "size" /\ t[p].n = n /\ n > 0
      /\ \A i \in p + 1 .. p + n : t[i].k = "data"
      /\ t[p + n + 1].k = "crlf"
  <2>1. t[p] = s[p] /\ s[p].k = "size" /\ n > 0 /\ Len(s) = p + n /\ t[z].k = "crlf"
    BY <1>1, <1>2, <1>5, <1>n
  <2>2. t[p].n = n
    BY <2>1, <1>n
  <2>3. \A i \in p + 1 .. Len(s) : t[i] = s[i]
    BY <1>1, <1>5
  <2> QED BY <1>2, <1>5, <2>1, <2>2, <2>3
<1>7. b + 1 <= z => t[b + 1].k = "size"
  BY <1>1, <1>2, <1>3, <1>6 DEF Chunks
<1>8. ASSUME NEW i \in b + 1 .. z
      PROVE  /\ t[i].k \in {"size", "data", "crlf"}
             /\ t[i].k = "size" =>
                  /\ t[i].n > 0 /\ i + t[i].n + 1 <= z
                  /\ \A j \in i + 1 .. i + t[i].n : t[j].k = "data"
                  /\ t[i + t[i].n + 1].k = "crlf"
                  /\ i + t[i].n + 2 <= z => t[i + t[i].n + 2].k = "size"
  <2>1. CASE i \in b + 1 .. p - 1
    <3> DEFINE m == t[i].n
    <3>1. m \in Nat
      BY <1>1, <1>4 DEF z
    <3>2. t[i].k \in {"size", "data", "crlf"}
      BY <1>3, <2>1 DEF Chunks
    <3>3. ASSUME t[i].k = "size"
          PROVE  /\ m > 0 /\ i + m + 1 <= p - 1
                 /\ \A j \in i + 1 .. i + m : t[j].k = "data"
                 /\ t[i + m + 1].k = "crlf"
                 /\ i + m + 2 <= p - 1 => t[i + m + 2].k = "size"
      BY <1>3, <2>1, <3>3 DEF Chunks
    <3> HIDE DEF m
    <3>4. ASSUME t[i].k = "size"
          PROVE  i + m + 1 <= z /\ (i + m + 2 <= z => t[i + m + 2].k = "size")
      <4>1. p \in Nat /\ z = p + n + 1 /\ i + m + 1 <= p - 1
        BY <1>5, <3>3, <3>4
      <4>2. i + m + 1 <= z /\ (i + m + 2 <= p - 1 \/ i + m + 2 = p)
        BY <1>1, <2>1, <3>1, <4>1
      <4> QED BY <1>6, <3>3, <3>4, <4>1, <4>2
    <3> QED BY <3>2, <3>3, <3>4 DEF m
  <2>2. CASE i = p
    BY <1>5, <1>6, <2>2
  <2>3. CASE i \in p + 1 .. z
    <3>1. i \in p + 1 .. p + n \/ i = p + n + 1
      BY <1>5, <2>3
    <3> QED BY <1>6, <3>1
  <2> QED BY <1>1, <2>1, <2>2, <2>3
<1>9. Chunks(t, b + 1, z)
  BY <1>7, <1>8 DEF Chunks
<1> QED BY <1>1, <1>9 DEF Between, InChunk, t

LEMMA TerminatorParse ==
  ASSUME IInv, Parse, NEW u \in Units("end"), ReadTerminator(u)
  PROVE  Parse'
<1> DEFINE s == input  t == Append(input, u)
<1>1. /\ Takes("end", u) /\ stage = "end" /\ input' = t /\ u \in Unit
      /\ verdict = "none" /\ filled = Size(s) /\ filled \in Nat /\ room \in Nat
  BY BodyContext DEF ReadTerminator
<1>2. PICK b \in DOMAIN s : HeadEnds(s, b) /\ InChunk(s, b, room - filled)
  BY <1>1, BodyContext DEF ReadTerminator
<1>3. s \in Seq(Unit) /\ filled = room
  BY <1>1 DEF IInv, TypeOK, Room
<1>4. CASE Refuse(u)
  BY <1>1, <1>4, RefuseParse DEF Reading
<1>5. CASE u.k = "crlf" /\ GoOn("size")
  <2>1. InChunk(s, b, 0)
    <3>1. room - filled = 0
      BY <1>1, <1>3
    <3> QED BY <1>2, <3>1
  <2>2. Between(t, b)
    BY <1>1, <1>2, <1>3, <1>5, <2>1, ChunkEnds
  <2>3. b \in DOMAIN t /\ HeadEnds(t, b)
    BY <1>1, <1>2, <1>3, BodyUnit
  <2>4. Size(t) = filled
    BY <1>1, <1>3, <1>5, SizeGrows
  <2>5. stage' = "size" /\ filled' = filled /\ verdict' = "none"
    BY <1>1, <1>5 DEF GoOn
  <2> HIDE DEF t
  <2> QED BY <1>1, <2>2, <2>3, <2>4, <2>5 DEF Parse
<1> QED BY <1>4, <1>5 DEF ReadTerminator

LEMMA TrailerParse ==
  ASSUME IInv, Parse, NEW u \in Units("trailers"), ReadTrailer(u)
  PROVE  Parse'
<1> DEFINE s == input  t == Append(input, u)
<1>1. /\ Takes("trailers", u) /\ stage = "trailers" /\ input' = t /\ u \in Unit
      /\ verdict = "none" /\ filled = Size(s)
      /\ filled \in Nat /\ room \in Nat /\ room <= MaxBody
  BY BodyContext DEF ReadTrailer
<1>2. PICK b \in DOMAIN s : HeadEnds(s, b) /\ InTrailers(s, b)
  BY <1>1, BodyContext DEF ReadTrailer
<1>3. s \in Seq(Unit) /\ filled = room
  BY <1>1 DEF IInv, TypeOK, Room
<1>4. /\ t \in Seq(Unit) /\ Len(s) \in Nat /\ b \in 1 .. Len(s) /\ b \in DOMAIN t
      /\ Len(t) = Len(s) + 1 /\ t[Len(s) + 1] = u
      /\ \A i \in 1 .. Len(s) : t[i] = s[i]
      /\ HeadEnds(t, b)
      /\ \A k : Has(t, b, k) <=> Has(s, b, k)
  BY <1>1, <1>2, <1>3, BodyUnit
<1>5. PICK z \in b + 1 .. Len(s) :
        /\ s[z] = [k |-> "size", n |-> 0]
        /\ Chunks(s, b + 1, z - 1)
        /\ \A i \in z + 1 .. Len(s) : s[i].k = "field"
  BY <1>2 DEF InTrailers
<1>6. Chunks(t, b + 1, z - 1)
  <2>1. b + 1 \in Nat \ {0} /\ z - 1 \in Int /\ z - 1 <= Len(s)
    BY <1>4
  <2>2. Chunks(s, b + 1, z - 1)
    BY <1>5
  <2> QED BY <1>1, <1>3, <2>1, <2>2, ChunksKept
<1>7. Has(t, b, "chunked")
  BY <1>2, <1>4 DEF InTrailers
<1>8. u.k # "data"
  BY DEF Units, Kinds, Kind
<1>9. Size(t) = filled
  BY <1>1, <1>3, <1>8, SizeGrows
<1> HIDE DEF s, t
<1>10. t[z] = [k |-> "size", n |-> 0] /\ z \in b + 1 .. Len(t) - 1
       /\ \A i \in z + 1 .. Len(t) - 1 : t[i].k = "field"
  BY <1>4, <1>5
<1>11. CASE Refuse(u)
  BY <1>1, <1>11, RefuseParse DEF Reading
<1>12. CASE u.k = "field" /\ GoOn("trailers")
  <2>1. stage' = "trailers" /\ filled' = filled /\ verdict' = "none"
    BY <1>1, <1>12 DEF GoOn
  <2>2. \A i \in z + 1 .. Len(t) : t[i].k = "field"
    <3> TAKE i \in z + 1 .. Len(t)
    <3>1. i \in z + 1 .. Len(t) - 1 \/ i = Len(s) + 1
      BY <1>4
    <3> QED BY <1>4, <1>10, <1>12, <3>1
  <2>3. z \in b + 1 .. Len(t)
    BY <1>4
  <2>4. InTrailers(t, b)
    BY <1>6, <1>7, <1>10, <2>2, <2>3 DEF InTrailers
  <2> QED BY <1>1, <1>4, <1>9, <2>1, <2>4 DEF Parse
<1>13. CASE u.k = "blank" /\ Return("dispatch")
  <2>1. stage' = "decided" /\ filled' = filled /\ verdict' = "dispatch"
    BY <1>13 DEF Return
  <2>2. ChunkedBody(t, b)
    BY <1>4, <1>6, <1>10, <1>13 DEF ChunkedBody
  <2>3. WellFormed(t)
    BY <1>1, <1>3, <1>4, <1>7, <1>9, <2>2 DEF WellFormed
  <2> QED BY <1>1, <1>9, <2>1, <2>3, DispatchParse DEF t
<1> QED BY <1>11, <1>12, <1>13 DEF ReadTrailer

LEMMA AcceptParse == ASSUME IInv, Parse, Accept PROVE Parse'
<1>1. CASE Fresh("request")
  <2>1. stage' = "request" /\ headers' = NoHeaders /\ filled' = 0 /\ verdict' = "none"
        /\ input' = <<>>
    BY <1>1 DEF Fresh
  <2>2. filled' = Size(input')
    BY <2>1, SizeOfNothing
  <2> QED BY <2>1, <2>2 DEF Parse
<1>2. CASE UNCHANGED <<current, parser>>
  BY <1>2 DEF Accept, Parse, parser
<1> QED BY <1>1, <1>2 DEF Accept, Fresh, parser

\* EndOfInput tells the end before the request line from one within it.
LEMMA EndOfInputParse == ASSUME IInv, Parse, EndOfInput PROVE Parse'
<1> DEFINE what == CASE stage = "request" -> "silence"
                     [] stage \in {"headers", "size", "trailers"} -> "bad_request"
                     [] OTHER -> "io"
<1>1. /\ stage \in Reading /\ closed[current] # "no" /\ Return(what)
      /\ input' = input /\ closed' = closed /\ current' = current
  BY DEF EndOfInput, clients
<1>2. ~ WellFormed(input) /\ (stage = "request" <=> input = <<>>)
  BY <1>1, NotYet
<1>3. what \in {"silence", "bad_request", "io"} /\ (what = "silence" <=> stage = "request")
  OBVIOUS
<1> HIDE DEF what
<1>4. stage' = "decided" /\ verdict' = what /\ filled' = filled /\ filled = Size(input)
  BY <1>1 DEF Return, Parse, Reading
<1>5. RefusalsAreFair'
  BY <1>1, <1>2, <1>3, <1>4 DEF RefusalsAreFair
<1>6. ~ WellFormed(input')
  BY <1>1, <1>2
<1>7. filled' = Size(input')
  BY <1>1, <1>4
<1> QED BY <1>3, <1>4, <1>5, <1>6, <1>7, DecidedParse

LEMMA AnswerParse == ASSUME IInv, Parse, Answer PROVE Parse'
BY DEF Answer, Fresh, Parse

\* A client that closes its connection does not take back what it has sent.
LEMMA CloseParse ==
  ASSUME IInv, Parse, NEW c \in Clients, NEW how \in {"write", "both"}, Close(c, how)
  PROVE  Parse'
<1>1. UNCHANGED <<current, parser>> /\ closed' = [closed EXCEPT ![c] = how] /\ closed[c] = "no"
  BY DEF Close
<1>2. closed[current] # "no" => closed'[current] # "no"
  BY <1>1 DEF IInv, TypeOK
<1>3. RefusalsAreFair => RefusalsAreFair'
  BY <1>1, <1>2 DEF RefusalsAreFair, parser
<1> QED BY <1>1, <1>3 DEF Parse, parser

LEMMA ConnectParse ==
  ASSUME IInv, Parse, NEW c \in Clients, Connect(c)
  PROVE  Parse'
BY DEF Connect, Parse, RefusalsAreFair, parser

LEMMA ReadParse == ASSUME IInv, Parse, NEW u \in Units(stage), Read(u) PROVE Parse'
<1>1. u \in Unit
  BY UnitsTyped
<1>2. ASSUME NEW s, Takes(s, u) PROVE u \in Units(s)
  BY <1>2 DEF Takes
<1>3. CASE ReadRequestLine(u)
  BY <1>1, <1>3, RequestLineParse
<1>4. CASE ReadHeader(u)
  BY <1>1, <1>4, HeaderParse
<1>5. CASE ReadBody(u)
  BY <1>2, <1>5, BodyParse DEF ReadBody
<1>6. CASE ReadSize(u)
  BY <1>2, <1>6, SizeParse DEF ReadSize
<1>7. CASE ReadChunk(u)
  BY <1>2, <1>7, ChunkParse DEF ReadChunk
<1>8. CASE ReadTerminator(u)
  BY <1>2, <1>8, TerminatorParse DEF ReadTerminator
<1>9. CASE ReadTrailer(u)
  BY <1>2, <1>9, TrailerParse DEF ReadTrailer
<1> QED BY <1>3, <1>4, <1>5, <1>6, <1>7, <1>8, <1>9 DEF Read

\* What has been read is always what the stage says it is.
THEOREM Parsing == Spec => []Parse
<1>1. Init => Parse
  BY DEF Init, Parse
<1>2. IInv /\ Parse /\ [Next]_vars => Parse'
  <2> SUFFICES ASSUME IInv, Parse, [Next]_vars PROVE Parse'
    OBVIOUS
  <2>1. CASE \E c \in Clients : Connect(c) \/ Close(c, "write") \/ Close(c, "both")
    BY <2>1, ConnectParse, CloseParse
  <2>2. CASE \E u \in Units(stage) : Read(u)
    BY <2>2, ReadParse
  <2>3. CASE Accept
    BY <2>3, AcceptParse
  <2>4. CASE EndOfInput
    BY <2>4, EndOfInputParse
  <2>5. CASE Answer
    BY <2>5, AnswerParse
  <2>6. CASE UNCHANGED vars
    BY <2>6 DEF Parse, RefusalsAreFair, vars, clients, parser
  <2> QED BY <2>1, <2>2, <2>3, <2>4, <2>5, <2>6 DEF Next
<1> QED BY <1>1, <1>2, Invariant, PTL DEF Spec

\* read_request hands over a request exactly when all of it has been read and
\* it is well-formed, whatever the limits, the clients and their closing.
THEOREM Wholeness == Spec => []DispatchedIsWhole
<1>1. IInv /\ Parse => DispatchedIsWhole
  <2> SUFFICES ASSUME IInv, Parse, stage # "idle"
               PROVE  verdict = "dispatch" <=> WellFormed(input)
    BY DEF DispatchedIsWhole
  <2>1. CASE stage = "decided"
    BY <2>1 DEF Parse
  <2>2. CASE stage # "decided"
    <3>1. stage \in Reading /\ verdict = "none"
      BY <2>2 DEF IInv, TypeOK, Parse
    <3> QED BY <3>1, NotYet
  <2> QED BY <2>1, <2>2
<1> QED BY <1>1, Invariant, Parsing, PTL

\* Each refusal of read_request has the reason that its answer gives.
THEOREM Refusals == Spec => []RefusalsAreFair
<1>1. Parse => RefusalsAreFair
  BY DEF Parse, RefusalsAreFair
<1> QED BY <1>1, Parsing, PTL

-----------------------------------------------------------------------------
(* The clients.                                                            *)

\* The backlog holds each waiting client once, the server serves one client
\* or none, and who has an answer is gone.
Turns ==
  /\ \A i \in DOMAIN queue : where[queue[i]] = "queued"
  /\ \A i, j \in DOMAIN queue : queue[i] = queue[j] => i = j
  /\ \A c \in Clients : where[c] = "queued" => \E i \in DOMAIN queue : queue[i] = c
  /\ \A c \in Clients : where[c] = "current" <=> c = current
  /\ stage = "idle" <=> current = Nobody
  /\ \A c \in Clients : answers[c] # "none" => where[c] = "gone"

\* Nobody is served, or dropped, before one that connected earlier.
NoOvertaking ==
  \A i, j \in DOMAIN queue :
    i < j /\ where'[queue[j]] # "queued" => where'[queue[i]] # "queued"

\* A client is answered once: what its own request came to.
AnswersItsOwn ==
  \A c \in Clients : answers'[c] # answers[c] =>
    /\ c = current /\ stage = "decided" /\ answers[c] = "none"
    /\ answers'[c] = verdict /\ where'[c] = "gone"

LEMMA ConnectTurns ==
  ASSUME IInv, Turns, NEW c \in Clients, Connect(c) PROVE Turns'
<1>1. /\ queue \in Seq(Clients) /\ where \in [Clients -> {"away", "queued", "current", "gone"}]
      /\ where[c] = "away" /\ where' = [where EXCEPT ![c] = "queued"]
      /\ queue' = Append(queue, c)
      /\ current' = current /\ stage' = stage /\ answers' = answers
  BY DEF IInv, TypeOK, Connect, parser
<1>2. /\ Len(queue) \in Nat /\ DOMAIN queue = 1 .. Len(queue)
      /\ DOMAIN queue' = 1 .. Len(queue) + 1 /\ queue'[Len(queue) + 1] = c
      /\ \A i \in DOMAIN queue : queue'[i] = queue[i] /\ queue[i] \in Clients /\ queue[i] # c
  BY <1>1 DEF Turns
<1>3. \A i \in DOMAIN queue' : i \in DOMAIN queue \/ i = Len(queue) + 1
  BY <1>2
<1>4. \A i \in DOMAIN queue : i # Len(queue) + 1
  BY <1>2
<1>5. \A i \in DOMAIN queue' : where'[queue'[i]] = "queued"
  BY <1>1, <1>2, <1>3 DEF Turns
<1>6. \A i, j \in DOMAIN queue' : queue'[i] = queue'[j] => i = j
  BY <1>2, <1>3 DEF Turns
<1>7. \A d \in Clients : where'[d] = "queued" => \E i \in DOMAIN queue' : queue'[i] = d
  <2> SUFFICES ASSUME NEW d \in Clients, where'[d] = "queued"
               PROVE  \E i \in DOMAIN queue' : queue'[i] = d
    OBVIOUS
  <2>1. CASE d = c
    BY <1>2, <2>1
  <2>2. CASE d # c
    <3>1. PICK i \in DOMAIN queue : queue[i] = d
      BY <1>1, <2>2 DEF Turns
    <3>2. i \in DOMAIN queue'
      BY <1>2
    <3> QED BY <1>2, <3>1, <3>2
  <2> QED BY <2>1, <2>2
<1>8. \A d \in Clients : where'[d] = "current" <=> d = current'
  BY <1>1 DEF Turns
<1>9. \A d \in Clients : answers'[d] # "none" => where'[d] = "gone"
  BY <1>1 DEF Turns
<1> QED BY <1>1, <1>5, <1>6, <1>7, <1>8, <1>9 DEF Turns

\* The client at the head leaves the backlog, and no other.
LEMMA HeadLeaves ==
  ASSUME IInv, Turns, queue # <<>>, queue' = Tail(queue),
         NEW w \in {"current", "gone"}, where' = [where EXCEPT ![Head(queue)] = w]
  PROVE  /\ Head(queue) \in Clients /\ where[Head(queue)] = "queued"
         /\ \A i \in DOMAIN queue' : where'[queue'[i]] = "queued"
         /\ \A i, j \in DOMAIN queue' : queue'[i] = queue'[j] => i = j
         /\ \A c \in Clients : where'[c] = "queued" => \E i \in DOMAIN queue' : queue'[i] = c
<1> DEFINE h == Head(queue)
<1>1. /\ queue \in Seq(Clients) /\ where \in [Clients -> {"away", "queued", "current", "gone"}]
  BY DEF IInv, TypeOK
<1>2. /\ Len(queue) \in Nat /\ DOMAIN queue = 1 .. Len(queue) /\ 1 \in DOMAIN queue
      /\ DOMAIN queue' = 1 .. Len(queue) - 1 /\ h = queue[1]
      /\ \A i \in DOMAIN queue' : i + 1 \in DOMAIN queue /\ queue'[i] = queue[i + 1]
  BY <1>1
<1>3. h \in Clients /\ where[h] = "queued"
  BY <1>1, <1>2 DEF Turns
<1> HIDE DEF h
<1>4. where' = [where EXCEPT ![h] = w]
  BY DEF h
<1>5. \A i \in DOMAIN queue' : queue'[i] # h
  <2> TAKE i \in DOMAIN queue'
  <2>1. i + 1 # 1 /\ i + 1 \in DOMAIN queue
    BY <1>2
  <2> QED BY <1>2, <2>1 DEF Turns
<1>6. \A i \in DOMAIN queue' : where'[queue'[i]] = "queued"
  <2> TAKE i \in DOMAIN queue'
  <2>1. where[queue'[i]] = "queued" /\ queue'[i] \in Clients
    BY <1>1, <1>2 DEF Turns
  <2> QED BY <1>1, <1>4, <1>5, <2>1
<1>7. ASSUME NEW i \in DOMAIN queue', NEW j \in DOMAIN queue', queue'[i] = queue'[j]
      PROVE  i = j
  <2>1. i + 1 = j + 1
    BY <1>2, <1>7 DEF Turns
  <2> QED BY <1>2, <2>1
<1>8. ASSUME NEW c \in Clients, where'[c] = "queued"
      PROVE  \E i \in DOMAIN queue' : queue'[i] = c
  <2>1. c # h /\ where[c] = "queued"
    BY <1>1, <1>4, <1>8
  <2>2. PICK i \in DOMAIN queue : queue[i] = c
    BY <2>1 DEF Turns
  <2>3. i - 1 \in DOMAIN queue' /\ (i - 1) + 1 = i
    BY <1>2, <2>1, <2>2
  <2> QED BY <1>2, <2>2, <2>3
<1> QED BY <1>3, <1>6, <1>7, <1>8 DEF h

LEMMA AcceptTurns == ASSUME IInv, Turns, Accept PROVE Turns'
<1>1. /\ stage = "idle" /\ queue # <<>> /\ queue' = Tail(queue) /\ answers' = answers
      /\ where \in [Clients -> {"away", "queued", "current", "gone"}]
      /\ Nobody \notin Clients
  BY ServerAssumption DEF Accept, IInv, TypeOK
<1>2. current = Nobody
  BY <1>1 DEF Turns
<1>3. CASE /\ current' = Head(queue) /\ stage' = "request"
           /\ where' = [where EXCEPT ![Head(queue)] = "current"]
  <2>1. /\ Head(queue) \in Clients /\ where[Head(queue)] = "queued"
        /\ \A i \in DOMAIN queue' : where'[queue'[i]] = "queued"
        /\ \A i, j \in DOMAIN queue' : queue'[i] = queue'[j] => i = j
        /\ \A c \in Clients : where'[c] = "queued" => \E i \in DOMAIN queue' : queue'[i] = c
    BY <1>1, <1>3, HeadLeaves
  <2>2. \A c \in Clients : where'[c] = "current" <=> c = current'
    BY <1>1, <1>2, <1>3, <2>1 DEF Turns
  <2>3. \A c \in Clients : answers'[c] # "none" => where'[c] = "gone"
    BY <1>1, <1>3, <2>1 DEF Turns
  <2>4. stage' = "idle" <=> current' = Nobody
    BY <1>1, <1>3, <2>1
  <2> QED BY <2>1, <2>2, <2>3, <2>4 DEF Turns
<1>4. CASE /\ current' = current /\ stage' = stage
           /\ where' = [where EXCEPT ![Head(queue)] = "gone"]
  <2>1. /\ Head(queue) \in Clients /\ where[Head(queue)] = "queued"
        /\ \A i \in DOMAIN queue' : where'[queue'[i]] = "queued"
        /\ \A i, j \in DOMAIN queue' : queue'[i] = queue'[j] => i = j
        /\ \A c \in Clients : where'[c] = "queued" => \E i \in DOMAIN queue' : queue'[i] = c
    BY <1>1, <1>4, HeadLeaves
  <2>2. \A c \in Clients : where'[c] = "current" <=> c = current'
    BY <1>1, <1>4, <2>1 DEF Turns
  <2>3. \A c \in Clients : answers'[c] # "none" => where'[c] = "gone"
    BY <1>1, <1>4, <2>1 DEF Turns
  <2> QED BY <1>1, <1>2, <1>4, <2>1, <2>2, <2>3 DEF Turns
<1> QED BY <1>3, <1>4 DEF Accept, Fresh, parser

\* The client being served is answered, or told nothing, and gone.
LEMMA AnswerTurns ==
  ASSUME IInv, Turns, Answer PROVE Turns' /\ AnswersItsOwn /\ UNCHANGED queue
<1>1. /\ stage = "decided" /\ current \in Clients /\ Nobody \notin Clients
      /\ where \in [Clients -> {"away", "queued", "current", "gone"}]
      /\ answers \in [Clients -> Verdicts \cup {"none"}]
      /\ answers' = [answers EXCEPT ![current] = Told(current)]
      /\ where' = [where EXCEPT ![current] = "gone"]
      /\ current' = Nobody /\ stage' = "idle" /\ queue' = queue
      /\ queue \in Seq(Clients)
  BY ServerAssumption DEF Answer, Fresh, IInv, TypeOK, Turns
<1>2. where[current] = "current" /\ answers[current] = "none"
  BY <1>1 DEF Turns
<1>3. Told(current) \in {"none", verdict}
  BY DEF Told
<1>4. AnswersItsOwn
  BY <1>1, <1>2, <1>3 DEF AnswersItsOwn
<1>5. \A i \in DOMAIN queue : queue[i] \in Clients /\ queue[i] # current
  BY <1>1, <1>2 DEF Turns
<1>6. \A i \in DOMAIN queue' : where'[queue'[i]] = "queued"
  BY <1>1, <1>5 DEF Turns
<1>7. \A c \in Clients : where'[c] = "queued" => \E i \in DOMAIN queue' : queue'[i] = c
  BY <1>1 DEF Turns
<1>8. \A c \in Clients : where'[c] = "current" <=> c = current'
  BY <1>1 DEF Turns
<1>9. \A c \in Clients : answers'[c] # "none" => where'[c] = "gone"
  BY <1>1 DEF Turns
<1>10. \A i, j \in DOMAIN queue' : queue'[i] = queue'[j] => i = j
  BY <1>1 DEF Turns
<1> QED BY <1>1, <1>4, <1>6, <1>7, <1>8, <1>9, <1>10 DEF Turns

LEMMA ReadTurns ==
  ASSUME IInv, Turns, (\E u \in Units(stage) : Read(u)) \/ EndOfInput
  PROVE  Turns' /\ UNCHANGED <<where, queue, answers>>
<1> DEFINE OneMore == /\ stage \in Reading /\ stage' \in Reading \cup {"decided"}
                      /\ UNCHANGED <<clients, current, answers>>
<1>1. OneMore
  <2>1. CASE EndOfInput
    BY <2>1 DEF EndOfInput, Return
  <2>2. ASSUME NEW u, ReadRequestLine(u) \/ ReadTerminator(u) \/ ReadTrailer(u)
        PROVE  OneMore
    BY <2>2 DEF ReadRequestLine, ReadTerminator, ReadTrailer, Takes, GoOn, Refuse, Return, Reading
  <2>3. ASSUME NEW u, ReadHeader(u) PROVE OneMore
    BY <2>3 DEF ReadHeader, HeaderLine, TooManyLines, HeadersEnd, Reserve, Takes, GoOn,
                Refuse, Return, Reading
  <2>4. ASSUME NEW u, ReadBody(u) \/ ReadSize(u) \/ ReadChunk(u) PROVE OneMore
    BY <2>4 DEF ReadBody, ReadSize, ReadChunk, Reserve, Takes, GoOn, Refuse, Return, Reading
  <2> QED BY <2>1, <2>2, <2>3, <2>4 DEF Read
<1>2. stage # "idle" /\ stage' # "idle"
  BY <1>1 DEF Reading
<1> QED BY <1>1, <1>2 DEF Turns, clients

\* A step that is neither of Accept nor of Answer leaves who waits waiting,
\* and answers nobody.
LEMMA Steps ==
  ASSUME IInv, Turns, [Next]_vars PROVE Turns' /\ NoOvertaking /\ AnswersItsOwn
<1>1. queue \in Seq(Clients) /\ where \in [Clients -> {"away", "queued", "current", "gone"}]
      /\ \A i \in DOMAIN queue : queue[i] \in Clients /\ where[queue[i]] = "queued"
  BY DEF IInv, TypeOK, Turns
<1>2. ASSUME NEW c \in Clients, Connect(c) PROVE Turns' /\ NoOvertaking /\ AnswersItsOwn
  <2>1. where' = [where EXCEPT ![c] = "queued"] /\ answers' = answers
    BY <1>2 DEF Connect
  <2> QED BY <1>1, <1>2, <2>1, ConnectTurns DEF NoOvertaking, AnswersItsOwn
<1>3. ASSUME NEW c \in Clients, NEW how, Close(c, how)
      PROVE  Turns' /\ NoOvertaking /\ AnswersItsOwn
  BY <1>1, <1>3 DEF Close, Turns, NoOvertaking, AnswersItsOwn, parser
<1>4. CASE (\E u \in Units(stage) : Read(u)) \/ EndOfInput
  BY <1>1, <1>4, ReadTurns DEF NoOvertaking, AnswersItsOwn
<1>5. CASE Accept
  <2>1. answers' = answers /\ \E w : where' = [where EXCEPT ![Head(queue)] = w]
    BY <1>5 DEF Accept
  <2>2. queue # <<>> /\ Head(queue) = queue[1]
    BY <1>1, <1>5 DEF Accept
  <2>3. ASSUME NEW i \in DOMAIN queue, NEW j \in DOMAIN queue, i < j
        PROVE  where'[queue[j]] = "queued"
    <3>1. 1 \in DOMAIN queue /\ j # 1
      BY <1>1, <2>3
    <3>2. queue[j] # Head(queue)
      BY <2>2, <3>1 DEF Turns
    <3> QED BY <1>1, <2>1, <3>2
  <2> QED BY <1>5, <2>1, <2>3, AcceptTurns DEF NoOvertaking, AnswersItsOwn
<1>6. CASE Answer
  <2>1. Turns' /\ AnswersItsOwn /\ queue' = queue
    BY <1>6, AnswerTurns
  <2> QED BY <1>1, <2>1 DEF NoOvertaking, Turns
<1>7. CASE UNCHANGED vars
  BY <1>1, <1>7 DEF vars, clients, parser, Turns, NoOvertaking, AnswersItsOwn
<1> QED BY <1>2, <1>3, <1>4, <1>5, <1>6, <1>7 DEF Next

LEMMA InitTurns == Init => Turns
BY ServerAssumption DEF Init, Turns

\* One client at a time: the backlog, the client being served and the ones
\* that are done are told apart in every reachable state.
THEOREM Serving == Spec => []Turns
<1>1. IInv /\ Turns /\ [Next]_vars => Turns'
  BY Steps
<1> QED BY <1>1, InitTurns, Invariant, PTL DEF Spec

\* The accept loop serves in the order of connection, whoever is dropped.
THEOREM InOrder == Spec => [][NoOvertaking]_vars
<1>1. IInv /\ Turns /\ [Next]_vars => [NoOvertaking]_vars
  BY Steps
<1> QED BY <1>1, Serving, Invariant, PTL DEF Spec

\* handle_stream answers each connection at most once, with the verdict on
\* what came over that connection, and closes it.
THEOREM AnsweredOnce == Spec => [][AnswersItsOwn]_vars
<1>1. IInv /\ Turns /\ [Next]_vars => [AnswersItsOwn]_vars
  BY Steps
<1> QED BY <1>1, Serving, Invariant, PTL DEF Spec
=============================================================================
