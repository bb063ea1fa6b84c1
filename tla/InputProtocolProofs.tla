------------------------- MODULE InputProtocolProofs -------------------------
(***************************************************************************)
(* Proofs about InputProtocol, for any number of clients, lengths of their *)
(* paths, values of a byte and sizes of buffers.                           *)
(***************************************************************************)
EXTENDS InputProtocol, SequenceTheorems, TLAPS

-----------------------------------------------------------------------------
(* The inductive invariant.                                                *)

Whole(c) == HeaderSize + pathLength[c]
Fresh(c) == client[c] \in {"new", "refused"}
Queued(c) == \E k \in DOMAIN backlog : backlog[k] = c

\* How much of the request of the client being served has been read.
StageOK ==
  \A c \in Clients : c = m_socket =>
    /\ server = "flag" => taken[c] = 0
    /\ server = "length" => taken[c] = 1
    /\ server = "path" => HeaderSize <= taken[c] /\ taken[c] <= Whole(c)
    /\ server \in {"convert", "add"} => taken[c] = Whole(c)

\* A client waits once, and is served once, before its request is passed on.
TurnsOK ==
  /\ \A k, l \in DOMAIN backlog : backlog[k] = backlog[l] => k = l
  /\ server \in {"start", "no port"} => \A c \in Clients : Fresh(c)
  /\ \A c \in Clients :
       /\ Fresh(c) => ~Queued(c) /\ c # m_socket /\ c \notin called /\ written[c] = 0
       /\ Queued(c) => c # m_socket /\ c \notin called /\ taken[c] = 0
       /\ c = m_socket => c \notin called

\* Nothing is read that was not written, and of the requests passed on all is read.
ReadOK ==
  \A c \in Clients :
    /\ taken[c] <= written[c]
    /\ c \in called => taken[c] = Whole(c)

\* A client that ends without a fault has written all it had to, unless nobody listens
\* to it any more.
WrittenOK ==
  \A c \in Clients :
    /\ client[c] = "failed" => BreaksRequest(c)
    /\ client[c] = "closed" /\ Listening /\ (Queued(c) \/ c = m_socket) =>
         written[c] = PayloadSize(c)

Inv == TypeOK /\ StageOK /\ TurnsOK /\ ReadOK /\ WrittenOK /\ EndsOnlyFor

-----------------------------------------------------------------------------
(* The sizes of a request.                                                 *)

\* Sizes are numbers, and only torrentAdder can make a payload too small.
LEMMA Sizes ==
  ASSUME TypeOK, NEW c \in Clients
  PROVE  /\ pathLength[c] \in Nat /\ ntohl(pathLength[c]) \in Nat
         /\ Whole(c) \in Nat /\ PayloadSize(c) \in Nat
         /\ HeaderSize = 3 /\ IntBytes = 2
         /\ PayloadSize(c) < Whole(c) => kind[c] = "adder" /\ ntohl(pathLength[c]) < pathLength[c]
<1>1. pathLength[c] \in Nat
  <2>1. PICK last \in Int : last = ByteBase * ByteBase - 1
    BY InputAssumption
  <2>2. pathLength[c] \in 0 .. last
    BY <2>1, InputAssumption DEF TypeOK
  <2> QED  BY <2>2
<1>2. ntohl(pathLength[c]) \in Nat
  <2>1. \A n \in Nat : n % ByteBase \in Nat /\ n \div ByteBase \in Nat
    BY InputAssumption
  <2>2. \A a, b \in Nat : a * ByteBase + b \in Nat
    BY InputAssumption
  <2> QED  BY <1>1, <2>1, <2>2 DEF ntohl
<1> QED  BY <1>1, <1>2 DEF TypeOK, Kinds, Whole, PayloadSize, HeaderSize, IntBytes

\* The client being served, if any, is a client.
LEMMA Served ==
  ASSUME TypeOK, server \in {"flag", "length", "path", "convert", "add"}
  PROVE  m_socket \in Clients
BY DEF TypeOK

\* What is left of a path ends with the request.
LEMMA Left ==
  ASSUME TypeOK, m_socket \in Clients
  PROVE  PathLeft \in Int /\ taken[m_socket] + PathLeft = Whole(m_socket)
BY Sizes DEF PathLeft, Whole, TypeOK

\* Who breaks a request stays the one who does.
LEMMA BreaksStays ==
  ASSUME TypeOK, UNCHANGED <<kind, pathLength>>,
         \A c \in Clients : client[c] = "cut off" => client'[c] = "cut off"
  PROVE  \A c \in Clients : BreaksRequest(c) => BreaksRequest(c)'
BY DEF BreaksRequest, ntohl, HeaderSize, IntBytes

-----------------------------------------------------------------------------
(* The steps of a client.                                                  *)

\* What a client does without its connection coming or going.
ClientMoves(c, old, new) ==
  /\ client[c] \in old /\ client' = [client EXCEPT ![c] = new]
  /\ UNCHANGED <<kind, pathLength, written, serverVars, shouldStop, program>>

\* A client that does not turn fresh, closed or failed disturbs nothing.
LEMMA MovesKeep ==
  ASSUME Inv, NEW c \in Clients, NEW old, NEW new \in ClientStates,
         ClientMoves(c, old, new), old \subseteq {"new", "connected", "writing"},
         new = "new" => FALSE, new = "refused" <=> client[c] = "new",
         new = "failed" => BreaksRequest(c),
         new = "closed" => written[c] = PayloadSize(c) \/ Closed(c)
  PROVE  Inv'
<1>1. TypeOK /\ StageOK /\ TurnsOK /\ ReadOK /\ WrittenOK /\ EndsOnlyFor
  BY DEF Inv
<1>2. /\ client[c] \in {"new", "connected", "writing"} /\ client' = [client EXCEPT ![c] = new]
      /\ UNCHANGED <<kind, pathLength, written, server, backlog, m_socket, taken, path, called,
                     shouldStop, program>>
  BY DEF ClientMoves, serverVars
<1>3. \A d \in Clients : client'[d] = IF d = c THEN new ELSE client[d]
  BY <1>1, <1>2 DEF TypeOK
<1>4. \A d \in Clients : BreaksRequest(d) => BreaksRequest(d)'
  BY <1>1, <1>2, <1>3, BreaksStays
<1>5. TypeOK'
  <2>1. client' \in [Clients -> ClientStates]
    BY <1>1, <1>2 DEF TypeOK
  <2> QED  BY <1>1, <1>2, <2>1 DEF TypeOK
<1>6. StageOK'
  BY <1>1, <1>2 DEF StageOK, Whole, HeaderSize, IntBytes
<1>7. \A d \in Clients : Fresh(d)' <=> Fresh(d)
  BY <1>2, <1>3 DEF Fresh
<1>8. TurnsOK'
  BY <1>1, <1>2, <1>7 DEF TurnsOK, Queued
<1>9. ReadOK'
  BY <1>1, <1>2 DEF ReadOK, Whole, HeaderSize, IntBytes
<1>10. WrittenOK'
  <2>1. ASSUME NEW d \in Clients, client'[d] = "failed" PROVE BreaksRequest(d)'
    BY <1>1, <1>3, <1>4, <2>1 DEF WrittenOK
  <2>2. ASSUME NEW d \in Clients, client'[d] = "closed", Listening', Queued(d)' \/ d = m_socket'
        PROVE  written'[d] = PayloadSize(d)'
    <3>1. Listening /\ (Queued(d) \/ d = m_socket)
      BY <1>2, <2>2 DEF Listening, Running, Queued
    <3>2. CASE d # c
      BY <1>1, <1>2, <1>3, <2>2, <3>1, <3>2 DEF WrittenOK, PayloadSize, HeaderSize, IntBytes, ntohl
    <3>3. CASE d = c
      <4>1. ~Closed(c)
        <5>1. Queued(c) => taken[c] = 0
          BY <1>1 DEF TurnsOK
        <5> QED  BY <3>1, <3>3, <5>1 DEF Closed
      <4>2. written[c] = PayloadSize(c)
        BY <1>3, <2>2, <3>3, <4>1
      <4> QED  BY <1>2, <3>3, <4>2 DEF PayloadSize, HeaderSize, IntBytes, ntohl
    <3> QED  BY <3>2, <3>3
  <2> QED  BY <2>1, <2>2 DEF WrittenOK
<1>11. EndsOnlyFor'
  BY <1>1, <1>2, <1>4 DEF EndsOnlyFor, HeaderSize, IntBytes
<1> QED  BY <1>5, <1>6, <1>8, <1>9, <1>10, <1>11 DEF Inv

\* A client alone on its side.
LEMMA ClientKeeps ==
  ASSUME Inv, NEW c \in Clients,
         Refused(c) \/ MakePayload(c) \/ PayloadFails(c) \/ CloseSocket(c) \/ BreaksOff(c)
  PROVE  Inv'
<1> USE DEF ClientMoves, ClientStates, Becomes
<1>1. CASE Refused(c)
  <2>1. ClientMoves(c, {"new"}, "refused") /\ client[c] = "new"
    BY <1>1 DEF Refused
  <2> QED  BY <2>1, MovesKeep
<1>2. CASE MakePayload(c)
  <2>1. ClientMoves(c, {"connected"}, "writing") /\ client[c] = "connected"
    BY <1>2 DEF MakePayload
  <2> QED  BY <2>1, MovesKeep
<1>3. CASE PayloadFails(c)
  <2>1. ClientMoves(c, {"connected"}, "failed") /\ client[c] = "connected"
    BY <1>3 DEF PayloadFails
  <2>2. BreaksRequest(c)
    <3>1. TypeOK
      BY DEF Inv
    <3> QED  BY <1>3, <3>1, Sizes, InputAssumption DEF PayloadFails, PayloadFits, PayloadSize, BreaksRequest
  <2> QED  BY <2>1, <2>2, MovesKeep
<1>4. CASE CloseSocket(c)
  <2>1. ClientMoves(c, {"writing"}, "closed") /\ client[c] = "writing"
    BY <1>4 DEF CloseSocket
  <2>2. written[c] = PayloadSize(c) \/ Closed(c)
    BY <1>4 DEF CloseSocket
  <2> QED  BY <2>1, <2>2, MovesKeep
<1>5. CASE BreaksOff(c)
  <2>1. PICK new \in {"cut off", "silent"} :
          ClientMoves(c, {"connected", "writing"}, new) /\ client[c] \in {"connected", "writing"}
    BY <1>5 DEF BreaksOff
  <2> QED  BY <2>1, MovesKeep
<1> QED  BY <1>1, <1>2, <1>3, <1>4, <1>5

\* A client that connects is the last to be served.
LEMMA ConnectKeeps ==
  ASSUME Inv, NEW c \in Clients, Connect(c)
  PROVE  Inv'
<1>1. TypeOK /\ StageOK /\ TurnsOK /\ ReadOK /\ WrittenOK /\ EndsOnlyFor
  BY DEF Inv
<1>2. /\ client[c] = "new" /\ Listening /\ client' = [client EXCEPT ![c] = "connected"]
      /\ backlog' = Append(backlog, c)
      /\ UNCHANGED <<kind, pathLength, written, server, m_socket, taken, path, called,
                     shouldStop, program>>
  BY DEF Connect, Becomes
<1>3. \A d \in Clients : client'[d] = IF d = c THEN "connected" ELSE client[d]
  BY <1>1, <1>2 DEF TypeOK
<1>4. PICK new : new = Len(backlog) + 1
  OBVIOUS
<1>5. /\ backlog' \in Seq(Clients)
      /\ DOMAIN backlog' = DOMAIN backlog \union {new} /\ new \notin DOMAIN backlog
      /\ \A k \in DOMAIN backlog : backlog'[k] = backlog[k] /\ backlog[k] \in Clients
      /\ backlog'[new] = c
  <2>1. backlog \in Seq(Clients) /\ Len(backlog) \in Nat /\ DOMAIN backlog = 1 .. Len(backlog)
    BY <1>1, LenProperties DEF TypeOK
  <2>2. /\ backlog' \in Seq(Clients) /\ Len(backlog') = new
        /\ \A k \in 1 .. Len(backlog) : backlog'[k] = backlog[k]
        /\ backlog'[new] = c
    BY <1>2, <1>4, <2>1, AppendProperties
  <2>3. DOMAIN backlog' = 1 .. new
    BY <2>2, LenProperties
  <2>4. \A k \in DOMAIN backlog : backlog[k] \in Clients
    BY <2>1, ElementOfSeq
  <2> QED  BY <1>4, <2>1, <2>2, <2>3, <2>4
<1>6. Fresh(c) /\ ~Queued(c) /\ c # m_socket /\ c \notin called /\ taken[c] = 0
  <2>1. Fresh(c) /\ written[c] = 0 /\ ~Queued(c) /\ c # m_socket /\ c \notin called
    BY <1>1, <1>2 DEF Fresh, TurnsOK
  <2>2. taken[c] \in Nat /\ taken[c] <= written[c]
    BY <1>1 DEF TypeOK, ReadOK
  <2> QED  BY <2>1, <2>2
<1>7. \A d \in Clients : BreaksRequest(d) => BreaksRequest(d)'
  BY <1>1, <1>2, <1>3, BreaksStays
<1>8. TypeOK'
  <2>1. client' \in [Clients -> ClientStates]
    BY <1>1, <1>2 DEF TypeOK, ClientStates
  <2> QED  BY <1>1, <1>2, <1>5, <2>1 DEF TypeOK
<1>9. StageOK'
  BY <1>1, <1>2 DEF StageOK, Whole, HeaderSize, IntBytes
<1>10. \A d \in Clients : Queued(d)' <=> Queued(d) \/ d = c
  BY <1>5 DEF Queued
<1>11. TurnsOK'
  <2>1. \A k, l \in DOMAIN backlog' : backlog'[k] = backlog'[l] => k = l
    BY <1>1, <1>5, <1>6 DEF TurnsOK, Queued
  <2>2. server' \notin {"start", "no port"}
    BY <1>2 DEF Listening
  <2>3. \A d \in Clients : Fresh(d)' => Fresh(d) /\ d # c
    BY <1>3 DEF Fresh
  <2> QED  BY <1>1, <1>2, <1>6, <1>10, <2>1, <2>2, <2>3 DEF TurnsOK
<1>12. ReadOK'
  BY <1>1, <1>2 DEF ReadOK, Whole, HeaderSize, IntBytes
<1>13. WrittenOK'
  <2>1. \A d \in Clients : PayloadSize(d)' = PayloadSize(d)
    BY <1>2 DEF PayloadSize, HeaderSize, IntBytes, ntohl
  <2>2. \A d \in Clients : client'[d] \in {"failed", "closed"} => d # c /\ client'[d] = client[d]
    BY <1>3
  <2> QED  BY <1>1, <1>2, <1>7, <1>10, <2>1, <2>2 DEF WrittenOK
<1>14. EndsOnlyFor'
  <2>1. server' # "thrown" /\ server' # "returned"
    BY <1>2 DEF Listening
  <2> QED  BY <2>1 DEF EndsOnlyFor
<1> QED  BY <1>8, <1>9, <1>11, <1>12, <1>13, <1>14 DEF Inv

\* A byte more is written.
LEMMA WriteByteKeeps ==
  ASSUME Inv, NEW c \in Clients, WriteByte(c)
  PROVE  Inv'
<1>1. TypeOK /\ StageOK /\ TurnsOK /\ ReadOK /\ WrittenOK /\ EndsOnlyFor
  BY DEF Inv
<1>2. /\ client[c] = "writing" /\ written' = [written EXCEPT ![c] = @ + 1]
      /\ UNCHANGED <<kind, pathLength, client, server, backlog, m_socket, taken, path, called,
                     shouldStop, program>>
  BY DEF WriteByte, serverVars
<1>3. \A d \in Clients : written[d] \in Nat /\ taken[d] \in Nat
  BY <1>1 DEF TypeOK
<1>4. \A d \in Clients : written'[d] = IF d = c THEN written[d] + 1 ELSE written[d]
  BY <1>1, <1>2 DEF TypeOK
<1>5. TypeOK'
  <2>1. written' \in [Clients -> Nat]
    BY <1>1, <1>2, <1>3 DEF TypeOK
  <2> QED  BY <1>1, <1>2, <2>1 DEF TypeOK
<1>6. StageOK'
  BY <1>1, <1>2 DEF StageOK, Whole, HeaderSize, IntBytes
<1>7. TurnsOK'
  BY <1>1, <1>2, <1>4 DEF TurnsOK, Queued, Fresh
<1>8. ReadOK'
  <2>1. \A d \in Clients : taken'[d] <= written'[d]
    BY <1>1, <1>2, <1>3, <1>4 DEF ReadOK
  <2> QED  BY <1>1, <1>2, <2>1 DEF ReadOK, Whole, HeaderSize, IntBytes
<1>9. WrittenOK'
  BY <1>1, <1>2, <1>4 DEF WrittenOK, Listening, Running, Queued, BreaksRequest, PayloadSize, HeaderSize,
     IntBytes, ntohl
<1>10. EndsOnlyFor'
  BY <1>1, <1>2 DEF EndsOnlyFor, BreaksRequest, HeaderSize, IntBytes, ntohl
<1> QED  BY <1>5, <1>6, <1>7, <1>8, <1>9, <1>10 DEF Inv

-----------------------------------------------------------------------------
(* The steps of the input thread.                                          *)

\* What holds of the clients while the input thread moves on and nothing is read.
LEMMA ThreadKeeps ==
  ASSUME Inv, UNCHANGED <<clientVars, backlog, taken>>, TypeOK', StageOK',
         m_socket' \in {m_socket, NoClient},
         \/ called' = called
         \/ /\ called' = called \union {m_socket}
            /\ m_socket' = NoClient /\ m_socket \in Clients
            /\ taken[m_socket] = Whole(m_socket),
         Listening' => Listening \/ server = "start",
         server' \in {"start", "no port"} => server \in {"start", "no port"}
  PROVE  TurnsOK' /\ ReadOK' /\ WrittenOK'
<1>1. TypeOK /\ TurnsOK /\ ReadOK /\ WrittenOK /\ NoClient \notin Clients
  BY InputAssumption DEF Inv
<1>2. UNCHANGED <<kind, pathLength, client, written, backlog, taken>>
  BY DEF clientVars
<1>3. \A c \in Clients : Queued(c)' = Queued(c) /\ Fresh(c)' = Fresh(c)
  BY <1>2 DEF Queued, Fresh
<1>4. \A c \in Clients : c = m_socket' => c = m_socket /\ c \notin called'
  BY <1>1 DEF TurnsOK
<1>5. \A c \in Clients : c \in called' => c \in called \/ (c = m_socket /\ taken[c] = Whole(c))
  <2>1. CASE called' = called
    BY <2>1
  <2>2. CASE called' = called \union {m_socket} /\ taken[m_socket] = Whole(m_socket)
    BY <2>2
  <2> QED  BY <2>1, <2>2
<1>6. TurnsOK'
  BY <1>1, <1>2, <1>3, <1>4, <1>5 DEF TurnsOK
<1>7. ReadOK'
  BY <1>1, <1>2, <1>5 DEF ReadOK, Whole, HeaderSize, IntBytes
<1>8. WrittenOK'
  <2>1. \A c \in Clients : client[c] = "closed" /\ Listening' => Listening
    BY <1>1 DEF TurnsOK, Fresh
  <2>2. \A c \in Clients : BreaksRequest(c)' = BreaksRequest(c) /\ PayloadSize(c)' = PayloadSize(c)
    BY <1>2 DEF BreaksRequest, PayloadSize, HeaderSize, IntBytes, ntohl
  <2> QED  BY <1>1, <1>2, <1>3, <1>4, <2>1, <2>2 DEF WrittenOK
<1> QED  BY <1>6, <1>7, <1>8

\* The thread goes on to another stage of the same request.
LEMMA ReadsKeep ==
  ASSUME Inv, NEW stage \in {"flag", "length", "path"}, NEW size \in Nat,
         NEW next \in {"length", "path", "convert"}, Reads(stage, size, next),
         \A c \in Clients : c = m_socket => \A n \in Nat : n = taken[c] + size =>
           /\ next = "length" => n = 1
           /\ next = "path" => HeaderSize <= n /\ n <= Whole(c)
           /\ next = "convert" => n = Whole(c)
  PROVE  Inv'
<1>1. TypeOK /\ StageOK /\ TurnsOK /\ ReadOK /\ WrittenOK /\ EndsOnlyFor
  BY DEF Inv
<1>2. /\ server = stage /\ server' = next /\ m_socket \in Clients /\ Unread(m_socket) >= size
      /\ taken' = [taken EXCEPT ![m_socket] = @ + size]
      /\ UNCHANGED <<kind, pathLength, client, written, backlog, m_socket, path, called,
                     shouldStop, program>>
  BY <1>1, Served DEF Reads, clientVars
<1>3. \A c \in Clients : taken[c] \in Nat /\ written[c] \in Nat
  BY <1>1 DEF TypeOK
<1>4. \A c \in Clients : taken'[c] = IF c = m_socket THEN taken[c] + size ELSE taken[c]
  BY <1>1, <1>2 DEF TypeOK
<1>5. ~Queued(m_socket) /\ m_socket \notin called
  BY <1>1, <1>2 DEF TurnsOK
<1>6. TypeOK'
  <2>1. taken' \in [Clients -> Nat]
    BY <1>1, <1>2, <1>3 DEF TypeOK
  <2>2. m_socket # NoClient /\ server' \in ServerStates
    BY <1>2, InputAssumption DEF ServerStates
  <2> QED  BY <1>1, <1>2, <2>1, <2>2 DEF TypeOK
<1>7. StageOK'
  <2>1. taken'[m_socket] \in Nat /\ taken'[m_socket] = taken[m_socket] + size
    BY <1>2, <1>3, <1>4
  <2> QED  BY <1>2, <2>1 DEF StageOK, Whole, HeaderSize, IntBytes
<1>8. TurnsOK'
  BY <1>1, <1>2, <1>4, <1>5 DEF TurnsOK, Queued, Fresh
<1>9. ReadOK'
  <2>1. \A c \in Clients : taken'[c] <= written'[c]
    BY <1>1, <1>2, <1>3, <1>4 DEF ReadOK, Unread
  <2> QED  BY <1>1, <1>2, <1>4, <1>5, <2>1 DEF ReadOK, Whole, HeaderSize, IntBytes
<1>10. WrittenOK'
  BY <1>1, <1>2 DEF WrittenOK, Listening, Running, Queued, BreaksRequest, PayloadSize, HeaderSize,
     IntBytes, ntohl
<1>11. EndsOnlyFor'
  BY <1>2 DEF EndsOnlyFor
<1> QED  BY <1>6, <1>7, <1>8, <1>9, <1>10, <1>11 DEF Inv

\* A byte of flag,
LEMMA ReadFlagKeeps ==
  ASSUME Inv, ReadFlag
  PROVE  Inv'
<1>1. Reads("flag", 1, "length")
  BY DEF ReadFlag
<1>2. \A c \in Clients : c = m_socket => taken[c] = 0
  BY <1>1 DEF Inv, StageOK, Reads
<1> QED  BY <1>1, <1>2, ReadsKeep

\* then the length of the path,
LEMMA ReadLengthKeeps ==
  ASSUME Inv, ReadLength
  PROVE  Inv'
<1>1. Reads("length", IntBytes, "path") /\ IntBytes = 2
  BY DEF ReadLength, IntBytes
<1>2. \A c \in Clients : c = m_socket => taken[c] = 1 /\ pathLength[c] \in Nat
  BY <1>1, Sizes DEF Inv, StageOK, Reads
<1> QED  BY <1>1, <1>2, ReadsKeep DEF Whole, HeaderSize

\* then the path, as far as it is there.
LEMMA ReadPathKeeps ==
  ASSUME Inv, ReadPath
  PROVE  Inv'
<1>1. TypeOK /\ server = "path" /\ m_socket \in Clients
  BY Served DEF Inv, ReadPath
<1>2. HeaderSize <= taken[m_socket] /\ taken[m_socket] <= Whole(m_socket)
  BY <1>1 DEF Inv, StageOK
<1>3. /\ PathLeft \in Int /\ taken[m_socket] + PathLeft = Whole(m_socket)
      /\ taken[m_socket] \in Nat /\ Whole(m_socket) \in Nat /\ HeaderSize = 3
  BY <1>1, Left, Sizes DEF TypeOK
<1>4. CASE PathLeft = 0
  <2>1. Reads("path", 0, "convert")
    BY <1>4 DEF ReadPath
  <2> QED  BY <1>3, <1>4, <2>1, ReadsKeep
<1>5. CASE PathLeft # 0
  <2>1. Reads("path", 1, "path")
    BY <1>5 DEF ReadPath
  <2>2. taken[m_socket] + 1 <= Whole(m_socket) /\ HeaderSize <= taken[m_socket] + 1
    BY <1>2, <1>3, <1>5
  <2> QED  BY <2>1, <2>2, ReadsKeep
<1> QED  BY <1>4, <1>5

\* The next in the queue is served.
LEMMA AcceptKeeps ==
  ASSUME Inv, Accept
  PROVE  Inv'
<1>1. TypeOK /\ StageOK /\ TurnsOK /\ ReadOK /\ WrittenOK /\ EndsOnlyFor
  BY DEF Inv
<1>2. /\ server = "accept" /\ backlog # <<>>
      /\ m_socket' = Head(backlog) /\ backlog' = Tail(backlog) /\ server' = "flag"
      /\ UNCHANGED <<kind, pathLength, client, written, taken, path, called, shouldStop, program>>
  BY DEF Accept, clientVars
<1>3. /\ 1 \in DOMAIN backlog /\ m_socket' = backlog[1] /\ m_socket' \in Clients
      /\ backlog' \in Seq(Clients)
      /\ \A k \in DOMAIN backlog' :
           k \in Nat /\ k + 1 \in DOMAIN backlog /\ k + 1 # 1 /\ backlog'[k] = backlog[k + 1]
  <2>1. /\ backlog \in Seq(Clients) /\ backlog # <<>>
        /\ Len(backlog) \in Nat \ {0} /\ DOMAIN backlog = 1 .. Len(backlog)
    BY <1>1, <1>2, LenProperties, EmptySeq DEF TypeOK
  <2>2. /\ backlog' \in Seq(Clients) /\ Len(backlog') = Len(backlog) - 1
        /\ \A k \in 1 .. Len(backlog') : backlog'[k] = backlog[k + 1]
    BY <1>2, <2>1, HeadTailProperties
  <2>3. Head(backlog) = backlog[1] /\ backlog[1] \in Clients
    BY <2>1, ElementOfSeq
  <2>4. DOMAIN backlog' = 1 .. Len(backlog')
    BY <2>2, LenProperties
  <2> QED  BY <1>2, <2>1, <2>2, <2>3, <2>4
<1>4. \A c \in Clients : Queued(c)' => Queued(c) /\ c # m_socket'
  <2> SUFFICES ASSUME NEW c \in Clients, NEW k \in DOMAIN backlog', backlog'[k] = c
               PROVE  Queued(c) /\ c # m_socket'
    BY DEF Queued
  <2>1. k + 1 \in DOMAIN backlog /\ backlog[k + 1] = c /\ k + 1 # 1
    BY <1>3
  <2>2. c # backlog[1]
    BY <1>1, <1>3, <2>1 DEF TurnsOK
  <2> QED  BY <1>3, <2>1, <2>2 DEF Queued
<1>5. Queued(m_socket') /\ m_socket' # NoClient
  BY <1>3, InputAssumption DEF Queued
<1>6. \A c \in Clients : c # m_socket
  BY <1>1, <1>2, InputAssumption DEF TypeOK
<1>7. TypeOK'
  BY <1>1, <1>2, <1>3, <1>5 DEF TypeOK, ServerStates
<1>8. StageOK'
  BY <1>1, <1>2, <1>5 DEF StageOK, TurnsOK
<1>9. TurnsOK'
  <2>1. \A k, l \in DOMAIN backlog' : backlog'[k] = backlog'[l] => k = l
    <3> SUFFICES ASSUME NEW k \in DOMAIN backlog', NEW l \in DOMAIN backlog', backlog'[k] = backlog'[l]
                 PROVE  k = l
      OBVIOUS
    <3> DEFINE i == k + 1
               j == l + 1
    <3>2. i \in DOMAIN backlog /\ j \in DOMAIN backlog /\ backlog[i] = backlog[j]
      BY <1>3
    <3> HIDE DEF i, j
    <3>3. i = j
      BY <1>1, <3>2 DEF TurnsOK
    <3>1. k + 1 = l + 1
      BY <3>3 DEF i, j
    <3> QED  BY <1>3, <3>1
  <2>2. \A c \in Clients : Fresh(c)' <=> Fresh(c)
    BY <1>2 DEF Fresh
  <2> QED  BY <1>1, <1>2, <1>4, <1>5, <2>1, <2>2 DEF TurnsOK
<1>10. ReadOK'
  BY <1>1, <1>2 DEF ReadOK, Whole, HeaderSize, IntBytes
<1>11. WrittenOK'
  <2>1. \A c \in Clients : BreaksRequest(c)' = BreaksRequest(c) /\ PayloadSize(c)' = PayloadSize(c)
    BY <1>2 DEF BreaksRequest, PayloadSize, HeaderSize, IntBytes, ntohl
  <2>2. \A c \in Clients : Queued(c)' \/ c = m_socket' => Queued(c)
    BY <1>4, <1>5
  <2>3. Listening' <=> Listening
    BY <1>2 DEF Listening, Running
  <2> QED  BY <1>1, <1>2, <2>1, <2>2, <2>3 DEF WrittenOK
<1>12. EndsOnlyFor'
  BY <1>2 DEF EndsOnlyFor
<1> QED  BY <1>7, <1>8, <1>9, <1>10, <1>11, <1>12 DEF Inv

\* The thread starts to listen, or not at all.
LEMMA ListenKeeps ==
  ASSUME Inv, Listen
  PROVE  Inv'
<1>1. TypeOK /\ StageOK /\ TurnsOK /\ ReadOK /\ WrittenOK /\ EndsOnlyFor
  BY DEF Inv
<1>2. /\ server = "start" /\ server' = IF shouldStop THEN "returned" ELSE "accept"
      /\ UNCHANGED <<kind, pathLength, client, written, backlog, m_socket, taken, path, called,
                     shouldStop, program>>
  BY DEF Listen, clientVars
<1>3. TypeOK'
  BY <1>1, <1>2 DEF TypeOK, ServerStates
<1>4. StageOK'
  BY <1>2 DEF StageOK
<1>5. TurnsOK' /\ ReadOK' /\ WrittenOK'
  BY <1>2, <1>3, <1>4, ThreadKeeps DEF clientVars
<1>6. EndsOnlyFor'
  BY <1>2 DEF EndsOnlyFor
<1> QED  BY <1>3, <1>4, <1>5, <1>6 DEF Inv

\* Without a port it serves nobody.
LEMMA PortTakenKeeps ==
  ASSUME Inv, PortTaken
  PROVE  Inv'
<1>1. TypeOK /\ StageOK /\ TurnsOK /\ ReadOK /\ WrittenOK /\ EndsOnlyFor
  BY DEF Inv
<1>2. /\ server = "start" /\ server' = "no port" /\ shouldStop' = TRUE
      /\ UNCHANGED <<kind, pathLength, client, written, backlog, m_socket, taken, path, called,
                     program>>
  BY DEF PortTaken, clientVars
<1>3. TypeOK'
  <2>1. m_socket' = NoClient /\ server' = "no port"
    <3>1. m_socket = NoClient
      BY <1>1, <1>2 DEF TypeOK
    <3> QED  BY <1>2, <3>1
  <2>2. (m_socket' # NoClient) = (server' \in {"flag", "length", "path", "convert", "add"})
    <3>1. server' \notin {"flag", "length", "path", "convert", "add"}
      BY <2>1
    <3>2. ~(m_socket' # NoClient)
      BY <2>1
    <3> QED  BY <3>1, <3>2
  <2> QED  BY <1>1, <1>2, <2>2 DEF TypeOK, ServerStates
<1>4. StageOK'
  BY <1>2 DEF StageOK
<1>5. TurnsOK' /\ ReadOK' /\ WrittenOK'
  BY <1>2, <1>3, <1>4, ThreadKeeps DEF clientVars, Listening
<1>6. EndsOnlyFor'
  BY <1>2 DEF EndsOnlyFor
<1> QED  BY <1>3, <1>4, <1>5, <1>6 DEF Inv

\* A read fails for a client that broke its request off, or asks for too much.
LEMMA MissingBreaks ==
  ASSUME Inv, NEW c \in Clients, c = m_socket, Running, NEW stage, NEW size \in Int,
         server = stage, stage \in {"flag", "length", "path"},
         taken[c] + size <= Whole(c), Missing(stage, size)
  PROVE  BreaksRequest(c)
<1>1. TypeOK /\ WrittenOK /\ Listening
  BY DEF Inv, Listening
<1>2. CASE client[c] = "cut off"
  BY <1>2 DEF BreaksRequest
<1>3. CASE client[c] = "failed"
  BY <1>1, <1>3 DEF WrittenOK
<1>4. CASE client[c] = "closed" /\ Unread(c) < size
  <2>1. written[c] = PayloadSize(c)
    BY <1>1, <1>4 DEF WrittenOK
  <2>2. /\ taken[c] \in Nat /\ Whole(c) \in Nat /\ PayloadSize(c) \in Nat
    BY <1>1, Sizes DEF TypeOK
  <2>3. PayloadSize(c) < Whole(c)
    BY <1>4, <2>1, <2>2 DEF Unread
  <2>4. kind[c] = "adder" /\ ntohl(pathLength[c]) < pathLength[c]
    BY <1>1, <2>3, Sizes
  <2> QED  BY <2>4 DEF BreaksRequest
<1> QED  BY <1>2, <1>3, <1>4 DEF Missing

\* An exception is the fault of the client being served.
LEMMA ReadThrowsKeeps ==
  ASSUME Inv, ReadThrows
  PROVE  Inv'
<1>1. TypeOK /\ StageOK /\ TurnsOK /\ ReadOK /\ WrittenOK /\ EndsOnlyFor
  BY DEF Inv
<1>2. /\ server \in {"flag", "length", "path"} /\ Running
      /\ server' = "thrown" /\ shouldStop' = TRUE /\ m_socket' = NoClient
      /\ UNCHANGED <<kind, pathLength, client, written, backlog, taken, path, called, program>>
  BY DEF ReadThrows, Missing, Throws, clientVars
<1>3. TypeOK'
  <2>1. (m_socket' # NoClient) = (server' \in {"flag", "length", "path", "convert", "add"})
    BY <1>2
  <2> QED  BY <1>1, <1>2, <2>1 DEF TypeOK, ServerStates
<1>4. StageOK'
  BY <1>2 DEF StageOK
<1>5. TurnsOK' /\ ReadOK' /\ WrittenOK'
  BY <1>2, <1>3, <1>4, ThreadKeeps DEF clientVars, Listening
<1>6. EndsOnlyFor'
  <2>1. PICK c \in Clients : c = m_socket
    BY <1>1, <1>2, Served
  <2>2. /\ c \notin called /\ \A k \in DOMAIN backlog : backlog[k] # c
    BY <1>1, <2>1 DEF TurnsOK, Queued
  <2>3. taken[c] \in Nat /\ Whole(c) \in Nat /\ Whole(c) >= HeaderSize /\ HeaderSize = 3 /\ IntBytes = 2
    BY <1>1, Sizes DEF TypeOK, Whole
  <2>4. BreaksRequest(c) \/ pathLength[c] > MaxAlloc
    <3>1. CASE Missing("flag", 1)
      <4>1. server = "flag" /\ taken[c] = 0
        BY <1>1, <2>1, <3>1 DEF Missing, StageOK
      <4> QED  BY <1>2, <2>1, <2>3, <3>1, <4>1, MissingBreaks
    <3>2. CASE Missing("length", IntBytes)
      <4>1. server = "length" /\ taken[c] = 1
        BY <1>1, <2>1, <3>2 DEF Missing, StageOK
      <4> QED  BY <1>2, <2>1, <2>3, <3>2, <4>1, MissingBreaks
    <3>3. CASE Missing("path", PathLeft)
      <4>1. server = "path"
        BY <3>3 DEF Missing
      <4>2. PathLeft \in Int /\ taken[c] + PathLeft = Whole(c)
        BY <1>1, <2>1, Left
      <4>3. taken[c] + PathLeft <= Whole(c)
        BY <2>3, <4>2
      <4> QED  BY <1>2, <2>1, <3>3, <4>1, <4>2, <4>3, MissingBreaks
    <3> QED  BY <2>1, <3>1, <3>2, <3>3 DEF ReadThrows
  <2>5. BreaksRequest(c)' <=> BreaksRequest(c)
    BY <1>2 DEF BreaksRequest, HeaderSize, IntBytes, ntohl
  <2> QED  BY <1>2, <2>2, <2>4, <2>5 DEF EndsOnlyFor
<1> QED  BY <1>3, <1>4, <1>5, <1>6 DEF Inv

\* A path is converted when all of it is there.
LEMMA ConvertKeeps ==
  ASSUME Inv, MultiByteToWideChar
  PROVE  Inv'
<1>1. TypeOK /\ StageOK /\ TurnsOK /\ ReadOK /\ WrittenOK /\ EndsOnlyFor
  BY DEF Inv
<1>2. /\ server = "convert" /\ server' = "add" /\ path' \in {"exact", "longer"}
      /\ UNCHANGED <<kind, pathLength, client, written, backlog, m_socket, taken, called,
                     shouldStop, program>>
  BY DEF MultiByteToWideChar, clientVars
<1>3. TypeOK'
  BY <1>1, <1>2 DEF TypeOK, ServerStates
<1>4. StageOK'
  BY <1>1, <1>2 DEF StageOK, Whole, HeaderSize, IntBytes
<1>5. TurnsOK' /\ ReadOK' /\ WrittenOK'
  BY <1>2, <1>3, <1>4, ThreadKeeps DEF clientVars, Listening, Running
<1>6. EndsOnlyFor'
  BY <1>2 DEF EndsOnlyFor
<1> QED  BY <1>3, <1>4, <1>5, <1>6 DEF Inv

\* An empty path ends the thread.
LEMMA NotConvertedKeeps ==
  ASSUME Inv, NotConverted
  PROVE  Inv'
<1>1. TypeOK /\ StageOK /\ TurnsOK /\ ReadOK /\ WrittenOK /\ EndsOnlyFor
  BY DEF Inv
<1>2. /\ server = "convert" /\ pathLength[m_socket] = 0 /\ server' = "returned" /\ m_socket' = NoClient
      /\ UNCHANGED <<kind, pathLength, client, written, backlog, taken, path, called,
                     shouldStop, program>>
  BY DEF NotConverted, clientVars
<1>3. TypeOK'
  BY <1>1, <1>2, InputAssumption DEF TypeOK, ServerStates
<1>4. StageOK'
  BY <1>2 DEF StageOK
<1>5. TurnsOK' /\ ReadOK' /\ WrittenOK'
  BY <1>2, <1>3, <1>4, ThreadKeeps DEF clientVars, Listening
<1>6. EndsOnlyFor'
  <2>1. PICK c \in Clients : c = m_socket
    BY <1>1, <1>2, Served
  <2>2. c \notin called /\ taken[c] = Whole(c)
    BY <1>1, <1>2, <2>1 DEF TurnsOK, StageOK
  <2>3. taken[c] = HeaderSize
    BY <1>2, <2>1, <2>2 DEF Whole, HeaderSize, IntBytes
  <2> QED  BY <1>2, <2>1, <2>2, <2>3 DEF EndsOnlyFor, HeaderSize, IntBytes
<1> QED  BY <1>3, <1>4, <1>5, <1>6 DEF Inv

\* The request is passed on when all of it is read.
LEMMA AddKeeps ==
  ASSUME Inv, add_torrent_download
  PROVE  Inv'
<1>1. TypeOK /\ StageOK /\ TurnsOK /\ ReadOK /\ WrittenOK /\ EndsOnlyFor
  BY DEF Inv
<1>2. /\ server = "add" /\ called' = called \union {m_socket} /\ path' = "none"
      /\ m_socket' = NoClient /\ server' = IF shouldStop THEN "returned" ELSE "accept"
      /\ UNCHANGED <<kind, pathLength, client, written, backlog, taken, shouldStop, program>>
  BY DEF add_torrent_download, clientVars
<1>3. m_socket \in Clients /\ taken[m_socket] = Whole(m_socket)
  BY <1>1, <1>2, Served DEF StageOK
<1>4. TypeOK'
  <2>1. called' \subseteq Clients
    BY <1>1, <1>2, <1>3 DEF TypeOK
  <2> QED  BY <1>1, <1>2, <2>1, InputAssumption DEF TypeOK, ServerStates
<1>5. StageOK'
  BY <1>2 DEF StageOK
<1>6. TurnsOK' /\ ReadOK' /\ WrittenOK'
  BY <1>2, <1>3, <1>4, <1>5, ThreadKeeps DEF clientVars, Listening, Running
<1>7. EndsOnlyFor'
  BY <1>2 DEF EndsOnlyFor
<1> QED  BY <1>4, <1>5, <1>6, <1>7 DEF Inv

-----------------------------------------------------------------------------
(* The main thread, and the theorems.                                      *)

\* The main thread stops the program, or gets stuck.
LEMMA MainKeeps ==
  ASSUME Inv, sighandler \/ handle_loop \/ MainReturns \/ UNCHANGED vars
  PROVE  Inv'
<1>1. TypeOK /\ StageOK /\ TurnsOK /\ ReadOK /\ WrittenOK /\ EndsOnlyFor
  BY DEF Inv
<1>2. /\ UNCHANGED <<kind, pathLength, client, written, server, backlog, m_socket, taken, path, called>>
      /\ shouldStop' \in {shouldStop, TRUE} /\ program' \in {program, "stuck", "ended"}
      /\ Running' => Running
  BY DEF sighandler, handle_loop, MainReturns, vars, clientVars, serverVars, Running
<1>3. TypeOK'
  BY <1>1, <1>2 DEF TypeOK
<1>4. StageOK'
  BY <1>1, <1>2 DEF StageOK, Whole, HeaderSize, IntBytes
<1>5. TurnsOK' /\ ReadOK' /\ WrittenOK'
  BY <1>2, <1>3, <1>4, ThreadKeeps DEF clientVars, Listening
<1>6. EndsOnlyFor'
  <2>1. \A c \in Clients : BreaksRequest(c) => BreaksRequest(c)'
    BY <1>1, <1>2, BreaksStays
  <2>2. ~shouldStop' => ~shouldStop
    BY <1>2
  <2> QED  BY <1>1, <1>2, <2>1, <2>2 DEF EndsOnlyFor, HeaderSize, IntBytes
<1> QED  BY <1>3, <1>4, <1>5, <1>6 DEF Inv

\* At first nobody has connected.
LEMMA InitInv == Init => Inv
<1> SUFFICES ASSUME Init PROVE Inv
  OBVIOUS
<1>1. /\ \A c \in Clients : client[c] = "new" /\ written[c] = 0 /\ taken[c] = 0
      /\ backlog = <<>> /\ DOMAIN backlog = {} /\ server = "start" /\ called = {}
      /\ m_socket = NoClient /\ NoClient \notin Clients
  BY InputAssumption DEF Init
<1>2. TypeOK
  <2>1. client \in [Clients -> ClientStates] /\ written \in [Clients -> Nat] /\ taken \in [Clients -> Nat]
    BY DEF Init, ClientStates
  <2>2. backlog \in Seq(Clients)
    BY <1>1, EmptySeq
  <2>3. (m_socket # NoClient) = (server \in {"flag", "length", "path", "convert", "add"})
    BY <1>1
  <2> QED  BY <1>1, <2>1, <2>2, <2>3 DEF Init, TypeOK, ServerStates
<1>3. StageOK /\ TurnsOK /\ ReadOK
  BY <1>1 DEF StageOK, TurnsOK, ReadOK, Fresh, Queued
<1>4. WrittenOK /\ EndsOnlyFor
  BY <1>1 DEF WrittenOK, EndsOnlyFor
<1> QED  BY <1>2, <1>3, <1>4 DEF Inv

\* The invariant is inductive.
LEMMA NextKeeps ==
  ASSUME Inv, [Next]_vars
  PROVE  Inv'
<1>1. CASE ServerStep
  BY <1>1, ListenKeeps, AcceptKeeps, ReadFlagKeeps, ReadLengthKeeps, ReadPathKeeps,
     ReadThrowsKeeps, ConvertKeeps, NotConvertedKeeps, AddKeeps DEF ServerStep
<1>2. CASE PortTaken
  BY <1>2, PortTakenKeeps
<1>3. ASSUME NEW c \in Clients, Connect(c) \/ Refused(c) \/ WritingStep(c) \/ BreaksOff(c)
      PROVE  Inv'
  BY <1>3, ConnectKeeps, ClientKeeps, WriteByteKeeps DEF WritingStep
<1>4. CASE sighandler \/ handle_loop \/ MainReturns \/ UNCHANGED vars
  BY <1>4, MainKeeps
<1> QED  BY <1>1, <1>2, <1>3, <1>4 DEF Next

\* It holds in every state.
LEMMA InvAlways == Spec => []Inv
BY InitInv, NextKeeps, PTL DEF Spec

\* Every variable always holds a value of its type, and a connection is either waiting
\* or being served.
THEOREM TypeCorrect == Spec => []TypeOK
<1>1. Inv => TypeOK
  BY DEF Inv
<1> QED  BY <1>1, InvAlways, PTL

\* Exactly the bytes of a request are read before it is passed on (tcp_thread_job); what the
\* conversion of the path makes of them is not said.
THEOREM RequestsAlwaysWhole == Spec => []WholeRequests
<1>1. Inv => WholeRequests
  BY DEF Inv, StageOK, ReadOK, WholeRequests, Whole
<1> QED  BY <1>1, InvAlways, PTL

\* The thread ends only by a request that is cut off, too long or empty, or when the
\* program is to stop.
THEOREM OnlyBadRequestsEnd == Spec => []EndsOnlyFor
<1>1. Inv => EndsOnlyFor
  BY DEF Inv
<1> QED  BY <1>1, InvAlways, PTL

=============================================================================
