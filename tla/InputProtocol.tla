---------------------------- MODULE InputProtocol ----------------------------
(***************************************************************************)
(* The input thread of main (src/torrentQuickMediaManager.cpp) and its     *)
(* clients: torrentAdder (src/torrentAdder.cpp) and others, which are      *)
(* external.  A request is a flag, the length of a path and the path; the  *)
(* thread serves one connection at a time and reads with calls that block. *)
(*                                                                         *)
(* Simplifications:                                                        *)
(*  - an integer on the wire is two digits of ByteBase instead of four     *)
(*    bytes, torrentAdder and the manager run on little-endian machines;   *)
(*  - a connection is counted in bytes and holds SocketBuffer of them;     *)
(*  - what the manager does with a request is in TorrentManager: here it   *)
(*    has been asked, or not.  Its mutex is free again between two rounds  *)
(*    of handle_loop, unless a job's read keeps it for ever;               *)
(*  - MultiByteToWideChar reads to the next zero byte, which may lie       *)
(*    behind the path, so the path may come out with more characters.      *)
(***************************************************************************)
EXTENDS Integers, Sequences

CONSTANTS
  Clients,
  NoClient,
  PathLengths,   \* the lengths of the paths clients send
  ByteBase,      \* values of a byte
  MaxAlloc,      \* the largest buffer that can be allocated
  SocketBuffer   \* bytes a connection holds

ASSUME InputAssumption ==
  /\ NoClient \notin Clients
  /\ ByteBase \in Nat \ {0}
  /\ PathLengths \subseteq 0 .. ByteBase * ByteBase - 1
  /\ MaxAlloc \in Nat
  /\ SocketBuffer \in Nat \ {0}

IntBytes == 2
Kinds == {"adder", "other"}

VARIABLES
  kind,        \* what each client is
  pathLength,  \* the length of its path
  client,      \* what it is doing
  written,     \* bytes it has written to its socket
  server,      \* where the input thread is
  backlog,     \* connections not accepted yet, oldest first
  m_socket,    \* the client being served
  taken,       \* bytes read from each client
  path,        \* the path as converted: "none", "exact" or "longer"
  called,      \* the clients whose requests have reached add_torrent_download
  shouldStop,
  program      \* "running", "stuck" (the main thread never leaves handle_loop), "ended"

clientVars == <<kind, pathLength, client, written>>
serverVars == <<server, backlog, m_socket, taken, path, called>>
vars == <<clientVars, serverVars, shouldStop, program>>

Init ==
  /\ kind \in [Clients -> Kinds]
  /\ pathLength \in [Clients -> PathLengths]
  /\ client = [c \in Clients |-> "new"]
  /\ written = [c \in Clients |-> 0]
  /\ server = "start"
  /\ backlog = <<>>
  /\ m_socket = NoClient
  /\ taken = [c \in Clients |-> 0]
  /\ path = "none"
  /\ called = {}
  /\ shouldStop = FALSE
  /\ program = "running"

-----------------------------------------------------------------------------
(* The clients.                                                            *)

Running == program # "ended"

ntohl(n) == (n % ByteBase) * ByteBase + n \div ByteBase

HeaderSize == 1 + IntBytes

\* Mutant: the flag is not counted.
SizeWithoutFlag(c) ==
  IF kind[c] = "adder" THEN IntBytes + ntohl(pathLength[c]) ELSE HeaderSize + pathLength[c]

\* torrentAdder sizes its payload by the length already in network order.
PayloadSize(c) ==
  HeaderSize + (IF kind[c] = "adder" THEN ntohl(pathLength[c]) ELSE pathLength[c])

Becomes(c, new) == client' = [client EXCEPT ![c] = new]

Listening == Running /\ server \notin {"start", "no port", "returned", "thrown"}

Connect(c) ==
  /\ client[c] = "new"
  /\ Listening
  /\ Becomes(c, "connected")
  /\ backlog' = Append(backlog, c)
  /\ UNCHANGED <<kind, pathLength, written, server, m_socket, taken, path, called, shouldStop, program>>

Refused(c) ==
  /\ client[c] = "new"
  /\ ~Listening
  /\ Becomes(c, "refused")
  /\ UNCHANGED <<kind, pathLength, written, serverVars, shouldStop, program>>

PayloadFits(c) == PayloadSize(c) >= HeaderSize + pathLength[c]

\* The payload is made when the connection is there.  A path longer than the
\* payload is copied behind its end, which may go well.
MakePayload(c) ==
  /\ client[c] = "connected"
  /\ kind[c] = "adder" => PayloadSize(c) <= MaxAlloc
  /\ Becomes(c, "writing")
  /\ UNCHANGED <<kind, pathLength, written, serverVars, shouldStop, program>>

PayloadFails(c) ==
  /\ client[c] = "connected"
  /\ kind[c] = "adder"
  /\ PayloadSize(c) > MaxAlloc \/ ~PayloadFits(c)
  /\ Becomes(c, "failed")
  /\ UNCHANGED <<kind, pathLength, written, serverVars, shouldStop, program>>

\* The server has closed the connection.
Closed(c) ==
  \/ ~Listening
  \/ taken[c] > 0 /\ m_socket # c

WriteByte(c) ==
  /\ client[c] = "writing"
  /\ written[c] < PayloadSize(c)
  /\ written[c] - taken[c] < SocketBuffer
  /\ ~Closed(c)
  /\ written' = [written EXCEPT ![c] = @ + 1]
  /\ UNCHANGED <<kind, pathLength, client, serverVars, shouldStop, program>>

\* All is written, or writing fails for good.
CloseSocket(c) ==
  /\ client[c] = "writing"
  /\ written[c] = PayloadSize(c) \/ Closed(c)
  /\ Becomes(c, "closed")
  /\ UNCHANGED <<kind, pathLength, written, serverVars, shouldStop, program>>

\* The client is ended in the middle of its request, or hangs and holds on.
BreaksOff(c) ==
  /\ client[c] \in {"connected", "writing"}
  /\ Becomes(c, "cut off") \/ Becomes(c, "silent")
  /\ UNCHANGED <<kind, pathLength, written, serverVars, shouldStop, program>>

-----------------------------------------------------------------------------
(* The input thread.                                                       *)

Listen ==
  /\ Running /\ server = "start"
  /\ server' = IF shouldStop THEN "returned" ELSE "accept"
  /\ UNCHANGED <<clientVars, backlog, m_socket, taken, path, called, shouldStop, program>>

\* An exception ends the thread and stops the program.
Throws ==
  /\ server' = "thrown"
  /\ shouldStop' = TRUE
  /\ m_socket' = NoClient
  /\ UNCHANGED <<clientVars, backlog, taken, path, called, program>>

PortTaken ==
  /\ Running /\ server = "start"
  /\ server' = "no port"
  /\ shouldStop' = TRUE
  /\ UNCHANGED <<clientVars, backlog, m_socket, taken, path, called, program>>

Accept ==
  /\ Running /\ server = "accept"
  /\ backlog # <<>>
  /\ m_socket' = Head(backlog)
  /\ backlog' = Tail(backlog)
  /\ server' = "flag"
  /\ UNCHANGED <<clientVars, taken, path, called, shouldStop, program>>

Unread(c) == written[c] - taken[c]

Reads(stage, size, next) ==
  /\ Running /\ server = stage
  /\ Unread(m_socket) >= size
  /\ taken' = [taken EXCEPT ![m_socket] = @ + size]
  /\ server' = next
  /\ UNCHANGED <<clientVars, backlog, m_socket, path, called, shouldStop, program>>

\* A path longer than the socket holds comes in parts.
PathLeft == HeaderSize + pathLength[m_socket] - taken[m_socket]

ReadFlag == Reads("flag", 1, "length")
ReadLength == Reads("length", IntBytes, "path")

\* Mutant: takes what is there for the path.
ReadSome ==
  /\ server = "path" /\ pathLength[m_socket] <= MaxAlloc
  /\ Reads("path", Unread(m_socket), "convert")

\* Mutant: waits for the whole path.
ReadWhole ==
  /\ server = "path" /\ pathLength[m_socket] <= MaxAlloc
  /\ Reads("path", PathLeft, "convert")

ReadPath ==
  /\ server = "path" /\ pathLength[m_socket] <= MaxAlloc
  /\ IF PathLeft = 0 THEN Reads("path", 0, "convert") ELSE Reads("path", 1, "path")

\* What a client that is ended has sent may be lost, what one that closes is not.
Missing(stage, size) ==
  /\ server = stage
  /\ size > 0
  /\ \/ client[m_socket] = "cut off"
     \/ client[m_socket] \in {"closed", "failed"} /\ Unread(m_socket) < size

\* The client is gone before its request was whole, or the path cannot be allocated.
ReadThrows ==
  /\ Running
  /\ \/ Missing("flag", 1)
     \/ Missing("length", IntBytes)
     \/ Missing("path", PathLeft)
     \/ server = "path" /\ pathLength[m_socket] > MaxAlloc
  /\ Throws

MultiByteToWideChar ==
  /\ Running /\ server = "convert"
  /\ pathLength[m_socket] > 0
  /\ path' \in {"exact", "longer"}
  /\ server' = "add"
  /\ UNCHANGED <<clientVars, backlog, m_socket, taken, called, shouldStop, program>>

\* The data of an empty vector cannot be converted; the thread returns.
NotConverted ==
  /\ Running /\ server = "convert"
  /\ pathLength[m_socket] = 0
  /\ server' = "returned"
  /\ m_socket' = NoClient
  /\ UNCHANGED <<clientVars, backlog, taken, path, called, shouldStop, program>>

\* Mutant: the socket is not closed.
KeepsSocket ==
  /\ program = "running" /\ server = "add"
  /\ called' = called \union {m_socket}
  /\ path' = "none"
  /\ server' = IF shouldStop THEN "returned" ELSE "accept"
  /\ UNCHANGED <<clientVars, backlog, m_socket, taken, shouldStop, program>>

\* The manager waits for m_mutex, and returns whatever it makes of the path; the
\* socket is closed.
add_torrent_download ==
  /\ program = "running" /\ server = "add"
  /\ called' = called \union {m_socket}
  /\ path' = "none"
  /\ m_socket' = NoClient
  /\ server' = IF shouldStop THEN "returned" ELSE "accept"
  /\ UNCHANGED <<clientVars, backlog, taken, shouldStop, program>>

-----------------------------------------------------------------------------
(* The main thread.                                                        *)

sighandler ==
  /\ Running
  /\ shouldStop' = TRUE
  /\ UNCHANGED <<clientVars, serverVars, program>>

\* A read of a job's process() spins with m_mutex held, or an exception or a null
\* pointer ends the program.
handle_loop ==
  /\ program = "running"
  /\ program' \in {"stuck", "ended"}
  /\ UNCHANGED <<clientVars, serverVars, shouldStop>>

MainReturns ==
  /\ program = "running" /\ shouldStop
  /\ program' = "ended"
  /\ UNCHANGED <<clientVars, serverVars, shouldStop>>

-----------------------------------------------------------------------------
ServerStep ==
  \/ Listen \/ Accept \/ ReadFlag \/ ReadLength \/ ReadPath \/ ReadThrows
  \/ MultiByteToWideChar \/ NotConverted \/ add_torrent_download

WritingStep(c) == MakePayload(c) \/ PayloadFails(c) \/ WriteByte(c) \/ CloseSocket(c)

Next ==
  \/ ServerStep \/ PortTaken
  \/ \E c \in Clients : Connect(c) \/ Refused(c) \/ WritingStep(c) \/ BreaksOff(c)
  \/ sighandler \/ handle_loop \/ MainReturns

\* Threads and processes run; nobody has to hang up or to stop the program, and the
\* main thread does not have to fail.
Fairness ==
  /\ WF_vars(ServerStep)
  /\ \A c \in Clients : WF_vars(WritingStep(c))
  /\ WF_vars(MainReturns)

Spec == Init /\ [][Next]_vars /\ Fairness

-----------------------------------------------------------------------------
(* Properties.                                                             *)

ClientStates ==
  {"new", "refused", "connected", "failed", "writing", "closed", "cut off", "silent"}
ServerStates ==
  {"start", "no port", "accept", "flag", "length", "path", "convert", "add", "returned", "thrown"}

\* Every variable holds a value of its type, and a connection is either waiting or
\* being served.
TypeOK ==
  /\ kind \in [Clients -> Kinds]
  /\ pathLength \in [Clients -> PathLengths]
  /\ client \in [Clients -> ClientStates]
  /\ written \in [Clients -> Nat]
  /\ server \in ServerStates
  /\ backlog \in Seq(Clients)
  /\ m_socket \in Clients \union {NoClient}
  /\ (m_socket # NoClient) = (server \in {"flag", "length", "path", "convert", "add"})
  /\ taken \in [Clients -> Nat]
  /\ path \in {"none", "exact", "longer"}
  /\ called \subseteq Clients
  /\ shouldStop \in BOOLEAN
  /\ program \in {"running", "stuck", "ended"}

\* A request reaches the manager when exactly its own bytes have been read: none of
\* the padding torrentAdder sends behind it, none of another client's.
WholeRequests ==
  \A c \in Clients :
    /\ c \in called \/ (c = m_socket /\ server \in {"convert", "add"}) =>
         taken[c] = HeaderSize + pathLength[c]
    /\ taken[c] <= written[c]

\* Whose fault it can be that a request is not whole: the client was ended, or
\* it is a torrentAdder whose payload is too large to allocate or too small.
BreaksRequest(c) ==
  \/ client[c] = "cut off"
  \/ kind[c] = "adder"
       /\ \/ ntohl(pathLength[c]) < pathLength[c]
          \/ HeaderSize + ntohl(pathLength[c]) > MaxAlloc

\* The thread is only ended by the request it was serving, one that breaks off or
\* is too long and takes the program with it, or an empty path, and then it goes deaf.
EndsOnlyFor ==
  /\ server = "thrown" =>
       \E c \in Clients \ called :
         /\ \A k \in DOMAIN backlog : backlog[k] # c
         /\ BreaksRequest(c) \/ pathLength[c] > MaxAlloc
  /\ server = "returned" /\ ~shouldStop =>
       \E c \in Clients \ called : taken[c] = HeaderSize /\ pathLength[c] = 0

\* A client that connects and does not break off gets its request to the manager,
\* unless the thread has ended, some client holds it by its silence, or the main thread
\* holds the mutex the manager needs for ever.
RequestsArrive ==
  \A c \in Clients :
    client[c] = "connected" ~>
      \/ c \in called
      \/ ~Listening
      \/ client[c] \in {"failed", "cut off"}
      \/ \E d \in Clients : client[d] = "silent"
      \/ program = "stuck"
=============================================================================
