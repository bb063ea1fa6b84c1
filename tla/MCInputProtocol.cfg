\* Two clients of any kind, paths of every kind of length.
\* The program may end, and a silent client may hold it for ever.
SPECIFICATION Spec
CONSTANTS
  NoClient = NoClient
  c1 = c1
  c2 = c2
  Clients = {c1, c2}
  PathLengths <- SomeLengths
  ByteBase = 4
  MaxAlloc = 8
  SocketBuffer = 2
INVARIANTS
  TypeOK
  WholeRequests
  EndsOnlyFor
PROPERTIES
  RequestsArrive
CONSTRAINT
  InOrder
CHECK_DEADLOCK FALSE
