\* Files of every kind, an alert lost, pieces there before or shared.
\* A job that has its verdict, or waits for ever, takes no more steps.
SPECIFICATION Spec
CONSTANTS
  PieceLength = 4
  TorrentSize = 22
  Files <- AllFiles
  SharedPieces <- LastPiece
  InitHave <- SomeHave
  MaxLoss = 1
  SearchStep = 3
  SearchLimit = 9
  HeadSpan = 2
  ClustersNeeded = 2
INVARIANTS
  TypeOK
  WellFormedFileAccepted
  ReadsCovered
PROPERTIES
  ImplementsLifecycle
  JobEnds
CHECK_DEADLOCK FALSE
