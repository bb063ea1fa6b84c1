\* Files shorter than the search limit, last piece shorter than the others.
\* A job that has its verdict, or waits for ever, takes no more steps.
SPECIFICATION Spec
CONSTANTS
  PieceLength = 4
  TorrentSize = 6
  Files <- ShortFiles
  SharedPieces <- SecondPiece
  InitHave <- FirstPiece
  MaxLoss = 2
  SearchStep = 3
  SearchLimit = 9
  HeadSpan = 2
  ClustersNeeded = 2
PROPERTIES
  JobEnds
CHECK_DEADLOCK FALSE
