\* A file that starts in the second piece of the torrent.
\* A job that has its verdict, or waits for ever, takes no more steps.
SPECIFICATION Spec
CONSTANTS
  PieceLength = 4
  TorrentSize = 22
  Files <- ShiftedFiles
  SharedPieces <- NoPiece
  InitHave <- Nothing
  MaxLoss = 0
  SearchStep = 3
  SearchLimit = 9
  HeadSpan = 2
  ClustersNeeded = 2
INVARIANTS
  PresearchFindsSegment
CHECK_DEADLOCK FALSE
