\* Samples in and behind the first pieces, an alert lost, a piece shared.
\* A job that has its verdict, or waits for ever in CAN_FINISH, takes no more steps.
SPECIFICATION Spec
CONSTANTS
  PieceLength = 10
  TorrentSize = 50
  Files <- TestFiles
  SharedPieces <- SamplePiece
  InitHave <- OneHad
  MaxLoss = 1
  InitSpan = 15
INVARIANTS
  TypeOK
  NoVerdictOnMissingData
PROPERTIES
  SampleAtHandSucceeds
CHECK_DEADLOCK FALSE
