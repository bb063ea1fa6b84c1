\* Two pieces whose flags do not fill the second block of the header.
SPECIFICATION Spec
CONSTANTS
  NumPieces = 2
  PieceLength = 2
  LastLength = 1
  HeaderBlock = 2
  IntBytes = 1
INVARIANTS
  FileResumed
