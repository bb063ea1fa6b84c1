\* Two torrents and two storages, the second in a new slot or in the one of the first.
\* When all storages have come and gone nothing is left to do.
SPECIFICATION Spec
CONSTANTS
  film = film
  series = series
  first = first
  Torrents <- TwoTorrents
  Pieces <- OnePiece
  Misread <- OnlySeries
  Unwritable <- OnlyFilm
  MaxStorages = 2
  MaxPosts = 2
INVARIANTS
  TypeOK
  SlotsKeptApart
  LentBuffersStay
  VerifiedIsSaved
PROPERTIES
  ImplementsDisk
CHECK_DEADLOCK FALSE
