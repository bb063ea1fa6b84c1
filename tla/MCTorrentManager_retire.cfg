\* Two torrents, one of them with jobs that may wait for ever.
\* The program may stop, and it may have nothing left to do.
SPECIFICATION Spec
CONSTANTS
  film = film
  series = series
  v1OfSeries = v1OfSeries
  NoHash = NoHash
  Torrents <- TwoTorrents
  MediaFiles <- OneEach
  V1Hash <- SeriesHybrid
  Defects <- FilmSound
  Hopeless <- SeriesHopeless
  ClientRequests <- FileRequests
  MaxRequests = 2
  MaxNumber = 2
PROPERTIES
  TorrentsRetire
CHECK_DEADLOCK FALSE
