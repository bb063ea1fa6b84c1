\* Two torrents, one with two files, two requests.
\* The program may stop, and it may have nothing left to do.
SPECIFICATION Spec
CONSTANTS
  film = film
  series = series
  v1OfSeries = v1OfSeries
  NoHash = NoHash
  Torrents <- TwoTorrents
  MediaFiles <- TwoAndOne
  V1Hash <- SeriesHybrid
  Defects <- FilmSound
  Hopeless <- SeriesHopeless
  ClientRequests <- AnyRequest
  MaxRequests = 2
  MaxNumber = 4
INVARIANTS
  TypeOK
  CounterCoversJobs
  CounterCountsJobs
  RequestHonoured
  
  NoTorrentForgotten
CHECK_DEADLOCK FALSE
