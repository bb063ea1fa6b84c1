-------------------------- MODULE MCTorrentManager ---------------------------
(***************************************************************************)
(* Small instances of TorrentManager.                                      *)
(***************************************************************************)
EXTENDS TorrentManager

CONSTANTS film, series, v1OfSeries

TwoTorrents == {film, series}
OneEach == [t \in TwoTorrents |-> 1]
TwoAndOne == [t \in TwoTorrents |-> IF t = film THEN 2 ELSE 1]
AnyRequest == [torrent : TwoTorrents, is_magnet : BOOLEAN, upload_mode : BOOLEAN]
FileRequests ==
  {[torrent |-> t, is_magnet |-> FALSE, upload_mode |-> FALSE] : t \in TwoTorrents}
    \union {[torrent |-> film, is_magnet |-> TRUE, upload_mode |-> TRUE]}
SeriesHopeless == {series}

\* The series is a hybrid torrent, whose best hash is not its v1 hash.
SeriesHybrid == [t \in TwoTorrents |-> IF t = film THEN film ELSE v1OfSeries]
FilmSound == [t \in TwoTorrents |-> IF t = film THEN {} ELSE AllDefects]
=============================================================================
