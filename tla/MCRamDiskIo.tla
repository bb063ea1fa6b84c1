----------------------------- MODULE MCRamDiskIo -----------------------------
(***************************************************************************)
(* A small instance of RamDiskIo.                                          *)
(***************************************************************************)
EXTENDS RamDiskIo

CONSTANTS film, series, first

TwoTorrents == {film, series}
OnePiece == {first}
OnlyFilm == {film}
OnlySeries == {series}
=============================================================================
