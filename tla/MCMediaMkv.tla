----------------------------- MODULE MCMediaMkv ------------------------------
(***************************************************************************)
(* Small instances of MediaMkv: pieces of four bytes, files of a few       *)
(* elements.                                                               *)
(***************************************************************************)
EXTENDS MediaMkv

Elem(p, h, s) == [pos |-> p, head |-> h, size |-> s]

\* A file over a torrent of six pieces.  The SeekHead lies in the second search
\* step, only the first cluster kept brings the fourth piece, and the cues at the
\* end cross the boundary of the last two pieces.
GoodFile ==
  [off |-> 0, size |-> 22, flaw |-> "none", segment |-> 2,
   seekHead |-> Elem(4, 1, 2), tracks |-> Elem(7, 1, 1), cues |-> Elem(18, 1, 3),
   cueList |-> <<Elem(9, 1, 5), Elem(9, 1, 5), Elem(9, 1, 5),
                 Elem(16, 1, 1), Elem(16, 1, 1), Elem(16, 1, 1)>>]

\* The same file, with one of the flaws the parser gives up for.
Flawed(flaw) == [GoodFile EXCEPT !.flaw = flaw]

\* Too few cue points.
ShortCueList == [GoodFile EXCEPT !.cueList = SubSeq(@, 1, 5)]

\* A SeekHead the search reaches only behind its limit.
LateSeekHead == [GoodFile EXCEPT !.seekHead = Elem(14, 1, 1)]

\* The same elements in a file that does not start with the torrent.
ShiftedFile(off) == [GoodFile EXCEPT !.off = off, !.size = 22 - off]

\* Files of a torrent of six bytes, shorter than the search limit: without a
\* SeekHead, with one the parser does not like, and behind the start of the torrent.
ShortFile(flaw) == [GoodFile EXCEPT !.size = 6, !.flaw = flaw]
ShortShifted(flaw) == [ShortFile(flaw) EXCEPT !.off = 1, !.size = 5]

Nothing == {{}}
SomeHave == {{}, {1}, {0, 3, 5}}
FirstPiece == {{}, {0}}
NoPiece == {}
LastPiece == {5}
SecondPiece == {1}

GoodFiles == {GoodFile}
AllFiles ==
  {GoodFile, ShortCueList, LateSeekHead, ShiftedFile(4), ShiftedFile(1)}
    \union {Flawed(flaw) : flaw \in Flaws}
ShiftedFiles == {ShiftedFile(4)}
ShortFiles ==
  {ShortFile("noSeekHead"), ShortFile("seek"), ShortShifted("none"), ShortShifted("noSeekHead")}
=============================================================================
