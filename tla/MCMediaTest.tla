----------------------------- MODULE MCMediaTest -----------------------------
(***************************************************************************)
(* Small instances of MediaTest: five pieces of ten bytes.                 *)
(***************************************************************************)
EXTENDS MediaTest

At(off, size) == [off |-> off, size |-> size]

\* A sample in the third piece, one over the boundary of the second and third,
\* an empty one, and a file that starts in the middle of a piece.
TestFiles == {At(0, 50), At(0, 46), At(0, 49), At(0, 19), At(0, 22), At(13, 22)}
OneHad == {{}, {2}}
SamplePiece == {2}
=============================================================================
