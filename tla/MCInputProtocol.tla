--------------------------- MODULE MCInputProtocol ---------------------------
(***************************************************************************)
(* A small instance of InputProtocol: with a byte of four values lengths   *)
(* 1, 2 and 4 on the wire are read as 4, 8 and 1 by torrentAdder itself.   *)
(***************************************************************************)
EXTENDS InputProtocol

CONSTANTS c1, c2

SomeLengths == {0, 1, 2, 4, 9}

\* The clients are alike, so the second need not send the shorter path.  No step changes
\* a path, so this only picks initial states and cuts no behaviour short.
InOrder == pathLength[c1] <= pathLength[c2]
=============================================================================
