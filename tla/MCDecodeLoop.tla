---------------------------- MODULE MCDecodeLoop -----------------------------
(***************************************************************************)
(* Small instances of DecodeLoop: a grid of four clusters.                 *)
(***************************************************************************)
EXTENDS DecodeLoop

FourClusters(a, b, c) == [n \in 0 .. 3 |-> CASE n = 1 -> a [] n = 3 -> b [] OTHER -> c]

TrackThenOther == <<"track", "other">>
OtherBetween == <<"other", "track", "other", "track", "track">>
Drain == <<"track", "track", "empty", "track">>
AllTrack == <<"track", "track", "track">>

SomeLayouts ==
  {FourClusters(a, b, AllTrack) :
     a \in {<<>>, <<"other">>, <<"track">>, TrackThenOther, OtherBetween, Drain},
     b \in {OtherBetween, Drain}}
SomeSizes == {<<4, 6>>, <<9, 5>>, <<1, 4>>}
=============================================================================
