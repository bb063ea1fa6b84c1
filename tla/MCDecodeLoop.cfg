\* Clusters that run out at different times, with other tracks in between.
\* The thread ends, or a decoder keeps it for ever.
SPECIFICATION Spec
CONSTANTS
  GridSize = 2
  Layouts <- SomeLayouts
  Sizes <- SomeSizes
  MaxFaults = 1
INVARIANTS
  TypeOK
  PacketsInOrder
  DrawsInside
  GridInStep
  EndsWithShortest
  ReportedAsSent
  SafeOnTrack
PROPERTIES
  RenderingEnds
CHECK_DEADLOCK FALSE
