\* Blocks of another track behind the last of the track.
\* The thread ends, or a decoder keeps it for ever.
SPECIFICATION Spec
CONSTANTS
  GridSize = 2
  Layouts <- SomeLayouts
  Sizes <- SomeSizes
  MaxFaults = 1
INVARIANTS
  NoNullBlock
CHECK_DEADLOCK FALSE
