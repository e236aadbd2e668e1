SPECIFICATION Spec
CONSTANTS
  Alignment = 4
  PlaneAlignment = 2
  MetaAlignment = 2
  ChunkBlocks = 2
  Converters = {c1, c2}
  Sources <- MCSources
  Inodes = {x1, x2}
  MaxStarts = 2
  MaxLosses = 1
  NoFile = NoFile
INVARIANTS
  DestinationIsComplete
  ViewIsStable
PROPERTY
  Publishes
SYMMETRY Symmetry
CHECK_DEADLOCK FALSE
