\* The smallest chunks split_text accepts, and the largest overlap that is small.
CONSTANTS
  ChunkSize = 20
  Overlap = 12
  MaxLength = 45
  TextEnds <- UpToTwoEnds
SPECIFICATION Spec
INVARIANTS
  SplitterInv
  NothingLost
  BoundedAndOverlapping
PROPERTIES
  GetsOn
