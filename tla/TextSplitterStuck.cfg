\* An overlap split_text accepts: smaller than the chunk size.
CONSTANTS
  ChunkSize = 20
  Overlap = 15
  MaxLength = 45
  TextEnds <- UpToTwoEnds
SPECIFICATION Spec
PROPERTIES
  GetsOn
