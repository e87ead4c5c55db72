SPECIFICATION Spec
CONSTANTS
  Times = {0, 1, 3, 7}
  GapNs = 2
  NsPerUs = 2
  ChunkSizes = {0, 1, 2}
  DefaultChunk = 3
  Cuts = {1, 2, 3}
  MaxLines = 5
INVARIANTS
  ChunksAreSlices
  MarkersWhereTheyBelong
  WindowsPartition
