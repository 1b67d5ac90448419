SPECIFICATION Spec
INVARIANT WithinBlockLimit
CONSTANTS
  w1 = w1
  w2 = w2
  Workers = {w1, w2}
  ChunkSize <- MCChunkSize
  Instances <- MCRace
