SPECIFICATION FairSpec
INVARIANTS TypeOK WithinBlockLimit SpaceAccountedFor NothingIgnoredIfItFits
PROPERTY ReductionEnds
CONSTANTS
  w1 = w1
  w2 = w2
  Workers = {w1, w2}
  ChunkSize <- MCChunkSize
  Instances <- MCInstances
