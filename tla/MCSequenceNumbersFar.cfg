SPECIFICATION Spec
CONSTANTS
  t1 = t1
  t2 = t2
  Threads <- MCThreads
  SeqNums <- MCFarSeqNums
  VectorBits = 64
  OffsetModulus = 256
  None = None
INVARIANT
  NoReplay
