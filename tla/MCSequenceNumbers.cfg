SPECIFICATION Spec
CONSTANTS
  t1 = t1
  t2 = t2
  Threads <- MCThreads
  SeqNums <- MCNearSeqNums
  VectorBits = 64
  OffsetModulus = 256
  None = None
INVARIANTS
  TypeOK
  NoDoubleUse
  ReleaseNeverThrows
  NoReplay
  SlotsOwned
