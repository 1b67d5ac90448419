SPECIFICATION Spec
SYMMETRY MCSymmetry
CONSTANTS
  w1 = w1
  w2 = w2
  Workers <- MCWorkers
  AccountIDs = {0, 1, 2, 3}
  InitialIDs = {0, 1}
  Assets <- MCAssets
  NATIVE_ASSET = "USD"
  InitialBalance <- MCBalance
  InitialOffers = {}
  Txs <- MCFailedCreationTxs
  Mempools <- MCFailedCreation
  MinStartingBalance = 1
  MaxBlocks = 1
  VectorBits = 4
  OffsetModulus = 8
  NoTx = NoTx
INVARIANT
  ReservationsReleased
