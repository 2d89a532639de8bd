CONSTANTS
  Addr <- MCAddr
  Word = 1024
  InitialReward = 4
  HalvingInterval = 3
  CoinbaseMaturity = 2
  MaturityHeight = 2
  MinFeeHeight = 2
  SoftFeeHeight = 3
  ChainIDHeight = 2
  MaxBlockTxs = 3
  FeeFloor = 1
  FullMult = 4
  SoftMult = 2
  FeeWindow = 2
  HashSpace = 16
  GenesisTarget = 3
  MaxTarget = 7
  BlockTargetSpacing = 2
  RetargetWindow = 2
  MedianWindow = 3
  MaxFutureDrift = 1
  EpochLength = 64
  EpochSeed0 = Seed0
  Tx <- MCTx
  TxID <- MCTxID
  Block <- MCBlock
  Genesis <- MCGenesis
  Batch <- MCBatch
  Signed <- MCSigned
  MaxReorgDepth = 2
  ReorgPenaltyPermille = 100
  MempoolCap = 10
  MaxTime = 12
  Torn = Torn
  NoBlock = NoBlock
  a1 = a1
  a2 = a2
SPECIFICATION FaultySpec
INVARIANTS StoreIsChain
CHECK_DEADLOCK FALSE
