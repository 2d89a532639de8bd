CONSTANTS
  Addr <- MCAddr
  Word = 1024
  InitialReward = 8
  HalvingInterval = 3
  CoinbaseMaturity = 2
  MaturityHeight = 3
  MinFeeHeight = 3
  SoftFeeHeight = 5
  ChainIDHeight = 4
  MaxBlockTxs = 3
  FeeFloor = 1
  FullMult = 4
  SoftMult = 2
  FeeWindow = 2
  HashSpace = 16
  GenesisTarget = 3
  MaxTarget = 7
  BlockTargetSpacing = 1
  RetargetWindow = 2
  MedianWindow = 3
  MaxFutureDrift = 10
  EpochLength = 64
  EpochSeed0 = Seed0
  Tx <- MCTx
  TxID <- MCTxID
  Block <- MCBlock
  Genesis <- MCGenesis
  Batch <- MCBatch
  Signed <- MCSigned
  MaxReorgDepth = 2
  ReorgPenaltyPermille = 0
  MempoolCap = 10
  MaxTime = 0
  Torn = Torn
  NoBlock = NoBlock
  a1 = a1
  a2 = a2
SPECIFICATION Spec
INVARIANTS TypeOK DerivedIsReplay SupplyIsMined TotalsExplainBalances
  ImmatureRewardsUnspent OneTxPerNonce TemplateIsValid
PROPERTIES ReversedRewardsUnspent
