CONSTANTS
  Machine = {"laptop"}
  Pool = "pool"
  Builtin = "builtin"
  Deployments <- MCDeployments
  addrOf <- MCAddrOf
  chains <- MCChains
  Nonce = {1, 2, 3}
  Full = {2, 3}
  EpochLength = 2
  maxTemplates = 1
SPECIFICATION FairPoolWorkSpec
INVARIANTS SeedFitsWork WorkIsServed SharesCountOnce
PROPERTIES SoloMinersMine PoolMines BuiltinMines
CHECK_DEADLOCK FALSE
