CONSTANTS
  Service = {pool}
  Fee = 1
  InitialFunds = 4
  Elsewhere = other
  MaxOthers = 1
  Reward = 5
  MaxDisturbances = 1
  Pool = pool
  Miner = {m, wallet}
  poolAddr = wallet
  feePermil = 200
  minPayout = 2
  OwedAtStart <- MCOwedAtStart
  MaxShares = 2
  MaxFound = 1
  pool = pool
  m = m
  wallet = wallet
  other = other
SPECIFICATION PoolSpec
INVARIANTS NeverPaidTwice
CHECK_DEADLOCK FALSE
