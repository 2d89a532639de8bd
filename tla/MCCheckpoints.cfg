CONSTANTS
  Node <- MCNode
  FirstBlock <- MCFirstBlock
  MaxReorgDepth = 3
  Works = {1}
  MaxMined = 0
  Session <- OutdoneSession
  BatchBlocks = 2
  AdoptAfter = 2
  Loaded <- OutdoneLoaded
  MaxDisturbances = 1
  Authority = auth
  Back = 1
  auth = auth
  rival = rival
  other = other
  NoBlock = NoBlock
  NoMiner = NoMiner
SPECIFICATION CheckpointsSpec
INVARIANTS FinalAgreement
CHECK_DEADLOCK FALSE
