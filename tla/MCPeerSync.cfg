CONSTANTS
  Node <- MCNode
  FirstBlock <- MCFirstBlock
  MaxReorgDepth = 2
  Works = {1}
  MaxMined = 1
  Session <- MCSession
  BatchBlocks = 2
  AdoptAfter = 2
  Loaded <- MCLoaded
  MaxDisturbances = 1
  n1 = n1
  n2 = n2
  NoBlock = NoBlock
  NoMiner = NoMiner
SPECIFICATION Spec
PROPERTIES CatchesUp NodesFollowForkChoice
CHECK_DEADLOCK FALSE
