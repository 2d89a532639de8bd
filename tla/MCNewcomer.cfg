CONSTANTS
  Node <- MCNode
  FirstBlock <- MCFirstBlock
  MaxReorgDepth = 1
  Works = {1}
  MaxMined = 0
  Session <- NewcomerSession
  BatchBlocks = 2
  AdoptAfter = 4
  Loaded <- NewcomerLoaded
  MaxDisturbances = 0
  Authority = auth
  Back = 1
  auth = auth
  rival = rival
  other = other
  NoBlock = NoBlock
  NoMiner = NoMiner
SPECIFICATION CheckpointsSpec
INVARIANTS FollowsAuthority
CHECK_DEADLOCK FALSE
