CONSTANTS
  IP = {"ip1", "ip2", "ip3", "ip4"}
  rate = 1
  burst = 2
  rlMaxBuckets = 2
  MaxNow = 2
  Key = {1, 2, 3}
  Label <- MCLabel
  Passphrase = {"secret"}
  Header = {1, 2}
  ProgSize = 3
  Expansions <- MCExpansions
  Loops = 2
  maxTaken = 2
  wordSize = 4
  scratchWords = 2
  branchMask = 2
  usesDataset = {2}
SPECIFICATION PartsSpec
INVARIANTS NoLimitLost BucketsBounded
INVARIANTS KeysAreKept StaysEncrypted NamesFindKeys
INVARIANTS OneDigest WorkIsBounded
CHECK_DEADLOCK FALSE
