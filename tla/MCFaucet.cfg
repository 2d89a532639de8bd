CONSTANTS
  Service = {tap}
  Fee = 1
  InitialFunds = 5
  Elsewhere = other
  MaxOthers = 0
  Reward = 0
  MaxDisturbances = 1
  Tap = tap
  Claim = {c1, c2, c3}
  Claimant <- MCClaimant
  Challenge = {k1, k2, k3}
  Grant = 1
  Cooldown = 3
  Lifetime = 1
  MaxTime = 5
  tap = tap
  c1 = c1
  c2 = c2
  c3 = c3
  a1 = a1
  a2 = a2
  home = home
  office = office
  k1 = k1
  k2 = k2
  k3 = k3
  other = other
SPECIFICATION FaucetSpec
INVARIANTS GrantsSpaced WaitsForAReason
CHECK_DEADLOCK FALSE
