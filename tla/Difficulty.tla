----------------------------- MODULE Difficulty -----------------------------
(***************************************************************************)
(* Time and proof-of-work rules of core/chain.go and core/types.go: the    *)
(* target and the earliest time of the next block of a chain, the work a   *)
(* target stands for, and the NeuroMorph seed of a height's epoch.         *)
(***************************************************************************)
EXTENDS Integers, Sequences, FiniteSets, FiniteSetsExt

CONSTANTS
  HashSpace,           \* 2^256, the number of hash values
  GenesisTarget,       \* the target of the first two blocks
  MaxTarget,           \* the easiest target
  BlockTargetSpacing,  \* seconds a block should take
  RetargetWindow,      \* blocks the retarget averages over
  MedianWindow,        \* blocks the median time looks at
  MaxFutureDrift,      \* how far ahead of the clock a block may be stamped
  EpochLength,         \* blocks between two mutations of the VM
  EpochSeed0           \* the seed of the first epoch

ASSUME DifficultyAssumption ==
  /\ {HashSpace, BlockTargetSpacing, RetargetWindow, MedianWindow, EpochLength}
       \subseteq Nat \ {0}
  /\ MaxFutureDrift \in Nat
  /\ GenesisTarget \in 1 .. MaxTarget
  /\ MaxTarget \in 1 .. HashSpace - 1

-----------------------------------------------------------------------------
\* Big-integer division in the code truncates, \div rounds down: the same here,
\* where both operands are positive.
expectedTarget(chain) ==
  LET h        == Len(chain)
      window   == IF h - 1 < RetargetWindow THEN h - 1 ELSE RetargetWindow
      expected == window * BlockTargetSpacing
      elapsed  == chain[h].time - chain[h - window].time
      actual   == Max({expected \div 4, Min({expected * 4, elapsed})})
      sum      == MapThenSumSet(LAMBDA i : chain[i].target, h - window + 1 .. h)
      next     == ((sum \div window) * actual) \div expected
  IN  IF h < 2 THEN GenesisTarget ELSE Max({1, Min({MaxTarget, next})})

\* The upper median: element n \div 2, counted from 0, of the sorted times.
medianTime(chain) ==
  LET n      == IF Len(chain) < MedianWindow THEN Len(chain) ELSE MedianWindow
      recent == Len(chain) - n + 1 .. Len(chain)
      upTo(t) == Cardinality({i \in recent : chain[i].time <= t})
  IN  Min({t \in {chain[i].time : i \in recent} : upTo(t) > n \div 2})

WorkOf(target) == HashSpace \div (target + 1)

\* The expected number of hashes behind the first n blocks of a chain, and
\* behind all of it.
workAlong(chain) ==
  LET after[n \in 0 .. Len(chain)] ==
        IF n = 0 THEN 0 ELSE after[n - 1] + WorkOf(chain[n].target)
  IN  after

workOfChain(chain) == workAlong(chain)[Len(chain)]

epochOf(height) == height \div EpochLength

\* The seed of the epoch of `height`: the last block of the epoch before.
epochSeedFor(chain, height) ==
  IF epochOf(height) = 0 THEN EpochSeed0 ELSE chain[epochOf(height) * EpochLength]
=============================================================================
