------------------------------ MODULE MCReorg -------------------------------
(***************************************************************************)
(* Chain on a tree of empty blocks: every block has a fast and a slow      *)
(* successor, so branches differ in work as well as in length, and one     *)
(* level has blocks that break a rule.  What the run is about is which     *)
(* chain the node is on: forks, reorgs, checkpoints, clock and restarts.   *)
(***************************************************************************)
EXTENDS Chain

CONSTANTS NoBlock, a1, a2

Height == 4

\* Seconds after its parent at which a block is stamped.
Gaps == {1, 3}

MCGenesis == [height |-> 0, prev |-> NoBlock, time |-> 0, target |-> GenesisTarget,
              miner |-> a1, reward |-> 0, txs |-> <<>>, seed |-> EpochSeed0]

child(c, gap, miner) ==
  [height |-> Len(c),
   prev   |-> c[Len(c)],
   time   |-> c[Len(c)].time + gap,
   target |-> expectedTarget(c),
   miner  |-> miner,
   reward |-> CoinbaseAmount(Len(c), <<>>),
   txs    |-> <<>>,
   seed   |-> epochSeedFor(c, Len(c))]

\* The chains of each length, as sequences from genesis.
chains[h \in 0 .. Height] ==
  IF h = 0 THEN {<<MCGenesis>>}
           ELSE UNION {{Append(c, child(c, gap, a1)) : gap \in Gaps} : c \in chains[h - 1]}

Chains == UNION {chains[h] : h \in 0 .. Height}

\* Blocks at height 2 that pay too much, have the wrong target or no work.
Broken ==
  LET good(c) == child(c, 1, a2)
  IN  UNION {{[good(c) EXCEPT !.reward = @ + 1],
              [good(c) EXCEPT !.target = @ + 1],
              [good(c) EXCEPT !.seed = NoBlock]} : c \in chains[1]}

MCBlock == {Last(c) : c \in Chains} \cup Broken

\* What a peer on a branch serves from any height on.
MCBatch == UNION {{SubSeq(c, n, Len(c)) : n \in 2 .. Len(c)} : c \in Chains}
             \cup {<<b>> : b \in Broken}

\* The authority follows the slow branch at heights 1 and 2, and once signed a
\* block of the other.
MCSigned ==
  LET slow == CHOOSE c \in chains[3] : \A n \in 2 .. 4 : c[n].time = 3 * (n - 1)
      fast == CHOOSE c \in chains[2] : \A n \in 2 .. 3 : c[n].time = n - 1
  IN  {[height |-> h, hash |-> slow[h + 1]] : h \in 1 .. 3}
        \cup {[height |-> 2, hash |-> fast[3]]}

MCAddr == {a1, a2}

MCTx == {}

MCTxID(t) == 0
=============================================================================
