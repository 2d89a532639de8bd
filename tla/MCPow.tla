------------------------------- MODULE MCPow --------------------------------
(***************************************************************************)
(* ChainPow on a tree of empty blocks with epochs of EpochLength blocks:   *)
(* two miners at every height up to ForkHeight, one above.                 *)
(***************************************************************************)
EXTENDS ChainPow

CONSTANTS NoBlock, a1, a2,
          ForkHeight   \* the highest block that has a rival

Height == 5

MCAddr == {a1, a2}

MCGenesis == [height |-> 0, prev |-> NoBlock, time |-> 0, target |-> GenesisTarget,
              miner |-> a1, reward |-> 0, txs |-> <<>>, seed |-> EpochSeed0]

child(c, miner) ==
  [height |-> Len(c),
   prev   |-> c[Len(c)],
   time   |-> Len(c),
   target |-> expectedTarget(c),
   miner  |-> miner,
   reward |-> CoinbaseAmount(Len(c), <<>>),
   txs    |-> <<>>,
   seed   |-> epochSeedFor(c, Len(c))]

chains[h \in 0 .. Height] ==
  IF h = 0 THEN {<<MCGenesis>>}
           ELSE UNION {{Append(c, child(c, m)) : m \in IF h <= ForkHeight THEN MCAddr ELSE {a1}} :
                         c \in chains[h - 1]}

Chains == UNION {chains[h] : h \in 0 .. Height}

MCBlock == {Last(c) : c \in Chains}

MCBatch == UNION {{SubSeq(c, n, Len(c)) : n \in 2 .. Len(c)} : c \in Chains}

MCSigned == {}

MCTx == {}

MCTxID(t) == 0
=============================================================================
