------------------------------ MODULE Engines -------------------------------
(***************************************************************************)
(* The engines of several nodes as their network code uses them: module    *)
(* Chain for each node, without what the network cannot see.  A block is   *)
(* [height, prev, work, miner]; all blocks in play keep the rules that     *)
(* look at their content, so what is left of validateBlock is that a block *)
(* links to its predecessor and agrees with the checkpoints.  There is no  *)
(* reorg penalty: its default is none.                                     *)
(***************************************************************************)
EXTENDS Integers, Sequences, FiniteSets, SequencesExt, Functions

CONSTANTS
  Node,
  FirstBlock,     \* the genesis block
  MaxReorgDepth,  \* deepest reorg, 0 for no limit
  Works,          \* the works of the blocks that are mined
  MaxMined        \* bound of the model: blocks mined while it runs

ASSUME EnginesAssumption ==
  /\ FirstBlock.height = 0 /\ FirstBlock.work \in Nat \ {0}
  /\ MaxReorgDepth \in Nat
  /\ Works \subseteq Nat \ {0}
  /\ MaxMined \in Nat

VARIABLES
  blocks,       \* node -> its main chain, genesis first
  Checkpoints,  \* node -> height -> the block that is final there
  mined         \* how many blocks were mined

engines == <<blocks, Checkpoints, mined>>

NoCheckpoints == [h \in {} |-> FirstBlock]

CumWork(c) == SumFunction([i \in DOMAIN c |-> c[i].work])

Height(n) == Len(blocks[n]) - 1

BlockAt(n, h) == blocks[n][h + 1]

\* At most `count` blocks of the chain `c` from height `from` on.
BlocksOf(c, from, count) == SubSeq(c, from + 1, IF from + count < Len(c) THEN from + count ELSE Len(c))

\* The blocks `new` on top of the chain `c`, each valid for a node with the
\* checkpoints `cps`.
validOn(c, cps, new) ==
  \A i \in DOMAIN new :
    /\ new[i].height = Len(c) + i - 1
    /\ new[i].prev = (IF i = 1 THEN Last(c) ELSE new[i - 1])
    /\ new[i].height \in DOMAIN cps => cps[new[i].height] = new[i]

\* A block on top of the tip of node n.
extends(n, b) == validOn(blocks[n], Checkpoints[n], <<b>>)

candidate(n, start, new) == SubSeq(blocks[n], 1, start) \o new

\* Seeded fault: the new blocks need not fit.
adopts_unchecked(n, start, new) ==
  /\ new # <<>>
  /\ start \in 1 .. Len(blocks[n])
  /\ MaxReorgDepth > 0 => Len(blocks[n]) - start <= MaxReorgDepth
  /\ \A h \in DOMAIN Checkpoints[n] : h < start
  /\ CumWork(candidate(n, start, new)) > CumWork(blocks[n])

\* Seeded fault: checkpoints are compared with the new blocks only.
adopts_shorter(n, start, new) ==
  /\ new # <<>>
  /\ start \in 1 .. Len(blocks[n])
  /\ MaxReorgDepth > 0 => Len(blocks[n]) - start <= MaxReorgDepth
  /\ validOn(SubSeq(blocks[n], 1, start), Checkpoints[n], new)
  /\ CumWork(candidate(n, start, new)) > CumWork(blocks[n])

\* Node n takes the blocks `new` from height `start` on instead of its own.
adopts(n, start, new) ==
  /\ new # <<>>
  /\ start \in 1 .. Len(blocks[n])
  /\ MaxReorgDepth > 0 => Len(blocks[n]) - start <= MaxReorgDepth
  /\ \A h \in DOMAIN Checkpoints[n] : h < start
  /\ validOn(SubSeq(blocks[n], 1, start), Checkpoints[n], new)
  /\ CumWork(candidate(n, start, new)) > CumWork(blocks[n])

AddBlock(n, b) == blocks' = [blocks EXCEPT ![n] = Append(@, b)] /\ UNCHANGED Checkpoints

TryAdoptChain(n, start, new) ==
  /\ blocks' = IF adopts(n, start, new)
               THEN [blocks EXCEPT ![n] = candidate(n, start, new)]
               ELSE blocks
  /\ UNCHANGED <<Checkpoints, mined>>

\* The checkpoint [height, hash] is on the chain of node n.
matches(n, cp) == cp.height \in 1 .. Height(n) /\ BlockAt(n, cp.height) = cp.hash

ApplyCheckpoint(n, cp) ==
  /\ Checkpoints' = IF matches(n, cp)
                    THEN [Checkpoints EXCEPT ![n] =
                            [h \in DOMAIN @ \cup {cp.height} |->
                               IF h = cp.height THEN cp.hash ELSE @[h]]]
                    ELSE Checkpoints
  /\ UNCHANGED <<blocks, mined>>

\* The end of the block file did not reach the disk before node n stopped; the
\* checkpoints did.
LoseTail(n, length) ==
  /\ blocks' = [blocks EXCEPT ![n] = SubSeq(@, 1, length)]
  /\ UNCHANGED <<Checkpoints, mined>>
=============================================================================
