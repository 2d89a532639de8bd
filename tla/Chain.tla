------------------------------- MODULE Chain --------------------------------
(***************************************************************************)
(* The consensus engine of one node: core/chain.go, type Chain.  Its       *)
(* variables are the fields of the struct and the two files it keeps, its  *)
(* actions the methods that change them.  Every method holds c.mu from     *)
(* start to end, so each is one step; what the lock does not cover (a      *)
(* write that fails, a restart) is a choice of the step or a step.         *)
(*                                                                         *)
(* A block stands for its own hash: it is a record that contains its       *)
(* predecessor, so two blocks are equal exactly if all they commit to is.  *)
(* `seed` is the NeuroMorph seed under which its nonce meets its target.   *)
(* The checks of validateBlock that look at the block alone (version,      *)
(* transaction root, target encoding, address form, coinbase first and     *)
(* with the height as nonce) reject without a change of state, so blocks   *)
(* that fail them are left out of Block.  The proof-of-work caches are the *)
(* subject of another module; here the proof of work is judged as the      *)
(* rules define it.                                                        *)
(***************************************************************************)
EXTENDS Ledger, Difficulty, SequencesExt

CONSTANTS
  Tx,                    \* the transactions that are ever submitted
  TxID(_),               \* the order of the transaction ids, a number each
  Block,                 \* the blocks that are ever mined
  Genesis,               \* the first of them
  Batch,                 \* the runs of blocks that peers serve
  Signed,                \* the checkpoints the authority signs
  MaxReorgDepth,         \* deepest reorg, 0 for no limit
  ReorgPenaltyPermille,  \* extra work per block of depth, 0 for none
  MempoolCap,            \* 10000 in the code
  MaxTime,               \* bound of the model: the clock stops here
  Torn                   \* a line of the block file that was cut short

ASSUME ChainAssumption ==
  /\ Genesis \in Block /\ Genesis.height = 0 /\ Genesis.time <= MaxTime
  /\ Genesis.txs = <<>> /\ Genesis.reward = 0
  /\ \A b \in Block : /\ {b.height, b.time, b.reward} \subseteq Nat
                      /\ b.target \in 1 .. MaxTarget
                      /\ b.miner \in Addr
                      /\ b.txs \in Seq(Tx)
  /\ \A t \in Tx : /\ {t.from, t.to} \subseteq Addr
                   /\ {t.amount, t.fee, t.nonce, TxID(t)} \subseteq Nat
  /\ Batch \subseteq Seq(Block) /\ <<>> \notin Batch
  /\ \A cp \in Signed : cp.height \in Nat /\ cp.hash \in Block
  /\ {MaxReorgDepth, ReorgPenaltyPermille, MempoolCap, MaxTime} \subseteq Nat
  /\ Torn \notin Block

VARIABLES
  blocks,           \* the main chain, genesis first
  state,            \* address -> balance and nonce
  totals,           \* address -> lifetime sums
  cumWork,          \* the work of `blocks`
  mempool,          \* the pending transactions
  Checkpoints,      \* height -> the block that is final there
  blocksFile,       \* the lines of blocks.jsonl
  checkpointsFile,  \* the contents of checkpoints.json
  running,          \* FALSE once load refused the block file
  now               \* the wall clock

memory == <<blocks, state, totals, cumWork, mempool, Checkpoints>>
vars == <<memory, blocksFile, checkpointsFile, running, now>>

tip == blocks[Len(blocks)]

NoCheckpoints == [h \in {} |-> Genesis]

-----------------------------------------------------------------------------
(***************************************************************************)
(* Validation.                                                             *)
(***************************************************************************)

\* Seeded fault: the predecessor's hash is not compared.
linksTo_heightOnly(prefix, b) == b.height = Len(prefix)

\* `b` claims to be the next block of `prefix`.
linksTo(prefix, b) == b.height = Len(prefix) /\ b.prev = prefix[Len(prefix)]

\* Seeded fault: a new block is not compared with the checkpoint of its height.
rulesOK_noCheckpoint(prefix, st, b) ==
  /\ linksTo(prefix, b)
  /\ b.time > medianTime(prefix)
  /\ b.time <= now + MaxFutureDrift
  /\ b.target = expectedTarget(prefix)
  /\ Len(b.txs) + 1 <= MaxBlockTxs
  /\ b.reward = CoinbaseAmount(b.height, b.txs)
  /\ validBody(st, b.txs, prefix, b.height)

\* Everything validateBlock checks before the proof of work; `st` are the
\* accounts after `prefix`.
rulesOK(prefix, st, b) ==
  /\ linksTo(prefix, b)
  /\ b.height \in DOMAIN Checkpoints => Checkpoints[b.height] = b
  /\ b.time > medianTime(prefix)
  /\ b.time <= now + MaxFutureDrift
  /\ b.target = expectedTarget(prefix)
  /\ Len(b.txs) + 1 <= MaxBlockTxs
  /\ b.reward = CoinbaseAmount(b.height, b.txs)
  /\ validBody(st, b.txs, prefix, b.height)

powOK(prefix, b) == b.seed = epochSeedFor(prefix, b.height)

validateBlock(prefix, st, b) == rulesOK(prefix, st, b) /\ powOK(prefix, b)

-----------------------------------------------------------------------------
(***************************************************************************)
(* The mempool.                                                            *)
(***************************************************************************)

cost(t) == Wrap(t.amount + t.fee)

\* What the accounts `st` no longer allow.  A transaction whose signature or
\* fee the next block would refuse stays.
pruneMempool(pool, st) ==
  {t \in pool : t.nonce >= st[t.from].nonce /\ st[t.from].balance >= cost(t)}

\* What the sender of `t` has queued in front of it.
ahead(t) == {m \in mempool : /\ m.from = t.from
                             /\ m.nonce >= state[t.from].nonce
                             /\ m.nonce < t.nonce}

\* Seeded fault: a nonce that is queued already may come again.
continuesQueue_again(t) ==
  /\ t.nonce >= state[t.from].nonce
  /\ state[t.from].nonce .. t.nonce - 1 \subseteq {m.nonce : m \in ahead(t)}

\* `t` has the first nonce its sender has neither used nor queued.
continuesQueue(t) ==
  /\ t.nonce >= state[t.from].nonce
  /\ state[t.from].nonce .. t.nonce - 1 \subseteq {m.nonce : m \in ahead(t)}
  /\ \A m \in mempool : m.from = t.from => m.nonce # t.nonce

\* After paying for what is ahead of it, `t` is covered by what its sender may
\* spend.  The sum is a word.
validateMempoolTx(t) ==
  /\ CheckSigAt(t, Len(blocks))
  /\ t.fee >= enforcedMinFee(blocks, Len(blocks))
  /\ continuesQueue(t)
  /\ spendable(state[t.from].balance, immatureCoinbase(blocks, Len(blocks), t.from))
       >= Wrap(MapThenSumSet(cost, ahead(t)) + t.amount + t.fee)

AddTx(t) ==
  /\ running
  /\ t \notin mempool
  /\ Cardinality(mempool) <= MempoolCap
  /\ validateMempoolTx(t)
  /\ mempool' = mempool \cup {t}
  /\ UNCHANGED <<blocks, state, totals, cumWork, Checkpoints,
                 blocksFile, checkpointsFile, running, now>>

-----------------------------------------------------------------------------
(***************************************************************************)
(* The block file.  A write succeeds ("ok"), leaves the file as it was     *)
(* ("failed") or cuts the line short ("torn"); the error reaches the       *)
(* caller, but what the method did in memory stands.                       *)
(***************************************************************************)

Written(how, old, new) == IF how = "ok" THEN new ELSE old

\* One more line.  After a cut line the next one is glued to it; as a file
\* with a cut line never loads again, it makes no difference.
appendToDisk(b, how) ==
  blocksFile' = IF how = "torn" THEN Append(blocksFile, Torn)
                                ELSE Written(how, blocksFile, Append(blocksFile, b))

\* Seeded fault: a reorg is not written.
saveAll_skipped(chain, how) == blocksFile' = blocksFile

\* The whole chain into a temporary file that then replaces the old one.
saveAll(chain, how) == blocksFile' = Written(how, blocksFile, chain)

\* Seeded fault: a checkpoint is not written.
saveCheckpoints_skipped(cps, how) == checkpointsFile' = checkpointsFile

\* The file is truncated first: a write that fails leaves no checkpoints.
saveCheckpoints(cps, how) == checkpointsFile' = Written(how, NoCheckpoints, cps)

-----------------------------------------------------------------------------
(***************************************************************************)
(* Growing and replacing the chain.                                        *)
(***************************************************************************)

\* `b` on top of the chain.
extend(b, how) ==
  /\ blocks'  = Append(blocks, b)
  /\ state'   = applyBlockToState(state, b)
  /\ totals'  = applyBlockToTotals(totals, b)
  /\ cumWork' = cumWork + WorkOf(b.target)
  /\ mempool' = pruneMempool(mempool \ Range(b.txs), state')
  /\ appendToDisk(b, how)
  /\ UNCHANGED <<Checkpoints, checkpointsFile, running, now>>

AddBlock(b, how) ==
  /\ running
  /\ b.prev = tip
  /\ validateBlock(blocks, state, b)
  /\ extend(b, how)

candidate(startHeight, newBlocks) == SubSeq(blocks, 1, startHeight) \o newBlocks

\* Seeded faults: there is no limit to the depth; the limit is off by one.
mayFork_anyDepth(startHeight, newBlocks) ==
  /\ newBlocks # <<>>
  /\ startHeight \in 1 .. Len(blocks)
  /\ \A h \in DOMAIN Checkpoints : h < startHeight

mayFork_oneDeeper(startHeight, newBlocks) ==
  /\ newBlocks # <<>>
  /\ startHeight \in 1 .. Len(blocks)
  /\ MaxReorgDepth > 0 => Len(blocks) - startHeight <= MaxReorgDepth + 1
  /\ \A h \in DOMAIN Checkpoints : h < startHeight

\* Whether a reorg from `startHeight` on is considered at all.
mayFork(startHeight, newBlocks) ==
  /\ newBlocks # <<>>
  /\ startHeight \in 1 .. Len(blocks)
  /\ MaxReorgDepth > 0 => Len(blocks) - startHeight <= MaxReorgDepth
  /\ \A h \in DOMAIN Checkpoints : h < startHeight

\* Seeded fault: the penalty starts one block too late.
threshold_late(depth) ==
  IF ReorgPenaltyPermille > 0 /\ depth > 2
  THEN cumWork + (cumWork * (depth * ReorgPenaltyPermille)) \div 1000
  ELSE cumWork

\* The work a candidate that discards `depth` of our blocks must exceed.
threshold(depth) ==
  IF ReorgPenaltyPermille > 0 /\ depth > 1
  THEN cumWork + (cumWork * (depth * ReorgPenaltyPermille)) \div 1000
  ELSE cumWork

\* Seeded fault: the totals are those of the chain before.
switchTo_oldTotals(chain, how) ==
  /\ blocks'  = chain
  /\ state'   = stateOf(chain)
  /\ cumWork' = workOfChain(chain)
  /\ mempool' = pruneMempool(mempool, state')
  /\ saveAll(chain, how)
  /\ UNCHANGED <<totals, Checkpoints, checkpointsFile, running, now>>

\* `chain` instead of ours.
switchTo(chain, how) ==
  /\ blocks'  = chain
  /\ state'   = stateOf(chain)
  /\ totals'  = totalsOf(chain)
  /\ cumWork' = workOfChain(chain)
  /\ mempool' = pruneMempool(mempool, state')
  /\ saveAll(chain, how)
  /\ UNCHANGED <<Checkpoints, checkpointsFile, running, now>>

TryAdoptChain(startHeight, newBlocks, how) ==
  LET chain   == candidate(startHeight, newBlocks)
      upTo(n) == SubSeq(chain, 1, n)
  IN  /\ running
      /\ mayFork(startHeight, newBlocks)
      /\ workOfChain(chain) > threshold(Len(blocks) - startHeight)
      /\ \A n \in startHeight .. Len(chain) - 1 :
           validateBlock(upTo(n), stateOf(upTo(n)), chain[n + 1])
      /\ switchTo(chain, how)

\* Seeded fault: a checkpoint of another block than ours is recorded too.
ApplyCheckpoint_otherBlock(cp, how) ==
  /\ running
  /\ cp.height # 0
  /\ cp.height < Len(blocks)
  /\ cp.height \in DOMAIN Checkpoints => Checkpoints[cp.height] # cp.hash
  /\ Checkpoints' = [h \in DOMAIN Checkpoints \cup {cp.height} |->
                       IF h = cp.height THEN cp.hash ELSE Checkpoints[h]]
  /\ saveCheckpoints(Checkpoints', how)
  /\ UNCHANGED <<blocks, state, totals, cumWork, mempool, blocksFile, running, now>>

\* A checkpoint of a height we lack, or of another block than ours, is dropped.
ApplyCheckpoint(cp, how) ==
  /\ running
  /\ cp.height # 0
  /\ cp.height < Len(blocks)
  /\ blocks[cp.height + 1] = cp.hash
  /\ cp.height \in DOMAIN Checkpoints => Checkpoints[cp.height] # cp.hash
  /\ Checkpoints' = [h \in DOMAIN Checkpoints \cup {cp.height} |->
                       IF h = cp.height THEN cp.hash ELSE Checkpoints[h]]
  /\ saveCheckpoints(Checkpoints', how)
  /\ UNCHANGED <<blocks, state, totals, cumWork, mempool, blocksFile, running, now>>

-----------------------------------------------------------------------------
(***************************************************************************)
(* Starting from the files.                                                *)
(***************************************************************************)

\* The chain in memory after reading the file; an empty file is a new node.
loaded(file) == IF file = <<>> THEN <<Genesis>> ELSE file

\* Nothing but the syntax of each line and the first block is checked.
loads(file) == Torn \notin Range(file) /\ loaded(file)[1] = Genesis

NewChain(file) ==
  \/ /\ loads(file)
     /\ blocks'      = loaded(file)
     /\ state'       = stateOf(blocks')
     /\ totals'      = totalsOf(blocks')
     /\ cumWork'     = workOfChain(blocks')
     /\ mempool'     = {}
     /\ Checkpoints' = checkpointsFile'
     /\ UNCHANGED <<running, now>>
  \/ /\ ~loads(file)
     /\ running' = FALSE
     /\ UNCHANGED <<memory, now>>

Restart == running /\ UNCHANGED <<blocksFile, checkpointsFile>> /\ NewChain(blocksFile)

\* The machine stops before the end of the block file reaches the disk: no write
\* is synced.  What is left may end inside a line, and the file of checkpoints,
\* which is written in place, may be empty.
PowerLoss ==
  \E n \in 0 .. Len(blocksFile) - 1 :
    /\ running
    /\ blocksFile' \in {SubSeq(blocksFile, 1, n), Append(SubSeq(blocksFile, 1, n), Torn)}
    /\ checkpointsFile' \in {checkpointsFile, NoCheckpoints}
    /\ NewChain(blocksFile')

Tick ==
  /\ now < MaxTime
  /\ now' = now + 1
  /\ UNCHANGED <<memory, blocksFile, checkpointsFile, running>>

-----------------------------------------------------------------------------
(***************************************************************************)
(* The block template miners work on.                                      *)
(***************************************************************************)

\* The order of the pending transactions.
sortedBefore(t, u) ==
  \/ t.nonce < u.nonce
  \/ t.nonce = u.nonce /\ t.fee > u.fee
  \/ t.nonce = u.nonce /\ t.fee = u.fee /\ TxID(t) < TxID(u)

foremost(pool) == CHOOSE t \in pool : \A u \in pool : ~ sortedBefore(u, t)

\* Seeded fault: the fee floor is forgotten.
fits_anyFee(p, t, height) ==
  /\ Len(p.txs) < MaxBlockTxs - 1
  /\ validateTxAgainstState(p.st, t, blocks, height)

\* `t` can follow the transactions picked so far.
fits(p, t, height) ==
  /\ Len(p.txs) < MaxBlockTxs - 1
  /\ t.fee >= enforcedMinFee(blocks, height)
  /\ validateTxAgainstState(p.st, t, blocks, height)

\* The next of those left is picked if it fits.
considered(p, height) ==
  LET t    == foremost(p.left)
      left == p.left \ {t}
  IN  IF fits(p, t, height)
      THEN [left |-> left, txs |-> Append(p.txs, t), st |-> applyTx(p.st, t)]
      ELSE [left |-> left, txs |-> p.txs, st |-> p.st]

\* Greedily in mempool order, each one valid after those picked before it.
picks(height) ==
  LET after[n \in 0 .. Cardinality(mempool)] ==
        IF n = 0 THEN [left |-> mempool, txs |-> <<>>, st |-> state]
                 ELSE considered(after[n - 1], height)
  IN  after

picked(height) == picks(height)[Cardinality(mempool)].txs

BuildTemplate(coinbase) ==
  LET height == Len(blocks)
      median == medianTime(blocks)
      txs    == picked(height)
  IN  [height |-> height,
       prev   |-> tip,
       time   |-> IF now <= median THEN median + 1 ELSE now,
       target |-> expectedTarget(blocks),
       miner  |-> coinbase,
       reward |-> CoinbaseAmount(height, txs),
       txs    |-> txs,
       seed   |-> epochSeedFor(blocks, height)]

-----------------------------------------------------------------------------
(***************************************************************************)
(* The specification, three times: with writes that succeed, with a        *)
(* machine that may stop and lose what was written last, and with writes   *)
(* that may fail.                                                          *)
(***************************************************************************)

Init ==
  /\ blocks          = <<Genesis>>
  /\ state           = stateOf(<<Genesis>>)
  /\ totals          = totalsOf(<<Genesis>>)
  /\ cumWork         = workOfChain(<<Genesis>>)
  /\ mempool         = {}
  /\ Checkpoints     = NoCheckpoints
  /\ blocksFile      = <<Genesis>>
  /\ checkpointsFile = NoCheckpoints
  /\ running         = TRUE
  /\ now             = Genesis.time

Method(append, rewrite) ==
  \/ \E b \in Block, how \in append : AddBlock(b, how)
  \/ \E new \in Batch, how \in rewrite : TryAdoptChain(new[1].height, new, how)
  \/ \E t \in Tx : AddTx(t)
  \/ \E cp \in Signed, how \in rewrite : ApplyCheckpoint(cp, how)
  \/ Restart
  \/ Tick

Next == Method({"ok"}, {"ok"})

CrashNext == Next \/ PowerLoss

FaultyNext == Method({"ok", "failed", "torn"}, {"ok", "failed"})

Spec == Init /\ [][Next]_vars

CrashSpec == Init /\ [][CrashNext]_vars

FaultySpec == Init /\ [][FaultyNext]_vars

-----------------------------------------------------------------------------
(***************************************************************************)
(* What the engine must keep.                                              *)
(***************************************************************************)

\* The variables have the types of the fields they stand for.
TypeOK ==
  /\ blocks \in Seq(Block) /\ blocks # <<>>
  /\ state \in [Addr -> [balance : 0 .. Word - 1, nonce : Nat]]
  /\ DOMAIN totals = Addr
  /\ cumWork \in Nat
  /\ mempool \subseteq Tx
  /\ DOMAIN Checkpoints \subseteq Nat
  /\ Range(Checkpoints) \subseteq Block
  /\ blocksFile \in Seq(Block \cup {Torn})
  /\ DOMAIN checkpointsFile \subseteq Nat
  /\ Range(checkpointsFile) \subseteq Block
  /\ running \in BOOLEAN
  /\ now \in 0 .. MaxTime

\* Every recorded checkpoint is the block the node has at that height: the
\* checks of ApplyCheckpoint and of TryAdoptChain together never let the chain
\* and the checkpoints part.
CheckpointsMatchChain ==
  \A h \in DOMAIN Checkpoints : h < Len(blocks) /\ blocks[h + 1] = Checkpoints[h]

\* The main chain is one chain: it starts at genesis, and each block names the
\* one below it and its own height.
ChainLinked ==
  /\ blocks[1] = Genesis
  /\ \A n \in 1 .. Len(blocks) - 1 : blocks[n + 1].prev = blocks[n]
                                     /\ blocks[n + 1].height = n

\* Accounts, totals and work, kept up block by block and swapped in a reorg,
\* are those rebuildDerived computes from the blocks.
DerivedIsReplay ==
  /\ state = stateOf(blocks)
  /\ totals = totalsOf(blocks)
  /\ cumWork = workOfChain(blocks)

\* Coins exist only from mining: the balances add up to the subsidies.
SupplyIsMined ==
  SumFunction([a \in Addr |-> state[a].balance])
    = SumFunction([h \in 1 .. Len(blocks) - 1 |-> BlockSubsidy(h)])

\* What the explorer shows of an address adds up to its balance: received less
\* sent, but for what it sent to itself, which counts as sent only.
TotalsExplainBalances ==
  LET toItself(a, b) == SumFunction([i \in {i \in DOMAIN b.txs : b.txs[i].from = a /\ b.txs[i].to = a}
                                       |-> b.txs[i].amount])
  IN  \A a \in Addr :
        state[a].balance = totals[a].received - totals[a].sent
                             + SumFunction([n \in DOMAIN blocks |-> toItself(a, blocks[n])])

\* No reward that the maturity rule protects has been spent: an account still
\* holds all it was paid in the last CoinbaseMaturity blocks.
ImmatureRewardsUnspent ==
  LET protected == {h \in Len(blocks) - CoinbaseMaturity .. Len(blocks) - 1 : h >= MaturityHeight}
  IN  \A a \in Addr : state[a].balance >= rewardsAt(blocks, protected, a)

\* The pending transactions of a sender have different nonces, none of which
\* the chain has used.
OneTxPerNonce ==
  \A t \in mempool :
    /\ t.nonce >= state[t.from].nonce
    /\ \A u \in mempool : u.from = t.from /\ u.nonce = t.nonce => u = t

\* What BuildTemplate hands to a miner is a block the node itself accepts, if
\* its clock is not behind what the last blocks carry.
TemplateIsValid ==
  \A a \in Addr :
    LET b == BuildTemplate(a)
    IN  running /\ b.time <= now + MaxFutureDrift => validateBlock(blocks, state, b)

\* How many blocks of the chain a step throws away.
discarded ==
  Cardinality({n \in 1 .. Len(blocks) : n > Len(blocks') \/ SubSeq(blocks', 1, n) # SubSeq(blocks, 1, n)})

\* The chain changes only for one with more work, and for a reorg of two blocks
\* or more for one with the penalty on top.
WorkOnlyGrows ==
  [][blocks' # blocks =>
       cumWork' > cumWork + IF discarded > 1
                            THEN (cumWork * discarded * ReorgPenaltyPermille) \div 1000
                            ELSE 0]_vars

\* A block under a checkpoint is final: no later step replaces it.
FinalityKept ==
  [][\A h \in DOMAIN Checkpoints :
       /\ h \in DOMAIN Checkpoints'
       /\ h < Len(blocks')
       /\ SubSeq(blocks', 1, h + 1) = SubSeq(blocks, 1, h + 1)]_vars

\* chain.go:121, on the blocks read back from the file: "trusted: we validated
\* before writing".  What stands in the file, a cut line apart, is a chain in
\* which every block was validated on top of the line before.
StoreIsChain ==
  \A n \in 1 .. Len(blocksFile) - 1 :
    Torn \notin {blocksFile[n], blocksFile[n + 1]} => blocksFile[n + 1].prev = blocksFile[n]

\* Losing the end of the file is losing the end of the chain: the node comes
\* back with a linked chain that contradicts no checkpoint it knows, though the
\* checkpoint may now be above its tip.
CheckpointsNeverConflict ==
  \A h \in DOMAIN Checkpoints : h < Len(blocks) => blocks[h + 1] = Checkpoints[h]

\* types.go: "a reward reversed by a reorg cannot have been spent".  With the
\* depth cap set to the maturity, what a reorg takes back is still there.
ReversedRewardsUnspent ==
  [][LET reversed == {h \in Len(blocks) - discarded .. Len(blocks) - 1 : h >= MaturityHeight}
     IN  \A a \in Addr : state[a].balance >= rewardsAt(blocks, reversed, a)]_vars

\* ARCHITECTURE.md 4.2 and 5: the engine implements the fork choice the node
\* promises its users.
FC == INSTANCE ForkChoice
        WITH chain <- blocks, final <- Checkpoints, FirstBlock <- Genesis,
             MaxReorg <- MaxReorgDepth, Work <- workOfChain

ImplementsForkChoice == FC!Spec
=============================================================================
