# Cereblix in TLA+

A verification development for the Cereblix node: TLA+ modules translated from
the Go sources, TLC configurations that check them on small instances, and
TLAPS proofs of what must hold for every instance. `core/…`, `node/…`, `cmd/…`
below are paths under `src/`.

## 1. The system

| component | code | state | operations |
|---|---|---|---|
| Account rules | `core/types.go`, `core/chain.go` 189-287 | none | subsidy, coinbase, applying a transaction or a block, maturity, fee floor, signature rule |
| Difficulty, median time, epoch seed | `core/chain.go` 291-354 | none | target and earliest time of the next block, work, seed of an epoch |
| Consensus engine `Chain` | `core/chain.go` | main chain, accounts, totals, work, mempool, checkpoints, PoW caches | `AddBlock`, `TryAdoptChain`, `AddTx`, `ApplyCheckpoint`, `BuildTemplate`, `load` |
| Store | `core/chain.go` 100-165, 711-714 | `blocks.jsonl`, `checkpoints.json` | append a line, rewrite all, read at the start |
| Checkpoint authority | `core/checkpoint.go`, `cmd/cereblix-checkpoint`, `node/node.go` 363-379, 912-944 | the served checkpoint | sign, post, fetch, apply |
| Peer synchronisation | `node/node.go` 260-359, 501-580 | peer table, per-sync cursor | tip exchange, search for the common ancestor, batches, gossip |
| Rate limiter | `node/node.go` 415-479 | buckets | allow, trim |
| Work and mining | `node/node.go` 840-1057, `cmd/cereblix-miner` | template cache, miner's VM and job | getwork, submitwork, built-in miner |
| Pool | `cmd/cereblix-pool` | round shares, debts, work, next nonce | share, block found, payout |
| Faucet | `cmd/cereblix-faucet` | challenges, limits, nonce | challenge, claim |
| Wallet | `cmd/cereblix-wallet` | key store | add, encrypt, send |
| NeuroMorph | `neuromorph` | program, scratchpad | derive, hash |
| Web pages, wasm, deployment | `web`, `cmd/cereblix-wasm`, `deploy` | none of the chain's | presentation |

The engine is the centre. Handlers of the peer-to-peer and RPC servers, the
sync loop and the built-in miner call its methods from goroutines of their own;
each method holds `c.mu` for its whole length, so a method is one step, and what
is between two calls is not protected by anything. Miner, pool, faucet and
wallet are separate processes that reach the node by HTTP: any answer may be
late or lost, and each keeps state that the chain does not know of.

What is hard here, with its lines, is the `hazards` list of `PROJECT.json`. In
short: incremental state against replay across reorgs; checkpoints against
reorgs and restarts; files that lag behind memory; caches keyed by less than
what they depend on (VM by epoch number, templates by tip, miner work by
header); reads under two locks (`myTip`, `getwork`); payments whose answer is
lost (pool, faucet); boundaries (maturity window and reorg cap, penalty from
depth 2, halvings, fee floor, words that wrap).

What makes each part correct: the engine follows the heaviest chain its rules
allow, never leaves a final block, and its accounts are those of its chain; the
store holds a chain; a template is a block the node itself accepts; sync makes
progress towards a heavier honest peer; pool and faucet pay what is due, once;
the wallet never loses a key it has shown; a generated program halts.

## 2. Modules

| module | models | built on |
|---|---|---|
| `Ledger` | account rules, pure | |
| `Difficulty` | target, median time, work, epoch seed, pure | |
| `Chain` | the engine and its store, a state machine | `Ledger`, `Difficulty` |
| `ForkChoice` | what a node promises about the chain it follows, abstract | |
| `ChainPow` | the engine with its two proof-of-work caches | `Chain` |
| `Engines` | the engines of several nodes as their network code uses them | |
| `PeerSync` | sync sessions, gossip, restarts, between nodes | `Engines`, `ForkChoice` |
| `Checkpoints` | signing tool, serving and fetching of checkpoints | `PeerSync` |
| `Payer` | one wallet at a node and the call `send` of the services that pay from it | |
| `PoolPayout` | the pool's rounds, debts, payouts, state file | `Payer` |
| `Faucet` | challenges, cooldown store, claims | `Payer` |
| `WorkTemplates` | the node's template cache, getwork and submitwork, stock miner, built-in miner | |
| `PoolWork` | the pool between its miners and the node: work, tags, shares | `WorkTemplates` |
| `RateLimiter` | token buckets of the P2P port | |
| `WalletStore` | the wallet's keys, in memory and on disk | |
| `NeuroVM` | the interpreter that hashes a header | |
| `MCReorg`, `MCLedger`, `MCPow`, `MCPeerSync`, `MCCheckpoints`, `MCPool`, `MCFaucet`, `MCWork` | small instances for TLC | the module each is named for |
| `MCParts` | one small instance each of three parts that share nothing | `RateLimiter`, `WalletStore`, `NeuroVM` |
| `Induction` | induction on numbers and finite sets, recursive functions, sums: lemmas about data | `TLAPS` |
| `LedgerProofs` | what the account rules compute, for any body and any chain | `Chain`, `Induction` |
| `EngineProofs` | links, checkpoints, files, types, derived data, mempool, templates, growth of work, the refinement | `LedgerProofs` |
| `SupplyProofs` | supply, totals, maturity, reversal of rewards | `EngineProofs` |
| `WorkProofs` | templates, seeds, shares, for any overlap of requests | `PoolWork` |
| `PaymentProofs` | theorems about the wallet, the books and the claims | `PoolPayout`, `Faucet`, `Induction` |
| `NetworkProofs` | several nodes: links, the refinement, final blocks | `Checkpoints`, `Induction` |
| `PartsProofs` | theorems about limits, keys and hashes | `RateLimiter`, `WalletStore`, `NeuroVM`, `Induction` |

A chain is the sequence of its blocks, the block of height h at h + 1. A block
is a record that contains its predecessor, so it stands for its own hash: two
blocks are equal exactly if everything they commit to is. Hash collisions are
therefore outside the model. `seed` is the NeuroMorph seed under which the
block's nonce meets its target: "the proof of work is right" is "the block was
mined under the seed that is used to check it". Blocks and transactions come
from the finite sets `Block` and `Tx`, which an MC module builds with the
model's own rules (so they are mineable) and salts with ones that break a rule.
Checks that look at one block or transaction alone and reject without changing
state (encoding, address form, key length, version, transaction root) are left
out: what they reject is not in the sets.

`Chain`, by method:

| action | code | what is kept |
|---|---|---|
| `AddBlock` | `chain.go` 480-507 | validation in full, accounts, totals, work, mempool eviction and pruning, the append |
| `TryAdoptChain` | 509-580 | depth cap, checkpoint rule, penalty, validation of every new block on its own prefix, the swap of all derived state, the rewrite of the file |
| `AddTx` | 584-636 | duplicate, cap, signature, floor, nonce queue, spendable sum as a 64-bit word |
| `ApplyCheckpoint` | 716-734 | unknown or foreign block dropped, recorded otherwise, the file |
| `BuildTemplate` | 749-812 | an operator: it changes nothing; order, greedy choice, time, reward |
| `Restart`, `PowerLoss` | 70-133 | reading both files, the genesis check, the empty file; of an unsynced block file the end missing or torn, of the checkpoint file everything |
| `Tick` | 407-409 | the wall clock of the drift rule |

Each write has an outcome: it succeeds, leaves the file as it was, or cuts the
line short. `Spec` allows the first only, `FaultySpec` all, and `CrashSpec` is
`Spec` with a machine that may stop (`PowerLoss`): the end of the block file is lost,
with or without a torn line in its place, and `checkpoints.json` may come back
empty. The writes that did reach the disk are those that were made first; that a
rename of `saveAll` is lost and an older branch comes back is not modelled.

`Engines` is `Chain` without what peers cannot see: of a block's rules it keeps
that the block links to its predecessor and agrees with the checkpoints, of a
reorg the depth cap, the checkpoint rule and the comparison of work. A block
there has a work of its own instead of a target.

`PeerSync` and `Checkpoints`, by function:

| action | code | what is kept |
|---|---|---|
| `Start` | `node.go` 269-283 | the loop turns to a peer |
| `AskTip`, `AskWork` | 260-267 | the answering node reads its height and its work under two locks |
| `Compare`, `BeginSearch` | 291-309 | two looks at the own chain |
| `AskHash`, `Match` | 310-328 | one question of the binary search, one comparison |
| `Fetch`, `Adopt`, `Resume` | 332-357 | one batch, `TryAdoptChain`, and going on from the own height |
| `Unanswered` | 201-218 | a question without an answer ends the session or the download |
| `Mine`, `Deliver`, `Lose` | 392-399, 531-552 | a block on its way; a foreign tip starts a session from the handler |
| `ReadStatus`, `ReadBlock`, `Post` | `cereblix-checkpoint/main.go` 54-90, `node.go` 912-938 | height, block and post are three calls to a node that moves |
| `AskCheckpoint`, `fetchCheckpoint` | `node.go` 361-379 | the question and its answer, between which the node moves; apply, and serve only what was applied |
| `RestartNode` | 57-73 | the served checkpoint was in memory only |

Peer tables are fixed, and every peer is asked; signatures are unforgeable, so
a checkpoint in play is one the authority signed.

`Payer`, `PoolPayout` and `Faucet`, by function:

| action | code | what is kept |
|---|---|---|
| `Ask`, `Post`, `Answer` | `cereblix-pool/main.go` 432-483, `cereblix-faucet/main.go` 267-317, `chain.go` 584-636 | balance and nonce (one answer of `/balance`; `/status` gives height and fee only), the node's verdict, the own count of nonces |
| `Unreached`, `AnswerLost` | the error branches there | a call that fails before and after the node acted |
| `Confirm`, `Mature`, `RestartNode`, `OtherPays` | `chain.go` 189-213, 749-790 | the node: blocks, maturity, a mempool in memory only, another service's payment |
| `RecordShare`, `Solve`, `Forward`, `ForwardLost`, `onBlockFound` | pool 331-378 | a share, a block forwarded, the round split; a lost answer, and no split |
| `AskSpendable`, `ListDue`, `Pay`, `Settle`, `Sleep` | 382-427 | `payoutLoop`, one lock at a time |
| `SaveOwed`, `SavePaid`, `SaveWrite` | 165-168 | the file is written without the lock, so the maps are read one after the other |
| `AnswerOfPoolLost`, `RestartPool` | 467-470, 152-163 | a payment that the node took and the pool takes for failed; the file, or nothing if it was being written |
| `IssueChallenge`, `Present`, `Reserve`, `Begin`, `Granting`, `Finish`, `Release` | faucet 419-514 | a claim from its challenge to its release; the next claim may pay before a failed one gives its reservation back |
| `RestartFaucet` | 58-70 | the store's file |

`WorkTemplates` and `PoolWork`, by function:

| action | code | what is kept |
|---|---|---|
| `ReadTip`, `getTemplate`, `EpochSeedForNext` | `node.go` 840-856, 949-989 | getwork's three reads, between which the tip may move; the lookup, the prune of older tips, the cap |
| `AskWork`, `fetchWork`, `FetchLost` | `cereblix-miner/main.go` 496-523 | two goroutines of a miner that fetch, each at its own pace; an answer replaces work only if id or header differ |
| `Solve`, `Submit` (with `submitwork`, `AddBlock`) | miner 525-642, `node.go` 858-894, `chain.go` 356-374, 385-507 | a nonce for the work at hand, judged against the template cache of the moment it arrives and the VM that the node's validation keeps by epoch number |
| `Outside`, `OutsideRefused`, `OthersGetwork` | `chain.go` 480-580, `node.go` 949-989 | a block or heavier branch from elsewhere; a lighter one, judged before it is refused, which leaves its VM; a template for a further miner, at the cap in place of another's |
| `WorkerTemplate`, `WorkerSeed`, `WorkerFound`, `WorkerGivesUp` | `node.go` 1009-1057 | the built-in miner and its VM, kept by epoch number |
| `AskNode`, `refreshWork`, `TwoSecondsPass`, `RefreshFails` | pool 186-220 | the pool's copy of the work, renewed under `workMu` when a miner asks and it is not fresh |
| `getworkHandler`, `OthersAsk` | 80-93, 248-268 | work with the tag of the address, given at its first request |
| `submitworkHandler`, `Forward`, `ForwardLost` | 222-237, 270-357 | tag, stale, duplicate, hash, in this order; a share that is a block goes to the node |
| `RestartNode`, `RestartPool`, `Tick` | | templates, tags and pool's work are in memory only; a template built later is another one |

A template is what is hashed: predecessor, paid address, and a stamp for all
else. The chain is the sequence of block names, more work is a longer chain, and
a found nonce is right exactly if template and seed are those the checker uses.
The node's checker takes the seed from `vmCache`, as `vmFor` does, so it may be
that of another branch. Judging a
share is one step, although the code looks at the work, marks the nonce and
hashes under three locks: it keeps a pointer to the work it looked at, and the
marks belong to that work.

`RateLimiter` has one action for a request (`allow`, `node.go` 454-478, with
`gcLocked`) and the passing of time; beside the code's buckets it keeps those of
a limiter that drops none. `WalletStore` has `loadStore`, `cmdNew` (with
`receive` in an empty wallet), `cmdImport`, `cmdEncrypt`, and `WriteFile` and
`Rename` for `save`; each of the last two may fail, and the shell may die
anywhere (`Ends`), which can leave a torn temporary file. What a failed command
did to memory stays there, as in the interactive shell. `NeuroVM` runs `Hash`
instruction by instruction: the buffers of a VM are used again for the next
hash, of each class of operations (registers, scratchpad read, scratchpad
write, branch) there is one, the dataset is a table, the digest is all registers
and the whole scratchpad.

The node is in `Payer` the sequence of the wallet's transactions, because
`AddTx` takes them in nonce order only; a reorg that undoes some of them is left
out. The pool's files and the faucet's store are read while others change them:
Go leaves that open, and the model takes each map as a whole but not the two
together.

A definition whose name is another one's with a suffix, `mayFork_anyDepth` say,
is a *seeded fault*: the definition as a plausible slip would leave it. Nothing
uses them; they stand next to the definition they corrupt, and for each property
one of them shows that the property notices (`mutants` in `PROJECT.json`).

## 3. Runs

| run | instance | shows |
|---|---|---|
| `chain_reorg` | tree of empty blocks of height 4, every block with a fast and a slow successor; blocks that pay too much, have the wrong target or no work; checkpoints on two branches; clock to 12 | chain linked, checkpoints are the node's own blocks and final, only more work moves the node, and so `Chain` implements `ForkChoice` |
| `chain_ledger` | height 6, two accounts and miners, seven transactions: two for one nonce, chained nonces, to oneself, an amount whose sum with the fee wraps, both signature forms | accounts, totals and work are those of a replay; supply is what was mined; the mempool has one transaction per nonce; a template is a block the node accepts; protected rewards are unspent, and no reorg takes back a reward that was spent |
| `store_crash` | as `chain_reorg`, with power losses, torn last lines and lost checkpoint files | the file is a chain and the node returns to one that contradicts no checkpoint |
| `store_gap` | as `chain_reorg`, writes may fail | **violation**, see 5 |
| `pow_cache` | epochs of two blocks, rivals up to height 2 | **violation**, see 5 |
| `peer_sync` | two nodes level, one behind, or on a fork as deep as the cap; three sessions, one block found, one disturbance | every step of a node is one the fork choice allows, and no node stays behind a chain it ought to follow |
| `checkpoints` | the authority's node and a follower on a chain of three blocks, a rival with one heavy block, or as many or more blocks, that outdoes them; reorg cap 3, `Back` 1, one disturbance | what is final for two nodes lies on one chain, unless the authority's own node refused the checkpoint it was posted |
| `checkpoint_ignored` | a new node between the authority and a heavier rival | **violation**, see 5 |
| `pool_payout` | a miner with a debt, the wallet as second miner, one block, another service's payment, one disturbance: a call or an answer lost, or the node or the pool restarted | the books balance, the node takes more for a miner than its credit only by what the books were made to forget, nothing immature is spent, a booked debt above the threshold falls |
| `faucet` | three claims from two addresses and two places, three challenges, a cooldown that runs out, one disturbance | payments keep the cooldown, and nobody waits for a payment that failed |
| `work` | one machine mining alone, inside the node, or at the pool, on six chains with a fork across an epoch boundary; overlapping requests, a cache of one template, one disturbance where it matters | work has its own tip's seed and is what the node judges by unless the node had to drop it, a nonce is one share, and miners get their blocks but for the reasons in 5 |
| `small_parts` | four addresses at a limiter of two; three keys through every command, failure and crash; every program of three instructions | dropping buckets loses no limit; no key that was shown is lost, and encrypted stays encrypted; one hash for a header, and every loop ends |

Fairness is assumed in three runs only. In `peer_sync`, a session goes on (weak
fairness of `Step`: it is a goroutine with nothing to wait for but answers,
and a question that is not answered ends it by the client's timeout), and the
loop starts a session with every peer again and again (strong fairness of
`Start`: `SyncLoop` goes through all peers in every round, and a session of its
own only delays it). Blocks, gossip and disturbances have none. Disturbances are
bounded, so `CatchesUp` says: once questions are answered, a node that is behind
does not stay so. In `pool_payout`, `payoutLoop`, a call of `send` and a save go
on (goroutines and calls that return), and blocks confirm what is pending and
mature what was earned, which is the network's part. In `work`
(`MiningGoesOn`), miners go on asking, handlers answer (a request that waits for
`workMu` gets it), two seconds pass, and a nonce that meets the network's target
is found again and again for whatever is mined: strong fairness, since new work
interrupts a search. Blocks from outside, restarts and losses have none.

Bounds. The constants are scaled down so that everything the rules do happens
within the height of the tree: reorg cap and maturity 2 (100 in the code), so
reorgs at, below and above the cap occur; penalty 100 permille with targets
small enough that the fast branch beats the penalty and the slow one does not;
retarget window 2 and median window 3, both shorter than the tree, so they are
filled and slide; a halving every third block; each activation height
(signatures, maturity, fees, the gentler curve) inside the tree. In
`chain_ledger` the clock is fixed and the drift allows every block: time is the
other run's business. `MempoolCap` exceeds the number of transactions: the cap
is a constant comparison and no property depends on it. `Word` is 1024: sums of
real balances stay below it as they do below 2^64, the one transaction that
wraps is built for it. The clock's bound `MaxTime` is past the time of the last
block. `CHECK_DEADLOCK FALSE` where a refused file may stop the node for good,
which is what the code does (`main` exits), and where bounds on blocks, claims
and time end the behaviour.

`peer_sync`: the cap of 2 and batches of 2 with adoption after 2 make a download
of three blocks take two batches and two adoptions, and the fork of two blocks
is at the cap. A part of a download always outweighs the branch it replaces, as
5000 blocks do against at most 100; with `-maxreorg 0` that may fail, and the
download then never succeeds (a hazard in the list). `checkpoints`: the
authority's tool signs nearer the tip than a reorg can reach (`Back` 1 and a cap
of 3, as 20 and 100 are by default). The old chain has three blocks, so a reorg
replaces blocks that were read and not yet posted, or signed and posted; a
rival with one heavy block makes the node's height fall, and the other rivals
come in two downloads, the first of which outweighs the old chain already.
Several checkpoints for one height and for different heights arise. Nothing is
mined: the branches are there from the start. `pool_payout`: a pot of
4 for a threshold of 2 and a fee of 1; funds of 11, which pay the debt of 3 at
the start twice, as after a lost answer, another service's payment and a block's
credit besides, so that what is left for the credit is less than it and is paid
in part, or in full once the reward has matured. `faucet`: a
cooldown of 3 and a clock to 5, so that a claim at 1 lets the next in at 4 and
not before, and a claim that waits for the store may reserve with a time that
another one's lookup has left behind; as many challenges as claims; payments are
assumed to take less than the cooldown (guard of `Tick`).

`work`: epochs of two blocks, so that the tree's rival branches give one epoch
number two seeds; nonce 1 meets the pool's target only, 2 and 3 the network's. A
product of all of this is large, so `MCDeployments` lists four settings with
what each needs: alone with two requests under way, a second address that asks
for templates and one disturbance; the built-in miner on three heights; the pool
on three heights with no disturbance; the pool on one height with a disturbance
and a second miner who may get the first tag after a restart. `maxTemplates` is
1, so that a second address evicts the first's template (512 in the code, which
meets arbitrary addresses). `OthersGetwork` and `OutsideRefused` count as
disturbances: without a bound a stranger may evict a template before each submit,
and no miner would get a block in.

`small_parts`: time and tokens are whole numbers with one token a step, burst 2,
cap 2, four addresses, so idle and active buckets are trimmed. Wallet labels
include one that looks like a numbered one; there is one passphrase, and a
rename that was made is taken to be durable (the code does not sync). Machine: words modulo 4, two loops, at
most two repeats of a branch (8 in the code); header 1 runs every program of
three instructions out of six, header 2 leaves something in every buffer.

Two more configurations lie beside the runs, `MCPoolCrash.cfg` (module `MCPool`)
and `MCFaucetCrash.cfg` (`MCFaucet`): see the end of 5.

## 4. Proofs

About the engine, for every set of blocks, transactions, batches and checkpoints
and every value of the parameters that the assumptions below admit. `Spec` has
writes that succeed, `FaultySpec` any writes, `CrashSpec` power losses.

| theorem | establishes | in |
|---|---|---|
| `DerivedOfExtended` | accounts, totals and work of a chain with one more block are those of the chain, one step on | `LedgerProofs` |
| `ChainInvariant` | `Spec => []ChainInv` | `EngineProofs` |
| `CheckpointSafety` | `Spec => []CheckpointsMatchChain` | |
| `LinkSafety` | `Spec => []ChainLinked` | |
| `Finality` | `Spec => FinalityKept` | |
| `CrashInvariant` | `CrashSpec => []CrashInv` | |
| `StoreSafety` | `CrashSpec => []StoreIsChain` | |
| `CrashCheckpointSafety` | `CrashSpec => []CheckpointsNeverConflict` | |
| `EngineInvariant` | each of the three specifications keeps `EngineInv` | |
| `TypeSafety` | … `TypeOK` | |
| `DerivedSafety` | … `DerivedIsReplay` | |
| `MempoolSafety` | … `OneTxPerNonce` | |
| `WorkGrowth` | `Spec => WorkOnlyGrows` | |
| `TemplateSafety` | `Spec => []TemplateIsValid` | |
| `Refinement` | `Spec => ImplementsForkChoice` | |
| `SoundInvariant` | `Spec => []SoundInv` | `SupplyProofs` |
| `SupplySafety` | `Spec => []SupplyIsMined` | |
| `MaturitySafety` | `Spec => []ImmatureRewardsUnspent` | |
| `ReversalSafety` | `Spec => ReversedRewardsUnspent`, if the reorg cap is between 1 and the maturity | |
| `TotalsSafety` | `Spec => []TotalsExplainBalances` | |

**Assumptions.** They are those of the modules, and the runs evaluate them.
`LedgerAssumption`, `DifficultyAssumption` and `ChainAssumption` give the
parameters their types and say that blocks, transactions, batches and
checkpoints are well formed (what decoding gives; a transaction's id, a hash,
is a number, since ids are compared), that there are finitely many
addresses (they are 20 bytes), and that genesis pays nobody anything
(`types.go:269`: its only transaction is a coinbase of amount 0).
`SupplyAssumption` says that all subsidies together are less than a word; in the
code they are less than 2 · 50 · 1 051 200 coins (`types.go:22`), and a word is
2^64. It is what `SupplySafety` and its followers need: a ledger that mined more
than a word would wrap. The hypothesis of `ReversalSafety` holds for the default
of `-maxreorg`, 100, and `CoinbaseMaturity`, 100; it fails for `-maxreorg 0`,
which lifts the cap, and then a deep reorg does reverse rewards that were spent.

**Links, checkpoints, files.** "A recorded checkpoint is our block at that
height" is not inductive: a restart replaces the chain by one file and the
checkpoints by another, so a step from a state in which the files differ from
memory breaks it. `ChainInv` adds that both files hold what memory holds and
that the chain is linked. Then a block goes on top of the chain and so above
every checkpoint (`AddBlock`); a reorg keeps the blocks up to the fork point,
and the fork point is above every checkpoint (`TryAdoptChain`); a checkpoint is
recorded only for the block we have (`ApplyCheckpoint`); a restart reads back
what was there. Finality is the same case analysis with the primes left in.
With power losses the block file may be shorter than memory was and checkpoints
may lie above the tip, so `ChainInv` fails. `CrashInv` asks less of the
checkpoints, that none contradicts a block in memory, and more of the file: it
is linked, and while the node runs it is what memory holds, or that without
genesis, which a node that starts from an empty file never writes.

**Derived data.** `AddBlock` updates accounts, totals and work by one block,
`TryAdoptChain` swaps them, `rebuildDerived` computes them anew. That these
agree needs no induction over behaviours but one over chains:
`DerivedOfExtended`. The folds of `Ledger` and `Difficulty` are recursive
functions; `Induction` shows that such a function satisfies its equation and
stays in its type, by induction with a set in the place of the formula
(`CountUp`, `IterationExists`), which first-order provers can instantiate where
they cannot instantiate an operator. `EngineInv` is `TypeOK`, `DerivedIsReplay`
and `OneTxPerNonce` and is inductive for any step of any of the three
specifications: it speaks of memory only, and whatever a file holds, what is
loaded from it is replayed.

**Fork choice.** The refinement mapping is the chain and the checkpoints. A
block or an adopted branch maps to the abstract step that moves to another
chain, everything else to a checkpoint or a stutter. What is to be shown is
that the abstract step's guards follow from the code's: the kept part is the
longest common prefix or more, since the code's fork point may lie below the
first difference (`Discarded`), and the penalty on the code's depth covers the
one on the blocks that are really discarded (`PenaltyGrows`). `WorkGrowth` is
the same about the sum of work. Both rest on `NodeInv`, which is `ChainInv` and
`EngineInv` together.

**Templates.** `TemplateIsValid` says of every state that `BuildTemplate` gives a
block `validateBlock` accepts on the node's own chain, unless its own drift rule
forbids the time it needs to be above the median. The pool is considered in the
order of `sortedMempoolLocked`; what is proved of that order is only that a
finite pool has a foremost transaction (`ForemostIsPending`), so the proof
holds for any order that has one, ties included. The induction goes along the choice
(`PicksFollow`): after n transactions those picked are pending, each was valid
on the accounts that those before it left, and those accounts are `afterTxs` of
what was picked. Validation of the block replays the same steps on the same
accounts and finds the same reward. A body must also not repeat a transaction:
a pick raises its sender's nonce, so a later one cannot have the same
(`ValidBodyIsInjective`). What the mempool holds plays no part: `TemplateSafety`
needs the types and the derived data of `EngineInv`, not `OneTxPerNonce`.

**Coins.** No sum of balances is preserved by `applyTx` as the code writes it:
subtraction and addition are modulo a word, and the fee disappears until the
coinbase pays it. What is inductive is `SoundInv`: `NodeInv`, and `ValidChain`,
that each block in memory passed validation on exactly the blocks below it.
Validation happens before `extend` and inside a reorg on the candidate's own
prefixes, so each method keeps it, and a restart keeps it because the file is
memory. Everything else is induction along the chain. At height n the balances
sum up to the subsidies so far, hence with the next one to less than a word
(`MinedFits`). So no balance, payment or fee total of a block wraps
(`ExactTx`, `BodyExact`): validation has compared each cost, itself computed in
words, with a balance, and rejected sums that wrap. A block then moves amounts
between accounts and fees to the miner, and adds its subsidy (`BlockExact`).
`applyBlockToState` credits the miner first, validation checks the transactions
without that credit; since no word wraps, the two orders commute
(`CoinbaseFirst`). For maturity, the induction carries "the account holds at
least what its protected rewards sum up to", which each spend leaves because
`spendable` subtracts `immatureCoinbase` of that height (`BodyKeeps`); a block
adds its own reward and drops those that just matured. `ReversalSafety` follows:
what a reorg of at most the cap reverses is a part of what is protected. For the
totals the induction carries received less sent, plus what the account paid to
itself, which the code counts as sent only (`BodyExplained`).

`NetworkProofs`, for any nodes, sessions, batches, works of blocks and starting
chains, with and without the checkpoint tool:

- `NetInvariant` — `Spec \/ CheckpointsSpec => []NetInv(W)`, for any set W that
  has the works of all blocks;
- `NetworkRefinement` — `Spec \/ CheckpointsSpec => NodesFollowForkChoice`;
- `AgreementSafety` — `CheckpointsSpec => []FinalAgreement`.

`EnginesAssumption` and `PeerSyncAssumption` give the parameters their types and
say that works are above 0 (`WorkOf` is a quotient of 2^256 and a smaller target
plus 1) and that a node starts with a chain, as `load` leaves it. A message has
no type of its own: `NetInv` says that whatever a session has downloaded is a
list of blocks of such works, and lets the engines judge the rest. For
`NetworkRefinement` each engine's step is compared with the abstract one's, as
in `Refinement`; the sum of works along a chain is `SumFunction`, and `Induction`
has its laws.

Agreement of final blocks is proved for every `Back`, every cap and every work of
the blocks, the shipped defaults (20 and 100) among them, and for reorgs between
the tool's questions and its post. It is then not true that nodes never differ:
the node that is posted a checkpoint it does not have on its chain drops it and
yet serves it (`node.go` 914-938), and who still has that block records it. What
is proved is that this is the only way. `FinalInv` says that whatever is
recorded by a node, served by one or on its way to one is recorded by the
authority's node or was refused by it (`Known`). Post and fetch keep it because
a checkpoint comes from the tool or from a node that serves it; a restart keeps
it because what is recorded is on disk. Two checkpoints that the authority's
node has recorded lie on its one chain, and each stands on the chain of the node
that recorded it (`NetInv`); two chains with the upper block in common have
everything below it in common, as a block contains its predecessor
(`CommonBelow`), which is `FinalAgreement` (`FinalInvAgrees`).

`WorkProofs`, for any tree of blocks, any machines, pool members, nonces and
epoch length, any overlap of requests, and any number of restarts and lost
answers:

- `PoolWorkInvariant` — `PoolWorkSpec => []PoolWorkInv`;
- `ServedSafety` — `PoolWorkSpec => []WorkIsServed`;
- `SeedSafety` — `PoolWorkSpec => []SeedFitsWork`;
- `ShareSafety` — `PoolWorkSpec => []SharesCountOnce`.

`WorkAssumption` says that a chain is a sequence of names, that an epoch has at
least two blocks (`types.go` has 4096) and that the cap is a number above 0. The idea of `PoolWorkInv` is an order: the node's
chain is replaced only by a longer one and its clock only advances, so of two
templates one was built before the other (`Before`), and a template that the
cache still has is the last for its address, with all that it has of one tip
(`OneTip`). A template of the present tip that a client got is in the cache or
among those the node had to drop, and stays so, since nothing else takes one out
(`Served`, `Kept`): which is `WorkIsServed`. A work's tip is therefore the
node's or one that will never be the node's again, and the seed that is read
after the template is right for the one and irrelevant for the other. The pool
has one request under way (`workMu`), so what it fetches is never older than
what it has (`PoolOrder`); were it older, a return to an earlier template would
find the marks of its nonces gone. `Credits` says so of every credit: it is for
the pool's work, and then the nonce is marked, or for earlier work, and then it
cannot be handed in again.

`PaymentProofs`, for any services, claimants and miners, any reward, fees,
threshold, funds and cooldown:

- `PoolInvariant` — `PoolSpec => []PoolInv`;
- `OverdraftSafety` — `PoolSpec => []NeverOverdrawn`;
- `BalanceSafety` — `PoolSpec => []BooksBalance`;
- `PaymentSafety` — `PoolSpec => []PaidOnce`;
- `FaucetInvariant` — `FaucetSpec => [](FaucetInv /\ PayerInv)`;
- `SpacingSafety` — `FaucetSpec => []GrantsSpaced`;
- `WaitingSafety` — `FaucetSpec => []WaitsForAReason`;
- `FaucetOverdraftSafety` — `FaultyFaucetSpec => []NeverOverdrawn`.

`PayerAssumption`, `PoolAssumption` and `FaucetAssumption` give the parameters
their types and say that there are finitely many miners (addresses are 20
bytes), that the threshold exceeds the fee (by default 0.05 coins,
`cereblix-pool/main.go:585`, against 1000 units, 451), that the pool keeps at
most the whole (a `-fee` above 100 would wrap), and that the cooldown is not 0.

That nothing is overdrawn is the node's doing: a service's balance is stale by
the time it posts, so only `verdict` counts, and it compares the payment with
what is spendable less what is pending. `spent` is a sum along a sequence, and
`SpentSplit` divides it at the confirmed nonce. For the books, `PoolInv` carries
what the loop relies on between its steps, in which the lock is free: who is
listed is owed at least the threshold, and the debt that is being paid is still
at least the payment. Only the loop lowers a debt and each miner is listed once,
so credits from blocks cannot disturb it; a restart forgets list and call
together. `PoolSpec` has lost answers and restarts at any moment, with whatever
of the file was written, and then the node may take more for a miner than the
miner was credited. `PaymentSafety` says by how much at most: `forgotten` grows
by the payment the node took (`inFlight`) when its answer is lost or the pool
stops before `Settle`, and at a restart by the debt that an older file brings
back. The induction (`PaidInv`, `Accounted`) carries that what the node took for
a miner and what the books still owe it, the payment under way counted once, is
within credits and `forgotten`.

For the faucet neither the store nor the grants alone say enough. `FaucetInv`
has the entries of a claim that is under way, or was paid and is still cooling,
carry that claim's own time. So a second claim near it finds the entry and
waits; a purge, even one at an earlier time, drops only what has cooled; and a
claim whose payment fails gives back entries that nobody else needs, because
nobody near it is under way or cooling. A payment under way belongs to one
claim (`OneCall`), so what the node took is known to be for it. `Reasons` reads
the same facts from the entries' side.

`PartsProofs`, for every rate, burst, cap and set of addresses
(`LimiterAssumption`), with time and tokens in whole numbers:

- `LimitsAreKept` — `LimiterSpec => []NoLimitLost`;
- `MemoryIsBounded` — `LimiterSpec => []BucketsBounded`.

`NoLimitLost` is inductive together with the types and with "no bucket is
stamped later than now". A bucket that is dropped as idle holds a full burst, as
much as the one made for its owner later; refilling in two steps is refilling
once (`PassRefills`), so equal buckets stay equal. The bound counts: a bucket is
added only when fewer than the cap remain, or after `gcLocked`, which leaves at
most the cap.

and for all keys, labels and passphrases:

- `ToldKeysAreKept` — `WalletSpec => []KeysAreKept`;
- `EncryptedWalletStays` — `WalletSpec => []StaysEncrypted`;
- `NamesAreFound` — `WalletSpec => []NamesFindKeys`.

That the file knows what the user was told is not inductive: a later save
replaces the file by what is in memory. `StoreInv` says that the running shell,
the save under way and the file each have all keys that were told and the
passphrase that was told; a command only adds to the shell's keys, a shell
starts from the file, and a rename installs only a temporary file that was
written in full. For the names,
`NamesInv` says of every such list that no key is in it twice and that two keys
share a label only if the later one was imported; a key that is made here is
new and gets a label that the list does not have.

and for all programs, headers, loops, sizes of the scratchpad and masks:

- `HashesAreOne` — `VMSpec => []OneDigest`;
- `LoopsHalt` — `VMSpec => []WorkIsBounded`.

`VMAssumption` says that an expansion gives each header a program of `ProgSize`
instructions over registers that are addresses of the scratchpad too. For one
digest, `DigestInv` compares a hash under way with one that starts from clean
buffers: what `underWay` has of the run, without the counters that only the
bound needs, is among the values that the deterministic step `after` reaches
from the header's start (`Reaches`), and two ends that one start reaches are equal
(`OneEnd`), since nothing follows an end. Whatever a buffer still held when the
hash began has been overwritten by then. `LoopInv` bounds the work: the steps so
far are at most the program counter and, for each branch, what it repeats times
how often it was taken; a branch sets the counter back by just what one more
time adds to the sum.

**Only model-checked.** Every invariant and action property of a passing run is
stated by a theorem above, one of them under a condition: `ReversedRewardsUnspent`. What stays with TLC is out of the provers' reach,
everything under fairness: `CatchesUp`, `DebtIsPaid`, `PoolMines`, `BuiltinMines`,
`SoloMinersMine`.

## 5. Findings

- `store_gap`: `AddBlock` keeps the new block in memory when the append fails
  (`chain.go:500`), and the next append goes behind the gap. `load` reads the
  lines back as "trusted: we validated before writing" (`chain.go:121`) and does
  not compare predecessors.
- `pow_cache`: `vmFor` keys its cache by the epoch number (`chain.go:358`).
  Two branches that differ in the last block of an epoch have different seeds
  for the next one; the first to be validated leaves its VM for both, and
  correct blocks of the other are refused until a restart. `chain.go:344` says
  that the seed is "taken from the supplied chain prefix".
- `checkpoint_ignored`: `ApplyCheckpoint` drops a checkpoint for a height the
  node has not reached or where it has another block (`chain.go:719`), and
  nothing remembers it. `checkpoint.go:10` says nodes "automatically follow the
  authority's chain even against a higher-hashrate fork".

What the passing runs leave out, or state as an excuse, is as telling:

- The mining properties of run `work` hold up to the reasons for which mining may
  stop short. The node's validation (`chain.go:358`), the pool
  (`cereblix-pool/main.go:230`) and the built-in miner (`node.go:1027`) keep
  their VM by epoch number: after a reorg across an epoch boundary, or a branch
  that was judged and refused, they use the abandoned branch's seed. Then the
  node refuses every good block until it restarts or changes branch
  (`NodeVMIsWrong`; run `pow_cache` has it at the engine), the pool refuses good
  shares (`PoolVMIsWrong`), and the built-in miner hashes in vain. And a pool that
  restarts numbers its miners anew, while a miner ignores work whose id and
  header it has (`cereblix-miner/main.go:510`) and so keeps its old tag: its
  shares are refused until the tip moves (`TagsAreLost`). A miner at the node
  itself compares the seed (`cereblix-miner/main.go:535`), so `SoloMinersMine`
  excuses the node's VM only. What the excuses name is what the code does, and
  none of the properties would notice it.
- `WorkIsServed` admits three ways to lose the template one works on (`voided`):
  the node restarts; the cache is full and another address asks
  (`node.go:980`); a request that formed its id before a block came
  (`node.go:954`) builds a second template for the new tip and its address, in
  place of the first.
- `PaidOnce` allows what the books were made to forget. If the pool stops
  between a transfer and the save of the reduced debt
  (`cereblix-pool/main.go:413`), or the answer of the transfer is lost (467),
  the debt comes back and is paid again; so does a debt that an older save,
  written late, left in the file (165). That the node never takes more than was
  credited (`NeverPaidTwice`) is therefore false, with at most one such event:
  `MCPoolCrash.cfg` shows it.
- `DebtIsPaid` says that the booked debt falls, not that the coins arrive: a
  payment that the node took and then forgot with its mempool stays booked as
  paid.
- `FinalAgreement` excuses checkpoints that the authority's own node refused.
  `node.go:914-938` serves what was posted whether or not the engine took it,
  and with `-back 20` and a cap of 100 a reorg may replace the block between the
  tool's question and its post. Nodes that still have the block record it, and
  with a second checkpoint for the height they are split for good.
- `GrantsSpaced` speaks of the clock, not of the times in the store. A claim
  reads its time before it gets the store's lock (`cereblix-faucet/main.go:497`),
  and another request may meanwhile drop an entry that has cooled by its own,
  later time (80-90): then the claim reserves with the earlier one, and the two
  times in the store are closer than the cooldown by what the claim waited.
  Payments on the clock are not.
- It is checked without lost answers and restarts. A claim takes any error of its call for a failed
  payment and gives the reservation back (`cereblix-faucet/main.go:508`); if
  only the answer was lost, the visitor is paid again within the cooldown:
  `MCFaucetCrash.cfg`.
- `NamesFindKeys` admits that two imports share a label: the number that an
  import appends to a label in use is not looked up (`cereblix-wallet/main.go:617`).
  After a save that failed, the shell answers "already encrypted" or "already in
  wallet" for what the file does not have; `KeysAreKept` and `StaysEncrypted`
  therefore speak of what a successful command told.

## 6. What is left

The plan was carried out in this order: the engine and its store, the network,
the services that pay, mining, the small parts; then their proofs, the engine
first. Open are the liveness properties for all parameters, by other means than
TLAPS.

Not modelled: the numeric kernels (arm64, metal, wasm) and the arithmetic of the
VM's operations, whose subject is bit equality with the reference implementation
and which test vectors compare; the peer table, a set of URLs screened by
address class, with no promise a property could state (`markPeer` at
`node.go:191` adds without the cap that `addPeer` has); the wallet's sending and
explorer commands, each of which is one question to a node; the pool's
statistics; the miner's self update, web pages and flags.
