------------------------------- MODULE Ledger -------------------------------
(***************************************************************************)
(* The account rules of core/chain.go and core/types.go: what one          *)
(* transaction or one block does to the accounts, which transactions are   *)
(* valid at a height, and which coins a miner may spend already.  Nothing  *)
(* here has state of its own; module Chain builds its actions from it.     *)
(*                                                                         *)
(* A chain is the sequence of its blocks: the block of height h is         *)
(* chain[h + 1].  A transaction is a record of sender, recipient, amount,  *)
(* fee and nonce; `bound` says whether its signature commits to the chain  *)
(* id.  The checks that look at one transaction alone (address form, key   *)
(* and signature length, zero amount) are left out: what fails them is     *)
(* rejected without a change of state, so no such transaction is in play.  *)
(* Coinbases are a field of the block, Txs[0] in the code.                 *)
(*                                                                         *)
(* A definition whose name says how it is wrong, "..._feeKept" say, is a   *)
(* seeded fault: the definition below it as a slip would leave it, kept to *)
(* show that a property notices.  Nothing else uses it.                    *)
(***************************************************************************)
EXTENDS Integers, Sequences, FiniteSets, FiniteSetsExt, Functions

CONSTANTS
  Addr,              \* the account addresses
  Word,              \* 2^64: amounts and balances are unsigned words
  InitialReward,     \* the subsidy before the first halving
  HalvingInterval,   \* blocks between two halvings
  CoinbaseMaturity,  \* depth at which a block reward can be spent
  MaturityHeight,    \* first height that enforces CoinbaseMaturity
  MinFeeHeight,      \* first height that enforces the fee floor
  SoftFeeHeight,     \* first height of the gentler fee curve
  ChainIDHeight,     \* first height whose signatures commit to the chain id
  MaxBlockTxs,       \* transactions of a block, coinbase included
  FeeFloor,          \* the fee floor of an idle network
  FullMult,          \* its growth up to full blocks, and on the gentler
  SoftMult,          \*   curve: 1000 and 100
  FeeWindow          \* blocks whose fullness sets the fee floor

ASSUME LedgerAssumption ==
  /\ IsFiniteSet(Addr)
  /\ {Word, HalvingInterval, CoinbaseMaturity, FeeFloor, FeeWindow} \subseteq Nat \ {0}
  /\ {InitialReward, MaturityHeight, MinFeeHeight, SoftFeeHeight, ChainIDHeight} \subseteq Nat
  /\ {MaxBlockTxs, FullMult, SoftMult} \subseteq Nat \ {0}

-----------------------------------------------------------------------------
(***************************************************************************)
(* Words and rewards.                                                      *)
(***************************************************************************)

Wrap(n) == n % Word

MaxHalvings == 33

\* The subsidy after each number of halvings: a shift to the right.
halved[n \in 0 .. MaxHalvings] == IF n = 0 THEN InitialReward ELSE halved[n - 1] \div 2

BlockSubsidy(height) ==
  LET halvings == height \div HalvingInterval
  IN  IF halvings >= MaxHalvings THEN 0 ELSE halved[halvings]

\* All that can ever be mined is less than a word: in the code 2 * 50 * 1_051_200
\* coins of 10^8 units, far less than a word.
ASSUME SupplyAssumption ==
  SumFunction([h \in 1 .. MaxHalvings * HalvingInterval |-> BlockSubsidy(h)]) < Word

TotalFees(txs) == Wrap(SumFunction([i \in DOMAIN txs |-> txs[i].fee]))

\* The amount the coinbase of a block must pay, no more and no less.
CoinbaseAmount(height, txs) == Wrap(BlockSubsidy(height) + TotalFees(txs))

-----------------------------------------------------------------------------
(***************************************************************************)
(* Accounts.  An address the chain never saw has the empty account.        *)
(***************************************************************************)

NoAccounts == [a \in Addr |-> [balance |-> 0, nonce |-> 0]]

NoTotals == [a \in Addr |-> [received |-> 0, mined |-> 0, sent |-> 0, txn |-> 0]]

credit(st, a, amount) == [st EXCEPT ![a].balance = Wrap(@ + amount)]

\* Seeded faults: the recipient gets the fee too; the nonce goes the wrong way.
applyTx_feePaidOut(st, t) ==
  credit([st EXCEPT ![t.from] = [balance |-> Wrap(@.balance - Wrap(t.amount + t.fee)),
                                 nonce   |-> @.nonce + 1]],
         t.to, t.amount + t.fee)

applyTx_nonceDown(st, t) ==
  credit([st EXCEPT ![t.from] = [balance |-> Wrap(@.balance - Wrap(t.amount + t.fee)),
                                 nonce   |-> @.nonce - 1]],
         t.to, t.amount)

\* One body transaction: the sender pays amount and fee and uses one nonce.
applyTx(st, t) ==
  credit([st EXCEPT ![t.from] = [balance |-> Wrap(@.balance - Wrap(t.amount + t.fee)),
                                 nonce   |-> @.nonce + 1]],
         t.to, t.amount)

\* The accounts after each of the transactions `txs`, from `st` at 0 on.
afterTxs(st, txs) ==
  LET after[i \in 0 .. Len(txs)] == IF i = 0 THEN st ELSE applyTx(after[i - 1], txs[i])
  IN  after

applyBlockToState(st, b) == afterTxs(credit(st, b.miner, b.reward), b.txs)[Len(b.txs)]

\* Seeded fault: the fee is not part of what was sent.
totalTx_feeFree(tot, t) ==
  LET paid == [tot EXCEPT ![t.from].sent = @ + t.amount, ![t.from].txn = @ + 1]
  IN  IF t.to = t.from
      THEN paid
      ELSE [paid EXCEPT ![t.to].received = @ + t.amount, ![t.to].txn = @ + 1]

\* A transfer to oneself counts as sent and not as received.
totalTx(tot, t) ==
  LET paid == [tot EXCEPT ![t.from].sent = @ + t.amount + t.fee, ![t.from].txn = @ + 1]
  IN  IF t.to = t.from
      THEN paid
      ELSE [paid EXCEPT ![t.to].received = @ + t.amount, ![t.to].txn = @ + 1]

totalsAfterTxs(tot, txs) ==
  LET after[i \in 0 .. Len(txs)] == IF i = 0 THEN tot ELSE totalTx(after[i - 1], txs[i])
  IN  after

applyBlockToTotals(tot, b) ==
  totalsAfterTxs([tot EXCEPT ![b.miner].received = @ + b.reward,
                             ![b.miner].mined    = @ + b.reward,
                             ![b.miner].txn      = @ + 1], b.txs)[Len(b.txs)]

\* The accounts and the lifetime totals after every block of a chain.
statesAlong(chain) ==
  LET after[n \in 0 .. Len(chain)] ==
        IF n = 0 THEN NoAccounts ELSE applyBlockToState(after[n - 1], chain[n])
  IN  after

totalsAlong(chain) ==
  LET after[n \in 0 .. Len(chain)] ==
        IF n = 0 THEN NoTotals ELSE applyBlockToTotals(after[n - 1], chain[n])
  IN  after

stateOf(chain) == statesAlong(chain)[Len(chain)]

totalsOf(chain) == totalsAlong(chain)[Len(chain)]

-----------------------------------------------------------------------------
(***************************************************************************)
(* Coinbase maturity.                                                      *)
(***************************************************************************)

\* The rewards of `chain` mined to `a` in the heights `hs`.
rewardsAt(chain, hs, a) ==
  SumFunction([h \in {h \in hs : chain[h + 1].miner = a} |-> chain[h + 1].reward])

\* Seeded fault: rewards mature one block early.
immatureCoinbase_early(chain, atHeight, a) ==
  LET lo == IF atHeight > CoinbaseMaturity THEN atHeight - CoinbaseMaturity + 2 ELSE 0
  IN  IF atHeight < MaturityHeight
      THEN 0
      ELSE rewardsAt(chain, {h \in lo .. atHeight - 1 : h < Len(chain)}, a)

\* What `a` may not spend yet in a block of height `atHeight` on `chain`.
immatureCoinbase(chain, atHeight, a) ==
  LET lo == IF atHeight > CoinbaseMaturity THEN atHeight - CoinbaseMaturity + 1 ELSE 0
  IN  IF atHeight < MaturityHeight
      THEN 0
      ELSE rewardsAt(chain, {h \in lo .. atHeight - 1 : h < Len(chain)}, a)

spendable(bal, immature) == IF immature >= bal THEN 0 ELSE bal - immature

-----------------------------------------------------------------------------
(***************************************************************************)
(* The fee floor of the block after `chain`: it follows how full the last  *)
(* FeeWindow blocks are.  The code computes in floating point and          *)
(* truncates; here the same quotients are exact.                           *)
(***************************************************************************)

minFeeFor(chain) ==
  LET n        == IF Len(chain) < FeeWindow THEN Len(chain) ELSE FeeWindow
      capacity == n * (MaxBlockTxs - 1)
      txs      == MapThenSumSet(LAMBDA i : Len(chain[i].txs), Len(chain) - n + 1 .. Len(chain))
      over     == 2 * txs - capacity    \* above half full, in units of capacity
  IN  CASE capacity <= 0 -> FeeFloor
        [] capacity > 0 /\ Len(chain) < SoftFeeHeight ->
             FeeFloor + (FullMult * FeeFloor * txs * txs) \div (capacity * capacity)
        [] capacity > 0 /\ Len(chain) >= SoftFeeHeight ->
             IF over <= 0
             THEN FeeFloor
             ELSE FeeFloor + (SoftMult * FeeFloor * over * over) \div (capacity * capacity)

\* The floor a block of height `height` on `chain` enforces.
enforcedMinFee(chain, height) == IF height >= MinFeeHeight THEN minFeeFor(chain) ELSE 0

-----------------------------------------------------------------------------
(***************************************************************************)
(* Transactions.                                                           *)
(***************************************************************************)

\* The signature of `t` verifies for a block of height `height`.
CheckSigAt(t, height) == t.bound = (height >= ChainIDHeight)

validateTxAgainstState(st, t, chain, height) ==
  /\ CheckSigAt(t, height)
  /\ t.nonce = st[t.from].nonce
  /\ t.amount + t.fee < Word
  /\ spendable(st[t.from].balance, immatureCoinbase(chain, height, t.from)) >= t.amount + t.fee

\* The body of a block of height `height`: each transaction must be valid in
\* the accounts its predecessors leave, and none may come twice.
validBody(st, txs, chain, height) ==
  /\ IsInjective(txs)
  /\ \A i \in 1 .. Len(txs) :
       /\ txs[i].fee >= enforcedMinFee(chain, height)
       /\ validateTxAgainstState(afterTxs(st, txs)[i - 1], txs[i], chain, height)
=============================================================================
