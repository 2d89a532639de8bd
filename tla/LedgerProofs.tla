---------------------------- MODULE LedgerProofs ----------------------------
(***************************************************************************)
(* What the account rules compute, for every body of transactions and      *)
(* every chain: the recursive functions of modules Ledger and Difficulty   *)
(* satisfy their equations and stay in their types, and the derived data   *)
(* of a chain with one more block is that of the chain, one step on.       *)
(***************************************************************************)
EXTENDS Chain, SequenceTheorems, Induction

Balances == [Addr -> [balance : 0 .. Word - 1, nonce : Nat]]

Totals == [Addr -> [received : Nat, mined : Nat, sent : Nat, txn : Nat]]

-----------------------------------------------------------------------------
(***************************************************************************)
(* One transaction.                                                        *)
(***************************************************************************)

\* A wrapped number is a word.
LEMMA WrapType == ASSUME NEW n \in Int PROVE Wrap(n) \in 0 .. Word - 1
BY LedgerAssumption DEF Wrap

\* Paying an amount to an address leaves accounts.
LEMMA CreditType ==
  ASSUME NEW st \in Balances, NEW a \in Addr, NEW amount \in Int
  PROVE  credit(st, a, amount) \in Balances
<1>1. st[a].balance \in Int
  BY DEF Balances
<1>2. Wrap(st[a].balance + amount) \in 0 .. Word - 1
  BY <1>1, WrapType
<1> QED
  BY <1>2 DEF credit, Balances

\* So does a transaction.
LEMMA ApplyTxType ==
  ASSUME NEW st \in Balances, NEW t \in Tx
  PROVE  applyTx(st, t) \in Balances
<1>1. t.from \in Addr /\ t.to \in Addr /\ t.amount \in Nat /\ t.fee \in Nat
  BY ChainAssumption
<1>2. st[t.from].balance \in Int /\ st[t.from].nonce \in Nat
  BY <1>1 DEF Balances
<1> DEFINE paid == [st EXCEPT ![t.from] = [balance |-> Wrap(@.balance - Wrap(t.amount + t.fee)),
                                           nonce   |-> @.nonce + 1]]
<1>3. Wrap(t.amount + t.fee) \in Int
  BY <1>1, WrapType, LedgerAssumption
<1>4. Wrap(st[t.from].balance - Wrap(t.amount + t.fee)) \in 0 .. Word - 1
  BY <1>2, <1>3, WrapType
<1>5. paid \in Balances
  BY <1>1, <1>2, <1>4 DEF Balances
<1>6. applyTx(st, t) = credit(paid, t.to, t.amount)
  BY DEF applyTx
<1> HIDE DEF paid
<1> QED
  BY <1>1, <1>5, <1>6, CreditType

\* Lifetime totals are not words: adding to one leaves totals.
LEMMA TotalsGrow ==
  ASSUME NEW tot \in Totals, NEW a \in Addr, NEW x \in Nat
  PROVE  /\ [tot EXCEPT ![a].received = @ + x] \in Totals
         /\ [tot EXCEPT ![a].mined = @ + x] \in Totals
         /\ [tot EXCEPT ![a].txn = @ + 1] \in Totals
<1>1. [tot EXCEPT ![a].received = @ + x] \in Totals
  BY DEF Totals
<1>2. [tot EXCEPT ![a].mined = @ + x] \in Totals
  BY DEF Totals
<1>3. [tot EXCEPT ![a].txn = @ + 1] \in Totals
  BY DEF Totals
<1> QED
  BY <1>1, <1>2, <1>3

\* A transaction leaves totals.
LEMMA TotalTxType ==
  ASSUME NEW tot \in Totals, NEW t \in Tx
  PROVE  totalTx(tot, t) \in Totals
<1>1. t.from \in Addr /\ t.to \in Addr /\ t.amount \in Nat /\ t.fee \in Nat
  BY ChainAssumption
<1> DEFINE paid == [tot EXCEPT ![t.from].sent = @ + t.amount + t.fee, ![t.from].txn = @ + 1]
<1>2. paid \in Totals
  BY <1>1 DEF Totals
<1>3. totalTx(tot, t) = IF t.to = t.from THEN paid
                        ELSE [paid EXCEPT ![t.to].received = @ + t.amount, ![t.to].txn = @ + 1]
  BY DEF totalTx
<1> HIDE DEF paid
<1> QED
  BY <1>1, <1>2, <1>3 DEF Totals

-----------------------------------------------------------------------------
(***************************************************************************)
(* The transactions of a block, one after the other.                       *)
(***************************************************************************)

\* The accounts after each transaction of a body.
LEMMA AfterTxs ==
  ASSUME NEW st \in Balances, NEW txs \in Seq(Tx)
  PROVE  /\ afterTxs(st, txs) \in [0 .. Len(txs) -> Balances]
         /\ afterTxs(st, txs)[0] = st
         /\ \A i \in 1 .. Len(txs) :
              afterTxs(st, txs)[i] = applyTx(afterTxs(st, txs)[i - 1], txs[i])
<1> DEFINE N == Len(txs)
           Rec(f) == f = [i \in 0 .. N |-> IF i = 0 THEN st ELSE applyTx(f[i - 1], txs[i])]
           Step == [i \in 1 .. N |-> [v \in Balances |-> applyTx(v, txs[i])]]
           after == afterTxs(st, txs)
<1>1. N \in Nat /\ \A i \in 1 .. N : txs[i] \in Tx
  BY ElementOfSeq, LenProperties
<1>2. \A i \in 1 .. N : \A v \in Balances : applyTx(v, txs[i]) \in Balances
  BY <1>1, ApplyTxType
<1>3. st \in Balances
  OBVIOUS
<1>4. Step \in [1 .. N -> [Balances -> Balances]] /\ \A i \in 1 .. N : \A v \in Balances : Step[i][v] = applyTx(v, txs[i])
  BY <1>2
<1>5. after = CHOOSE f : Rec(f)
  BY DEF afterTxs
<1> HIDE DEF N, Step, after
<1>6. PICK f : Iterates(f, Balances, N, st, Step)
  BY <1>1, <1>3, <1>4, IterationExists
<1>7. Rec(f)
  BY <1>1, <1>4, <1>6 DEF Iterates
<1>8. Rec(after)
  <2> HIDE DEF Rec
  <2> QED
    BY <1>5, <1>7
<1>9. after[0] = st /\ \A i \in 1 .. N : after[i] = applyTx(after[i - 1], txs[i])
  BY <1>1, <1>8
<1>10. \A i \in 0 .. N : after[i] \in Balances
  <2>1. StepsWithin(after, Balances, N)
    BY <1>1, <1>2, <1>3, <1>9 DEF StepsWithin
  <2> QED
    BY <1>1, <2>1, StaysAlong
<1>11. after \in [0 .. N -> Balances]
  BY <1>8, <1>10
<1> QED
  BY <1>9, <1>11 DEF N, after

\* The totals after each transaction of a body.
LEMMA TotalsAfterTxs ==
  ASSUME NEW tot \in Totals, NEW txs \in Seq(Tx)
  PROVE  /\ totalsAfterTxs(tot, txs) \in [0 .. Len(txs) -> Totals]
         /\ totalsAfterTxs(tot, txs)[0] = tot
         /\ \A i \in 1 .. Len(txs) :
              totalsAfterTxs(tot, txs)[i] = totalTx(totalsAfterTxs(tot, txs)[i - 1], txs[i])
<1> DEFINE N == Len(txs)
           Rec(f) == f = [i \in 0 .. N |-> IF i = 0 THEN tot ELSE totalTx(f[i - 1], txs[i])]
           Step == [i \in 1 .. N |-> [v \in Totals |-> totalTx(v, txs[i])]]
           after == totalsAfterTxs(tot, txs)
<1>1. N \in Nat /\ \A i \in 1 .. N : txs[i] \in Tx
  BY ElementOfSeq, LenProperties
<1>2. \A i \in 1 .. N : \A v \in Totals : totalTx(v, txs[i]) \in Totals
  BY <1>1, TotalTxType
<1>3. tot \in Totals
  OBVIOUS
<1>4. Step \in [1 .. N -> [Totals -> Totals]] /\ \A i \in 1 .. N : \A v \in Totals : Step[i][v] = totalTx(v, txs[i])
  BY <1>2
<1>5. after = CHOOSE f : Rec(f)
  BY DEF totalsAfterTxs
<1> HIDE DEF N, Step, after
<1>6. PICK f : Iterates(f, Totals, N, tot, Step)
  BY <1>1, <1>3, <1>4, IterationExists
<1>7. Rec(f)
  BY <1>1, <1>4, <1>6 DEF Iterates
<1>8. Rec(after)
  <2> HIDE DEF Rec
  <2> QED
    BY <1>5, <1>7
<1>9. after[0] = tot /\ \A i \in 1 .. N : after[i] = totalTx(after[i - 1], txs[i])
  BY <1>1, <1>8
<1>10. \A i \in 0 .. N : after[i] \in Totals
  <2>1. StepsWithin(after, Totals, N)
    BY <1>1, <1>2, <1>3, <1>9 DEF StepsWithin
  <2> QED
    BY <1>1, <2>1, StaysAlong
<1>11. after \in [0 .. N -> Totals]
  BY <1>8, <1>10
<1> QED
  BY <1>9, <1>11 DEF N, after

\* A block leaves accounts.
LEMMA ApplyBlockToStateType ==
  ASSUME NEW st \in Balances, NEW b \in Block
  PROVE  applyBlockToState(st, b) \in Balances
<1>1. b.miner \in Addr /\ b.reward \in Nat /\ b.txs \in Seq(Tx)
  BY ChainAssumption
<1> DEFINE paid == credit(st, b.miner, b.reward)
<1>2. paid \in Balances
  BY <1>1, CreditType
<1>3. applyBlockToState(st, b) = afterTxs(paid, b.txs)[Len(b.txs)]
  BY DEF applyBlockToState
<1> HIDE DEF paid
<1> QED
  BY <1>1, <1>2, <1>3, AfterTxs, LenProperties

\* The totals once the miner is paid.
MinerPaid(tot, b) ==
  [tot EXCEPT ![b.miner].received = @ + b.reward,
              ![b.miner].mined    = @ + b.reward,
              ![b.miner].txn      = @ + 1]

\* They stay totals.
LEMMA MinerPaidType ==
  ASSUME NEW tot \in Totals, NEW b \in Block
  PROVE  MinerPaid(tot, b) \in Totals
<1>1. b.miner \in Addr /\ b.reward \in Nat
  BY ChainAssumption
<1> DEFINE paid1 == [tot   EXCEPT ![b.miner].received = @ + b.reward]
           paid2 == [paid1 EXCEPT ![b.miner].mined    = @ + b.reward]
           paid3 == [paid2 EXCEPT ![b.miner].txn      = @ + 1]
<1>2. paid1 \in Totals
  BY <1>1, TotalsGrow
<1>3. paid2 \in Totals
  <2> HIDE DEF paid1
  <2> QED
    BY <1>1, <1>2, TotalsGrow
<1>4. paid3 \in Totals
  <2> HIDE DEF paid2
  <2> QED
    BY <1>1, <1>3, TotalsGrow
<1>5. MinerPaid(tot, b) = paid3
  BY <1>1 DEF Totals, MinerPaid
<1> QED
  BY <1>4, <1>5

\* A block leaves totals.
LEMMA ApplyBlockToTotalsType ==
  ASSUME NEW tot \in Totals, NEW b \in Block
  PROVE  applyBlockToTotals(tot, b) \in Totals
<1>1. b.txs \in Seq(Tx) /\ MinerPaid(tot, b) \in Totals
  BY ChainAssumption, MinerPaidType
<1>2. applyBlockToTotals(tot, b) = totalsAfterTxs(MinerPaid(tot, b), b.txs)[Len(b.txs)]
  BY DEF applyBlockToTotals, MinerPaid
<1> QED
  BY <1>1, <1>2, TotalsAfterTxs, LenProperties

\* Every block stands for some work: no target is beyond the hash space.
LEMMA WorkOfType ==
  ASSUME NEW b \in Block
  PROVE  WorkOf(b.target) \in Nat \ {0}
<1> DEFINE d == b.target + 1
<1>1. d \in 1 .. HashSpace /\ HashSpace \in Nat
  <2>1. b.target \in 1 .. MaxTarget
    BY ChainAssumption
  <2>2. MaxTarget \in 1 .. HashSpace - 1 /\ HashSpace \in Nat
    BY DifficultyAssumption
  <2> QED
    BY <2>1, <2>2
<1> HIDE DEF d
<1>2. HashSpace \div d \in Nat \ {0}
  BY <1>1
<1> QED
  BY <1>2 DEF WorkOf, d

-----------------------------------------------------------------------------
(***************************************************************************)
(* The blocks of a chain, one after the other.                             *)
(***************************************************************************)

\* The accounts after each block of a chain.
LEMMA StatesAlong ==
  ASSUME NEW c \in Seq(Block)
  PROVE  /\ statesAlong(c) \in [0 .. Len(c) -> Balances]
         /\ statesAlong(c)[0] = NoAccounts
         /\ \A i \in 1 .. Len(c) :
              statesAlong(c)[i] = applyBlockToState(statesAlong(c)[i - 1], c[i])
<1> DEFINE N == Len(c)
           Rec(f) == f = [i \in 0 .. N |-> IF i = 0 THEN NoAccounts ELSE applyBlockToState(f[i - 1], c[i])]
           Step == [i \in 1 .. N |-> [v \in Balances |-> applyBlockToState(v, c[i])]]
           after == statesAlong(c)
<1>1. N \in Nat /\ \A i \in 1 .. N : c[i] \in Block
  BY ElementOfSeq, LenProperties
<1>2. \A i \in 1 .. N : \A v \in Balances : applyBlockToState(v, c[i]) \in Balances
  BY <1>1, ApplyBlockToStateType
<1>3. NoAccounts \in Balances
  BY LedgerAssumption DEF NoAccounts, Balances
<1>4. Step \in [1 .. N -> [Balances -> Balances]] /\ \A i \in 1 .. N : \A v \in Balances : Step[i][v] = applyBlockToState(v, c[i])
  BY <1>2
<1>5. after = CHOOSE f : Rec(f)
  BY DEF statesAlong
<1> HIDE DEF N, Step, after
<1>6. PICK f : Iterates(f, Balances, N, NoAccounts, Step)
  BY <1>1, <1>3, <1>4, IterationExists
<1>7. Rec(f)
  BY <1>1, <1>4, <1>6 DEF Iterates
<1>8. Rec(after)
  <2> HIDE DEF Rec
  <2> QED
    BY <1>5, <1>7
<1>9. after[0] = NoAccounts /\ \A i \in 1 .. N : after[i] = applyBlockToState(after[i - 1], c[i])
  BY <1>1, <1>8
<1>10. \A i \in 0 .. N : after[i] \in Balances
  <2>1. StepsWithin(after, Balances, N)
    BY <1>1, <1>2, <1>3, <1>9 DEF StepsWithin
  <2> QED
    BY <1>1, <2>1, StaysAlong
<1>11. after \in [0 .. N -> Balances]
  BY <1>8, <1>10
<1> QED
  BY <1>9, <1>11 DEF N, after

\* The totals after each block of a chain.
LEMMA TotalsAlong ==
  ASSUME NEW c \in Seq(Block)
  PROVE  /\ totalsAlong(c) \in [0 .. Len(c) -> Totals]
         /\ totalsAlong(c)[0] = NoTotals
         /\ \A i \in 1 .. Len(c) :
              totalsAlong(c)[i] = applyBlockToTotals(totalsAlong(c)[i - 1], c[i])
<1> DEFINE N == Len(c)
           Rec(f) == f = [i \in 0 .. N |-> IF i = 0 THEN NoTotals ELSE applyBlockToTotals(f[i - 1], c[i])]
           Step == [i \in 1 .. N |-> [v \in Totals |-> applyBlockToTotals(v, c[i])]]
           after == totalsAlong(c)
<1>1. N \in Nat /\ \A i \in 1 .. N : c[i] \in Block
  BY ElementOfSeq, LenProperties
<1>2. \A i \in 1 .. N : \A v \in Totals : applyBlockToTotals(v, c[i]) \in Totals
  BY <1>1, ApplyBlockToTotalsType
<1>3. NoTotals \in Totals
  BY DEF NoTotals, Totals
<1>4. Step \in [1 .. N -> [Totals -> Totals]] /\ \A i \in 1 .. N : \A v \in Totals : Step[i][v] = applyBlockToTotals(v, c[i])
  BY <1>2
<1>5. after = CHOOSE f : Rec(f)
  BY DEF totalsAlong
<1> HIDE DEF N, Step, after
<1>6. PICK f : Iterates(f, Totals, N, NoTotals, Step)
  BY <1>1, <1>3, <1>4, IterationExists
<1>7. Rec(f)
  BY <1>1, <1>4, <1>6 DEF Iterates
<1>8. Rec(after)
  <2> HIDE DEF Rec
  <2> QED
    BY <1>5, <1>7
<1>9. after[0] = NoTotals /\ \A i \in 1 .. N : after[i] = applyBlockToTotals(after[i - 1], c[i])
  BY <1>1, <1>8
<1>10. \A i \in 0 .. N : after[i] \in Totals
  <2>1. StepsWithin(after, Totals, N)
    BY <1>1, <1>2, <1>3, <1>9 DEF StepsWithin
  <2> QED
    BY <1>1, <2>1, StaysAlong
<1>11. after \in [0 .. N -> Totals]
  BY <1>8, <1>10
<1> QED
  BY <1>9, <1>11 DEF N, after

\* The work behind each block of a chain.
LEMMA WorkAlong ==
  ASSUME NEW c \in Seq(Block)
  PROVE  /\ workAlong(c) \in [0 .. Len(c) -> Nat]
         /\ workAlong(c)[0] = 0
         /\ \A i \in 1 .. Len(c) :
              workAlong(c)[i] = workAlong(c)[i - 1] + WorkOf(c[i].target)
<1> DEFINE N == Len(c)
           Rec(f) == f = [i \in 0 .. N |-> IF i = 0 THEN 0 ELSE f[i - 1] + WorkOf(c[i].target)]
           Step == [i \in 1 .. N |-> [v \in Nat |-> v + WorkOf(c[i].target)]]
           after == workAlong(c)
<1>1. N \in Nat /\ \A i \in 1 .. N : WorkOf(c[i].target) \in Nat
  <2>1. N \in Nat /\ \A i \in 1 .. N : c[i] \in Block
    BY ElementOfSeq, LenProperties
  <2> QED
    BY <2>1, WorkOfType
<1>2. \A i \in 1 .. N : \A v \in Nat : v + WorkOf(c[i].target) \in Nat
  BY <1>1
<1>3. 0 \in Nat
  OBVIOUS
<1>4. Step \in [1 .. N -> [Nat -> Nat]] /\ \A i \in 1 .. N : \A v \in Nat : Step[i][v] = v + WorkOf(c[i].target)
  BY <1>2
<1>5. after = CHOOSE f : Rec(f)
  BY DEF workAlong
<1> HIDE DEF N, Step, after
<1>6. PICK f : Iterates(f, Nat, N, 0, Step)
  BY <1>1, <1>3, <1>4, IterationExists
<1>7. Rec(f)
  <2>1. ASSUME NEW i \in 1 .. N PROVE f[i] = f[i - 1] + WorkOf(c[i].target)
    <3>1. i - 1 \in 0 .. N /\ f[i - 1] \in Nat /\ f[i] = Step[i][f[i - 1]]
      BY <1>1, <1>6 DEF Iterates
    <3> QED
      BY <1>4, <3>1
  <2> QED
    BY <1>1, <1>6, <2>1 DEF Iterates
<1>8. Rec(after)
  <2> HIDE DEF Rec
  <2> QED
    BY <1>5, <1>7
<1>9. after[0] = 0 /\ \A i \in 1 .. N : after[i] = after[i - 1] + WorkOf(c[i].target)
  BY <1>1, <1>8
<1>10. \A i \in 0 .. N : after[i] \in Nat
  <2>1. StepsWithin(after, Nat, N)
    BY <1>1, <1>2, <1>3, <1>9 DEF StepsWithin
  <2> QED
    BY <1>1, <2>1, StaysAlong
<1>11. after \in [0 .. N -> Nat]
  BY <1>8, <1>10
<1> QED
  BY <1>9, <1>11 DEF N, after

-----------------------------------------------------------------------------
(***************************************************************************)
(* What is derived from a chain, and from the chain with one more block.   *)
(***************************************************************************)

\* What is derived from a chain has the types of accounts, totals and work.
LEMMA DerivedTypes ==
  ASSUME NEW c \in Seq(Block)
  PROVE  stateOf(c) \in Balances /\ totalsOf(c) \in Totals /\ workOfChain(c) \in Nat
<1>1. Len(c) \in 0 .. Len(c)
  BY LenProperties
<1> QED
  BY <1>1, StatesAlong, TotalsAlong, WorkAlong DEF stateOf, totalsOf, workOfChain

\* rebuildDerived and appendBlock agree: block by block is all at once.
LEMMA DerivedOfExtended ==
  ASSUME NEW c \in Seq(Block), NEW b \in Block
  PROVE  /\ stateOf(Append(c, b)) = applyBlockToState(stateOf(c), b)
         /\ totalsOf(Append(c, b)) = applyBlockToTotals(totalsOf(c), b)
         /\ workOfChain(Append(c, b)) = workOfChain(c) + WorkOf(b.target)
<1> DEFINE d == Append(c, b)
           N == Len(c)
<1>1. /\ d \in Seq(Block) /\ Len(d) = N + 1 /\ N \in Nat
      /\ \A i \in 1 .. N : d[i] = c[i]
      /\ d[N + 1] = b
  BY AppendProperties, LenProperties
<1> HIDE DEF d, N
<1>2. \A i \in 1 .. N : i \in 1 .. N + 1
  BY <1>1
<1>3. N + 1 \in 1 .. N + 1 /\ (N + 1) - 1 = N /\ N \in 0 .. N
  BY <1>1
<1>4. stateOf(d) = applyBlockToState(stateOf(c), b)
  <2> DEFINE f == statesAlong(d)
             g == statesAlong(c)
  <2>1. f[0] = g[0] /\ \A i \in 1 .. N + 1 : f[i] = applyBlockToState(f[i - 1], d[i])
    BY <1>1, StatesAlong
  <2>2. \A i \in 1 .. N : g[i] = applyBlockToState(g[i - 1], c[i])
    BY StatesAlong DEF N
  <2>3. stateOf(d) = f[N + 1] /\ stateOf(c) = g[N]
    BY <1>1 DEF stateOf, N
  <2> HIDE DEF f, g
  <2>4. \A i \in 1 .. N : f[i - 1] = g[i - 1] => f[i] = g[i]
    BY <1>1, <1>2, <2>1, <2>2
  <2>5. SameSteps(f, g, N)
    BY <2>1, <2>4 DEF SameSteps
  <2>6. \A i \in 0 .. N : f[i] = g[i]
    BY <1>1, <2>5, SameAlong
  <2> QED
    BY <1>1, <1>3, <2>1, <2>3, <2>6
<1>5. totalsOf(d) = applyBlockToTotals(totalsOf(c), b)
  <2> DEFINE f == totalsAlong(d)
             g == totalsAlong(c)
  <2>1. f[0] = g[0] /\ \A i \in 1 .. N + 1 : f[i] = applyBlockToTotals(f[i - 1], d[i])
    BY <1>1, TotalsAlong
  <2>2. \A i \in 1 .. N : g[i] = applyBlockToTotals(g[i - 1], c[i])
    BY TotalsAlong DEF N
  <2>3. totalsOf(d) = f[N + 1] /\ totalsOf(c) = g[N]
    BY <1>1 DEF totalsOf, N
  <2> HIDE DEF f, g
  <2>4. \A i \in 1 .. N : f[i - 1] = g[i - 1] => f[i] = g[i]
    BY <1>1, <1>2, <2>1, <2>2
  <2>5. SameSteps(f, g, N)
    BY <2>1, <2>4 DEF SameSteps
  <2>6. \A i \in 0 .. N : f[i] = g[i]
    BY <1>1, <2>5, SameAlong
  <2> QED
    BY <1>1, <1>3, <2>1, <2>3, <2>6
<1>6. workOfChain(d) = workOfChain(c) + WorkOf(b.target)
  <2> DEFINE f == workAlong(d)
             g == workAlong(c)
  <2>1. f[0] = g[0] /\ \A i \in 1 .. N + 1 : f[i] = f[i - 1] + WorkOf(d[i].target)
    BY <1>1, WorkAlong
  <2>2. \A i \in 1 .. N : g[i] = g[i - 1] + WorkOf(c[i].target)
    BY WorkAlong DEF N
  <2>3. workOfChain(d) = f[N + 1] /\ workOfChain(c) = g[N]
    BY <1>1 DEF workOfChain, N
  <2> HIDE DEF f, g
  <2>4. \A i \in 1 .. N : f[i - 1] = g[i - 1] => f[i] = g[i]
    BY <1>1, <1>2, <2>1, <2>2
  <2>5. SameSteps(f, g, N)
    BY <2>1, <2>4 DEF SameSteps
  <2>6. \A i \in 0 .. N : f[i] = g[i]
    BY <1>1, <2>5, SameAlong
  <2> QED
    BY <1>1, <1>3, <2>1, <2>3, <2>6
<1> QED
  BY <1>4, <1>5, <1>6 DEF d
=============================================================================
