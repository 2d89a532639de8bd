---------------------------- MODULE SupplyProofs ----------------------------
(***************************************************************************)
(* Theorems about the coins on the chain: where they come from, that the   *)
(* balances show what was received and sent, and that a reward is not      *)
(* spent before it is mature.  All are about chains whose blocks were each *)
(* validated on the blocks below, which is all that a node ever holds.     *)
(***************************************************************************)
EXTENDS EngineProofs

-----------------------------------------------------------------------------
(***************************************************************************)
(* Words.                                                                  *)
(***************************************************************************)

\* A word wraps to itself.
LEMMA WrapWord == ASSUME NEW n \in 0 .. Word - 1 PROVE Wrap(n) = n
BY LedgerAssumption DEF Wrap

\* Numbers that differ by a multiple of a word wrap to the same.
LEMMA WrapShift ==
  ASSUME NEW x \in Int, NEW q \in Int
  PROVE  Wrap(x + q * Word) = Wrap(x)
<1> DEFINE y  == x + q * Word
           xw == x \div Word
           yw == y \div Word
           k  == yw - xw - q
<1>1. Word \in Nat \ {0}
  BY LedgerAssumption
<1>2. q * Word \in Int /\ y \in Int
  BY <1>1
<1>3. /\ x % Word = x - xw * Word
      /\ x % Word \in 0 .. Word - 1 /\ xw \in Int
  BY <1>1
<1> HIDE DEF y
<1>4. /\ y % Word = y - yw * Word
      /\ y % Word \in 0 .. Word - 1 /\ yw \in Int
  BY <1>1, <1>2
<1>5. k \in Int /\ (x % Word) - (y % Word) = k * Word
  <2> HIDE DEF xw, yw
  <2>1. y = x + q * Word
    BY DEF y
  <2>2. k * Word = yw * Word - xw * Word - q * Word
    BY <1>1, <1>3, <1>4
  <2>3. /\ xw * Word \in Int /\ yw * Word \in Int /\ q * Word \in Int
        /\ x % Word \in Int /\ y % Word \in Int
    BY <1>1, <1>3, <1>4
  <2> QED
    BY <1>3, <1>4, <2>1, <2>2, <2>3
<1>6. k * Word < Word /\ k * Word > -Word
  BY <1>1, <1>3, <1>4, <1>5
<1> HIDE DEF k
<1>7. k = 0
  <2>1. CASE k >= 1
    <3>1. k * Word >= Word
      BY <1>1, <1>5, <2>1
    <3> QED
      BY <1>1, <1>5, <1>6, <3>1
  <2>2. CASE k <= -1
    <3>1. k * Word <= -Word
      BY <1>1, <1>5, <2>2
    <3> QED
      BY <1>1, <1>5, <1>6, <3>1
  <2> QED
    BY <1>5, <2>1, <2>2
<1> QED
  BY <1>1, <1>3, <1>4, <1>5, <1>7 DEF Wrap, y

\* Wrapping drops a multiple of a word.
LEMMA WrapDrops ==
  ASSUME NEW x \in Int
  PROVE  \E q \in Int : Wrap(x) = x + q * Word
<1> DEFINE k == x \div Word
<1>1. Word \in Nat \ {0}
  BY LedgerAssumption
<1>2. x % Word = x - k * Word /\ k \in Int
  BY <1>1
<1> HIDE DEF k
<1>3. -k \in Int /\ x - k * Word = x + (-k) * Word
  BY <1>1, <1>2
<1> QED
  BY <1>2, <1>3 DEF Wrap

\* Wrapping early makes no difference.
LEMMA WrapEarly ==
  ASSUME NEW x \in Int, NEW y \in Int
  PROVE  Wrap(Wrap(x) + y) = Wrap(x + y)
<1>1. PICK q \in Int : Wrap(x) = x + q * Word
  BY WrapDrops
<1>2. q * Word \in Int
  BY LedgerAssumption
<1>3. Wrap(x) + y = (x + y) + q * Word /\ x + y \in Int
  BY <1>1, <1>2
<1> QED
  BY <1>3, WrapShift

\* The same of a number that is subtracted.
LEMMA WrapEarlyLess ==
  ASSUME NEW x \in Int, NEW y \in Int
  PROVE  Wrap(x - Wrap(y)) = Wrap(x - y)
<1>1. PICK q \in Int : Wrap(y) = y + q * Word
  BY WrapDrops
<1>2. q * Word \in Int /\ -q \in Int /\ (-q) * Word = -(q * Word)
  BY LedgerAssumption
<1>3. x - Wrap(y) = (x - y) + (-q) * Word /\ x - y \in Int
  BY <1>1, <1>2
<1> QED
  BY <1>2, <1>3, WrapShift

-----------------------------------------------------------------------------
(***************************************************************************)
(* Rewards.                                                                *)
(***************************************************************************)

\* A halved subsidy is a number.
LEMMA HalvedType == halved \in [0 .. MaxHalvings -> Nat]
<1> DEFINE N == MaxHalvings
           Rec(f) == f = [i \in 0 .. N |-> IF i = 0 THEN InitialReward ELSE f[i - 1] \div 2]
           Step == [i \in 1 .. N |-> [v \in Nat |-> v \div 2]]
<1>1. N \in Nat /\ InitialReward \in Nat /\ \A v \in Nat : v \div 2 \in Nat
  BY LedgerAssumption DEF MaxHalvings
<1>2. Step \in [1 .. N -> [Nat -> Nat]] /\ \A i \in 1 .. N : \A v \in Nat : Step[i][v] = v \div 2
  BY <1>1
<1>3. halved = CHOOSE f : Rec(f)
  BY DEF halved
<1> HIDE DEF N, Step
<1>4. PICK f : Iterates(f, Nat, N, InitialReward, Step)
  BY <1>1, <1>2, IterationExists
<1>5. Rec(f)
  <2>1. ASSUME NEW i \in 1 .. N PROVE f[i] = f[i - 1] \div 2
    <3>1. i - 1 \in 0 .. N /\ f[i - 1] \in Nat /\ f[i] = Step[i][f[i - 1]]
      BY <1>1, <1>4 DEF Iterates
    <3> QED
      BY <1>2, <3>1
  <2> QED
    BY <1>1, <1>4, <2>1 DEF Iterates
<1>6. Rec(halved)
  <2> HIDE DEF Rec
  <2> QED
    BY <1>3, <1>5
<1>7. \A i \in 0 .. N : halved[i] \in Nat
  <2>1. halved[0] = InitialReward /\ \A i \in 1 .. N : halved[i] = halved[i - 1] \div 2
    BY <1>1, <1>6
  <2>2. StepsWithin(halved, Nat, N)
    BY <1>1, <2>1 DEF StepsWithin
  <2> QED
    BY <1>1, <2>2, StaysAlong
<1> QED
  BY <1>6, <1>7 DEF N

\* The subsidy is a number, and none is left after the last halving.
LEMMA SubsidyType ==
  ASSUME NEW h \in Nat
  PROVE  /\ BlockSubsidy(h) \in Nat
         /\ h > MaxHalvings * HalvingInterval => BlockSubsidy(h) = 0
<1> DEFINE q == h \div HalvingInterval
<1>1. HalvingInterval \in Nat \ {0} /\ MaxHalvings = 33
  BY LedgerAssumption DEF MaxHalvings
<1>2. q \in Nat /\ h % HalvingInterval \in 0 .. HalvingInterval - 1
      /\ h % HalvingInterval = h - q * HalvingInterval
  BY <1>1
<1>3. BlockSubsidy(h) = IF q >= MaxHalvings THEN 0 ELSE halved[q]
  BY DEF BlockSubsidy
<1> HIDE DEF q
<1>4. BlockSubsidy(h) \in Nat
  BY <1>1, <1>2, <1>3, HalvedType
<1>5. ASSUME h > MaxHalvings * HalvingInterval PROVE q >= MaxHalvings
  <2> SUFFICES ASSUME q <= 32 PROVE FALSE
    BY <1>1, <1>2
  <2>1. q * HalvingInterval <= 32 * HalvingInterval
    BY <1>1, <1>2
  <2> QED
    BY <1>1, <1>2, <1>5, <2>1
<1> QED
  BY <1>3, <1>4, <1>5

\* All that the first n blocks above genesis mined.
Mined(n) == SumFunction([h \in 1 .. n |-> BlockSubsidy(h)])

\* The same, as a part of the sum over a longer chain.
LEMMA MinedIsPart ==
  ASSUME NEW n \in Nat, NEW m \in Nat, n <= m
  PROVE  Mined(n) = SumFunctionOnSet([h \in 1 .. m |-> BlockSubsidy(h)], 1 .. n)
<1> DEFINE f == [h \in 1 .. n |-> BlockSubsidy(h)]
           g == [h \in 1 .. m |-> BlockSubsidy(h)]
<1>1. \A h \in 1 .. n : f[h] \in Int /\ g[h] = f[h]
  BY SubsidyType
<1>2. IsFiniteSet(1 .. n) /\ DOMAIN f = 1 .. n
  BY FS_Interval
<1>3. Mined(n) = SumFunctionOnSet(f, DOMAIN f)
  BY DEF Mined, SumFunction
<1> HIDE DEF f, g
<1>4. SumFunctionOnSet(g, 1 .. n) = SumFunctionOnSet(f, 1 .. n)
  BY <1>1, <1>2, SumSame
<1> QED
  BY <1>2, <1>3, <1>4 DEF g

\* It grows by the subsidy of the next block, and is always less than a word.
LEMMA MinedGrows ==
  ASSUME NEW n \in Nat
  PROVE  Mined(n) \in Nat /\ Mined(n + 1) = Mined(n) + BlockSubsidy(n + 1)
<1> DEFINE g == [h \in 1 .. n + 1 |-> BlockSubsidy(h)]
<1>1. \A h \in 1 .. n + 1 : g[h] \in Nat /\ g[h] = BlockSubsidy(h)
  BY SubsidyType
<1>2. Mined(n) = SumFunctionOnSet(g, 1 .. n) /\ Mined(n + 1) = SumFunctionOnSet(g, 1 .. n + 1)
  BY MinedIsPart
<1> HIDE DEF g
<1>3. IsFiniteSet(1 .. n) /\ \A h \in 1 .. n : g[h] \in Nat
  BY <1>1, FS_Interval
<1>4. SumFunctionOnSet(g, 1 .. n) \in Nat
  BY <1>3, SumNatural
<1>5. SumFunctionOnSet(g, 1 .. n + 1) = SumFunctionOnSet(g, 1 .. n) + g[n + 1]
  BY <1>1, SumNext
<1>6. n + 1 \in 1 .. n + 1
  OBVIOUS
<1> QED
  BY <1>1, <1>2, <1>4, <1>5, <1>6

\* The subsidies up to any height sum up to less than a word: SupplyAssumption
\* says so of the last halving, and later heights add nothing.
LEMMA MinedFits ==
  ASSUME NEW n \in Nat
  PROVE  Mined(n) < Word
<1> DEFINE M == MaxHalvings * HalvingInterval
<1>1. M \in Nat /\ Word \in Nat
  BY LedgerAssumption DEF MaxHalvings
<1>2. Mined(M) < Word
  BY SupplyAssumption DEF Mined
<1>3. \A k \in 1 .. n : k > M => BlockSubsidy(k) = 0
  BY SubsidyType
<1> HIDE DEF M
<1>4. ASSUME NEW k \in Nat, k <= M PROVE Mined(k) < Word
  <2> DEFINE g == [h \in 1 .. M |-> BlockSubsidy(h)]
  <2>1. \A h \in 1 .. M : g[h] \in Nat
    BY SubsidyType
  <2>2. Mined(k) = SumFunctionOnSet(g, 1 .. k) /\ Mined(M) = SumFunctionOnSet(g, 1 .. M)
    BY <1>1, <1>4, MinedIsPart
  <2> HIDE DEF g
  <2>3. IsFiniteSet(1 .. M) /\ 1 .. k \in SUBSET (1 .. M)
        /\ (\A h \in 1 .. k : g[h] \in Nat) /\ (\A h \in 1 .. k : g[h] <= g[h])
    BY <1>1, <1>4, <2>1, FS_Interval
  <2>4. SumFunctionOnSet(g, 1 .. k) <= SumFunctionOnSet(g, 1 .. M)
        /\ SumFunctionOnSet(g, 1 .. k) \in Nat /\ SumFunctionOnSet(g, 1 .. M) \in Nat
    BY <2>1, <2>3, SumMonotone
  <2> QED
    BY <1>1, <1>2, <2>2, <2>4
<1> DEFINE S == {k \in 0 .. n : Mined(k) < Word}
<1>5. 0 \in S
  BY <1>1, <1>4
<1>6. ASSUME NEW k \in 0 .. n - 1, k \in S PROVE k + 1 \in S
  <2>1. k + 1 \in 1 .. n /\ k + 1 \in Nat /\ k \in Nat
    OBVIOUS
  <2>2. CASE k + 1 <= M
    BY <1>4, <2>1, <2>2
  <2>3. CASE k + 1 > M
    <3>1. Mined(k + 1) = Mined(k) + 0 /\ Mined(k) \in Nat
      BY <1>3, <2>1, <2>3, MinedGrows
    <3>2. k + 1 \in 0 .. n /\ Mined(k) < Word
      BY <1>6
    <3> QED
      BY <3>1, <3>2
  <2> QED
    BY <1>1, <2>1, <2>2, <2>3
<1> HIDE DEF S
<1>7. 0 .. n \subseteq S
  BY <1>5, <1>6, CountUp
<1> QED
  BY <1>7 DEF S

-----------------------------------------------------------------------------
(***************************************************************************)
(* One payment.                                                            *)
(***************************************************************************)

Share(a, b, amount) == IF a = b THEN amount ELSE 0

\* What `t` does to the balance of `a`.
Net(t, a) == Share(a, t.to, t.amount) - Share(a, t.from, t.amount + t.fee)

Held(st) == SumFunctionOnSet([a \in Addr |-> st[a].balance], Addr)

\* A share is a number, all or nothing.
LEMMA ShareType ==
  ASSUME NEW a, NEW b, NEW amount \in Int
  PROVE  /\ Share(a, b, amount) \in Int
         /\ a = b => Share(a, b, amount) = amount
         /\ a # b => Share(a, b, amount) = 0
BY DEF Share

\* A transaction as its fields.
LEMMA TxFields ==
  ASSUME NEW t \in Tx
  PROVE  /\ t.from \in Addr /\ t.to \in Addr
         /\ t.amount \in Nat /\ t.fee \in Nat /\ t.amount + t.fee \in Nat
         /\ \A a \in Addr : Net(t, a) \in Int
<1>1. /\ t.from \in Addr /\ t.to \in Addr
      /\ t.amount \in Nat /\ t.fee \in Nat /\ t.amount + t.fee \in Nat
  BY ChainAssumption
<1>2. \A a \in Addr : /\ Share(a, t.to, t.amount) \in Int
                     /\ Share(a, t.from, t.amount + t.fee) \in Int
  BY <1>1, ShareType
<1> QED
  BY <1>1, <1>2 DEF Net

\* A balance is a word, and no more than all balances together.
LEMMA BalanceType ==
  ASSUME NEW st \in Balances, NEW a \in Addr
  PROVE  /\ st[a].balance \in 0 .. Word - 1 /\ st[a].balance \in Nat /\ st[a].nonce \in Nat
         /\ st[a] = [balance |-> st[a].balance, nonce |-> st[a].nonce]
BY LedgerAssumption DEF Balances

\* All balances together are a natural number.
LEMMA HeldType ==
  ASSUME NEW st \in Balances
  PROVE  Held(st) \in Nat
<1> DEFINE f == [a \in Addr |-> st[a].balance]
<1>1. \A a \in Addr : f[a] \in Nat
  BY BalanceType
<1> HIDE DEF f
<1>2. SumFunctionOnSet(f, Addr) \in Nat
  BY <1>1, LedgerAssumption, SumNatural
<1> QED
  BY <1>2 DEF Held, f

\* A credit, wrapping included.
LEMMA CreditEffect ==
  ASSUME NEW st \in Balances, NEW b \in Addr, NEW amount \in Int, NEW a \in Addr
  PROVE  credit(st, b, amount)[a]
           = [balance |-> Wrap(st[a].balance + Share(a, b, amount)), nonce |-> st[a].nonce]
<1>1. st[a].balance \in 0 .. Word - 1 /\ st[a] = [balance |-> st[a].balance, nonce |-> st[a].nonce]
  BY BalanceType
<1>2. CASE a = b
  BY <1>1, <1>2 DEF credit, Share, Balances
<1>3. CASE a # b
  <2>1. credit(st, b, amount)[a] = st[a]
    BY <1>3 DEF credit, Balances
  <2>2. st[a].balance + Share(a, b, amount) = st[a].balance
    BY <1>1, <1>3 DEF Share
  <2> QED
    BY <1>1, <2>1, <2>2, WrapWord
<1> QED
  BY <1>2, <1>3

\* A transaction, wrapping included.
LEMMA TxEffect ==
  ASSUME NEW st \in Balances, NEW t \in Tx, NEW a \in Addr
  PROVE  applyTx(st, t)[a]
           = [balance |-> Wrap(st[a].balance + Net(t, a)), nonce |-> st[a].nonce + Share(a, t.from, 1)]
<1> DEFINE c == t.amount + t.fee
           paid == [st EXCEPT ![t.from] = [balance |-> Wrap(@.balance - Wrap(c)),
                                           nonce   |-> @.nonce + 1]]
           in  == Share(a, t.to, t.amount)
           out == Share(a, t.from, c)
           bal == st[a].balance
<1>1. t.from \in Addr /\ t.to \in Addr /\ t.amount \in Nat /\ c \in Nat
  BY TxFields
<1>2. /\ st[a] = [balance |-> bal, nonce |-> st[a].nonce]
      /\ bal \in 0 .. Word - 1 /\ bal \in Nat /\ st[a].nonce \in Nat
      /\ st[t.from].balance \in Nat /\ st[t.from].nonce \in Nat
  BY <1>1, BalanceType
<1>3. in \in Int /\ out \in Int /\ Net(t, a) = in - out
  BY <1>1 DEF Net, Share
<1>4. paid[a] = [balance |-> Wrap(bal - out), nonce |-> st[a].nonce + Share(a, t.from, 1)]
  <2>1. CASE a = t.from
    <3>1. paid[a] = [balance |-> Wrap(bal - Wrap(c)), nonce |-> st[a].nonce + 1]
      BY <1>1, <2>1 DEF Balances
    <3>2. Wrap(bal - Wrap(c)) = Wrap(bal - c)
      <4>1. bal \in Int /\ c \in Int
        BY <1>1, <1>2
      <4> HIDE DEF bal, c, paid
      <4> QED
        BY <4>1, WrapEarlyLess
    <3> QED
      BY <2>1, <3>1, <3>2 DEF Share
  <2>2. CASE a # t.from
    <3>1. paid[a] = st[a] /\ bal - out = bal /\ st[a].nonce + Share(a, t.from, 1) = st[a].nonce
      BY <1>1, <1>2, <2>2 DEF Balances, Share
    <3> QED
      BY <1>2, <3>1, WrapWord
  <2> QED
    BY <2>1, <2>2
<1>5. paid \in Balances
  <2>1. Wrap(c) \in Int
    BY <1>1, WrapType, LedgerAssumption
  <2>2. Wrap(st[t.from].balance - Wrap(c)) \in 0 .. Word - 1
    BY <1>2, <2>1, WrapType
  <2> QED
    BY <1>1, <1>2, <2>2 DEF Balances
<1>6. applyTx(st, t) = credit(paid, t.to, t.amount)
  BY DEF applyTx
<1> HIDE DEF paid, in, out, bal
<1>7. applyTx(st, t)[a] = [balance |-> Wrap(paid[a].balance + in), nonce |-> paid[a].nonce]
  BY <1>1, <1>5, <1>6, CreditEffect DEF in
<1>8. Wrap(Wrap(bal - out) + in) = Wrap(bal + Net(t, a))
  <2>1. bal - out \in Int /\ (bal - out) + in = bal + Net(t, a)
    BY <1>2, <1>3
  <2> QED
    BY <1>3, <2>1, WrapEarly
<1> QED
  BY <1>4, <1>7, <1>8 DEF bal

\* Numbers that add up to less than a word are words.
LEMMA PartsAreWords ==
  ASSUME NEW f, \A a \in Addr : f[a] \in Nat, SumFunctionOnSet(f, Addr) < Word
  PROVE  \A a \in Addr : Wrap(f[a]) = f[a]
<1> SUFFICES ASSUME NEW a \in Addr PROVE Wrap(f[a]) = f[a]
  OBVIOUS
<1> DEFINE rest == SumFunctionOnSet(f, Addr \ {a})
<1>1. IsFiniteSet(Addr) /\ IsFiniteSet(Addr \ {a}) /\ Word \in Nat
  BY LedgerAssumption, FS_Subset
<1>2. SumFunctionOnSet(f, Addr) = f[a] + rest
  BY <1>1, SumTake
<1>3. rest \in Nat
  BY <1>1, SumNatural
<1> HIDE DEF rest
<1>4. f[a] \in 0 .. Word - 1
  BY <1>1, <1>2, <1>3
<1> QED
  BY <1>4, WrapWord

-----------------------------------------------------------------------------
(***************************************************************************)
(* The transactions of a block, validated one on the other.                *)
(***************************************************************************)

\* The sender has what `t` costs.
Covered(st, t) ==
  /\ t.amount + t.fee < Word
  /\ st[t.from].balance >= t.amount + t.fee

AllCovered(st, txs) ==
  \A i \in 1 .. Len(txs) : Covered(afterTxs(st, txs)[i - 1], txs[i])

\* Accounts that hold f hold together what f adds up to.
LEMMA HeldAre ==
  ASSUME NEW st, NEW f, \A a \in Addr : f[a] \in Int /\ st[a].balance = f[a]
  PROVE  Held(st) = SumFunctionOnSet(f, Addr)
<1> DEFINE g == [a \in Addr |-> st[a].balance]
<1>1. \A a \in Addr : f[a] \in Int /\ g[a] = f[a]
  OBVIOUS
<1> HIDE DEF g
<1>2. SumFunctionOnSet(g, Addr) = SumFunctionOnSet(f, Addr)
  BY <1>1, LedgerAssumption, SumSame
<1> QED
  BY <1>2 DEF Held, g

\* A transaction takes its fee from the accounts, and nothing else.
LEMMA NetSum ==
  ASSUME NEW st \in Balances, NEW t \in Tx
  PROVE  SumFunctionOnSet([a \in Addr |-> st[a].balance + Net(t, a)], Addr) = Held(st) - t.fee
<1> DEFINE c == t.amount + t.fee
           f == [a \in Addr |-> st[a].balance]
           h == [a \in Addr |-> st[a].balance - Share(a, t.from, c)]
           g == [a \in Addr |-> st[a].balance + Net(t, a)]
<1>1. t.from \in Addr /\ t.to \in Addr /\ t.amount \in Nat /\ t.fee \in Nat /\ c \in Nat
  BY TxFields
<1>2. \A a \in Addr : /\ f[a] \in Int /\ h[a] \in Int /\ g[a] \in Int
                      /\ h[a] = f[a] - Share(a, t.from, c)
                      /\ g[a] = h[a] + Share(a, t.to, t.amount)
  <2> SUFFICES ASSUME NEW a \in Addr
               PROVE  /\ f[a] \in Int /\ h[a] \in Int /\ g[a] \in Int
                      /\ h[a] = f[a] - Share(a, t.from, c)
                      /\ g[a] = h[a] + Share(a, t.to, t.amount)
    OBVIOUS
  <2> DEFINE in  == Share(a, t.to, t.amount)
             out == Share(a, t.from, c)
             bal == st[a].balance
  <2>1. bal \in Int /\ in \in Int /\ out \in Int
    <3>1. bal \in Nat
      BY BalanceType
    <3>2. t.amount \in Int /\ c \in Int
      BY <1>1
    <3> HIDE DEF c
    <3>3. in \in Int /\ out \in Int
      BY <3>2, ShareType
    <3> QED
      BY <3>1, <3>3
  <2>2. f[a] = bal /\ h[a] = bal - out /\ g[a] = bal + (in - out)
    BY DEF Net
  <2> HIDE DEF f, g, h, bal, in, out
  <2> QED
    BY <2>1, <2>2 DEF in, out
<1>3. SumFunctionOnSet(f, Addr) = Held(st) /\ Held(st) \in Nat
  BY HeldType DEF Held
<1> HIDE DEF f, g, h, c
<1>4. \A a \in Addr \ {t.from} : h[a] = f[a]
  BY <1>1, <1>2 DEF Share
<1>5. \A a \in Addr \ {t.to} : g[a] = h[a]
  BY <1>1, <1>2 DEF Share
<1>6. SumFunctionOnSet(h, Addr) = SumFunctionOnSet(f, Addr) - f[t.from] + h[t.from]
  BY <1>1, <1>2, <1>4, LedgerAssumption, SumUpdate
<1>7. SumFunctionOnSet(g, Addr) = SumFunctionOnSet(h, Addr) - h[t.to] + g[t.to]
  BY <1>1, <1>2, <1>5, LedgerAssumption, SumUpdate
<1>8. h[t.from] = f[t.from] - c /\ g[t.to] = h[t.to] + t.amount
      /\ f[t.from] \in Int /\ h[t.to] \in Int
  BY <1>1, <1>2 DEF Share
<1>9. SumFunctionOnSet(g, Addr) = Held(st) - c + t.amount
  BY <1>1, <1>3, <1>6, <1>7, <1>8
<1>10. Held(st) - c + t.amount = Held(st) - t.fee
  BY <1>1, <1>3 DEF c
<1> QED
  BY <1>9, <1>10 DEF g

\* If the sender has what it costs, nothing wraps.
LEMMA ExactTx ==
  ASSUME NEW st \in Balances, NEW t \in Tx, Covered(st, t), Held(st) < Word
  PROVE  /\ \A a \in Addr : applyTx(st, t)[a].balance = st[a].balance + Net(t, a)
         /\ Held(applyTx(st, t)) = Held(st) - t.fee
<1> DEFINE g == [a \in Addr |-> st[a].balance + Net(t, a)]
<1>1. /\ t.from \in Addr /\ t.to \in Addr
      /\ t.amount \in Nat /\ t.fee \in Nat /\ t.amount + t.fee \in Nat
  BY TxFields
<1>2. ASSUME NEW a \in Addr PROVE g[a] \in Nat
  <2> DEFINE in  == Share(a, t.to, t.amount)
             out == Share(a, t.from, t.amount + t.fee)
             bal == st[a].balance
  <2>1. in \in Nat /\ out \in Nat /\ bal \in Nat
    BY <1>1, BalanceType DEF Share
  <2>2. out <= bal
    BY <1>1, <2>1 DEF Covered, Share
  <2>3. g[a] = bal + (in - out)
    BY DEF Net
  <2> HIDE DEF g, in, out, bal
  <2> QED
    BY <2>1, <2>2, <2>3
<1>3. SumFunctionOnSet(g, Addr) = Held(st) - t.fee
  BY NetSum
<1>4. SumFunctionOnSet(g, Addr) < Word
  BY <1>1, <1>3, HeldType, LedgerAssumption
<1>5. ASSUME NEW a \in Addr
      PROVE  applyTx(st, t)[a].balance = Wrap(st[a].balance + Net(t, a))
  <2>1. applyTx(st, t)[a] = [balance |-> Wrap(st[a].balance + Net(t, a)),
                             nonce   |-> st[a].nonce + Share(a, t.from, 1)]
    BY TxEffect
  <2> QED
    BY <2>1
<1>6. \A a \in Addr : g[a] = st[a].balance + Net(t, a)
  OBVIOUS
<1> HIDE DEF g
<1>7. \A a \in Addr : applyTx(st, t)[a].balance = g[a]
  <2>1. \A a \in Addr : Wrap(g[a]) = g[a]
    BY <1>2, <1>4, PartsAreWords
  <2> QED
    BY <1>5, <1>6, <2>1
<1>8. Held(applyTx(st, t)) = SumFunctionOnSet(g, Addr)
  BY <1>2, <1>7, HeldAre
<1> QED
  BY <1>3, <1>6, <1>7, <1>8

\* The fees of the first n transactions.
Fees(txs, n) == SumFunctionOnSet([i \in DOMAIN txs |-> txs[i].fee], 1 .. n)

\* The fees of a body, transaction by transaction; all of them are what
\* TotalFees sums.
LEMMA FeesGrow ==
  ASSUME NEW txs \in Seq(Tx)
  PROVE  /\ Fees(txs, 0) = 0
         /\ \A n \in 0 .. Len(txs) : Fees(txs, n) \in Nat
         /\ \A n \in 0 .. Len(txs) - 1 : Fees(txs, n + 1) = Fees(txs, n) + txs[n + 1].fee
         /\ SumFunction([i \in DOMAIN txs |-> txs[i].fee]) = Fees(txs, Len(txs))
<1> DEFINE f == [i \in DOMAIN txs |-> txs[i].fee]
<1>1. Len(txs) \in Nat /\ DOMAIN txs = 1 .. Len(txs) /\ \A i \in 1 .. Len(txs) : txs[i] \in Tx
  BY ElementOfSeq, LenProperties
<1>2. \A i \in 1 .. Len(txs) : f[i] = txs[i].fee /\ f[i] \in Nat
  BY <1>1, TxFields
<1>3. DOMAIN f = 1 .. Len(txs) /\ \A n : Fees(txs, n) = SumFunctionOnSet(f, 1 .. n)
  BY <1>1 DEF Fees
<1>4. SumFunction(f) = SumFunctionOnSet(f, DOMAIN f)
  BY DEF SumFunction
<1> HIDE DEF f
<1>5. Fees(txs, 0) = 0
  <2>1. 1 .. 0 = {}
    OBVIOUS
  <2> QED
    BY <1>3, <2>1, SumEmpty
<1>6. ASSUME NEW n \in 0 .. Len(txs) PROVE Fees(txs, n) \in Nat
  <2>1. IsFiniteSet(1 .. n)
    BY <1>1, FS_Interval
  <2>2. \A i \in 1 .. n : f[i] \in Nat
    BY <1>1, <1>2
  <2> QED
    BY <1>3, <2>1, <2>2, SumNatural
<1>7. ASSUME NEW n \in 0 .. Len(txs) - 1 PROVE Fees(txs, n + 1) = Fees(txs, n) + txs[n + 1].fee
  <2>1. n \in Nat /\ n + 1 \in 1 .. Len(txs) /\ \A i \in 1 .. n + 1 : f[i] \in Int
    BY <1>1, <1>2
  <2>2. SumFunctionOnSet(f, 1 .. n + 1) = SumFunctionOnSet(f, 1 .. n) + f[n + 1]
    BY <2>1, SumNext
  <2> QED
    BY <1>2, <1>3, <2>1, <2>2
<1> QED
  BY <1>3, <1>4, <1>5, <1>6, <1>7 DEF f

\* So a validated body moves exactly what its transactions say.
LEMMA BodyExact ==
  ASSUME NEW st \in Balances, NEW txs \in Seq(Tx), AllCovered(st, txs), Held(st) < Word
  PROVE  /\ \A n \in 0 .. Len(txs) : Held(afterTxs(st, txs)[n]) = Held(st) - Fees(txs, n)
         /\ \A n \in 1 .. Len(txs) : \A a \in Addr :
              afterTxs(st, txs)[n][a].balance = afterTxs(st, txs)[n - 1][a].balance + Net(txs[n], a)
<1> DEFINE v == afterTxs(st, txs)
           N == Len(txs)
           S == {n \in 0 .. N : Held(v[n]) = Held(st) - Fees(txs, n)}
<1>1. N \in Nat /\ \A i \in 1 .. N : txs[i] \in Tx
  BY ElementOfSeq, LenProperties
<1>2. /\ \A n \in 0 .. N : v[n] \in Balances
      /\ v[0] = st
      /\ \A n \in 1 .. N : v[n] = applyTx(v[n - 1], txs[n])
  BY AfterTxs
<1>3. \A n \in 1 .. N : Covered(v[n - 1], txs[n])
  BY DEF AllCovered
<1>4. /\ Fees(txs, 0) = 0
      /\ \A n \in 0 .. N : Fees(txs, n) \in Nat
      /\ \A n \in 0 .. N - 1 : Fees(txs, n + 1) = Fees(txs, n) + txs[n + 1].fee
  BY FeesGrow
<1>5. Held(st) \in Nat /\ Word \in Nat
  BY HeldType, LedgerAssumption
<1> HIDE DEF v, N
<1>6. ASSUME NEW n \in 0 .. N - 1, n \in S
      PROVE  /\ Held(v[n + 1]) = Held(st) - Fees(txs, n + 1)
             /\ \A a \in Addr : v[n + 1][a].balance = v[n][a].balance + Net(txs[n + 1], a)
  <2>1. n + 1 \in 1 .. N /\ (n + 1) - 1 = n /\ n \in 0 .. N
    BY <1>1
  <2>2. v[n] \in Balances /\ txs[n + 1] \in Tx /\ Covered(v[n], txs[n + 1])
        /\ v[n + 1] = applyTx(v[n], txs[n + 1])
    BY <1>1, <1>2, <1>3, <2>1
  <2>3. Held(v[n]) = Held(st) - Fees(txs, n) /\ Fees(txs, n) \in Nat
    BY <1>4, <1>6, <2>1
  <2>4. Held(v[n]) < Word
    BY <1>5, <2>3
  <2>5. /\ \A a \in Addr : v[n + 1][a].balance = v[n][a].balance + Net(txs[n + 1], a)
        /\ Held(v[n + 1]) = Held(v[n]) - txs[n + 1].fee
    BY <2>2, <2>4, ExactTx
  <2>6. txs[n + 1].fee \in Nat /\ Fees(txs, n + 1) = Fees(txs, n) + txs[n + 1].fee
    BY <1>4, <2>2, TxFields
  <2> QED
    BY <1>5, <2>3, <2>5, <2>6
<1>7. 0 \in S
  BY <1>1, <1>2, <1>4, <1>5
<1>8. ASSUME NEW n \in 0 .. N - 1, n \in S PROVE n + 1 \in S
  <2>1. n + 1 \in 0 .. N
    BY <1>1
  <2>2. Held(v[n + 1]) = Held(st) - Fees(txs, n + 1)
    BY <1>6, <1>8
  <2> QED
    BY <2>1, <2>2
<1>9. 0 .. N \subseteq S
  <2> HIDE DEF S
  <2> QED
    BY <1>1, <1>7, <1>8, CountUp
<1>10. ASSUME NEW n \in 1 .. N, NEW a \in Addr
       PROVE  v[n][a].balance = v[n - 1][a].balance + Net(txs[n], a)
  <2> HIDE DEF S
  <2>1. n - 1 \in 0 .. N - 1 /\ n - 1 \in 0 .. N /\ (n - 1) + 1 = n
    BY <1>1
  <2>2. n - 1 \in S
    BY <1>9, <2>1
  <2> QED
    BY <1>6, <2>1, <2>2
<1> QED
  BY <1>9, <1>10 DEF v, N

\* It makes no difference whether the miner is paid before or after.
LEMMA CoinbaseFirst ==
  ASSUME NEW st \in Balances, NEW txs \in Seq(Tx), NEW m \in Addr, NEW reward \in Int
  PROVE  \A n \in 0 .. Len(txs) :
           afterTxs(credit(st, m, reward), txs)[n] = credit(afterTxs(st, txs)[n], m, reward)
<1> DEFINE v == afterTxs(st, txs)
           w == afterTxs(credit(st, m, reward), txs)
           N == Len(txs)
           S == {n \in 0 .. N : w[n] = credit(v[n], m, reward)}
<1>1. N \in Nat /\ \A i \in 1 .. N : txs[i] \in Tx
  BY ElementOfSeq, LenProperties
<1>2. /\ \A n \in 0 .. N : v[n] \in Balances
      /\ v[0] = st
      /\ \A n \in 1 .. N : v[n] = applyTx(v[n - 1], txs[n])
  BY AfterTxs
<1>3. /\ w[0] = credit(st, m, reward)
      /\ \A n \in 1 .. N : w[n] = applyTx(w[n - 1], txs[n])
  BY CreditType, AfterTxs
<1> HIDE DEF v, w, N
<1>4. ASSUME NEW s \in Balances, NEW t \in Tx
      PROVE  applyTx(credit(s, m, reward), t) = credit(applyTx(s, t), m, reward)
  <2>1. /\ credit(s, m, reward) \in Balances /\ applyTx(s, t) \in Balances
        /\ applyTx(credit(s, m, reward), t) \in Balances
        /\ credit(applyTx(s, t), m, reward) \in Balances
    BY CreditType, ApplyTxType
  <2>2. ASSUME NEW a \in Addr
        PROVE  applyTx(credit(s, m, reward), t)[a] = credit(applyTx(s, t), m, reward)[a]
    <3> DEFINE bal == s[a].balance
               paid == Share(a, m, reward)
               net == Net(t, a)
               count == s[a].nonce + Share(a, t.from, 1)
    <3>1. bal \in Int /\ paid \in Int /\ net \in Int
      <4>1. bal \in Nat
        BY BalanceType
      <4>2. paid \in Int
        BY ShareType
      <4>3. net \in Int
        BY TxFields
      <4> QED
        BY <4>1, <4>2, <4>3
    <3>2. credit(s, m, reward)[a] = [balance |-> Wrap(bal + paid), nonce |-> s[a].nonce]
      BY CreditEffect
    <3>3. applyTx(s, t)[a] = [balance |-> Wrap(bal + net), nonce |-> count]
      BY TxEffect
    <3>4. applyTx(credit(s, m, reward), t)[a]
            = [balance |-> Wrap(credit(s, m, reward)[a].balance + net),
               nonce   |-> credit(s, m, reward)[a].nonce + Share(a, t.from, 1)]
      BY <2>1, TxEffect
    <3>5. credit(applyTx(s, t), m, reward)[a]
            = [balance |-> Wrap(applyTx(s, t)[a].balance + paid), nonce |-> applyTx(s, t)[a].nonce]
      BY <2>1, CreditEffect
    <3>6. applyTx(credit(s, m, reward), t)[a] = [balance |-> Wrap(Wrap(bal + paid) + net), nonce |-> count]
      BY <3>2, <3>4
    <3>7. credit(applyTx(s, t), m, reward)[a] = [balance |-> Wrap(Wrap(bal + net) + paid), nonce |-> count]
      BY <3>3, <3>5
    <3> HIDE DEF bal, paid, net, count
    <3>8. Wrap(Wrap(bal + paid) + net) = Wrap((bal + paid) + net)
          /\ Wrap(Wrap(bal + net) + paid) = Wrap((bal + net) + paid)
      <4>1. bal + paid \in Int /\ bal + net \in Int
        BY <3>1
      <4> QED
        BY <3>1, <4>1, WrapEarly
    <3>9. (bal + paid) + net = (bal + net) + paid
      BY <3>1
    <3> QED
      BY <3>6, <3>7, <3>8, <3>9
  <2> QED
    BY <2>1, <2>2 DEF Balances
<1>5. 0 \in S
  BY <1>1, <1>2, <1>3
<1>6. ASSUME NEW n \in 0 .. N - 1, n \in S PROVE n + 1 \in S
  <2>1. n + 1 \in 1 .. N /\ (n + 1) - 1 = n /\ n \in 0 .. N /\ n + 1 \in 0 .. N
    BY <1>1
  <2>2. v[n + 1] = applyTx(v[n], txs[n + 1]) /\ w[n + 1] = applyTx(w[n], txs[n + 1])
        /\ v[n] \in Balances /\ txs[n + 1] \in Tx
    BY <1>1, <1>2, <1>3, <2>1
  <2>3. w[n] = credit(v[n], m, reward)
    BY <1>6
  <2> QED
    BY <1>4, <2>1, <2>2, <2>3
<1> HIDE DEF S
<1>7. 0 .. N \subseteq S
  BY <1>1, <1>5, <1>6, CountUp
<1> QED
  BY <1>7 DEF S, v, w, N

-----------------------------------------------------------------------------
(***************************************************************************)
(* One block.                                                              *)
(***************************************************************************)

\* A credit adds the amount to what is held.
LEMMA CreditSum ==
  ASSUME NEW st \in Balances, NEW b \in Addr, NEW amount \in Nat
  PROVE  SumFunctionOnSet([a \in Addr |-> st[a].balance + Share(a, b, amount)], Addr)
           = Held(st) + amount
<1> DEFINE f == [a \in Addr |-> st[a].balance]
           g == [a \in Addr |-> st[a].balance + Share(a, b, amount)]
<1>1. ASSUME NEW a \in Addr
      PROVE  f[a] \in Int /\ g[a] \in Int /\ g[a] = f[a] + Share(a, b, amount)
  <2>1. st[a].balance \in Nat
    BY BalanceType
  <2>2. Share(a, b, amount) \in Int
    BY ShareType
  <2> QED
    BY <2>1, <2>2
<1>2. SumFunctionOnSet(f, Addr) = Held(st) /\ Held(st) \in Nat
  BY HeldType DEF Held
<1> HIDE DEF f, g
<1>3. \A a \in Addr \ {b} : g[a] = f[a]
  BY <1>1, ShareType
<1>4. SumFunctionOnSet(g, Addr) = SumFunctionOnSet(f, Addr) - f[b] + g[b]
  BY <1>1, <1>3, LedgerAssumption, SumUpdate
<1>5. f[b] \in Int /\ g[b] = f[b] + amount
  BY <1>1, ShareType
<1>6. SumFunctionOnSet(g, Addr) = Held(st) + amount
  BY <1>2, <1>4, <1>5
<1> QED
  BY <1>6 DEF g

\* A block brings its subsidy and nothing else; its miner gets that and the fees.
LEMMA BlockExact ==
  ASSUME NEW st \in Balances, NEW b \in Block, NEW h \in Nat, AllCovered(st, b.txs),
         b.reward = CoinbaseAmount(h, b.txs), Held(st) + BlockSubsidy(h) < Word
  PROVE  /\ b.reward = BlockSubsidy(h) + Fees(b.txs, Len(b.txs))
         /\ \A a \in Addr : applyBlockToState(st, b)[a].balance
                              = afterTxs(st, b.txs)[Len(b.txs)][a].balance + Share(a, b.miner, b.reward)
         /\ Held(applyBlockToState(st, b)) = Held(st) + BlockSubsidy(h)
<1> DEFINE N == Len(b.txs)
           last == afterTxs(st, b.txs)[N]
           fees == Fees(b.txs, N)
           new == applyBlockToState(st, b)
           g == [a \in Addr |-> last[a].balance + Share(a, b.miner, b.reward)]
<1>1. b.miner \in Addr /\ b.reward \in Nat /\ b.txs \in Seq(Tx) /\ N \in Nat /\ N \in 0 .. N
  BY ChainAssumption, LenProperties
<1>2. Held(st) \in Nat /\ BlockSubsidy(h) \in Nat /\ Word \in Nat \ {0}
  BY HeldType, SubsidyType, LedgerAssumption
<1>3. Held(st) < Word
  BY <1>2
<1>4. last \in Balances
  BY <1>1, AfterTxs
<1>5. Held(last) = Held(st) - fees
  BY <1>1, <1>3, BodyExact
<1>6. fees \in Nat
  BY <1>1, FeesGrow
<1>7. TotalFees(b.txs) = Wrap(fees)
  <2>1. SumFunction([i \in DOMAIN b.txs |-> b.txs[i].fee]) = fees
    BY <1>1, FeesGrow
  <2> HIDE DEF fees
  <2> QED
    BY <2>1 DEF TotalFees
<1>8. new = credit(last, b.miner, b.reward)
  BY <1>1, CoinbaseFirst DEF applyBlockToState
<1> HIDE DEF fees, last, N, new
<1>9. Held(last) \in Nat
  BY <1>4, HeldType
<1>10. fees \in 0 .. Word - 1
  BY <1>2, <1>3, <1>5, <1>6, <1>9
<1>11. TotalFees(b.txs) = fees
  BY <1>7, <1>10, WrapWord
<1>12. BlockSubsidy(h) + fees \in 0 .. Word - 1
  BY <1>2, <1>5, <1>6, <1>9
<1>13. b.reward = BlockSubsidy(h) + fees
  BY <1>11, <1>12, WrapWord DEF CoinbaseAmount
<1>14. SumFunctionOnSet(g, Addr) = Held(last) + b.reward
  BY <1>1, <1>4, CreditSum
<1>15. SumFunctionOnSet(g, Addr) = Held(st) + BlockSubsidy(h)
  BY <1>2, <1>5, <1>6, <1>13, <1>14
<1>16. ASSUME NEW a \in Addr
       PROVE  /\ g[a] \in Nat
              /\ new[a].balance = Wrap(last[a].balance + Share(a, b.miner, b.reward))
              /\ g[a] = last[a].balance + Share(a, b.miner, b.reward)
  <2>1. new[a] = [balance |-> Wrap(last[a].balance + Share(a, b.miner, b.reward)),
                  nonce   |-> last[a].nonce]
    BY <1>1, <1>4, <1>8, CreditEffect
  <2>2. last[a].balance \in Nat
    BY <1>4, BalanceType
  <2>3. Share(a, b.miner, b.reward) \in Nat
    BY <1>1 DEF Share
  <2> QED
    BY <2>1, <2>2, <2>3
<1> HIDE DEF g
<1>17. \A a \in Addr : Wrap(g[a]) = g[a]
  BY <1>15, <1>16, PartsAreWords
<1>18. \A a \in Addr : new[a].balance = g[a]
  BY <1>16, <1>17
<1>19. Held(new) = Held(st) + BlockSubsidy(h)
  BY <1>15, <1>16, <1>18, HeldAre
<1>20. \A a \in Addr : new[a].balance = last[a].balance + Share(a, b.miner, b.reward)
  BY <1>16, <1>18
<1> QED
  BY <1>13, <1>19, <1>20 DEF new, last, N, fees

-----------------------------------------------------------------------------
(***************************************************************************)
(* A chain of blocks, each valid on those below it.                        *)
(***************************************************************************)

\* The block of height n passed validateBlock on the blocks below it.
ValidAt(c, n) ==
  LET below == SubSeq(c, 1, n)
  IN  /\ c[n + 1].reward = CoinbaseAmount(n, c[n + 1].txs)
      /\ validBody(stateOf(below), c[n + 1].txs, below, n)

ValidChain(c) ==
  /\ c \in Seq(Block) /\ c # <<>> /\ c[1] = Genesis
  /\ \A n \in 1 .. Len(c) - 1 : ValidAt(c, n)

\* The accounts and totals along a chain are those of its prefixes.
LEMMA AlongIsOfPrefix ==
  ASSUME NEW c \in Seq(Block), NEW n \in 1 .. Len(c)
  PROVE  /\ statesAlong(c)[n] = stateOf(SubSeq(c, 1, n))
         /\ totalsAlong(c)[n] = totalsOf(SubSeq(c, 1, n))
<1> DEFINE p == SubSeq(c, 1, n)
<1>1. /\ p \in Seq(Block) /\ Len(p) = n /\ Len(c) \in Nat
      /\ \A i \in 1 .. n : p[i] = c[i]
  BY PrefixOfChain, LenProperties
<1> HIDE DEF p
<1>2. n \in Nat /\ n \in 0 .. n /\ \A i \in 1 .. n : i \in 1 .. Len(c) /\ i \in 1 .. Len(p)
  BY <1>1
<1>3. statesAlong(c)[n] = statesAlong(p)[n]
  <2> DEFINE f == statesAlong(c)
             g == statesAlong(p)
  <2>1. f[0] = g[0]
    BY <1>1, StatesAlong
  <2>2. \A i \in 1 .. n : f[i] = applyBlockToState(f[i - 1], c[i])
    BY <1>2, StatesAlong
  <2>3. \A i \in 1 .. n : g[i] = applyBlockToState(g[i - 1], p[i])
    BY <1>1, <1>2, StatesAlong
  <2> HIDE DEF f, g
  <2>4. SameSteps(f, g, n)
    BY <1>1, <2>1, <2>2, <2>3 DEF SameSteps
  <2>5. \A i \in 0 .. n : f[i] = g[i]
    BY <1>2, <2>4, SameAlong
  <2> QED
    BY <1>2, <2>5 DEF f, g
<1>4. totalsAlong(c)[n] = totalsAlong(p)[n]
  <2> DEFINE f == totalsAlong(c)
             g == totalsAlong(p)
  <2>1. f[0] = g[0]
    BY <1>1, TotalsAlong
  <2>2. \A i \in 1 .. n : f[i] = applyBlockToTotals(f[i - 1], c[i])
    BY <1>2, TotalsAlong
  <2>3. \A i \in 1 .. n : g[i] = applyBlockToTotals(g[i - 1], p[i])
    BY <1>1, <1>2, TotalsAlong
  <2> HIDE DEF f, g
  <2>4. SameSteps(f, g, n)
    BY <1>1, <2>1, <2>2, <2>3 DEF SameSteps
  <2>5. \A i \in 0 .. n : f[i] = g[i]
    BY <1>2, <2>4, SameAlong
  <2> QED
    BY <1>2, <2>5 DEF f, g
<1> QED
  BY <1>1, <1>3, <1>4 DEF stateOf, totalsOf, p

\* The rewards of some heights of a chain, as one sum.
LEMMA RewardsType ==
  ASSUME NEW c \in Seq(Block), NEW hs \in SUBSET (0 .. Len(c) - 1), NEW a
  PROVE  rewardsAt(c, hs, a) \in Nat
<1> DEFINE hits == {h \in hs : c[h + 1].miner = a}
           f == [h \in hits |-> c[h + 1].reward]
<1>1. \A h \in hits : f[h] \in Nat
  <2>1. \A h \in hits : h + 1 \in 1 .. Len(c)
    BY LenProperties
  <2> QED
    BY <2>1, ElementOfSeq, ChainAssumption
<1>2. IsFiniteSet(hits)
  <2>1. IsFiniteSet(0 .. Len(c) - 1) /\ hits \subseteq 0 .. Len(c) - 1
    <3>1. 0 \in Int /\ Len(c) - 1 \in Int
      BY LenProperties
    <3>2. IsFiniteSet(0 .. Len(c) - 1)
      BY <3>1, FS_Interval
    <3> QED
      BY <3>2
  <2> QED
    BY <2>1, FS_Subset
<1>3. rewardsAt(c, hs, a) = SumFunctionOnSet(f, hits)
  BY DEF rewardsAt, SumFunction
<1> HIDE DEF f, hits
<1> QED
  BY <1>1, <1>2, <1>3, SumNatural

\* The heights immatureCoinbase looks at.
ImmatureHeights(c, atHeight) ==
  LET lo == IF atHeight > CoinbaseMaturity THEN atHeight - CoinbaseMaturity + 1 ELSE 0
  IN  {h \in lo .. atHeight - 1 : h < Len(c)}

\* immatureCoinbase sums the rewards of the last heights, from its activation on.
LEMMA ImmatureType ==
  ASSUME NEW c \in Seq(Block), NEW n \in Nat, NEW a
  PROVE  /\ immatureCoinbase(c, n, a) \in Nat
         /\ ImmatureHeights(c, n) \subseteq 0 .. Len(c) - 1
         /\ n >= MaturityHeight => immatureCoinbase(c, n, a) = rewardsAt(c, ImmatureHeights(c, n), a)
<1>1. CoinbaseMaturity \in Nat /\ Len(c) \in Nat /\ MaturityHeight \in Nat
  BY LedgerAssumption, LenProperties
<1>2. ImmatureHeights(c, n) \in SUBSET (0 .. Len(c) - 1)
  BY <1>1 DEF ImmatureHeights
<1>3. immatureCoinbase(c, n, a) = IF n < MaturityHeight THEN 0 ELSE rewardsAt(c, ImmatureHeights(c, n), a)
  BY DEF immatureCoinbase, ImmatureHeights
<1>4. rewardsAt(c, ImmatureHeights(c, n), a) \in Nat
  BY <1>2, RewardsType
<1> QED
  BY <1>1, <1>2, <1>3, <1>4

\* In a valid body every sender has what it spends, and keeps what is immature
\* unless it spends nothing.
LEMMA BodyCovered ==
  ASSUME NEW c \in Seq(Block), NEW n \in Nat, NEW st \in Balances, NEW txs \in Seq(Tx),
         validBody(st, txs, c, n)
  PROVE  /\ AllCovered(st, txs)
         /\ \A i \in 1 .. Len(txs) :
              LET t == txs[i]
                  bal == afterTxs(st, txs)[i - 1][t.from].balance
              IN  \/ t.amount + t.fee = 0
                  \/ bal - (t.amount + t.fee) >= immatureCoinbase(c, n, t.from)
<1> SUFFICES ASSUME NEW i \in 1 .. Len(txs)
             PROVE  LET t == txs[i]
                        bal == afterTxs(st, txs)[i - 1][t.from].balance
                    IN  /\ Covered(afterTxs(st, txs)[i - 1], t)
                        /\ \/ t.amount + t.fee = 0
                           \/ bal - (t.amount + t.fee) >= immatureCoinbase(c, n, t.from)
  BY DEF AllCovered
<1> DEFINE t == txs[i]
           v == afterTxs(st, txs)[i - 1]
           bal == v[t.from].balance
           cost1 == t.amount + t.fee
           imm == immatureCoinbase(c, n, t.from)
<1>1. t \in Tx /\ i - 1 \in 0 .. Len(txs)
  BY ElementOfSeq, LenProperties
<1>2. t.from \in Addr /\ cost1 \in Nat
  BY <1>1, TxFields
<1>3. v \in Balances
  BY <1>1, AfterTxs
<1>4. validateTxAgainstState(v, t, c, n)
  BY DEF validBody
<1>5. cost1 < Word /\ spendable(bal, imm) >= cost1
  BY <1>4 DEF validateTxAgainstState
<1>6. imm \in Nat
  BY <1>2, ImmatureType
<1> HIDE DEF t, v
<1>7. bal \in Nat
  BY <1>2, <1>3, BalanceType
<1> HIDE DEF bal, imm, cost1
<1>8. bal >= cost1 /\ (cost1 = 0 \/ bal - cost1 >= imm)
  BY <1>2, <1>5, <1>6, <1>7 DEF spendable
<1> QED
  BY <1>5, <1>8 DEF Covered, t, v, bal, imm, cost1

-----------------------------------------------------------------------------
(***************************************************************************)
(* Where the coins come from.                                              *)
(***************************************************************************)

\* The genesis block leaves every account empty.
LEMMA GenesisIsEmpty ==
  ASSUME NEW c, ValidChain(c)
  PROVE  /\ \A a \in Addr : statesAlong(c)[1][a].balance = 0
         /\ Held(statesAlong(c)[1]) = 0
<1>1. c \in Seq(Block) /\ Len(c) \in Nat \ {0} /\ c[1] = Genesis
  BY EmptySeq DEF ValidChain
<1>2. Genesis \in Block /\ Genesis.txs = <<>> /\ Genesis.reward = 0
  BY ChainAssumption
<1>3. Genesis.miner \in Addr
  BY <1>2, ChainAssumption
<1> DEFINE s == credit(NoAccounts, Genesis.miner, 0)
<1>4. NoAccounts \in Balances
  BY LedgerAssumption DEF NoAccounts, Balances
<1>5. s \in Balances
  BY <1>3, <1>4, CreditType
<1>6. statesAlong(c)[1] = s
  <2>1. 1 \in 1 .. Len(c) /\ 1 - 1 = 0
    BY <1>1
  <2>2. statesAlong(c)[1] = applyBlockToState(NoAccounts, Genesis)
    BY <1>1, <2>1, StatesAlong
  <2>3. applyBlockToState(NoAccounts, Genesis) = afterTxs(s, <<>>)[Len(<<>>)]
    BY <1>2 DEF applyBlockToState
  <2> HIDE DEF s
  <2>4. <<>> \in Seq(Tx) /\ Len(<<>>) = 0
    BY EmptySeq
  <2>5. afterTxs(s, <<>>)[0] = s
    BY <1>5, <2>4, AfterTxs
  <2> QED
    BY <2>2, <2>3, <2>4, <2>5
<1>7. ASSUME NEW a \in Addr PROVE s[a].balance = 0
  <2>1. s[a] = [balance |-> Wrap(NoAccounts[a].balance + Share(a, Genesis.miner, 0)),
                nonce   |-> NoAccounts[a].nonce]
    BY <1>3, <1>4, CreditEffect
  <2>2. NoAccounts[a].balance + Share(a, Genesis.miner, 0) = 0
    BY DEF NoAccounts, Share
  <2>3. Wrap(0) = 0
    BY LedgerAssumption, WrapWord
  <2> QED
    BY <2>1, <2>2, <2>3
<1> DEFINE zero == [a \in Addr |-> 0]
<1>8. \A a \in Addr : zero[a] = 0
  OBVIOUS
<1> HIDE DEF zero, s
<1>9. SumFunctionOnSet(zero, Addr) = 0
  BY <1>8, LedgerAssumption, SumZeros
<1>10. Held(s) = 0
  BY <1>7, <1>8, <1>9, HeldAre
<1> QED
  BY <1>6, <1>7, <1>10

\* What is known of block n of a valid chain and of the accounts below it.
BlockOf(c, n) ==
  LET st == statesAlong(c)[n]
      b  == c[n + 1]
  IN  /\ st \in Balances /\ b \in Block
      /\ b.reward = CoinbaseAmount(n, b.txs)
      /\ validBody(st, b.txs, SubSeq(c, 1, n), n)
      /\ AllCovered(st, b.txs)
      /\ Held(st) + BlockSubsidy(n) < Word
      /\ statesAlong(c)[n + 1] = applyBlockToState(st, b)

\* A block that was validated on the chain below is such a block, if the
\* balances there sum up to what was mined.
LEMMA KnownBlock ==
  ASSUME NEW c, ValidChain(c), NEW n \in 1 .. Len(c) - 1,
         Held(statesAlong(c)[n]) = Mined(n - 1)
  PROVE  BlockOf(c, n)
<1> DEFINE st == statesAlong(c)[n]
           b == c[n + 1]
           below == SubSeq(c, 1, n)
<1>1. c \in Seq(Block) /\ Len(c) \in Nat
  BY LenProperties DEF ValidChain
<1>2. n \in 1 .. Len(c) /\ n \in 0 .. Len(c) /\ n + 1 \in 1 .. Len(c) /\ (n + 1) - 1 = n
      /\ n \in Nat /\ n - 1 \in Nat /\ (n - 1) + 1 = n
  BY <1>1
<1>3. st \in Balances /\ statesAlong(c)[n + 1] = applyBlockToState(st, b)
  BY <1>1, <1>2, StatesAlong
<1>4. b \in Block
  BY <1>1, <1>2, ElementOfSeq
<1>5. b.txs \in Seq(Tx)
  BY <1>4, ChainAssumption
<1>6. below \in Seq(Block) /\ st = stateOf(below)
  BY <1>1, <1>2, PrefixOfChain, AlongIsOfPrefix
<1>7. ValidAt(c, n)
  BY DEF ValidChain
<1>8. b.reward = CoinbaseAmount(n, b.txs) /\ validBody(stateOf(below), b.txs, below, n)
  BY <1>7 DEF ValidAt
<1>9. Mined(n) = Mined(n - 1) + BlockSubsidy(n)
  BY <1>2, MinedGrows
<1>10. Held(st) + BlockSubsidy(n) < Word
  BY <1>2, <1>9, MinedFits
<1> HIDE DEF st, b, below
<1>11. validBody(st, b.txs, below, n)
  BY <1>6, <1>8
<1>12. AllCovered(st, b.txs)
  BY <1>2, <1>3, <1>5, <1>6, <1>11, BodyCovered
<1> QED
  BY <1>3, <1>4, <1>8, <1>10, <1>11, <1>12 DEF BlockOf, st, b, below

\* After each block, the accounts hold what was mined up to it.
LEMMA HeldAlong ==
  ASSUME NEW c, ValidChain(c)
  PROVE  \A n \in 1 .. Len(c) : Held(statesAlong(c)[n]) = Mined(n - 1)
<1> DEFINE S == {k \in 0 .. Len(c) - 1 : Held(statesAlong(c)[k + 1]) = Mined(k)}
<1>1. Len(c) \in Nat \ {0} /\ Len(c) - 1 \in Nat
  BY EmptySeq DEF ValidChain
<1>2. 0 \in S
  <2>1. Mined(0) = 0
    <3>1. 1 .. 0 = {}
      OBVIOUS
    <3> QED
      BY <3>1, SumEmpty DEF Mined, SumFunction
  <2>2. 0 \in 0 .. Len(c) - 1 /\ 0 + 1 = 1
    BY <1>1
  <2> QED
    BY <2>1, <2>2, GenesisIsEmpty
<1>3. ASSUME NEW k \in 0 .. (Len(c) - 1) - 1, k \in S PROVE k + 1 \in S
  <2> DEFINE n == k + 1
  <2>1. n \in 1 .. Len(c) - 1 /\ n - 1 = k /\ n \in 0 .. Len(c) - 1 /\ n \in Nat /\ k \in Nat
    BY <1>1
  <2>2. Held(statesAlong(c)[n]) = Mined(n - 1)
    BY <1>3, <2>1
  <2> HIDE DEF n
  <2>3. BlockOf(c, n)
    BY <2>1, <2>2, KnownBlock
  <2>4. Held(statesAlong(c)[n + 1]) = Held(statesAlong(c)[n]) + BlockSubsidy(n)
    BY <2>1, <2>3, BlockExact DEF BlockOf
  <2>5. Mined(n) = Mined(n - 1) + BlockSubsidy(n)
    BY <2>1, MinedGrows DEF n
  <2>6. n \in S
    BY <2>1, <2>2, <2>4, <2>5
  <2> QED
    BY <2>6 DEF n
<1>4. 0 .. Len(c) - 1 \subseteq S
  <2> HIDE DEF S
  <2> QED
    BY <1>1, <1>2, <1>3, CountUp
<1> SUFFICES ASSUME NEW n \in 1 .. Len(c) PROVE Held(statesAlong(c)[n]) = Mined(n - 1)
  OBVIOUS
<1>5. n - 1 \in 0 .. Len(c) - 1 /\ (n - 1) + 1 = n
  BY <1>1
<1>6. n - 1 \in S
  BY <1>4, <1>5
<1> QED
  BY <1>5, <1>6

-----------------------------------------------------------------------------
(***************************************************************************)
(* A node only ever holds such chains.                                     *)
(***************************************************************************)

\* Chains that agree up to a block agree on whether it is valid.
LEMMA ValidInBoth ==
  ASSUME NEW c \in Seq(Block), NEW d \in Seq(Block), NEW n \in 1 .. Len(c) - 1,
         n \in 1 .. Len(d) - 1, \A i \in 1 .. n + 1 : d[i] = c[i], ValidAt(c, n)
  PROVE  ValidAt(d, n)
<1>1. n \in 1 .. Len(c) /\ n \in 1 .. Len(d) /\ n + 1 \in 1 .. n + 1 /\ \A i \in 1 .. n : c[i] = d[i]
  BY LenProperties
<1>2. SubSeq(c, 1, n) = SubSeq(d, 1, n)
  BY <1>1, SamePrefix
<1> QED
  BY <1>1, <1>2 DEF ValidAt

\* What validateBlock asks of a block makes it valid on the chain below.
LEMMA CheckedBlock ==
  ASSUME NEW c, NEW d, NEW n \in Nat, d = SubSeq(c, 1, n), Len(d) = n, validateBlock(d, stateOf(d), c[n + 1])
  PROVE  ValidAt(c, n)
BY DEF validateBlock, rulesOK, linksTo, ValidAt

\* AddBlock keeps a chain of validated blocks: the new one was validated on the
\* accounts in memory, which are those of the chain.
LEMMA AddBlockValid ==
  ASSUME NodeInv, ValidChain(blocks), NEW b \in Block, NEW how, AddBlock(b, how)
  PROVE  ValidChain(blocks')
<1> DEFINE c == Append(blocks, b)
           N == Len(blocks)
<1>1. blocks \in Seq(Block) /\ N \in Nat \ {0} /\ state = stateOf(blocks) /\ blocks[1] = Genesis
  BY EmptySeq DEF ValidChain, NodeInv, EngineInv, DerivedIsReplay
<1>2. c \in Seq(Block) /\ Len(c) = N + 1 /\ c[N + 1] = b /\ \A n \in 1 .. N : c[n] = blocks[n]
  BY <1>1, ExtendedChain, AppendProperties
<1>3. validateBlock(blocks, state, b) /\ blocks' = c
  BY DEF AddBlock, extend
<1> HIDE DEF c
<1>4. SubSeq(c, 1, N) = blocks
  <2>1. N \in 1 .. Len(c)
    BY <1>1, <1>2
  <2>2. SubSeq(c, 1, N) \in Seq(Block) /\ Len(SubSeq(c, 1, N)) = N
        /\ \A i \in 1 .. N : SubSeq(c, 1, N)[i] = c[i]
    BY <1>2, <2>1, PrefixOfChain
  <2> QED
    BY <1>1, <1>2, <2>2, SeqEqual
<1>5. ASSUME NEW n \in 1 .. Len(c) - 1 PROVE ValidAt(c, n)
  <2>1. CASE n < N
    <3>1. n \in 1 .. N - 1 /\ \A i \in 1 .. n + 1 : c[i] = blocks[i]
      BY <1>1, <1>2, <2>1
    <3>2. ValidAt(blocks, n)
      BY <3>1 DEF ValidChain
    <3> QED
      BY <1>1, <1>2, <3>1, <3>2, ValidInBoth
  <2>2. CASE n = N
    BY <1>1, <1>2, <1>3, <1>4, <2>2, CheckedBlock
  <2> QED
    BY <1>1, <1>2, <2>1, <2>2
<1>6. c # <<>> /\ c[1] = Genesis
  BY <1>1, <1>2, EmptySeq
<1> QED
  BY <1>2, <1>3, <1>5, <1>6 DEF ValidChain

\* TryAdoptChain does: each new block was validated on its own prefix, and the
\* blocks up to the fork point are ours.
LEMMA TryAdoptValid ==
  ASSUME NodeInv, ValidChain(blocks), NEW new \in Batch, NEW start, NEW how,
         TryAdoptChain(start, new, how)
  PROVE  ValidChain(blocks')
<1> DEFINE c == candidate(start, new)
<1>1. /\ blocks \in Seq(Block) /\ Len(blocks) \in Nat \ {0} /\ blocks # <<>> /\ ChainLinked
      /\ blocks[1] = Genesis
  BY EmptySeq DEF ValidChain, NodeInv, ChainInv
<1>2. /\ blocks' = c /\ c \in Seq(Block) /\ c # <<>>
      /\ start \in 1 .. Len(blocks) /\ start < Len(c)
      /\ \A n \in 1 .. start : c[n] = blocks[n]
  BY <1>1, AdoptedChain
<1>3. \A n \in start .. Len(c) - 1 : validateBlock(SubSeq(c, 1, n), stateOf(SubSeq(c, 1, n)), c[n + 1])
  BY DEF TryAdoptChain
<1> HIDE DEF c
<1>4. Len(c) \in Nat
  BY <1>2, LenProperties
<1>5. ASSUME NEW n \in 1 .. Len(c) - 1 PROVE ValidAt(c, n)
  <2>1. CASE n < start
    <3>1. n \in 1 .. Len(blocks) - 1 /\ \A i \in 1 .. n + 1 : c[i] = blocks[i]
      BY <1>1, <1>2, <2>1
    <3>2. ValidAt(blocks, n)
      BY <3>1 DEF ValidChain
    <3> QED
      BY <1>1, <1>2, <3>1, <3>2, ValidInBoth
  <2>2. CASE n >= start
    <3>1. n \in start .. Len(c) - 1 /\ n \in 1 .. Len(c) /\ n \in Nat
      BY <1>1, <1>2, <1>4, <2>2
    <3>2. Len(SubSeq(c, 1, n)) = n
      BY <1>2, <3>1, PrefixOfChain
    <3> QED
      BY <1>3, <3>1, <3>2, CheckedBlock
  <2> QED
    BY <1>1, <1>2, <2>1, <2>2
<1>6. c[1] = Genesis
  BY <1>1, <1>2
<1> QED
  BY <1>2, <1>5, <1>6 DEF ValidChain

\* The inductive invariant: what rebuildDerived and the checks of every block
\* rest on.
SoundInv == NodeInv /\ ValidChain(blocks)

\* Nothing was validated before genesis.
LEMMA SoundInvInit == Init => ValidChain(blocks)
BY ChainAssumption, EmptySeq DEF Init, ValidChain

\* Every step keeps a chain of validated blocks.
LEMMA SoundInvNext == NodeInv /\ ValidChain(blocks) /\ [Next]_vars => ValidChain(blocks)'
<1> SUFFICES ASSUME NodeInv, ValidChain(blocks), [Next]_vars PROVE ValidChain(blocks')
  OBVIOUS
<1>1. ASSUME NEW b \in Block, AddBlock(b, "ok") PROVE ValidChain(blocks')
  BY <1>1, AddBlockValid
<1>2. ASSUME NEW new \in Batch, TryAdoptChain(new[1].height, new, "ok") PROVE ValidChain(blocks')
  BY <1>2, TryAdoptValid
<1>3. ASSUME NEW t \in Tx, AddTx(t) PROVE ValidChain(blocks')
  BY <1>3 DEF AddTx
<1>4. ASSUME NEW cp \in Signed, ApplyCheckpoint(cp, "ok") PROVE ValidChain(blocks')
  BY <1>4 DEF ApplyCheckpoint
<1>5. CASE Restart
  BY <1>5, RestartInv DEF NodeInv
<1>6. CASE Tick \/ UNCHANGED vars
  BY <1>6 DEF Tick, memory, vars
<1> QED
  BY <1>1, <1>2, <1>3, <1>4, <1>5, <1>6 DEF Next, Method

\* Whatever blocks, reorgs and restarts come, every block in memory is one that
\* passed validation on exactly the blocks below it.
THEOREM SoundInvariant == Spec => []SoundInv
BY NodeInvariant, SoundInvInit, SoundInvNext, PTL DEF Spec, SoundInv

\* However blocks and reorgs follow each other, the balances add up to the
\* subsidies of the blocks above genesis: fees change hands, no unit is lost
\* or made, and no sum ever leaves its word.
THEOREM SupplySafety == Spec => []SupplyIsMined
<1>1. SoundInv => SupplyIsMined
  <2> SUFFICES ASSUME SoundInv PROVE SupplyIsMined
    OBVIOUS
  <2> DEFINE N == Len(blocks)
             f == [a \in Addr |-> state[a].balance]
  <2>1. ValidChain(blocks) /\ N \in Nat \ {0} /\ state = stateOf(blocks) /\ N \in 1 .. N
    <3>1. ValidChain(blocks) /\ blocks \in Seq(Block) /\ blocks # <<>>
      BY DEF SoundInv, ValidChain
    <3>2. state = stateOf(blocks)
      BY DEF SoundInv, NodeInv, EngineInv, DerivedIsReplay
    <3> QED
      BY <3>1, <3>2, LenProperties, EmptySeq
  <2>2. Held(statesAlong(blocks)[N]) = Mined(N - 1)
    BY <2>1, HeldAlong
  <2>3. Held(state) = Mined(N - 1)
    BY <2>1, <2>2 DEF stateOf
  <2>4. SumFunction(f) = Held(state)
    BY DEF SumFunction, Held
  <2> QED
    BY <2>3, <2>4 DEF SupplyIsMined, Mined
<1> QED
  BY <1>1, SoundInvariant, PTL

-----------------------------------------------------------------------------
(***************************************************************************)
(* Rewards that are not mature.                                            *)
(***************************************************************************)

\* What the blocks at the heights `hs` of a chain paid to `a`.
Paid(c, hs, a) ==
  SumFunctionOnSet([h \in 0 .. Len(c) - 1 |-> Share(a, c[h + 1].miner, c[h + 1].reward)], hs)

\* It is a number, no more for fewer heights, and one term more for one more.
LEMMA PaidGrows ==
  ASSUME NEW c \in Seq(Block), NEW hs \in SUBSET (0 .. Len(c) - 1), NEW a
  PROVE  /\ Paid(c, hs, a) \in Nat
         /\ \A part \in SUBSET hs : Paid(c, part, a) <= Paid(c, hs, a)
         /\ \A h \in (0 .. Len(c) - 1) \ hs :
              Paid(c, hs \cup {h}, a) = Paid(c, hs, a) + Share(a, c[h + 1].miner, c[h + 1].reward)
<1> DEFINE H == 0 .. Len(c) - 1
           f == [h \in H |-> Share(a, c[h + 1].miner, c[h + 1].reward)]
<1>1. IsFiniteSet(H)
  <2>1. 0 \in Int /\ Len(c) - 1 \in Int
    BY LenProperties
  <2> QED
    BY <2>1, FS_Interval
<1>2. ASSUME NEW h \in H
      PROVE  f[h] \in Nat /\ f[h] = Share(a, c[h + 1].miner, c[h + 1].reward)
  <2>1. h + 1 \in 1 .. Len(c)
    BY LenProperties
  <2>2. c[h + 1].reward \in Nat
    BY <2>1, ElementOfSeq, ChainAssumption
  <2> QED
    BY <2>2 DEF Share
<1>3. \A s : Paid(c, s, a) = SumFunctionOnSet(f, s)
  BY DEF Paid
<1>4. hs \in SUBSET H
  OBVIOUS
<1> HIDE DEF f, H
<1>5. \A s \in SUBSET H : IsFiniteSet(s)
  BY <1>1, FS_Subset
<1>6. SumFunctionOnSet(f, hs) \in Nat
  BY <1>2, <1>4, <1>5, SumNatural
<1>7. ASSUME NEW part \in SUBSET hs PROVE SumFunctionOnSet(f, part) <= SumFunctionOnSet(f, hs)
  <2>1. /\ \A h \in hs : f[h] \in Nat
        /\ \A h \in part : f[h] \in Nat /\ f[h] <= f[h]
    BY <1>2, <1>4
  <2> QED
    BY <1>4, <1>5, <2>1, SumMonotone
<1>8. ASSUME NEW h \in H \ hs
      PROVE  SumFunctionOnSet(f, hs \cup {h}) = SumFunctionOnSet(f, hs) + f[h]
  <2>1. \A k \in hs \cup {h} : f[k] \in Int
    BY <1>2, <1>4
  <2>2. SumFunctionOnSet(f, hs \cup {h}) = f[h] + SumFunctionOnSet(f, hs)
    BY <1>4, <1>5, <2>1, SumAdd
  <2>3. f[h] \in Int
    BY <1>2
  <2> QED
    BY <1>6, <2>2, <2>3
<1> QED
  BY <1>2, <1>3, <1>6, <1>7, <1>8 DEF H

\* On a chain that agrees with `c` up to `hs` it is what rewardsAt adds up.
LEMMA RewardsArePaid ==
  ASSUME NEW c \in Seq(Block), NEW d \in Seq(Block), NEW hs \in SUBSET (0 .. Len(d) - 1), NEW a,
         Len(d) <= Len(c), \A i \in 1 .. Len(d) : d[i] = c[i]
  PROVE  rewardsAt(d, hs, a) = Paid(c, hs, a)
<1> DEFINE hits == {h \in hs : d[h + 1].miner = a}
           f == [h \in hits |-> d[h + 1].reward]
           g == [h \in 0 .. Len(c) - 1 |-> Share(a, c[h + 1].miner, c[h + 1].reward)]
<1>1. Len(c) \in Nat /\ Len(d) \in Nat
  BY LenProperties
<1>2. IsFiniteSet(hs) /\ hits \in SUBSET hs
  <2>1. 0 \in Int /\ Len(d) - 1 \in Int
    BY <1>1
  <2>2. IsFiniteSet(0 .. Len(d) - 1)
    BY <2>1, FS_Interval
  <2> QED
    BY <2>2, FS_Subset
<1>3. ASSUME NEW h \in hs
      PROVE  /\ g[h] = Share(a, d[h + 1].miner, d[h + 1].reward)
             /\ d[h + 1].reward \in Int
  <2>1. h \in 0 .. Len(c) - 1 /\ h + 1 \in 1 .. Len(d)
    BY <1>1
  <2>2. d[h + 1] \in Block
    BY <2>1, ElementOfSeq
  <2>3. d[h + 1] = c[h + 1] /\ d[h + 1].reward \in Int
    BY <2>1, <2>2, ChainAssumption
  <2> QED
    BY <2>1, <2>3
<1>4. ASSUME NEW h \in hits PROVE f[h] \in Int /\ g[h] = f[h]
  <2>1. h \in hs /\ a = d[h + 1].miner /\ f[h] = d[h + 1].reward
    OBVIOUS
  <2> HIDE DEF f, g, hits
  <2> QED
    BY <1>3, <2>1, ShareType
<1>5. ASSUME NEW h \in hs \ hits PROVE g[h] = 0
  <2>1. h \in hs /\ a # d[h + 1].miner
    OBVIOUS
  <2> HIDE DEF f, g, hits
  <2> QED
    BY <1>3, <2>1, ShareType
<1>6. rewardsAt(d, hs, a) = SumFunctionOnSet(f, hits)
  BY DEF rewardsAt, SumFunction
<1>7. Paid(c, hs, a) = SumFunctionOnSet(g, hs)
  BY DEF Paid
<1> HIDE DEF f, g, hits
<1> QED
  BY <1>2, <1>4, <1>5, <1>6, <1>7, SumFilter

\* Through a valid body an account keeps what it holds and may not spend.
LEMMA BodyKeeps ==
  ASSUME NEW c \in Seq(Block), NEW n \in Nat, NEW st \in Balances, NEW txs \in Seq(Tx),
         validBody(st, txs, c, n), Held(st) < Word,
         NEW a \in Addr, NEW x \in Nat, x <= st[a].balance, x <= immatureCoinbase(c, n, a)
  PROVE  \A i \in 0 .. Len(txs) : afterTxs(st, txs)[i][a].balance >= x
<1> DEFINE v == afterTxs(st, txs)
           N == Len(txs)
           S == {i \in 0 .. N : v[i][a].balance >= x}
<1>1. N \in Nat /\ \A i \in 1 .. N : txs[i] \in Tx
  BY ElementOfSeq, LenProperties
<1>2. v[0] = st /\ \A i \in 0 .. N : v[i] \in Balances
  BY AfterTxs
<1>3. AllCovered(st, txs)
  BY BodyCovered
<1>4. \A i \in 1 .. N : \/ txs[i].amount + txs[i].fee = 0
                        \/ v[i - 1][txs[i].from].balance - (txs[i].amount + txs[i].fee)
                             >= immatureCoinbase(c, n, txs[i].from)
  BY BodyCovered
<1>5. \A i \in 1 .. N : v[i][a].balance = v[i - 1][a].balance + Net(txs[i], a)
  BY <1>3, BodyExact
<1>6. immatureCoinbase(c, n, a) \in Nat
  BY ImmatureType
<1> HIDE DEF v, N
<1>7. 0 \in S
  BY <1>1, <1>2
<1>8. ASSUME NEW i \in 0 .. N - 1, i \in S PROVE i + 1 \in S
  <2> DEFINE t == txs[i + 1]
             bal == v[i][a].balance
             in  == Share(a, t.to, t.amount)
             out == Share(a, t.from, t.amount + t.fee)
  <2>1. i + 1 \in 1 .. N /\ (i + 1) - 1 = i /\ i \in 0 .. N /\ i + 1 \in 0 .. N
    <3>1. N \in Nat /\ i \in 0 .. N - 1
      BY <1>1
    <3> QED
      BY <3>1
  <2>2. t \in Tx /\ v[i] \in Balances
    BY <1>1, <1>2, <2>1
  <2>3. t.amount \in Nat /\ t.fee \in Nat
    BY <2>2, TxFields
  <2>4. bal \in Nat /\ in \in Nat /\ out \in Nat
    <3>1. bal \in Nat
      BY <2>2, BalanceType
    <3>2. in \in Nat /\ out \in Nat
      BY <2>3 DEF Share
    <3> QED
      BY <3>1, <3>2
  <2>5. v[i + 1][a].balance = bal + (in - out)
    BY <1>5, <2>1 DEF Net
  <2>6. bal >= x
    BY <1>8
  <2>7. out = 0 \/ bal - out >= x
    <3>1. CASE a = t.from
      <4>1. out = t.amount + t.fee
        BY <3>1 DEF Share
      <4>2. t.amount + t.fee = 0 \/ bal - (t.amount + t.fee) >= immatureCoinbase(c, n, a)
        BY <1>4, <2>1, <3>1
      <4> HIDE DEF out, bal, t
      <4> QED
        BY <1>6, <2>4, <4>1, <4>2
    <3>2. CASE a # t.from
      BY <3>2 DEF Share
    <3> QED
      BY <3>1, <3>2
  <2> HIDE DEF bal, in, out, t
  <2>8. v[i + 1][a].balance >= x
    BY <2>4, <2>5, <2>6, <2>7
  <2> QED
    BY <2>1, <2>8
<1>9. 0 .. N \subseteq S
  <2> HIDE DEF S
  <2> QED
    BY <1>1, <1>7, <1>8, CountUp
<1> QED
  BY <1>9 DEF v, N

\* The heights whose rewards a chain of length n protects.
Protected(n) == {h \in n - CoinbaseMaturity .. n - 1 : h >= MaturityHeight}

\* After each block, an account holds what the maturity rule protects.
LEMMA UnspentAlong ==
  ASSUME NEW c, ValidChain(c), NEW a \in Addr
  PROVE  \A n \in 1 .. Len(c) : statesAlong(c)[n][a].balance >= Paid(c, Protected(n), a)
<1> DEFINE S == {k \in 0 .. Len(c) - 1 : statesAlong(c)[k + 1][a].balance >= Paid(c, Protected(k + 1), a)}
<1>1. c \in Seq(Block) /\ Len(c) \in Nat \ {0} /\ Len(c) - 1 \in Nat /\ c[1] = Genesis
  BY EmptySeq DEF ValidChain
<1>2. CoinbaseMaturity \in Nat \ {0} /\ MaturityHeight \in Nat /\ Word \in Nat
  BY LedgerAssumption
<1>3. ASSUME NEW n \in 1 .. Len(c) PROVE Protected(n) \in SUBSET (0 .. Len(c) - 1)
  BY <1>1, <1>2 DEF Protected
<1>4. 0 \in S
  <2>1. statesAlong(c)[1][a].balance = 0
    BY GenesisIsEmpty
  <2>2. Paid(c, Protected(1), a) = 0
    <3>1. 0 \in (0 .. Len(c) - 1) \ {} /\ {} \in SUBSET (0 .. Len(c) - 1) /\ 0 + 1 = 1
      BY <1>1
    <3>2. Paid(c, {}, a) = 0
      BY SumEmpty DEF Paid
    <3>3. Paid(c, {} \cup {0}, a) = Paid(c, {}, a) + Share(a, c[0 + 1].miner, c[0 + 1].reward)
      BY <1>1, <3>1, PaidGrows
    <3>4. Share(a, c[0 + 1].miner, c[0 + 1].reward) = 0
      BY <1>1, <3>1, ChainAssumption DEF Share
    <3>5. {} \cup {0} = {0}
      OBVIOUS
    <3>6. Paid(c, {0}, a) = 0
      BY <3>2, <3>3, <3>4, <3>5
    <3>7. Protected(1) = {} \/ Protected(1) = {0}
      <4>1. Protected(1) \subseteq {0}
        BY <1>2 DEF Protected
      <4> QED
        BY <4>1
    <3> QED
      BY <3>2, <3>6, <3>7
  <2>3. 0 \in 0 .. Len(c) - 1 /\ 0 + 1 = 1
    BY <1>1
  <2> QED
    BY <2>1, <2>2, <2>3
<1>5. ASSUME NEW k \in 0 .. (Len(c) - 1) - 1, k \in S PROVE k + 1 \in S
  <2> DEFINE n == k + 1
             st == statesAlong(c)[n]
             b == c[n + 1]
             below == SubSeq(c, 1, n)
             H == {h \in n + 1 - CoinbaseMaturity .. n - 1 : h >= MaturityHeight}
             x == Paid(c, H, a)
             last == afterTxs(st, b.txs)[Len(b.txs)]
  <2>1. /\ n \in 1 .. Len(c) - 1 /\ n \in 1 .. Len(c) /\ n + 1 \in 1 .. Len(c) /\ n \in Nat
        /\ n \in 0 .. Len(c) - 1 /\ n < Len(c)
    BY <1>1
  <2>2. st[a].balance >= Paid(c, Protected(n), a)
    BY <1>5
  <2> HIDE DEF n
  <2>3. BlockOf(c, n)
    BY <2>1, HeldAlong, KnownBlock
  <2>4. /\ st \in Balances /\ b \in Block /\ validBody(st, b.txs, below, n)
        /\ AllCovered(st, b.txs) /\ Held(st) + BlockSubsidy(n) < Word
        /\ b.reward = CoinbaseAmount(n, b.txs)
        /\ statesAlong(c)[n + 1] = applyBlockToState(st, b)
    BY <2>3 DEF BlockOf
  <2>5. Held(st) < Word
    <3>1. Held(st) \in Nat
      BY <2>4, HeldType
    <3>2. BlockSubsidy(n) \in Nat
      BY <2>1, SubsidyType
    <3> QED
      BY <1>2, <2>4, <3>1, <3>2
  <2>6. statesAlong(c)[n + 1][a].balance = last[a].balance + Share(a, b.miner, b.reward)
    BY <2>1, <2>4, BlockExact
  <2>7. /\ below \in Seq(Block) /\ Len(below) = n
        /\ \A i \in 1 .. n : below[i] = c[i]
    BY <1>1, <2>1, PrefixOfChain
  <2>8. b.txs \in Seq(Tx) /\ Len(b.txs) \in 0 .. Len(b.txs) /\ b.reward \in Nat
    BY <2>4, ChainAssumption, LenProperties
  <2> HIDE DEF st, b, below
  <2>9. last \in Balances
    BY <2>4, <2>8, AfterTxs
  <2>10. statesAlong(c)[n + 1][a].balance \in Nat
    <3>1. statesAlong(c)[n + 1] \in Balances
      <4>1. n + 1 \in 0 .. Len(c)
        BY <1>1, <2>1
      <4> QED
        BY <1>1, <4>1, StatesAlong
    <3> QED
      BY <3>1, BalanceType
  <2>11. CASE n < MaturityHeight
    <3>1. Protected(n + 1) = {}
      BY <1>2, <2>1, <2>11 DEF Protected
    <3>2. Paid(c, {}, a) = 0
      BY SumEmpty DEF Paid
    <3>3. statesAlong(c)[n + 1][a].balance >= Paid(c, Protected(n + 1), a)
      <4> DEFINE bal == statesAlong(c)[n + 1][a].balance
      <4>1. bal \in Nat
        BY <2>10
      <4> HIDE DEF bal
      <4>2. bal >= 0
        BY <4>1
      <4> QED
        BY <3>1, <3>2, <4>2 DEF bal
    <3> QED
      BY <2>1, <3>3 DEF n
  <2>12. CASE n >= MaturityHeight
    <3>1. /\ H \in SUBSET (0 .. n - 1) /\ H \in SUBSET (0 .. Len(c) - 1)
          /\ H \in SUBSET Protected(n) /\ n \notin H
          /\ Protected(n + 1) = H \cup {n}
      BY <1>1, <1>2, <2>1, <2>12 DEF Protected
    <3>2. H \in SUBSET ImmatureHeights(below, n)
      <4> SUFFICES ASSUME NEW h \in H PROVE h \in ImmatureHeights(below, n)
        OBVIOUS
      <4>1. Len(below) = n /\ CoinbaseMaturity \in Nat
        BY <1>2, <2>1, <2>7
      <4>2. h \in 0 .. n - 1 /\ h >= n + 1 - CoinbaseMaturity
        BY <3>1
      <4> HIDE DEF H, below
      <4> QED
        BY <2>1, <4>1, <4>2 DEF ImmatureHeights
    <3> HIDE DEF H
    <3>3. x \in Nat /\ x <= Paid(c, Protected(n), a)
      BY <1>1, <1>3, <2>1, <3>1, PaidGrows
    <3>4. x <= immatureCoinbase(below, n, a)
      <4>1. /\ ImmatureHeights(below, n) \in SUBSET (0 .. Len(below) - 1)
            /\ immatureCoinbase(below, n, a) = rewardsAt(below, ImmatureHeights(below, n), a)
        BY <2>1, <2>7, <2>12, ImmatureType
      <4>2. rewardsAt(below, ImmatureHeights(below, n), a) = Paid(c, ImmatureHeights(below, n), a)
        BY <1>1, <2>1, <2>7, <4>1, RewardsArePaid
      <4>3. ImmatureHeights(below, n) \in SUBSET (0 .. Len(c) - 1)
        BY <1>1, <2>1, <2>7, <4>1
      <4>4. x <= Paid(c, ImmatureHeights(below, n), a)
        BY <1>1, <3>2, <4>3, PaidGrows
      <4> QED
        BY <4>1, <4>2, <4>4
    <3>5. x <= st[a].balance
      <4>1. Paid(c, Protected(n), a) \in Nat /\ st[a].balance \in Nat
        BY <1>1, <1>3, <2>1, <2>4, PaidGrows, BalanceType
      <4> HIDE DEF x
      <4> QED
        BY <2>2, <3>3, <4>1 DEF st
    <3> HIDE DEF x, last
    <3>6. last[a].balance >= x
      BY <2>1, <2>4, <2>5, <2>7, <2>8, <3>3, <3>4, <3>5, BodyKeeps DEF last
    <3>7. Paid(c, Protected(n + 1), a) = x + Share(a, b.miner, b.reward)
      <4>1. n \in (0 .. Len(c) - 1) \ H
        BY <2>1, <3>1
      <4> QED
        <5>1. Paid(c, H \cup {n}, a) = Paid(c, H, a) + Share(a, c[n + 1].miner, c[n + 1].reward)
          BY <1>1, <3>1, <4>1, PaidGrows
        <5> QED
          BY <3>1, <5>1 DEF x, b
    <3>8. statesAlong(c)[n + 1][a].balance >= Paid(c, Protected(n + 1), a)
      <4>1. last[a].balance \in Nat /\ Share(a, b.miner, b.reward) \in Nat
        BY <2>8, <2>9, BalanceType DEF Share
      <4> QED
        BY <2>6, <3>3, <3>6, <3>7, <4>1
    <3> QED
      BY <2>1, <3>8 DEF n
  <2> QED
    BY <1>2, <2>1, <2>11, <2>12
<1>6. 0 .. Len(c) - 1 \subseteq S
  <2> HIDE DEF S
  <2> QED
    BY <1>1, <1>4, <1>5, CountUp
<1> SUFFICES ASSUME NEW n \in 1 .. Len(c)
             PROVE  statesAlong(c)[n][a].balance >= Paid(c, Protected(n), a)
  OBVIOUS
<1>7. n - 1 \in 0 .. Len(c) - 1 /\ (n - 1) + 1 = n
  BY <1>1
<1>8. n - 1 \in S
  BY <1>6, <1>7
<1> QED
  BY <1>7, <1>8

\* No reward that the maturity rule protects has been spent, whatever blocks
\* and reorgs came: an account holds all it was paid in the last
\* CoinbaseMaturity blocks.
THEOREM MaturitySafety == Spec => []ImmatureRewardsUnspent
<1>1. SoundInv => ImmatureRewardsUnspent
  <2> SUFFICES ASSUME SoundInv, NEW a \in Addr
               PROVE  state[a].balance >= rewardsAt(blocks, Protected(Len(blocks)), a)
    BY DEF ImmatureRewardsUnspent, Protected
  <2> DEFINE N == Len(blocks)
  <2>1. /\ ValidChain(blocks) /\ blocks \in Seq(Block) /\ N \in Nat \ {0} /\ N \in 1 .. N
        /\ state = statesAlong(blocks)[N]
    <3>1. ValidChain(blocks) /\ blocks \in Seq(Block) /\ blocks # <<>>
      BY DEF SoundInv, ValidChain
    <3>2. state = statesAlong(blocks)[N]
      BY DEF SoundInv, NodeInv, EngineInv, DerivedIsReplay, stateOf
    <3> QED
      BY <3>1, <3>2, LenProperties, EmptySeq
  <2>2. Protected(N) \in SUBSET (0 .. N - 1)
    BY <2>1, LedgerAssumption DEF Protected
  <2>3. rewardsAt(blocks, Protected(N), a) = Paid(blocks, Protected(N), a)
    BY <2>1, <2>2, RewardsArePaid
  <2> QED
    BY <2>1, <2>3, UnspentAlong
<1> QED
  BY <1>1, SoundInvariant, PTL

\* What ReversedRewardsUnspent says of one step.
ReversedUnspent ==
  LET reversed == {h \in Len(blocks) - discarded .. Len(blocks) - 1 : h >= MaturityHeight}
  IN  \A a \in Addr : state[a].balance >= rewardsAt(blocks, reversed, a)

\* A step throws away no more than the depth limit allows.
LEMMA DiscardedLimited ==
  ASSUME MaxReorgDepth > 0, NodeInv, [Next]_vars
  PROVE  discarded \in 0 .. MaxReorgDepth
<1>1. MaxReorgDepth \in Nat /\ blocks \in Seq(Block) /\ Len(blocks) \in Nat
  BY ChainAssumption, LenProperties DEF NodeInv, ChainInv
<1>2. ASSUME NEW c, NEW kept, MovesTo(c, kept) PROVE discarded \in 0 .. MaxReorgDepth
  <2>1. discarded \in Nat /\ discarded <= Len(blocks) - kept
    BY <1>2, Discarded
  <2>2. Len(blocks) - kept <= MaxReorgDepth /\ kept \in Int
    BY <1>2 DEF MovesTo
  <2> QED
    BY <1>1, <2>1, <2>2
<1>3. ASSUME blocks' = blocks PROVE discarded \in 0 .. MaxReorgDepth
  <2>1. {n \in 1 .. Len(blocks) : n > Len(blocks') \/ SubSeq(blocks', 1, n) # SubSeq(blocks, 1, n)} = {}
    BY <1>1, <1>3
  <2>2. discarded = 0
    BY <2>1, FS_EmptySet DEF discarded
  <2> QED
    BY <1>1, <2>2
<1>4. ASSUME NEW cp \in Signed, ApplyCheckpoint(cp, "ok") PROVE blocks' = blocks
  BY <1>4 DEF ApplyCheckpoint
<1> QED
  BY <1>2, <1>3, <1>4, Steps

\* With a depth limit of at most the maturity, a node never reverses a reward
\* that has been spent.
THEOREM ReversalSafety ==
  ASSUME MaxReorgDepth \in 1 .. CoinbaseMaturity
  PROVE  Spec => ReversedRewardsUnspent
<1>1. SoundInv /\ [Next]_vars => ReversedUnspent
  <2> SUFFICES ASSUME SoundInv, [Next]_vars, NEW a \in Addr
               PROVE  LET reversed == {h \in Len(blocks) - discarded .. Len(blocks) - 1 : h >= MaturityHeight}
                      IN  state[a].balance >= rewardsAt(blocks, reversed, a)
    BY DEF ReversedUnspent
  <2> DEFINE N == Len(blocks)
             reversed == {h \in N - discarded .. N - 1 : h >= MaturityHeight}
  <2>1. /\ ValidChain(blocks) /\ blocks \in Seq(Block) /\ N \in Nat \ {0} /\ N \in 1 .. N
        /\ state = statesAlong(blocks)[N] /\ NodeInv
    <3>1. ValidChain(blocks) /\ blocks \in Seq(Block) /\ blocks # <<>> /\ NodeInv
      BY DEF SoundInv, ValidChain
    <3>2. state = statesAlong(blocks)[N]
      BY <3>1 DEF NodeInv, EngineInv, DerivedIsReplay, stateOf
    <3> QED
      BY <3>1, <3>2, LenProperties, EmptySeq
  <2>2. CoinbaseMaturity \in Nat /\ MaxReorgDepth \in Nat /\ MaturityHeight \in Nat
        /\ MaxReorgDepth > 0 /\ MaxReorgDepth <= CoinbaseMaturity
    BY LedgerAssumption, ChainAssumption
  <2>3. discarded \in 0 .. MaxReorgDepth
    BY <2>1, <2>2, DiscardedLimited
  <2>4. Protected(N) \in SUBSET (0 .. N - 1) /\ reversed \in SUBSET Protected(N)
    BY <2>1, <2>2, <2>3 DEF Protected
  <2> HIDE DEF reversed
  <2>5. rewardsAt(blocks, reversed, a) = Paid(blocks, reversed, a)
    BY <2>1, <2>4, RewardsArePaid
  <2>6. Paid(blocks, reversed, a) <= Paid(blocks, Protected(N), a)
        /\ Paid(blocks, reversed, a) \in Nat /\ Paid(blocks, Protected(N), a) \in Nat
    BY <2>1, <2>4, PaidGrows
  <2>7. state[a].balance >= Paid(blocks, Protected(N), a)
    BY <2>1, UnspentAlong
  <2>8. state[a].balance \in Nat
    <3>1. N \in 0 .. N
      BY <2>1
    <3>2. state \in Balances
      BY <2>1, <3>1, StatesAlong
    <3> QED
      BY <3>2, BalanceType
  <2>9. state[a].balance >= rewardsAt(blocks, reversed, a)
    BY <2>5, <2>6, <2>7, <2>8
  <2> QED
    BY <2>9 DEF reversed
<1>2. Spec => [][ReversedUnspent]_vars
  BY <1>1, SoundInvariant, PTL DEF Spec
<1> QED
  BY <1>2 DEF ReversedRewardsUnspent, ReversedUnspent

-----------------------------------------------------------------------------
(***************************************************************************)
(* What the explorer shows.                                                *)
(***************************************************************************)

\* Received less sent.
Due(tot, a) == tot[a].received - tot[a].sent

\* What `t` moves from `a` to itself.
SelfPaid(t, a) == IF t.from = a /\ t.to = a THEN t.amount ELSE 0

SelfPaidIn(txs, n, a) == SumFunctionOnSet([i \in DOMAIN txs |-> SelfPaid(txs[i], a)], 1 .. n)

\* The same over all of a body, as TotalsExplainBalances writes it.
ToItself(a, b) ==
  SumFunction([i \in {i \in DOMAIN b.txs : b.txs[i].from = a /\ b.txs[i].to = a} |-> b.txs[i].amount])

\* Totals are numbers.
LEMMA DueType ==
  ASSUME NEW tot \in Totals, NEW a \in Addr
  PROVE  tot[a].received \in Nat /\ tot[a].sent \in Nat /\ Due(tot, a) \in Int
BY DEF Totals, Due

\* What a transaction does to received less sent is what it does to the
\* balance, less what the sender paid to itself.
LEMMA TotalTxEffect ==
  ASSUME NEW tot \in Totals, NEW t \in Tx, NEW a \in Addr
  PROVE  Due(totalTx(tot, t), a) = Due(tot, a) + Net(t, a) - SelfPaid(t, a)
<1> DEFINE paid == [tot EXCEPT ![t.from].sent = @ + t.amount + t.fee, ![t.from].txn = @ + 1]
           full == [paid EXCEPT ![t.to].received = @ + t.amount, ![t.to].txn = @ + 1]
<1>1. t.from \in Addr /\ t.to \in Addr /\ t.amount \in Nat /\ t.fee \in Nat
  BY TxFields
<1>2. tot[a].received \in Nat /\ tot[a].sent \in Nat
  BY DueType
<1>3. paid \in Totals
  BY <1>1 DEF Totals
<1>4. /\ paid[a].received = tot[a].received
      /\ paid[a].sent = tot[a].sent + Share(a, t.from, t.amount + t.fee)
  <2>1. CASE a = t.from
    BY <1>1, <2>1 DEF Totals, Share
  <2>2. CASE a # t.from
    BY <1>1, <1>2, <2>2 DEF Totals, Share
  <2> QED
    BY <2>1, <2>2
<1>5. totalTx(tot, t) = IF t.to = t.from THEN paid ELSE full
  BY DEF totalTx
<1> DEFINE in  == Share(a, t.to, t.amount)
           out == Share(a, t.from, t.amount + t.fee)
<1>6. in \in Nat /\ out \in Nat /\ Net(t, a) = in - out
  BY <1>1 DEF Net, Share
<1>7. CASE t.to = t.from
  <2>1. SelfPaid(t, a) = in
    BY <1>1, <1>7 DEF SelfPaid, Share
  <2>2. totalTx(tot, t) = paid
    BY <1>5, <1>7
  <2> HIDE DEF paid, in, out
  <2>3. Due(totalTx(tot, t), a) = tot[a].received - (tot[a].sent + out)
    BY <1>4, <2>2 DEF Due, out
  <2> QED
    BY <1>2, <1>6, <2>1, <2>3 DEF Due
<1>8. CASE t.to # t.from
  <2>1. SelfPaid(t, a) = 0
    BY <1>8 DEF SelfPaid
  <2>2. totalTx(tot, t) = full
    BY <1>5, <1>8
  <2> HIDE DEF paid
  <2>3. full[a].received = paid[a].received + in /\ full[a].sent = paid[a].sent
    <3>1. paid[a].received \in Nat
      BY <1>3, DueType
    <3>2. CASE a = t.to
      BY <1>1, <1>3, <3>2 DEF Totals, Share
    <3>3. CASE a # t.to
      BY <1>1, <1>3, <3>1, <3>3 DEF Totals, Share
    <3> QED
      BY <3>2, <3>3
  <2> HIDE DEF full, in, out
  <2>4. Due(totalTx(tot, t), a) = (tot[a].received + in) - (tot[a].sent + out)
    BY <1>4, <2>2, <2>3 DEF Due, out
  <2> QED
    BY <1>2, <1>6, <2>1, <2>4 DEF Due
<1> QED
  BY <1>7, <1>8

\* Payments to oneself, one after the other and at once.
LEMMA SelfPaidGrows ==
  ASSUME NEW txs \in Seq(Tx), NEW a \in Addr
  PROVE  /\ SelfPaidIn(txs, 0, a) = 0
         /\ \A n \in 0 .. Len(txs) : SelfPaidIn(txs, n, a) \in Int
         /\ \A n \in 0 .. Len(txs) - 1 :
              SelfPaidIn(txs, n + 1, a) = SelfPaidIn(txs, n, a) + SelfPaid(txs[n + 1], a)
         /\ \A b : b.txs = txs => ToItself(a, b) = SelfPaidIn(txs, Len(txs), a)
<1> DEFINE f == [i \in DOMAIN txs |-> SelfPaid(txs[i], a)]
           own == {i \in DOMAIN txs : txs[i].from = a /\ txs[i].to = a}
           g == [i \in own |-> txs[i].amount]
<1>1. Len(txs) \in Nat /\ DOMAIN txs = 1 .. Len(txs) /\ \A i \in 1 .. Len(txs) : txs[i] \in Tx
  BY ElementOfSeq, LenProperties
<1>2. ASSUME NEW i \in 1 .. Len(txs)
      PROVE  f[i] = SelfPaid(txs[i], a) /\ f[i] \in Int /\ txs[i].amount \in Int
  <2>1. txs[i].amount \in Nat
    BY <1>1, TxFields
  <2> QED
    BY <1>1, <2>1 DEF SelfPaid
<1>3. \A n : SelfPaidIn(txs, n, a) = SumFunctionOnSet(f, 1 .. n)
  BY DEF SelfPaidIn
<1>4. own \in SUBSET (1 .. Len(txs)) /\ IsFiniteSet(1 .. Len(txs))
  <2>1. 1 \in Int /\ Len(txs) \in Int
    BY <1>1
  <2> QED
    BY <1>1, <2>1, FS_Interval
<1>5. ASSUME NEW i \in own PROVE g[i] \in Int /\ f[i] = g[i]
  <2>1. i \in 1 .. Len(txs) /\ txs[i].from = a /\ txs[i].to = a
    BY <1>1
  <2> QED
    BY <1>2, <2>1 DEF SelfPaid
<1>6. ASSUME NEW i \in (1 .. Len(txs)) \ own PROVE f[i] = 0
  BY <1>1, <1>2 DEF SelfPaid
<1>7. \A b : b.txs = txs => ToItself(a, b) = SumFunctionOnSet(g, own)
  BY DEF ToItself, SumFunction
<1> HIDE DEF f, g, own
<1>8. SumFunctionOnSet(f, 1 .. Len(txs)) = SumFunctionOnSet(g, own)
  <2> DEFINE all == 1 .. Len(txs)
  <2>1. IsFiniteSet(all) /\ own \in SUBSET all
    BY <1>4
  <2>2. \A i \in own : g[i] \in Int /\ f[i] = g[i]
    BY <1>5
  <2>3. \A i \in all \ own : f[i] = 0
    BY <1>6
  <2> HIDE DEF all
  <2>4. SumFunctionOnSet(f, all) = SumFunctionOnSet(g, own)
    BY <2>1, <2>2, <2>3, SumFilter
  <2> QED
    BY <2>4 DEF all
<1>9. SelfPaidIn(txs, 0, a) = 0
  <2>1. 1 .. 0 = {}
    OBVIOUS
  <2> QED
    BY <1>3, <2>1, SumEmpty
<1>10. ASSUME NEW n \in 0 .. Len(txs) PROVE SelfPaidIn(txs, n, a) \in Int
  <2>1. \A i \in 1 .. n : f[i] \in Int /\ f[i] = f[i]
    BY <1>1, <1>2
  <2>2. IsFiniteSet(1 .. n)
    BY <1>1, FS_Interval
  <2> QED
    BY <1>3, <2>1, <2>2, SumSame
<1>11. ASSUME NEW n \in 0 .. Len(txs) - 1
       PROVE  SelfPaidIn(txs, n + 1, a) = SelfPaidIn(txs, n, a) + SelfPaid(txs[n + 1], a)
  <2>1. n \in Nat /\ n + 1 \in 1 .. Len(txs) /\ \A i \in 1 .. n + 1 : f[i] \in Int
    BY <1>1, <1>2
  <2>2. SumFunctionOnSet(f, 1 .. n + 1) = SumFunctionOnSet(f, 1 .. n) + f[n + 1]
    BY <2>1, SumNext
  <2> QED
    BY <1>2, <1>3, <2>1, <2>2
<1> QED
  BY <1>3, <1>7, <1>8, <1>9, <1>10, <1>11

\* Through a body, balances and totals move alike.
LEMMA BodyExplained ==
  ASSUME NEW st \in Balances, NEW tot \in Totals, NEW txs \in Seq(Tx),
         AllCovered(st, txs), Held(st) < Word, NEW a \in Addr
  PROVE  afterTxs(st, txs)[Len(txs)][a].balance - st[a].balance
           = Due(totalsAfterTxs(tot, txs)[Len(txs)], a) - Due(tot, a) + SelfPaidIn(txs, Len(txs), a)
<1> DEFINE v == afterTxs(st, txs)
           w == totalsAfterTxs(tot, txs)
           N == Len(txs)
           self(n) == SelfPaidIn(txs, n, a)
           S == {n \in 0 .. N : v[n][a].balance - st[a].balance = Due(w[n], a) - Due(tot, a) + self(n)}
<1>1. N \in Nat /\ \A i \in 1 .. N : txs[i] \in Tx
  BY ElementOfSeq, LenProperties
<1>2. v[0] = st /\ \A i \in 0 .. N : v[i] \in Balances
  BY AfterTxs
<1>3. /\ w[0] = tot /\ \A i \in 0 .. N : w[i] \in Totals
      /\ \A i \in 1 .. N : w[i] = totalTx(w[i - 1], txs[i])
  BY TotalsAfterTxs
<1>4. \A n \in 1 .. N : v[n][a].balance = v[n - 1][a].balance + Net(txs[n], a)
  BY BodyExact
<1>5. /\ self(0) = 0
      /\ \A n \in 0 .. N : self(n) \in Int
      /\ \A n \in 0 .. N - 1 : self(n + 1) = self(n) + SelfPaid(txs[n + 1], a)
  BY SelfPaidGrows
<1>6. st[a].balance \in Nat
  BY BalanceType
<1>7. Due(tot, a) \in Int
  BY DueType
<1> HIDE DEF v, w, N, self
<1>8. 0 \in S
  BY <1>1, <1>2, <1>3, <1>5, <1>6, <1>7
<1>9. ASSUME NEW n \in 0 .. N - 1, n \in S PROVE n + 1 \in S
  <2> DEFINE t == txs[n + 1]
             bal0 == st[a].balance
             due0 == Due(tot, a)
             bal == v[n][a].balance
             due == Due(w[n], a)
             net == Net(t, a)
             own == SelfPaid(t, a)
  <2>1. n + 1 \in 1 .. N /\ (n + 1) - 1 = n /\ n \in 0 .. N /\ n + 1 \in 0 .. N
    <3>1. N \in Nat
      BY <1>1
    <3> QED
      BY <3>1
  <2>2. t \in Tx /\ w[n] \in Totals /\ v[n] \in Balances
    BY <1>1, <1>2, <1>3, <2>1
  <2>3. v[n + 1][a].balance = bal + net
    BY <1>4, <2>1
  <2>4. Due(w[n + 1], a) = due + net - own
    <3>1. w[n + 1] = totalTx(w[n], t)
      BY <1>3, <2>1
    <3> HIDE DEF t
    <3> QED
      BY <2>2, <3>1, TotalTxEffect
  <2>5. self(n + 1) = self(n) + own /\ self(n) \in Int
    BY <1>5, <2>1
  <2>6. bal - bal0 = due - due0 + self(n)
    BY <1>9
  <2>7. bal \in Nat
    BY <2>2, BalanceType
  <2>8. due \in Int
    BY <2>2, DueType
  <2>9. net \in Int
    BY <2>2, TxFields
  <2>10. own \in Int
    BY <2>2, TxFields DEF SelfPaid
  <2>11. bal0 \in Nat /\ due0 \in Int
    BY <1>6, <1>7
  <2> HIDE DEF t, bal, due, net, own, bal0, due0
  <2>12. (bal + net) - bal0 = (due + net - own) - due0 + (self(n) + own)
    BY <2>5, <2>6, <2>7, <2>8, <2>9, <2>10, <2>11
  <2>13. v[n + 1][a].balance - bal0 = Due(w[n + 1], a) - due0 + self(n + 1)
    BY <2>3, <2>4, <2>5, <2>12
  <2> QED
    BY <2>1, <2>13 DEF bal0, due0
<1> HIDE DEF S
<1>10. 0 .. N \subseteq S
  BY <1>1, <1>8, <1>9, CountUp
<1>11. N \in S
  BY <1>1, <1>10
<1> QED
  BY <1>11 DEF S, v, w, N, self

\* Over a block, balances and totals move alike.
LEMMA BlockExplained ==
  ASSUME NEW st \in Balances, NEW tot \in Totals, NEW b \in Block,
         AllCovered(st, b.txs), Held(st) < Word, NEW a \in Addr,
         applyBlockToState(st, b)[a].balance
           = afterTxs(st, b.txs)[Len(b.txs)][a].balance + Share(a, b.miner, b.reward)
  PROVE  applyBlockToState(st, b)[a].balance - st[a].balance
           = Due(applyBlockToTotals(tot, b), a) - Due(tot, a) + ToItself(a, b)
<1> DEFINE paid == MinerPaid(tot, b)
           N == Len(b.txs)
           gain == Share(a, b.miner, b.reward)
           before == st[a].balance
           last == afterTxs(st, b.txs)[N][a].balance
           due == Due(tot, a)
           newDue == Due(applyBlockToTotals(tot, b), a)
           self == ToItself(a, b)
<1>1. b.miner \in Addr /\ b.reward \in Nat /\ b.txs \in Seq(Tx) /\ N \in 0 .. N
  BY ChainAssumption, LenProperties
<1>2. tot[a].received \in Nat /\ tot[a].sent \in Nat /\ due \in Int
  BY DueType
<1>3. paid \in Totals
  BY MinerPaidType
<1>4. Due(paid, a) = due + gain /\ gain \in Nat
  <2>1. gain \in Nat
    BY <1>1 DEF Share
  <2>2. paid[a].received = tot[a].received + gain /\ paid[a].sent = tot[a].sent
    <3>1. CASE a = b.miner
      BY <1>1, <3>1 DEF MinerPaid, Totals, Share
    <3>2. CASE a # b.miner
      BY <1>1, <1>2, <3>2 DEF MinerPaid, Totals, Share
    <3> QED
      BY <3>1, <3>2
  <2> HIDE DEF paid, gain
  <2> QED
    BY <1>2, <2>1, <2>2 DEF Due
<1>5. applyBlockToTotals(tot, b) = totalsAfterTxs(paid, b.txs)[N]
  BY DEF applyBlockToTotals, MinerPaid
<1>6. self = SelfPaidIn(b.txs, N, a) /\ self \in Int
  BY <1>1, SelfPaidGrows
<1>7. last \in Nat /\ before \in Nat
  <2>1. afterTxs(st, b.txs)[N] \in Balances
    BY <1>1, AfterTxs
  <2> QED
    BY <2>1, BalanceType
<1>8. newDue \in Int
  <2>1. totalsAfterTxs(paid, b.txs)[N] \in Totals
    BY <1>1, <1>3, TotalsAfterTxs
  <2> QED
    BY <1>5, <2>1, DueType
<1>9. last - before = newDue - Due(paid, a) + self
  <2> HIDE DEF paid
  <2> QED
    BY <1>1, <1>3, <1>5, <1>6, BodyExplained
<1>10. applyBlockToState(st, b)[a].balance = last + gain
  OBVIOUS
<1> HIDE DEF paid, gain, before, last, due, newDue, self
<1>11. (last + gain) - before = newDue - due + self
  BY <1>2, <1>4, <1>6, <1>7, <1>8, <1>9
<1> QED
  BY <1>10, <1>11 DEF before, due, newDue, self

\* The payments to itself of an account along a chain.
SelfAlong(c, n, a) == SumFunctionOnSet([k \in DOMAIN c |-> ToItself(a, c[k])], 1 .. n)

\* They grow block by block.
LEMMA SelfAlongGrows ==
  ASSUME NEW c \in Seq(Block), NEW a \in Addr
  PROVE  /\ SelfAlong(c, 0, a) = 0
         /\ \A n \in 1 .. Len(c) : /\ SelfAlong(c, n, a) = SelfAlong(c, n - 1, a) + ToItself(a, c[n])
                                   /\ SelfAlong(c, n - 1, a) \in Int /\ ToItself(a, c[n]) \in Int
<1> DEFINE f == [k \in DOMAIN c |-> ToItself(a, c[k])]
<1>1. Len(c) \in Nat /\ DOMAIN c = 1 .. Len(c) /\ \A k \in 1 .. Len(c) : c[k] \in Block
  BY ElementOfSeq, LenProperties
<1>2. ASSUME NEW k \in 1 .. Len(c) PROVE f[k] = ToItself(a, c[k]) /\ f[k] \in Int
  <2>1. c[k].txs \in Seq(Tx)
    BY <1>1, ChainAssumption
  <2>2. Len(c[k].txs) \in 0 .. Len(c[k].txs)
    BY <2>1, LenProperties
  <2>3. ToItself(a, c[k]) \in Int
    BY <2>1, <2>2, SelfPaidGrows
  <2> QED
    BY <1>1, <2>3
<1>3. \A n : SelfAlong(c, n, a) = SumFunctionOnSet(f, 1 .. n)
  BY DEF SelfAlong
<1> HIDE DEF f
<1>4. SelfAlong(c, 0, a) = 0
  <2>1. 1 .. 0 = {}
    OBVIOUS
  <2> QED
    BY <1>3, <2>1, SumEmpty
<1>5. ASSUME NEW n \in 1 .. Len(c)
      PROVE  /\ SelfAlong(c, n, a) = SelfAlong(c, n - 1, a) + ToItself(a, c[n])
             /\ SelfAlong(c, n - 1, a) \in Int /\ ToItself(a, c[n]) \in Int
  <2> DEFINE m == n - 1
  <2>1. m \in Nat /\ m + 1 = n /\ \A i \in 1 .. m + 1 : f[i] \in Int
    BY <1>1, <1>2
  <2> HIDE DEF m
  <2>2. SumFunctionOnSet(f, 1 .. m + 1) = SumFunctionOnSet(f, 1 .. m) + f[m + 1]
        /\ SumFunctionOnSet(f, 1 .. m) \in Int
    BY <2>1, SumNext
  <2> QED
    BY <1>2, <1>3, <2>1, <2>2 DEF m
<1> QED
  BY <1>4, <1>5

\* Along a chain, the totals explain the balances.
LEMMA ExplainedAlong ==
  ASSUME NEW c, ValidChain(c), NEW a \in Addr
  PROVE  \A n \in 0 .. Len(c) :
           statesAlong(c)[n][a].balance = Due(totalsAlong(c)[n], a) + SelfAlong(c, n, a)
<1> DEFINE S == {n \in 0 .. Len(c) : statesAlong(c)[n][a].balance = Due(totalsAlong(c)[n], a) + SelfAlong(c, n, a)}
<1>1. c \in Seq(Block) /\ Len(c) \in Nat \ {0} /\ c[1] = Genesis
  BY EmptySeq DEF ValidChain
<1>2. 0 \in S
  <2>1. statesAlong(c)[0] = NoAccounts /\ totalsAlong(c)[0] = NoTotals
    BY <1>1, StatesAlong, TotalsAlong
  <2>2. NoAccounts[a].balance = 0 /\ Due(NoTotals, a) = 0
    BY DEF NoAccounts, NoTotals, Due
  <2>3. SelfAlong(c, 0, a) = 0
    BY <1>1, SelfAlongGrows
  <2>4. 0 \in 0 .. Len(c)
    BY <1>1
  <2> QED
    BY <2>1, <2>2, <2>3, <2>4
<1>3. ASSUME NEW n \in 0 .. Len(c) - 1, n \in S PROVE n + 1 \in S
  <2> DEFINE st == statesAlong(c)[n]
             tot == totalsAlong(c)[n]
             b == c[n + 1]
             old == st[a].balance
             new == applyBlockToState(st, b)[a].balance
             due == Due(tot, a)
             newDue == Due(applyBlockToTotals(tot, b), a)
             self == SelfAlong(c, n, a)
             own == ToItself(a, b)
  <2>1. n + 1 \in 1 .. Len(c) /\ (n + 1) - 1 = n /\ n \in 0 .. Len(c) /\ n + 1 \in 0 .. Len(c)
    <3>1. Len(c) \in Nat
      BY <1>1
    <3> QED
      BY <3>1
  <2>2. st \in Balances /\ tot \in Totals /\ b \in Block
    BY <1>1, <2>1, StatesAlong, TotalsAlong, ElementOfSeq
  <2>3. statesAlong(c)[n + 1] = applyBlockToState(st, b) /\ totalsAlong(c)[n + 1] = applyBlockToTotals(tot, b)
    BY <1>1, <2>1, StatesAlong, TotalsAlong
  <2>4. /\ AllCovered(st, b.txs) /\ Held(st) < Word
        /\ new = afterTxs(st, b.txs)[Len(b.txs)][a].balance + Share(a, b.miner, b.reward)
    <3>1. CASE n = 0
      <4>1. st = NoAccounts /\ b = Genesis /\ b.txs = <<>> /\ b.reward = 0
        BY <1>1, <3>1, StatesAlong, ChainAssumption
      <4>2. Len(b.txs) = 0 /\ <<>> \in Seq(Tx) /\ Len(<<>>) = 0
        BY <4>1, EmptySeq
      <4>3. AllCovered(st, b.txs)
        BY <4>2 DEF AllCovered
      <4>4. Held(st) < Word
        <5> DEFINE zero == [x \in Addr |-> 0]
        <5>1. \A x \in Addr : zero[x] = 0 /\ st[x].balance = zero[x]
          BY <4>1 DEF NoAccounts
        <5> HIDE DEF zero, st
        <5>2. SumFunctionOnSet(zero, Addr) = 0
          BY <5>1, LedgerAssumption, SumZeros
        <5>3. Held(st) = 0
          BY <5>1, <5>2, HeldAre
        <5> QED
          BY <5>3, LedgerAssumption
      <4>5. afterTxs(st, b.txs)[Len(b.txs)][a].balance = 0
        <5>1. afterTxs(st, <<>>)[0] = st
          BY <2>2, <4>2, AfterTxs
        <5>2. st[a].balance = 0
          BY <4>1 DEF NoAccounts
        <5> HIDE DEF st, b
        <5> QED
          BY <4>1, <4>2, <5>1, <5>2
      <4>6. new = 0
        <5>1. statesAlong(c)[1][a].balance = 0
          BY GenesisIsEmpty
        <5> QED
          BY <2>3, <3>1, <5>1
      <4>7. Share(a, b.miner, b.reward) = 0
        BY <4>1 DEF Share
      <4> HIDE DEF st, b, new
      <4> QED
        BY <4>3, <4>4, <4>5, <4>6, <4>7
    <3>2. CASE n # 0
      <4>1. n \in 1 .. Len(c) - 1 /\ n \in Nat /\ n \in 1 .. Len(c)
        BY <3>2, <1>1
      <4>2. BlockOf(c, n)
        BY <4>1, HeldAlong, KnownBlock
      <4>3. /\ AllCovered(st, b.txs) /\ Held(st) + BlockSubsidy(n) < Word
            /\ b.reward = CoinbaseAmount(n, b.txs)
        BY <4>2 DEF BlockOf
      <4>4. Held(st) < Word
        <5>1. Held(st) \in Nat
          BY <2>2, HeldType
        <5>2. BlockSubsidy(n) \in Nat
          BY <4>1, SubsidyType
        <5>3. Word \in Nat
          BY LedgerAssumption
        <5>4. Held(st) + BlockSubsidy(n) < Word
          BY <4>3
        <5> HIDE DEF st
        <5> QED
          BY <5>1, <5>2, <5>3, <5>4
      <4> HIDE DEF st, b
      <4>5. new = afterTxs(st, b.txs)[Len(b.txs)][a].balance + Share(a, b.miner, b.reward)
        BY <2>2, <4>1, <4>3, BlockExact
      <4> QED
        BY <4>3, <4>4, <4>5
    <3> QED
      BY <3>1, <3>2
  <2>5. SelfAlong(c, n + 1, a) = self + own /\ self \in Int /\ own \in Int
    BY <1>1, <2>1, SelfAlongGrows
  <2>6. old = due + self
    BY <1>3
  <2> HIDE DEF st, b, tot
  <2>7. new - old = newDue - due + own
    BY <2>2, <2>4, BlockExplained
  <2>8. old \in Nat
    BY <2>2, BalanceType
  <2>9. due \in Int
    BY <2>2, DueType
  <2>10. newDue \in Int
    <3>1. applyBlockToTotals(tot, b) \in Totals
      BY <2>2, ApplyBlockToTotalsType
    <3> QED
      BY <3>1, DueType
  <2>11. new \in Nat
    <3>1. applyBlockToState(st, b) \in Balances
      BY <2>2, ApplyBlockToStateType
    <3> QED
      BY <3>1, BalanceType
  <2> HIDE DEF old, new, due, newDue, self, own
  <2>12. new = newDue + (self + own)
    BY <2>5, <2>6, <2>7, <2>8, <2>9, <2>10, <2>11
  <2> QED
    BY <2>1, <2>3, <2>5, <2>12 DEF new, newDue
<1> HIDE DEF S
<1>4. 0 .. Len(c) \subseteq S
  BY <1>1, <1>2, <1>3, CountUp
<1> QED
  BY <1>4 DEF S

\* What the explorer shows of an address adds up to its balance, after any
\* blocks and reorgs: received less sent, but for payments to itself.
THEOREM TotalsSafety == Spec => []TotalsExplainBalances
<1>1. SoundInv => TotalsExplainBalances
  <2> SUFFICES ASSUME SoundInv, NEW a \in Addr
               PROVE  state[a].balance = totals[a].received - totals[a].sent
                        + SumFunction([n \in DOMAIN blocks |-> ToItself(a, blocks[n])])
    BY DEF TotalsExplainBalances, ToItself
  <2> DEFINE N == Len(blocks)
             f == [n \in DOMAIN blocks |-> ToItself(a, blocks[n])]
  <2>1. /\ ValidChain(blocks) /\ N \in 0 .. N /\ DOMAIN blocks = 1 .. N
        /\ state = statesAlong(blocks)[N] /\ totals = totalsAlong(blocks)[N]
    BY LenProperties
       DEF SoundInv, ValidChain, NodeInv, EngineInv, DerivedIsReplay, stateOf, totalsOf
  <2>2. state[a].balance = Due(totals, a) + SelfAlong(blocks, N, a)
    BY <2>1, ExplainedAlong
  <2>3. SumFunction(f) = SelfAlong(blocks, N, a)
    BY <2>1 DEF SumFunction, SelfAlong
  <2> QED
    BY <2>2, <2>3 DEF Due
<1> QED
  BY <1>1, SoundInvariant, PTL
=============================================================================
