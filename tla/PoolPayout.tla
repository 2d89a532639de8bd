----------------------------- MODULE PoolPayout -----------------------------
(***************************************************************************)
(* The pool's books (cmd/cereblix-pool/main.go): shares become debts when  *)
(* a block is found, debts become payments in payoutLoop, and the books go *)
(* to a file.  Handlers and the loop run at the same time; the lock st.mu  *)
(* is held for single changes only, and not at all while the books are     *)
(* saved: that takes three steps, the debts are read, then what was paid,  *)
(* then the file is written.                                               *)
(***************************************************************************)
EXTENDS Payer

CONSTANTS
  Pool,       \* the pool as a service of the wallet
  Miner,      \* addresses that mine in the pool
  poolAddr,   \* the wallet's own address
  feePermil,
  minPayout,
  OwedAtStart, \* the debts in the file at the start: miner -> amount
  MaxShares,  \* bound of the model: shares of a round
  MaxFound    \* bound of the model: blocks found

ASSUME PoolAssumption ==
  /\ Pool \in Service
  /\ feePermil \in 0 .. 1000
  /\ IsFiniteSet(Miner)
  /\ minPayout \in Nat /\ minPayout > Fee
  /\ OwedAtStart \in [Miner -> Nat]
  /\ {MaxShares, MaxFound} \subseteq Nat

Block == 1 .. MaxFound

\* Who saves the books: the handler of a block, or payoutLoop.
Loop == 0
Saver == Block \cup {Loop}

VARIABLES
  Shares,   \* miner -> its shares of the round
  Owed,     \* miner -> accrued, not yet paid
  Paid,     \* miner -> paid in its lifetime
  file,     \* the books on disk
  saves,    \* saver -> what it has read of the books so far
  handler,  \* block -> its submit handler
  loop,     \* payoutLoop
  accrued,  \* history: miner -> what it was credited
  restored, \* history: miner -> what restarts added to its accounts, or took from them
  forgotten \* history: miner -> what the node took for it and the books owe again

books == <<Shares, Owed, Paid>>
history == <<accrued, restored, forgotten>>
poolVars == <<books, file, saves, handler, loop, history>>

Nothing == [m \in Miner |-> 0]

NoBooks == [owed |-> Nothing, paid |-> Nothing]

RoundShares == SumFunction(Shares)

NoSave == [pc |-> "none"]

\* save, which the caller waits for.
beginSave(s) == saves' = [saves EXCEPT ![s] = [pc |-> "owed"]]

SaveOwed(s) ==
  /\ saves[s].pc = "owed"
  /\ saves' = [saves EXCEPT ![s] = [pc |-> "paid", owed |-> Owed]]
  /\ UNCHANGED <<payerVars, books, file, handler, loop, history>>

SavePaid(s) ==
  /\ saves[s].pc = "paid"
  /\ saves' = [saves EXCEPT ![s] = [pc |-> "write", owed |-> saves[s].owed, paid |-> Paid]]
  /\ UNCHANGED <<payerVars, books, file, handler, loop, history>>

SaveWrite(s) ==
  /\ saves[s].pc = "write"
  /\ file' = [owed |-> saves[s].owed, paid |-> saves[s].paid]
  /\ saves' = [saves EXCEPT ![s] = NoSave]
  /\ UNCHANGED <<payerVars, books, handler, loop, history>>

Save(s) == SaveOwed(s) \/ SavePaid(s) \/ SaveWrite(s)

-----------------------------------------------------------------------------
(***************************************************************************)
(* Shares and blocks.                                                      *)
(***************************************************************************)

\* A share, from submitwork or credited for the faucet's captcha.
RecordShare(m) ==
  /\ RoundShares < MaxShares
  /\ Shares' = [Shares EXCEPT ![m] = @ + 1]
  /\ UNCHANGED <<payerVars, Owed, Paid, file, saves, handler, loop, history>>

\* A share that meets the network's target too is counted, then forwarded.
Solve(b, m) ==
  /\ handler[b] = "none" /\ (b > 1 => handler[b - 1] # "none")
  /\ RoundShares < MaxShares
  /\ Shares' = [Shares EXCEPT ![m] = @ + 1]
  /\ handler' = [handler EXCEPT ![b] = "forward"]
  /\ UNCHANGED <<payerVars, Owed, Paid, file, saves, loop, history>>

rewarded == earned' = earned + Reward /\ immature' = immature + Reward

\* The node takes the block, or it refuses it and the handler ends.
Forward(b) ==
  /\ handler[b] = "forward"
  /\ \/ rewarded /\ handler' = [handler EXCEPT ![b] = "split"]
     \/ UNCHANGED <<earned, immature>> /\ handler' = [handler EXCEPT ![b] = "end"]
  /\ UNCHANGED <<txs, confirmed, calls, disturbances, books, file, saves, loop, history>>

\* The node takes the block and no answer comes: nothing is split.
ForwardLost(b) ==
  /\ disturbed
  /\ handler[b] = "forward"
  /\ rewarded /\ handler' = [handler EXCEPT ![b] = "end"]
  /\ UNCHANGED <<txs, confirmed, calls, books, file, saves, loop, history>>

pot == Reward - (Reward * feePermil) \div 1000

\* The wallet's own address has the block's coinbase already.
credits == [m \in Miner |->
              IF RoundShares > 0 /\ m # poolAddr THEN (pot * Shares[m]) \div RoundShares ELSE 0]

onBlockFound(b) ==
  /\ handler[b] = "split"
  /\ Owed' = [m \in Miner |-> Owed[m] + credits[m]]
  /\ accrued' = [m \in Miner |-> accrued[m] + credits[m]]
  /\ Shares' = Nothing
  /\ handler' = [handler EXCEPT ![b] = "end"]
  /\ beginSave(b)
  /\ UNCHANGED <<payerVars, Paid, file, loop, restored, forgotten>>

-----------------------------------------------------------------------------
(***************************************************************************)
(* payoutLoop: what can be spent, who is due, then one after the other.    *)
(***************************************************************************)

Asleep == [pc |-> "sleep"]

AskSpendable ==
  /\ loop.pc = "sleep"
  /\ loop' = [pc |-> "due", avail |-> Spendable]
  /\ UNCHANGED <<payerVars, books, file, saves, handler, history>>

ListDue ==
  /\ loop.pc = "due"
  /\ loop' = [pc    |-> "next",
              avail |-> loop.avail,
              due   |-> {m \in Miner : Owed[m] >= minPayout /\ m # poolAddr}]
  /\ UNCHANGED <<payerVars, books, file, saves, handler, history>>

\* Who is next is up to the order of a map.  The fee comes out of the payout.
Pay(m) ==
  /\ loop.pc = "next" /\ saves[Loop] = NoSave
  /\ m \in loop.due /\ loop.avail >= minPayout
  /\ LET pay == IF Owed[m] > loop.avail THEN loop.avail ELSE Owed[m]
     IN  /\ loop' = [pc    |-> "pay",
                     avail |-> loop.avail,
                     due   |-> loop.due \ {m},
                     to    |-> m,
                     pay   |-> pay]
         /\ become(Pool, calling(m, pay - Fee))
  /\ UNCHANGED <<node, nextNonce, taken, disturbances, books, file, saves, handler, history>>

Sleep ==
  /\ loop.pc = "next" /\ saves[Loop] = NoSave
  /\ loop.due = {} \/ loop.avail < minPayout
  /\ loop' = Asleep
  /\ UNCHANGED <<payerVars, books, file, saves, handler, history>>

\* Seeded fault: a debt that was paid in full is struck out.
settled_struckOut == [Owed EXCEPT ![loop.to] = IF loop.pay < loop.avail THEN 0 ELSE @ - loop.pay]

\* Seeded fault: the debt stays.
settled_kept == Owed

\* The debts after the payment of the loop.
settled == [Owed EXCEPT ![loop.to] = @ - loop.pay]

Settle ==
  /\ loop.pc = "pay" /\ sending[Pool].pc = "done"
  /\ IF sending[Pool].ok
     THEN /\ Owed' = settled
          /\ Paid' = [Paid EXCEPT ![loop.to] = @ + loop.pay]
          /\ loop' = [pc |-> "next", avail |-> loop.avail - loop.pay, due |-> loop.due]
          /\ beginSave(Loop)
     ELSE /\ loop' = [pc |-> "next", avail |-> loop.avail, due |-> loop.due]
          /\ UNCHANGED <<Owed, Paid, saves>>
  /\ become(Pool, NoCall)
  /\ UNCHANGED <<node, nextNonce, taken, disturbances, Shares, file, handler, history>>

payoutLoop == AskSpendable \/ ListDue \/ (\E m \in Miner : Pay(m)) \/ Sleep \/ Settle

-----------------------------------------------------------------------------
(***************************************************************************)
(* What goes wrong.  The books then owe what the node took already.        *)
(***************************************************************************)

\* What the node took for miner m and the books do not show yet.
inFlight(m) == IF loop.pc = "pay" /\ loop.to = m /\ took(sending[Pool]) THEN loop.pay ELSE 0

AnswerOfPoolLost ==
  /\ AnswerLost(Pool)
  /\ forgotten' = [m \in Miner |-> forgotten[m] + inFlight(m)]
  /\ UNCHANGED <<books, file, saves, handler, loop, accrued, restored>>

\* The pool stops and starts again with the books on disk.  A file that was
\* being written may be empty by then, which load takes for no books at all.
RestartPool ==
  /\ disturbed
  /\ \E onDisk \in {file} \cup {NoBooks : s \in {s \in Saver : saves[s].pc = "write"}} :
       /\ Owed' = onDisk.owed
       /\ Paid' = onDisk.paid
       /\ file' = onDisk
       /\ restored' = [m \in Miner |-> onDisk.owed[m] + onDisk.paid[m] - accrued[m]]
       /\ forgotten' = [m \in Miner |->
            LET again == onDisk.owed[m] - Owed[m]
            IN  forgotten[m] + inFlight(m) + IF again > 0 THEN again ELSE 0]
  /\ Shares' = Nothing
  /\ saves' = [s \in Saver |-> NoSave]
  /\ handler' = [b \in Block |-> IF handler[b] = "none" THEN "none" ELSE "end"]
  /\ loop' = Asleep
  /\ become(Pool, NoCall)
  /\ nextNonce' = [nextNonce EXCEPT ![Pool] = 0]
  /\ UNCHANGED <<node, taken, accrued>>

-----------------------------------------------------------------------------
PoolInit ==
  /\ PayerInit
  /\ Shares = Nothing /\ Owed = OwedAtStart /\ Paid = Nothing
  /\ file = [owed |-> Owed, paid |-> Paid]
  /\ saves = [s \in Saver |-> NoSave]
  /\ handler = [b \in Block |-> "none"]
  /\ loop = Asleep
  /\ accrued = OwedAtStart /\ restored = Nothing /\ forgotten = Nothing

PoolNext ==
  \/ \E m \in Miner : RecordShare(m) \/ \E b \in Block : Solve(b, m)
  \/ \E b \in Block : Forward(b) \/ ForwardLost(b) \/ onBlockFound(b)
  \/ \E s \in Saver : Save(s)
  \/ payoutLoop
  \/ (Send(Pool) \/ Unreached(Pool)) /\ UNCHANGED poolVars
  \/ AnswerOfPoolLost \/ RestartPool

\* The loop is a goroutine that always goes on.
PoolFairness ==
  /\ WF_<<payerVars, poolVars>>(payoutLoop)
  /\ WF_<<payerVars, poolVars>>(\E s \in Saver : Save(s))
  /\ WF_<<payerVars, poolVars>>(Send(Pool) /\ UNCHANGED poolVars)

PoolSpec ==
  /\ PoolInit
  /\ [][PoolNext \/ (NodeNext /\ UNCHANGED poolVars)]_<<payerVars, poolVars>>
  /\ PoolFairness /\ NodeFairness

-----------------------------------------------------------------------------
\* What the node took for miner m, with the fees.
sentTo(m) ==
  SumFunction([i \in DOMAIN taken |->
                 IF taken[i].by = Pool /\ taken[i].to = m THEN taken[i].amount + Fee ELSE 0])

\* Shares credited while a payment is under way are neither lost nor paid twice:
\* what a miner was ever credited is what it is owed and what it was paid, but for
\* what a restart changed in both.
BooksBalance == \A m \in Miner : Owed[m] + Paid[m] = accrued[m] + restored[m]

\* The struct comment of Owed: "accrued, not yet paid".  The node takes more for a
\* miner than the miner was credited only by what the books were made to forget:
\* a payment whose answer was lost or that was under way at a restart, and debts
\* that came back with an older file.  Neither refusals, nonces that run apart,
\* retries nor saves that land in another order add to that.
PaidOnce == \A m \in Miner : sentTo(m) <= accrued[m] + forgotten[m]

\* Never so, whatever is forgotten: what the struct comment says as it stands.
NeverPaidTwice == \A m \in Miner : sentTo(m) <= accrued[m]

\* ARCHITECTURE.md 6.6: rewards are "paid out automatically once a miner crosses a
\* threshold", in parts as coinbases mature.  Neither nonces that another service
\* uses or the node forgets nor a refused or lost call stops the payouts.
DebtIsPaid ==
  \A m \in Miner \ {poolAddr} : Owed[m] >= minPayout ~> Owed[m] < minPayout
=============================================================================
