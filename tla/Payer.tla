------------------------------- MODULE Payer --------------------------------
(***************************************************************************)
(* How the services (pool, faucet) pay from a wallet whose transactions    *)
(* only they make: their function send, and the node as far as this wallet *)
(* can tell.  Services may share the wallet, as they do by default: both   *)
(* read the same key file.  Each has its own count of nonces and one call  *)
(* of send at a time.                                                      *)
(*                                                                         *)
(* The node takes transactions of an account in the order of their nonces  *)
(* only, so its state is the sequence of them, the transaction of nonce n  *)
(* at n + 1: first those in blocks, then those in the mempool.             *)
(***************************************************************************)
EXTENDS Integers, Sequences, FiniteSets, FiniteSetsExt, SequencesExt, Functions

CONSTANTS
  Service,         \* who pays from the wallet
  Fee,             \* the fee the node suggests
  InitialFunds,    \* what the wallet can spend at first
  Elsewhere,       \* whoever a service paid that is not modelled
  MaxOthers,       \* bound of the model: payments of such services
  Reward,          \* what a block pays the wallet
  MaxDisturbances  \* bound of the model: lost calls, restarts

ASSUME PayerAssumption == {Fee, InitialFunds, Reward, MaxOthers, MaxDisturbances} \subseteq Nat

VARIABLES
  txs,          \* the wallet's transactions the node has, [to, amount]
  confirmed,    \* how many of them are in blocks: the nonce of the account
  immature,     \* what blocks have paid and may not be spent yet
  earned,       \* everything blocks have paid
  nextNonce,    \* service -> its own count
  sending,      \* service -> its call of send
  taken,        \* history: every payment the node took, [by, to, amount]
  disturbances

node == <<txs, confirmed, immature, earned>>
calls == <<nextNonce, sending, taken>>
payerVars == <<node, calls, disturbances>>

NoCall == [pc |-> "none"]

\* What the transactions ts take from the wallet.
spent(ts) == SumFunction([i \in DOMAIN ts |-> ts[i].amount + Fee])

Balance == InitialFunds + earned - spent(SubSeq(txs, 1, confirmed))

Spendable == IF Balance > immature THEN Balance - immature ELSE 0

\* Seeded fault: what is pending is not counted.
verdict_pendingIgnored(t, nonce) ==
  CASE nonce # Len(txs)                                   -> "nonce"
    [] nonce = Len(txs) /\ Spendable < t.amount + Fee     -> "funds"
    [] nonce = Len(txs) /\ Spendable >= t.amount + Fee    -> "taken"

\* What AddTx says of a transaction with this nonce.
verdict(t, nonce) ==
  LET queued == nonce \in confirmed .. Len(txs) - 1 /\ txs[nonce + 1] = t
      funded == Spendable >= spent(SubSeq(txs, confirmed + 1, Len(txs))) + t.amount + Fee
  IN  CASE queued                       -> "known"
        [] ~queued /\ nonce # Len(txs)  -> "nonce"
        [] nonce = Len(txs) /\ ~funded  -> "funds"
        [] nonce = Len(txs) /\ funded   -> "taken"

-----------------------------------------------------------------------------
(***************************************************************************)
(* One call of send: ask for the account, post, use the answer.            *)
(***************************************************************************)

become(s, r) == sending' = [sending EXCEPT ![s] = r]

ready(s) == sending[s].pc = "none"

calling(to, amount) == [pc |-> "ask", to |-> to, amount |-> amount]

done(ok) == [pc |-> "done", ok |-> ok]

\* The account's nonce does not count what is in the mempool, the own count does.
Ask(s) ==
  /\ sending[s].pc = "ask"
  /\ LET r == sending[s]
     IN  become(s, IF Balance < r.amount + Fee
                   THEN done(FALSE)
                   ELSE [pc     |-> "post",
                         tx     |-> [to |-> r.to, amount |-> r.amount],
                         nonce  |-> IF nextNonce[s] > confirmed THEN nextNonce[s] ELSE confirmed])
  /\ UNCHANGED <<node, nextNonce, taken, disturbances>>

Post(s) ==
  /\ sending[s].pc = "post"
  /\ LET t == sending[s].tx
         v == verdict(t, sending[s].nonce)
     IN  /\ txs' = IF v = "taken" THEN Append(txs, t) ELSE txs
         /\ taken' = IF v = "taken"
                     THEN Append(taken, [by |-> s, to |-> t.to, amount |-> t.amount])
                     ELSE taken
         /\ become(s, [pc |-> "answer", nonce |-> sending[s].nonce, verdict |-> v])
  /\ UNCHANGED <<confirmed, immature, earned, nextNonce, disturbances>>

\* Seeded fault: the own count survives its refusal.
counted_kept(s) ==
  IF sending[s].verdict = "taken" THEN sending[s].nonce + 1 ELSE nextNonce[s]

\* The own count after an answer.
counted(s) ==
  CASE sending[s].verdict = "taken"              -> sending[s].nonce + 1
    [] sending[s].verdict = "nonce"              -> 0
    [] sending[s].verdict \notin {"taken", "nonce"} -> nextNonce[s]

Answer(s) ==
  /\ sending[s].pc = "answer"
  /\ nextNonce' = [nextNonce EXCEPT ![s] = counted(s)]
  /\ become(s, done(sending[s].verdict = "taken"))
  /\ UNCHANGED <<node, taken, disturbances>>

\* The node took what the call asked for.
took(r) == (r.pc = "answer" /\ r.verdict = "taken") \/ (r.pc = "done" /\ r.ok)

Send(s) == Ask(s) \/ Post(s) \/ Answer(s)

disturbed == disturbances < MaxDisturbances /\ disturbances' = disturbances + 1

\* The node is not reached.
Unreached(s) ==
  /\ disturbed
  /\ sending[s].pc \in {"ask", "post"}
  /\ become(s, done(FALSE))
  /\ UNCHANGED <<node, nextNonce, taken>>

\* The node took the transaction or refused it, and no answer came.
AnswerLost(s) ==
  /\ disturbed
  /\ sending[s].pc = "answer"
  /\ become(s, done(FALSE))
  /\ UNCHANGED <<node, nextNonce, taken>>

-----------------------------------------------------------------------------
(***************************************************************************)
(* The node.                                                               *)
(***************************************************************************)

\* Another service on the wallet.  All that the node and the others can tell of
\* its call of send is that a transaction was taken.
OtherPays(amount) ==
  LET t == [to |-> Elsewhere, amount |-> amount]
  IN  /\ Cardinality({i \in DOMAIN txs : txs[i].to = Elsewhere}) < MaxOthers
      /\ verdict(t, Len(txs)) = "taken"
      /\ txs' = Append(txs, t)
      /\ UNCHANGED <<confirmed, immature, earned, calls, disturbances>>

\* A block with the first k pending transactions.
Confirm(k) ==
  /\ confirmed' = confirmed + k
  /\ UNCHANGED <<txs, immature, earned, calls, disturbances>>

Mature ==
  /\ immature > 0
  /\ immature' = immature - Reward
  /\ UNCHANGED <<txs, confirmed, earned, calls, disturbances>>

\* The node starts again; its mempool was in memory only.
RestartNode ==
  /\ disturbed
  /\ Len(txs) > confirmed
  /\ txs' = SubSeq(txs, 1, confirmed)
  /\ UNCHANGED <<confirmed, immature, earned, calls>>

NodeNext ==
  (\E k \in 1 .. Len(txs) - confirmed : Confirm(k)) \/ Mature \/ RestartNode \/ OtherPays(1)

PayerInit ==
  /\ txs = <<>>
  /\ confirmed = 0
  /\ immature = 0
  /\ earned = 0
  /\ nextNonce = [s \in Service |-> 0]
  /\ sending = [s \in Service |-> NoCall]
  /\ taken = <<>>
  /\ disturbances = 0

\* The network goes on: blocks take what is pending, and rewards mature.
NodeFairness ==
  /\ WF_payerVars(\E k \in 1 .. Len(txs) - confirmed : Confirm(k))
  /\ WF_payerVars(Mature)

-----------------------------------------------------------------------------
\* The services ask the node for the wallet's balance before they pay, but the
\* answer counts rewards that are immature and leaves out what is pending.  Even
\* so nothing pending or confirmed is more than what has matured.
NeverOverdrawn == spent(txs) <= InitialFunds + earned - immature
=============================================================================
