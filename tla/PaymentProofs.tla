---------------------------- MODULE PaymentProofs ----------------------------
(***************************************************************************)
(* Theorems about the services that pay from a wallet, for any claimants,  *)
(* miners, fees, rewards and funds: Payer, and what PoolPayout and Faucet  *)
(* make of it.                                                             *)
(***************************************************************************)
EXTENDS PoolPayout, Faucet, Induction, SequenceTheorems, TLAPS

-----------------------------------------------------------------------------
(***************************************************************************)
(* Sums along a sequence of payments.                                      *)
(***************************************************************************)

Payees == Miner \cup {addrOf(c) : c \in Claim} \cup {Elsewhere}
Payment == [to : Payees, amount : Nat]
Taken == [by : Service, to : Payees, amount : Nat]

\* A sum over a sequence with one more element.
LEMMA SumAppended ==
  ASSUME NEW n \in Nat, NEW f, NEW g, DOMAIN f = 1 .. n, DOMAIN g = 1 .. n + 1,
         \A i \in 1 .. n : f[i] \in Nat /\ g[i] = f[i], g[n + 1] \in Nat
  PROVE  SumFunction(g) = SumFunction(f) + g[n + 1] /\ SumFunction(f) \in Nat
<1>1. \A i \in 1 .. n + 1 : g[i] \in Int
  <2>1. \A i \in 1 .. n + 1 : i \in 1 .. n \/ i = n + 1
    OBVIOUS
  <2> QED
    BY <2>1
<1>2. SumFunctionOnSet(g, 1 .. n + 1) = SumFunctionOnSet(g, 1 .. n) + g[n + 1]
  BY <1>1, SumNext
<1>3. IsFiniteSet(1 .. n)
  BY FS_Interval
<1>4. SumFunctionOnSet(g, 1 .. n) = SumFunctionOnSet(f, 1 .. n)
  BY <1>3, SumSame
<1>5. SumFunctionOnSet(f, 1 .. n) \in Nat
  BY <1>3, SumNatural
<1> QED
  BY <1>2, <1>4, <1>5 DEF SumFunction

\* No payment takes nothing.
LEMMA SpentNothing == spent(<<>>) = 0
<1> DEFINE f == [i \in DOMAIN <<>> |-> (<<>>)[i].amount + Fee]
<1>1. DOMAIN f = {}
  BY EmptySeq
<1> HIDE DEF f
<1>2. SumFunction(f) = 0
  BY <1>1, SumEmpty DEF SumFunction
<1> QED
  BY <1>2 DEF f, spent

\* What one more payment takes.
LEMMA SpentNext ==
  ASSUME NEW ts \in Seq(Payment), NEW t \in Payment
  PROVE  spent(Append(ts, t)) = spent(ts) + t.amount + Fee /\ spent(ts) \in Nat
<1> DEFINE n == Len(ts)
           all == Append(ts, t)
           f == [i \in DOMAIN ts |-> ts[i].amount + Fee]
           g == [i \in DOMAIN all |-> all[i].amount + Fee]
<1>1. Fee \in Nat /\ t.amount \in Nat
  BY PayerAssumption DEF Payment
<1>2. n \in Nat /\ DOMAIN ts = 1 .. n /\ \A i \in 1 .. n : ts[i] \in Payment
  BY LenProperties, ElementOfSeq
<1>3. DOMAIN all = 1 .. n + 1 /\ all[n + 1] = t /\ \A i \in 1 .. n : all[i] = ts[i]
  BY AppendProperties
<1>4. DOMAIN f = 1 .. n /\ DOMAIN g = 1 .. n + 1
  BY <1>2, <1>3
<1>5. \A i \in 1 .. n : f[i] \in Nat /\ g[i] = f[i]
  BY <1>1, <1>2, <1>3 DEF Payment
<1>6. g[n + 1] = t.amount + Fee /\ g[n + 1] \in Nat
  BY <1>1, <1>2, <1>3
<1>7. spent(ts) = SumFunction(f) /\ spent(all) = SumFunction(g)
  BY DEF spent
<1> HIDE DEF f, g, n
<1>8. SumFunction(g) = SumFunction(f) + g[n + 1] /\ SumFunction(f) \in Nat
  BY <1>2, <1>4, <1>5, <1>6, SumAppended
<1> QED
  BY <1>1, <1>6, <1>7, <1>8

\* A part of a sequence that ends one later.
LEMMA PartNext ==
  ASSUME NEW ts \in Seq(Payment), NEW a \in 1 .. Len(ts), NEW n \in a - 1 .. Len(ts) - 1
  PROVE  /\ SubSeq(ts, a, n) \in Seq(Payment) /\ ts[n + 1] \in Payment
         /\ SubSeq(ts, a, n + 1) = Append(SubSeq(ts, a, n), ts[n + 1])
<1>1. Len(ts) \in Nat /\ DOMAIN ts = 1 .. Len(ts) /\ n \in Nat /\ n + 1 \in 1 .. Len(ts)
  BY LenProperties
<1>2. ts[n + 1] \in Payment
  BY <1>1, ElementOfSeq
<1>3. \A i \in a .. n + 1 : ts[i] \in Payment
  BY <1>1, ElementOfSeq
<1>4. SubSeq(ts, a, n) \in Seq(Payment) /\ SubSeq(ts, a, n + 1) \in Seq(Payment)
  BY <1>1, <1>3, SubSeqProperties
<1>5. /\ Len(SubSeq(ts, a, n)) = n - a + 1 /\ Len(SubSeq(ts, a, n + 1)) = n + 1 - a + 1
      /\ \A i \in 1 .. n - a + 1 : SubSeq(ts, a, n)[i] = ts[a + i - 1]
      /\ \A i \in 1 .. n + 1 - a + 1 : SubSeq(ts, a, n + 1)[i] = ts[a + i - 1]
  BY <1>1, SubSeqProperties
<1> QED
  BY <1>1, <1>2, <1>4, <1>5, AppendProperties, SeqEqual

\* One more payment at the end of all and of a part.
LEMMA BothSpend ==
  ASSUME NEW u \in Seq(Payment), NEW r \in Seq(Payment), NEW t \in Payment, NEW b \in Nat,
         spent(u) = b + spent(r)
  PROVE  /\ Append(u, t) \in Seq(Payment) /\ Append(r, t) \in Seq(Payment)
         /\ spent(Append(u, t)) = b + spent(Append(r, t))
         /\ spent(Append(u, t)) \in Nat /\ spent(Append(r, t)) \in Nat
<1>1. Append(u, t) \in Seq(Payment) /\ Append(r, t) \in Seq(Payment)
  BY AppendProperties
<1>2. PICK a \in Nat, fee \in Nat : a = t.amount /\ fee = Fee
  BY PayerAssumption DEF Payment
<1>3. PICK su \in Nat, sr \in Nat : su = spent(u) /\ sr = spent(r)
  BY SpentNext
<1>4. spent(Append(u, t)) = su + a + fee
  BY <1>2, <1>3, SpentNext
<1>5. spent(Append(r, t)) = sr + a + fee
  BY <1>2, <1>3, SpentNext
<1>6. su = b + sr
  BY <1>3
<1>7. su + a + fee = b + (sr + a + fee)
  BY <1>6
<1>8. su + a + fee \in Nat /\ sr + a + fee \in Nat
  OBVIOUS
<1> QED
  BY <1>1, <1>4, <1>5, <1>7, <1>8

\* What payments take is what the first of them take and what the others take.
LEMMA SpentSplit ==
  ASSUME NEW ts \in Seq(Payment), NEW k \in 0 .. Len(ts)
  PROVE  /\ SubSeq(ts, 1, k) \in Seq(Payment) /\ SubSeq(ts, k + 1, Len(ts)) \in Seq(Payment)
         /\ spent(ts) = spent(SubSeq(ts, 1, k)) + spent(SubSeq(ts, k + 1, Len(ts)))
         /\ spent(ts) \in Nat /\ spent(SubSeq(ts, 1, k)) \in Nat
         /\ spent(SubSeq(ts, k + 1, Len(ts))) \in Nat
<1> DEFINE upTo(n) == SubSeq(ts, 1, n)
           rest(n) == SubSeq(ts, k + 1, n)
           N == Len(ts) - k
           S == {n \in 0 .. N :
                   /\ upTo(k + n) \in Seq(Payment) /\ rest(k + n) \in Seq(Payment)
                   /\ spent(upTo(k + n)) = spent(upTo(k)) + spent(rest(k + n))
                   /\ spent(upTo(k + n)) \in Nat /\ spent(rest(k + n)) \in Nat}
<1>1. Len(ts) \in Nat /\ k \in Nat /\ N \in Nat /\ k + N = Len(ts) /\ DOMAIN ts = 1 .. Len(ts)
  BY LenProperties
<1>2. \A n \in 0 .. Len(ts) : upTo(n) \in Seq(Payment) /\ spent(upTo(n)) \in Nat
  <2> SUFFICES ASSUME NEW n \in 0 .. Len(ts) PROVE upTo(n) \in Seq(Payment) /\ spent(upTo(n)) \in Nat
    OBVIOUS
  <2>1. \A i \in 1 .. n : ts[i] \in Payment
    BY <1>1, ElementOfSeq
  <2>2. upTo(n) \in Seq(Payment)
    BY <1>1, <2>1, SubSeqProperties
  <2>3. [to |-> Elsewhere, amount |-> 0] \in Payment
    BY DEF Payment, Payees
  <2> QED
    BY <2>2, <2>3, SpentNext
<1>3. rest(k) = <<>>
  <2>1. rest(k) \in Seq(Payment) /\ Len(rest(k)) = 0
    BY <1>1, SubSeqProperties
  <2> QED
    BY <2>1, EmptySeq
<1>4. 0 \in S
  <2>1. k + 0 = k /\ k \in 0 .. Len(ts) /\ 0 \in 0 .. N
    BY <1>1
  <2>2. rest(k) \in Seq(Payment) /\ spent(rest(k)) = 0
    BY <1>3, EmptySeq, SpentNothing
  <2> QED
    BY <1>2, <2>1, <2>2
<1>5. ASSUME NEW n \in 0 .. N - 1, n \in S PROVE n + 1 \in S
  <2>1. k + n \in 1 - 1 .. Len(ts) - 1 /\ k + n \in (k + 1) - 1 .. Len(ts) - 1
    BY <1>1
  <2>2. 1 \in 1 .. Len(ts) /\ k + 1 \in 1 .. Len(ts)
    BY <1>1, <2>1
  <2>3. PICK t \in Payment : t = ts[k + n + 1]
    BY <2>1, <2>2, PartNext
  <2>4. /\ SubSeq(ts, 1, k + n + 1) = Append(SubSeq(ts, 1, k + n), t)
        /\ SubSeq(ts, k + 1, k + n + 1) = Append(SubSeq(ts, k + 1, k + n), t)
    BY <2>1, <2>2, <2>3, PartNext
  <2>5. k + (n + 1) = k + n + 1 /\ n + 1 \in 0 .. N
    BY <1>1
  <2>6. upTo(k + (n + 1)) = Append(upTo(k + n), t) /\ rest(k + (n + 1)) = Append(rest(k + n), t)
    BY <2>4, <2>5
  <2> HIDE DEF upTo, rest
  <2>7. /\ upTo(k + n) \in Seq(Payment) /\ rest(k + n) \in Seq(Payment)
        /\ spent(upTo(k + n)) = spent(upTo(k)) + spent(rest(k + n))
        /\ spent(upTo(k + n)) \in Nat /\ spent(rest(k + n)) \in Nat /\ spent(upTo(k)) \in Nat
    BY <1>1, <1>2, <1>5
  <2>8. PICK u, r, b : u = upTo(k + n) /\ r = rest(k + n) /\ b = spent(upTo(k))
    OBVIOUS
  <2>9. /\ u \in Seq(Payment) /\ r \in Seq(Payment) /\ b \in Nat
        /\ spent(u) = b + spent(r)
    BY <2>7, <2>8
  <2>10. /\ Append(u, t) \in Seq(Payment) /\ Append(r, t) \in Seq(Payment)
         /\ spent(Append(u, t)) = b + spent(Append(r, t))
         /\ spent(Append(u, t)) \in Nat /\ spent(Append(r, t)) \in Nat
    BY <2>9, BothSpend
  <2>11. upTo(k + (n + 1)) = Append(u, t) /\ rest(k + (n + 1)) = Append(r, t)
    BY <2>6, <2>8
  <2> QED
    BY <2>5, <2>8, <2>10, <2>11
<1>6. N \in S
  <2> HIDE DEF S, N
  <2>1. 0 .. N \subseteq S
    BY <1>1, <1>4, <1>5, CountUp
  <2> QED
    BY <1>1, <2>1
<1>7. upTo(Len(ts)) = ts
  <2>1. \A i \in 1 .. Len(ts) : ts[i] \in Payment
    BY <1>1, ElementOfSeq
  <2>2. upTo(Len(ts)) \in Seq(Payment) /\ Len(upTo(Len(ts))) = Len(ts) /\ \A i \in 1 .. Len(ts) : upTo(Len(ts))[i] = ts[i]
    BY <1>1, <2>1, SubSeqProperties
  <2> QED
    BY <2>2, SeqEqual
<1>8. k \in 0 .. Len(ts)
  BY <1>1
<1> QED
  BY <1>1, <1>2, <1>6, <1>7, <1>8

-----------------------------------------------------------------------------
(***************************************************************************)
(* The wallet and the calls that pay from it.                              *)
(***************************************************************************)

\* A call of send.
CallOK(r) ==
  /\ r.pc = "ask" => r.to \in Payees /\ r.amount \in Nat
  /\ r.pc = "post" => r.tx \in Payment

PayerInv ==
  /\ txs \in Seq(Payment) /\ confirmed \in 0 .. Len(txs)
  /\ immature \in Int /\ earned \in Int
  /\ taken \in Seq(Taken)
  /\ DOMAIN sending = Service /\ \A s \in Service : CallOK(sending[s])
  /\ NeverOverdrawn

\* A payment is taken with the next nonce only, and only if it is covered.
LEMMA VerdictTaken ==
  ASSUME NEW t, NEW nonce, verdict(t, nonce) = "taken", PayerInv
  PROVE  /\ nonce = Len(txs)
         /\ Spendable >= spent(SubSeq(txs, confirmed + 1, Len(txs))) + t.amount + Fee
<1>1. Len(txs) \in Nat /\ confirmed \in Nat /\ confirmed <= Len(txs)
  BY LenProperties DEF PayerInv
<1> DEFINE queued == nonce \in confirmed .. Len(txs) - 1 /\ txs[nonce + 1] = t
           funded == Spendable >= spent(SubSeq(txs, confirmed + 1, Len(txs))) + t.amount + Fee
<1>2. verdict(t, nonce) = CASE queued                       -> "known"
                            [] ~queued /\ nonce # Len(txs)  -> "nonce"
                            [] nonce = Len(txs) /\ ~funded  -> "funds"
                            [] nonce = Len(txs) /\ funded   -> "taken"
  BY DEF verdict
<1>3. nonce = Len(txs) => ~queued
  BY <1>1
<1> HIDE DEF queued, funded
<1>4. nonce = Len(txs) /\ funded
  BY <1>2, <1>3
<1> QED
  BY <1>4 DEF funded

\* What is covered does not overdraw the wallet.
LEMMA TakenKeeps ==
  ASSUME PayerInv, NEW t \in Payment, NEW nonce, verdict(t, nonce) = "taken"
  PROVE  spent(Append(txs, t)) <= InitialFunds + earned - immature
<1> DEFINE all == spent(txs)
           old == spent(SubSeq(txs, 1, confirmed))
           pending == spent(SubSeq(txs, confirmed + 1, Len(txs)))
<1>1. all = old + pending /\ all \in Nat /\ old \in Nat /\ pending \in Nat
  BY SpentSplit DEF PayerInv
<1>2. spent(Append(txs, t)) = all + t.amount + Fee
  BY SpentNext DEF PayerInv
<1>3. Spendable >= pending + t.amount + Fee
  BY VerdictTaken
<1>4. /\ InitialFunds \in Nat /\ Fee \in Nat /\ t.amount \in Nat /\ earned \in Int /\ immature \in Int
      /\ all <= InitialFunds + earned - immature
  BY PayerAssumption DEF PayerInv, Payment, NeverOverdrawn
<1>5. Balance = InitialFunds + earned - old
  BY DEF Balance
<1> HIDE DEF all, old, pending
<1>6. CASE Balance > immature
  <2>1. Spendable = InitialFunds + earned - old - immature
    BY <1>1, <1>4, <1>5, <1>6 DEF Spendable
  <2> QED
    BY <1>1, <1>2, <1>3, <1>4, <2>1
<1>7. CASE ~(Balance > immature)
  <2>1. Spendable = 0
    BY <1>7 DEF Spendable
  <2> QED
    BY <1>1, <1>2, <1>3, <1>4, <2>1
<1> QED
  BY <1>6, <1>7

\* A service's call goes on, and the node is as it was.
LEMMA CallKeeps ==
  ASSUME PayerInv, NEW s \in Service, NEW r, CallOK(r), sending' = [sending EXCEPT ![s] = r],
         UNCHANGED <<node, taken>>
  PROVE  PayerInv'
<1>1. \A u \in Service : CallOK(sending'[u])
  BY DEF PayerInv
<1> QED
  BY <1>1 DEF PayerInv, NeverOverdrawn, node

\* The steps of send, and the calls that fail.
LEMMA SendKeeps ==
  ASSUME PayerInv, NEW s \in Service, Send(s) \/ Unreached(s) \/ AnswerLost(s)
  PROVE  PayerInv'
<1>1. CASE Ask(s)
  <2>1. PICK r : r = IF Balance < sending[s].amount + Fee
                     THEN done(FALSE)
                     ELSE [pc     |-> "post",
                           tx     |-> [to |-> sending[s].to, amount |-> sending[s].amount],
                           nonce  |-> IF nextNonce[s] > confirmed THEN nextNonce[s] ELSE confirmed]
    OBVIOUS
  <2>2. sending[s].to \in Payees /\ sending[s].amount \in Nat
    BY <1>1 DEF Ask, PayerInv, CallOK
  <2>3. CallOK(r)
    BY <2>1, <2>2 DEF CallOK, done, Payment
  <2>4. sending' = [sending EXCEPT ![s] = r] /\ UNCHANGED <<node, taken>>
    BY <1>1, <2>1 DEF Ask, become
  <2> QED
    BY <2>3, <2>4, CallKeeps
<1>2. CASE Post(s)
  <2>1. PICK t, v, nonce : t = sending[s].tx /\ nonce = sending[s].nonce /\ v = verdict(t, nonce)
    OBVIOUS
  <2>2. t \in Payment /\ [by |-> s, to |-> t.to, amount |-> t.amount] \in Taken
    BY <1>2, <2>1 DEF Post, PayerInv, CallOK, Payment, Taken
  <2>3. /\ txs' = IF v = "taken" THEN Append(txs, t) ELSE txs
        /\ taken' = IF v = "taken" THEN Append(taken, [by |-> s, to |-> t.to, amount |-> t.amount]) ELSE taken
        /\ sending' = [sending EXCEPT ![s] = [pc |-> "answer", nonce |-> nonce, verdict |-> v]]
        /\ UNCHANGED <<confirmed, immature, earned>>
    BY <1>2, <2>1 DEF Post, become
  <2>4. CallOK([pc |-> "answer", nonce |-> nonce, verdict |-> v])
    BY DEF CallOK
  <2>5. CASE v = "taken"
    <3>1. spent(Append(txs, t)) <= InitialFunds + earned - immature
      BY <2>1, <2>2, <2>5, TakenKeeps
    <3>2. Append(txs, t) \in Seq(Payment) /\ Len(Append(txs, t)) = Len(txs) + 1 /\ Len(txs) \in Nat
      BY <2>2, AppendProperties, LenProperties DEF PayerInv
    <3>3. taken' \in Seq(Taken)
      BY <2>2, <2>3, <2>5, AppendProperties DEF PayerInv
    <3>4. \A u \in Service : CallOK(sending'[u])
      BY <2>3, <2>4 DEF PayerInv
    <3>5. confirmed \in 0 .. Len(txs) + 1
      BY <3>2 DEF PayerInv
    <3> QED
      BY <2>3, <2>5, <3>1, <3>2, <3>3, <3>4, <3>5 DEF PayerInv, NeverOverdrawn
  <2>6. CASE v # "taken"
    BY <2>3, <2>4, <2>6, CallKeeps DEF node
  <2> QED
    BY <2>5, <2>6
<1>3. CASE Answer(s) \/ Unreached(s) \/ AnswerLost(s)
  <2>1. PICK ok : sending' = [sending EXCEPT ![s] = done(ok)] /\ UNCHANGED <<node, taken>>
    <3>1. CASE Answer(s)
      BY <3>1 DEF Answer, become
    <3>2. CASE Unreached(s)
      BY <3>2 DEF Unreached, become
    <3>3. CASE AnswerLost(s)
      BY <3>3 DEF AnswerLost, become
    <3> QED
      BY <1>3, <3>1, <3>2, <3>3
  <2>2. CallOK(done(ok))
    BY DEF CallOK, done
  <2> QED
    BY <2>1, <2>2, CallKeeps
<1> QED
  BY <1>1, <1>2, <1>3 DEF Send

\* The node's own steps: blocks, matured rewards, a restart, another service.
LEMMA NodeKeeps ==
  ASSUME PayerInv, NodeNext
  PROVE  PayerInv'
<1>1. Len(txs) \in Nat /\ confirmed \in 0 .. Len(txs)
  BY LenProperties DEF PayerInv
<1>2. CASE \E k \in 1 .. Len(txs) - confirmed : Confirm(k)
  <2>1. confirmed' \in 0 .. Len(txs) /\ UNCHANGED <<txs, immature, earned, sending, taken>>
    BY <1>1, <1>2 DEF Confirm, calls
  <2> QED
    BY <2>1 DEF PayerInv, NeverOverdrawn
<1>3. CASE Mature
  <2>1. immature' = immature - Reward /\ Reward \in Nat /\ UNCHANGED <<txs, confirmed, earned, sending, taken>>
    BY <1>3, PayerAssumption DEF Mature, calls
  <2>2. spent(txs) \in Nat /\ InitialFunds \in Nat
    BY PayerAssumption, SpentSplit DEF PayerInv
  <2>3. immature' \in Int /\ spent(txs) <= InitialFunds + earned - immature'
    BY <2>1, <2>2 DEF PayerInv, NeverOverdrawn
  <2> QED
    BY <2>1, <2>3 DEF PayerInv, NeverOverdrawn
<1>4. CASE RestartNode
  <2>1. txs' = SubSeq(txs, 1, confirmed) /\ UNCHANGED <<confirmed, immature, earned, sending, taken>>
    BY <1>4 DEF RestartNode, calls
  <2>2. /\ spent(txs) = spent(SubSeq(txs, 1, confirmed)) + spent(SubSeq(txs, confirmed + 1, Len(txs)))
        /\ spent(SubSeq(txs, 1, confirmed)) \in Nat
        /\ spent(SubSeq(txs, confirmed + 1, Len(txs))) \in Nat
        /\ SubSeq(txs, 1, confirmed) \in Seq(Payment)
    BY SpentSplit DEF PayerInv
  <2>3. InitialFunds \in Nat
    BY PayerAssumption
  <2>4. spent(txs') <= InitialFunds + earned - immature
    BY <2>1, <2>2, <2>3 DEF PayerInv, NeverOverdrawn
  <2>5. Len(SubSeq(txs, 1, confirmed)) = confirmed
    <3>1. \A i \in 1 .. confirmed : txs[i] \in Payment
      BY <1>1, ElementOfSeq DEF PayerInv
    <3>2. Len(SubSeq(txs, 1, confirmed)) = IF 1 <= confirmed THEN confirmed - 1 + 1 ELSE 0
      BY <1>1, <3>1, SubSeqProperties
    <3> QED
      BY <1>1, <3>2
  <2> QED
    BY <1>1, <2>1, <2>2, <2>4, <2>5 DEF PayerInv, NeverOverdrawn
<1>5. CASE OtherPays(1)
  <2>1. PICK t : t = [to |-> Elsewhere, amount |-> 1]
    OBVIOUS
  <2>2. t \in Payment
    BY <2>1 DEF Payment, Payees
  <2>3. /\ verdict(t, Len(txs)) = "taken" /\ txs' = Append(txs, t)
        /\ UNCHANGED <<confirmed, immature, earned, sending, taken>>
    BY <1>5, <2>1 DEF OtherPays, calls
  <2>4. spent(txs') <= InitialFunds + earned - immature
    BY <2>2, <2>3, TakenKeeps
  <2>5. txs' \in Seq(Payment) /\ Len(txs') = Len(txs) + 1
    BY <2>2, <2>3, AppendProperties DEF PayerInv
  <2> QED
    BY <1>1, <2>3, <2>4, <2>5 DEF PayerInv, NeverOverdrawn
<1> QED
  BY <1>2, <1>3, <1>4, <1>5 DEF NodeNext

\* Nothing is spent at first.
LEMMA PayerStarts == PayerInit => PayerInv
<1> SUFFICES ASSUME PayerInit PROVE PayerInv
  OBVIOUS
<1>1. txs \in Seq(Payment) /\ taken \in Seq(Taken) /\ Len(txs) = 0
  BY EmptySeq DEF PayerInit
<1>2. spent(txs) <= InitialFunds + earned - immature /\ immature \in Int /\ earned \in Int
  BY SpentNothing, PayerAssumption DEF PayerInit
<1>3. DOMAIN sending = Service /\ \A s \in Service : CallOK(sending[s])
  BY DEF PayerInit, CallOK, NoCall
<1>4. confirmed \in 0 .. Len(txs)
  BY <1>1 DEF PayerInit
<1> QED
  BY <1>1, <1>2, <1>3, <1>4 DEF PayerInv, NeverOverdrawn

-----------------------------------------------------------------------------
(***************************************************************************)
(* The pool's books.                                                       *)
(***************************************************************************)

Amounts == [Miner -> Nat]

SaveOK(r) ==
  /\ r.pc \in {"paid", "write"} => r.owed \in Amounts
  /\ r.pc = "write" => r.paid \in Amounts

\* Who is listed stays due, and what is being paid stays owed.
LoopOK ==
  /\ loop.pc \in {"due", "next", "pay"} => loop.avail \in Int
  /\ loop.pc \in {"next", "pay"} =>
       loop.due \subseteq Miner /\ \A m \in loop.due : Owed[m] >= minPayout
  /\ loop.pc = "pay" =>
       loop.to \in Miner \ loop.due /\ loop.pay \in Nat /\ loop.pay > Fee /\ loop.pay <= Owed[loop.to]

BooksOK ==
  /\ Owed \in Amounts /\ Paid \in Amounts /\ Shares \in Amounts
  /\ file.owed \in Amounts /\ file.paid \in Amounts
  /\ DOMAIN saves = Saver /\ \A s \in Saver : SaveOK(saves[s])
  /\ LoopOK

PoolInv == PayerInv /\ BooksOK

\* What the node says the wallet can spend is a number.
LEMMA SpendableType == PayerInv => Spendable \in Int
<1> SUFFICES ASSUME PayerInv PROVE Spendable \in Int
  OBVIOUS
<1>1. spent(SubSeq(txs, 1, confirmed)) \in Nat /\ InitialFunds \in Nat
  BY SpentSplit, PayerAssumption DEF PayerInv
<1>2. Balance \in Int /\ immature \in Int
  BY <1>1 DEF PayerInv, Balance
<1> QED
  BY <1>2 DEF Spendable

\* A part of a whole.
LEMMA Quotient ==
  ASSUME NEW a \in Nat, NEW b \in Nat \ {0}
  PROVE  a \div b \in Nat
OBVIOUS

\* A share of a block is never negative.
LEMMA CreditsType == Shares \in Amounts => credits \in Amounts
<1> SUFFICES ASSUME Shares \in Amounts PROVE credits \in Amounts
  OBVIOUS
<1>1. RoundShares \in Nat
  BY SumNatural, PoolAssumption DEF RoundShares, SumFunction, Amounts
<1>2. pot \in Nat
  <2>1. Reward \in Nat /\ feePermil \in 0 .. 1000
    BY PayerAssumption, PoolAssumption
  <2>2. PICK p : p = Reward * feePermil
    OBVIOUS
  <2>3. p \in Nat /\ p <= 1000 * Reward
    <3>1. p \in Nat /\ Reward * (1000 - feePermil) \in Nat
      BY <2>1, <2>2
    <3>2. 1000 * Reward = p + Reward * (1000 - feePermil)
      BY <2>1, <2>2
    <3> QED
      BY <2>1, <3>1, <3>2
  <2>4. p \div 1000 \in Nat /\ p \div 1000 <= Reward
    BY <2>1, <2>3
  <2>5. pot = Reward - p \div 1000
    BY <2>2 DEF pot
  <2> QED
    BY <2>1, <2>4, <2>5
<1>3. ASSUME NEW m \in Miner, RoundShares > 0
      PROVE  (pot * Shares[m]) \div RoundShares \in Nat
  <2>1. Shares[m] \in Nat
    BY DEF Amounts
  <2>2. pot * Shares[m] \in Nat
    BY <1>2, <2>1
  <2> QED
    BY <1>1, <1>3, <2>2, Quotient
<1>4. ASSUME NEW m \in Miner
      PROVE  (IF RoundShares > 0 /\ m # poolAddr THEN (pot * Shares[m]) \div RoundShares ELSE 0) \in Nat
  BY <1>3
<1> QED
  BY <1>4 DEF credits, Amounts

\* Only the wallet moves.
LEMMA BooksStay ==
  ASSUME BooksOK, UNCHANGED <<books, file, saves, loop>>
  PROVE  BooksOK'
BY DEF BooksOK, LoopOK, books

\* Only the books move.
LEMMA PayerStays ==
  ASSUME PayerInv, UNCHANGED payerVars
  PROVE  PayerInv'
BY DEF PayerInv, NeverOverdrawn, payerVars, node, calls

\* Debts may grow under the loop.
LEMMA LoopStays ==
  ASSUME BooksOK, loop' = loop, \A m \in Miner : Owed'[m] >= Owed[m], Owed' \in Amounts
  PROVE  LoopOK'
<1>1. minPayout \in Nat /\ \A m \in Miner : Owed[m] \in Nat /\ Owed'[m] \in Nat
  BY PoolAssumption DEF BooksOK, Amounts
<1> QED
  BY <1>1 DEF BooksOK, LoopOK

\* Shares, blocks and what they are worth.
LEMMA HandlersKeep ==
  ASSUME PoolInv,
         \/ \E m \in Miner : RecordShare(m) \/ \E b \in Block : Solve(b, m)
         \/ \E b \in Block : Forward(b) \/ onBlockFound(b) \/ ForwardLost(b)
  PROVE  PoolInv'
<1>0. PayerInv /\ BooksOK
  BY DEF PoolInv
<1>1. ASSUME NEW m \in Miner, RecordShare(m) \/ \E b \in Block : Solve(b, m)
      PROVE  PoolInv'
  <2>1. /\ Shares' = [Shares EXCEPT ![m] = @ + 1]
        /\ UNCHANGED <<payerVars, Owed, Paid, file, saves, loop>>
    BY <1>1 DEF RecordShare, Solve
  <2>2. Shares' \in Amounts
    BY <1>0, <2>1 DEF BooksOK, Amounts
  <2> QED
    BY <1>0, <2>1, <2>2, PayerStays DEF PoolInv, BooksOK, LoopOK
<1>2. ASSUME NEW b \in Block, Forward(b) \/ ForwardLost(b)
      PROVE  PoolInv'
  <2>1. UNCHANGED <<txs, confirmed, sending, taken, books, file, saves, loop>>
    BY <1>2 DEF Forward, ForwardLost, calls
  <2>2. /\ earned' - immature' = earned - immature
        /\ earned' \in Int /\ immature' \in Int
    <3>1. rewarded \/ UNCHANGED <<earned, immature>>
      BY <1>2 DEF Forward, ForwardLost
    <3>2. earned \in Int /\ immature \in Int /\ Reward \in Nat
      BY <1>0, PayerAssumption DEF PayerInv
    <3> QED
      BY <3>1, <3>2 DEF rewarded
  <2>3. InitialFunds + earned' - immature' = InitialFunds + earned - immature
    BY <1>0, <2>2, PayerAssumption DEF PayerInv
  <2>4. PayerInv'
    BY <1>0, <2>1, <2>2, <2>3 DEF PayerInv, NeverOverdrawn
  <2> QED
    BY <1>0, <2>1, <2>4, BooksStay DEF PoolInv
<1>3. ASSUME NEW b \in Block, onBlockFound(b)
      PROVE  PoolInv'
  <2>1. /\ Owed' = [m \in Miner |-> Owed[m] + credits[m]]
        /\ Shares' = Nothing
        /\ saves' = [saves EXCEPT ![b] = [pc |-> "owed"]]
        /\ UNCHANGED <<payerVars, Paid, file, loop>>
    BY <1>3 DEF onBlockFound, beginSave
  <2>2. credits \in Amounts
    BY <1>0, CreditsType DEF BooksOK
  <2>3. Owed' \in Amounts /\ \A m \in Miner : Owed'[m] >= Owed[m]
    BY <1>0, <2>1, <2>2 DEF BooksOK, Amounts
  <2>4. LoopOK'
    BY <1>0, <2>1, <2>3, LoopStays
  <2>5. Shares' \in Amounts
    BY <2>1 DEF Nothing, Amounts
  <2>6. DOMAIN saves' = Saver /\ \A s \in Saver : SaveOK(saves'[s])
    BY <1>0, <2>1 DEF BooksOK, SaveOK
  <2> QED
    BY <1>0, <2>1, <2>3, <2>4, <2>5, <2>6, PayerStays DEF PoolInv, BooksOK
<1> QED
  BY <1>1, <1>2, <1>3

\* Reading the books, and writing the file.
LEMMA SaveKeeps ==
  ASSUME PoolInv, NEW s \in Saver, Save(s)
  PROVE  PoolInv'
<1>1. PayerInv /\ BooksOK /\ UNCHANGED <<payerVars, books, loop>>
  BY DEF PoolInv, Save, SaveOwed, SavePaid, SaveWrite
<1>2. PICK r : saves' = [saves EXCEPT ![s] = r] /\ SaveOK(r)
  <2>1. CASE SaveOwed(s)
    <3>1. SaveOK([pc |-> "paid", owed |-> Owed])
      BY <1>1 DEF BooksOK, SaveOK
    <3> QED
      BY <2>1, <3>1 DEF SaveOwed
  <2>2. CASE SavePaid(s)
    <3>1. SaveOK([pc |-> "write", owed |-> saves[s].owed, paid |-> Paid])
      BY <1>1, <2>2 DEF BooksOK, SaveOK, SavePaid
    <3> QED
      BY <2>2, <3>1 DEF SavePaid
  <2>3. CASE SaveWrite(s)
    <3>1. SaveOK(NoSave)
      BY DEF SaveOK, NoSave
    <3> QED
      BY <2>3, <3>1 DEF SaveWrite
  <2> QED
    BY <2>1, <2>2, <2>3 DEF Save
<1>3. file'.owed \in Amounts /\ file'.paid \in Amounts
  <2>1. CASE SaveWrite(s)
    BY <1>1, <2>1 DEF SaveWrite, BooksOK, SaveOK
  <2>2. CASE file' = file
    BY <1>1, <2>2 DEF BooksOK
  <2> QED
    BY <2>1, <2>2 DEF Save, SaveOwed, SavePaid
<1>4. DOMAIN saves' = Saver /\ \A u \in Saver : SaveOK(saves'[u])
  BY <1>1, <1>2 DEF BooksOK
<1> QED
  BY <1>1, <1>3, <1>4, PayerStays DEF PoolInv, BooksOK, LoopOK, books

\* The loop takes one who is due after the other; each was listed once.
LEMMA LoopKeeps ==
  ASSUME PoolInv, payoutLoop
  PROVE  PoolInv'
<1>0. /\ PayerInv /\ BooksOK
      /\ Fee \in Nat /\ minPayout \in Nat /\ minPayout > Fee /\ Pool \in Service
      /\ \A m \in Miner : Owed[m] \in Nat
  BY PayerAssumption, PoolAssumption DEF PoolInv, BooksOK, Amounts
<1>1. CASE AskSpendable \/ ListDue \/ Sleep
  <2>1. UNCHANGED <<payerVars, Owed, Paid, Shares, file, saves>>
    BY <1>1 DEF AskSpendable, ListDue, Sleep, books
  <2>2. LoopOK'
    <3>1. CASE AskSpendable
      BY <1>0, <2>1, <3>1, SpendableType DEF AskSpendable, LoopOK
    <3>2. CASE ListDue
      BY <1>0, <2>1, <3>2 DEF ListDue, BooksOK, LoopOK
    <3>3. CASE Sleep
      BY <3>3 DEF Sleep, LoopOK, Asleep
    <3> QED
      BY <1>1, <3>1, <3>2, <3>3
  <2> QED
    BY <1>0, <2>1, <2>2, PayerStays DEF PoolInv, BooksOK
<1>2. ASSUME NEW m \in Miner, Pay(m) PROVE PoolInv'
  <2>1. PICK pay, avail : avail = loop.avail /\ pay = IF Owed[m] > loop.avail THEN loop.avail ELSE Owed[m]
    OBVIOUS
  <2>2. /\ loop.pc = "next" /\ m \in loop.due /\ avail >= minPayout
        /\ loop' = [pc |-> "pay", avail |-> avail, due |-> loop.due \ {m}, to |-> m, pay |-> pay]
        /\ sending' = [sending EXCEPT ![Pool] = calling(m, pay - Fee)]
        /\ UNCHANGED <<node, taken, books, file, saves>>
    BY <1>2, <2>1 DEF Pay, become
  <2>3. avail \in Int /\ loop.due \subseteq Miner /\ \A d \in loop.due : Owed[d] >= minPayout
    BY <1>0, <2>1, <2>2 DEF BooksOK, LoopOK
  <2>4. pay \in Nat /\ pay > Fee /\ pay <= Owed[m] /\ pay - Fee \in Nat
    BY <1>0, <2>1, <2>2, <2>3
  <2>5. CallOK(calling(m, pay - Fee))
    BY <2>4 DEF CallOK, calling, Payees
  <2>6. PayerInv'
    BY <1>0, <2>2, <2>5, CallKeeps
  <2>7. LoopOK'
    BY <2>2, <2>3, <2>4 DEF LoopOK, books
  <2> QED
    BY <1>0, <2>2, <2>6, <2>7 DEF PoolInv, BooksOK, books
<1>3. CASE Settle
  <2>1. /\ loop.pc = "pay"
        /\ sending' = [sending EXCEPT ![Pool] = NoCall]
        /\ UNCHANGED <<node, taken, Shares, file>>
    BY <1>3 DEF Settle, become
  <2>2. /\ loop.to \in Miner /\ loop.to \notin loop.due /\ loop.due \subseteq Miner
        /\ loop.pay \in Nat /\ loop.pay <= Owed[loop.to] /\ loop.avail \in Int
        /\ \A d \in loop.due : Owed[d] >= minPayout
    BY <1>0, <2>1 DEF BooksOK, LoopOK
  <2>3. PayerInv'
    <3>1. CallOK(NoCall)
      BY DEF CallOK, NoCall
    <3> QED
      BY <1>0, <2>1, <3>1, CallKeeps
  <2>4. CASE sending[Pool].ok
    <3>1. /\ Owed' = [Owed EXCEPT ![loop.to] = @ - loop.pay]
          /\ Paid' = [Paid EXCEPT ![loop.to] = @ + loop.pay]
          /\ loop' = [pc |-> "next", avail |-> loop.avail - loop.pay, due |-> loop.due]
          /\ saves' = [saves EXCEPT ![Loop] = [pc |-> "owed"]]
      BY <1>3, <2>4 DEF Settle, settled, beginSave
    <3>2. Owed' \in Amounts /\ Paid' \in Amounts
      BY <1>0, <2>2, <3>1 DEF BooksOK, Amounts
    <3>3. LoopOK'
      <4>1. \A d \in loop.due : Owed'[d] = Owed[d]
        BY <1>0, <2>2, <3>1 DEF BooksOK, Amounts
      <4> QED
        BY <1>0, <2>2, <3>1, <4>1 DEF LoopOK
    <3>4. DOMAIN saves' = Saver /\ \A s \in Saver : SaveOK(saves'[s])
      BY <1>0, <3>1 DEF BooksOK, SaveOK
    <3> QED
      BY <1>0, <2>1, <2>3, <3>2, <3>3, <3>4 DEF PoolInv, BooksOK
  <2>5. CASE ~sending[Pool].ok
    <3>1. /\ loop' = [pc |-> "next", avail |-> loop.avail, due |-> loop.due]
          /\ UNCHANGED <<Owed, Paid, saves>>
      BY <1>3, <2>5 DEF Settle
    <3>2. LoopOK'
      BY <2>2, <3>1 DEF LoopOK
    <3> QED
      BY <1>0, <2>1, <2>3, <3>1, <3>2 DEF PoolInv, BooksOK
  <2> QED
    BY <2>4, <2>5
<1> QED
  BY <1>1, <1>2, <1>3 DEF payoutLoop

\* The pool starts again with what the file has, or with nothing.
LEMMA RestartKeeps ==
  ASSUME PoolInv, RestartPool
  PROVE  PoolInv'
<1>1. PayerInv /\ BooksOK /\ Pool \in Service
  BY PoolAssumption DEF PoolInv
<1>2. /\ Shares' = Nothing /\ saves' = [s \in Saver |-> NoSave] /\ loop' = Asleep
      /\ sending' = [sending EXCEPT ![Pool] = NoCall]
      /\ UNCHANGED <<node, taken>>
  BY DEF RestartPool, become
<1>3. PICK onDisk \in {file, NoBooks} : Owed' = onDisk.owed /\ Paid' = onDisk.paid /\ file' = onDisk
  BY DEF RestartPool
<1>4. Nothing \in Amounts /\ NoBooks.owed = Nothing /\ NoBooks.paid = Nothing
  BY DEF Nothing, NoBooks, Amounts
<1>5. onDisk.owed \in Amounts /\ onDisk.paid \in Amounts
  BY <1>1, <1>3, <1>4 DEF BooksOK
<1>6. PayerInv'
  <2>1. CallOK(NoCall)
    BY DEF CallOK, NoCall
  <2> QED
    BY <1>1, <1>2, <2>1, CallKeeps
<1>7. \A s \in Saver : SaveOK(saves'[s])
  BY <1>2 DEF SaveOK, NoSave
<1>8. LoopOK'
  BY <1>2 DEF LoopOK, Asleep
<1>9. Shares' \in Amounts /\ DOMAIN saves' = Saver
  BY <1>2, <1>4
<1> QED
  BY <1>3, <1>5, <1>6, <1>7, <1>8, <1>9 DEF PoolInv, BooksOK

-----------------------------------------------------------------------------
(***************************************************************************)
(* What was credited is owed or paid, and what was paid was taken once.    *)
(***************************************************************************)

\* The pool's call is that of its loop.
CallLinked ==
  /\ loop.pc # "pay" => sending[Pool] = NoCall
  /\ loop.pc = "pay" =>
       /\ sending[Pool].pc = "ask" =>
            sending[Pool].to = loop.to /\ sending[Pool].amount = loop.pay - Fee
       /\ sending[Pool].pc = "post" => sending[Pool].tx = [to |-> loop.to, amount |-> loop.pay - Fee]

\* What was sent to miner m and what is still owed to it, the payment under way
\* counted once, is no more than its credits and what was forgotten.
Accounted(m) == sentTo(m) + Owed[m] - inFlight(m) <= accrued[m] + forgotten[m]

PaidInv ==
  /\ accrued \in Amounts /\ forgotten \in Amounts /\ restored \in [Miner -> Int]
  /\ BooksBalance
  /\ CallLinked
  /\ \A m \in Miner : sentTo(m) \in Nat /\ Accounted(m)

\* What is under way is owed.
LEMMA InFlightType ==
  ASSUME PoolInv, NEW m \in Miner
  PROVE  inFlight(m) \in Nat /\ inFlight(m) <= Owed[m]
<1>1. Owed[m] \in Nat
  BY DEF PoolInv, BooksOK, Amounts
<1> QED
  BY <1>1 DEF PoolInv, BooksOK, LoopOK, inFlight

\* What is sent to a miner with one more payment.
LEMMA SentNext ==
  ASSUME taken \in Seq(Taken), NEW t \in Taken, taken' = Append(taken, t), NEW m
  PROVE  /\ sentTo(m) \in Nat
         /\ sentTo(m)' = sentTo(m) + IF t.by = Pool /\ t.to = m THEN t.amount + Fee ELSE 0
<1> DEFINE n == Len(taken)
           all == Append(taken, t)
           f == [i \in DOMAIN taken |->
                   IF taken[i].by = Pool /\ taken[i].to = m THEN taken[i].amount + Fee ELSE 0]
           g == [i \in DOMAIN all |->
                   IF all[i].by = Pool /\ all[i].to = m THEN all[i].amount + Fee ELSE 0]
<1>1. Fee \in Nat /\ t.amount \in Nat
  BY PayerAssumption DEF Taken
<1>2. n \in Nat /\ DOMAIN taken = 1 .. n /\ \A i \in 1 .. n : taken[i] \in Taken
  BY LenProperties, ElementOfSeq
<1>3. DOMAIN all = 1 .. n + 1 /\ all[n + 1] = t /\ \A i \in 1 .. n : all[i] = taken[i]
  BY AppendProperties
<1>4. DOMAIN f = 1 .. n /\ DOMAIN g = 1 .. n + 1
  BY <1>2, <1>3
<1>5. \A i \in 1 .. n : f[i] \in Nat /\ g[i] = f[i]
  BY <1>1, <1>2, <1>3 DEF Taken
<1>6. g[n + 1] = (IF t.by = Pool /\ t.to = m THEN t.amount + Fee ELSE 0) /\ g[n + 1] \in Nat
  BY <1>1, <1>2, <1>3
<1>7. sentTo(m) = SumFunction(f) /\ sentTo(m)' = SumFunction(g)
  BY DEF sentTo
<1> HIDE DEF f, g, n
<1>8. SumFunction(g) = SumFunction(f) + g[n + 1] /\ SumFunction(f) \in Nat
  BY <1>2, <1>4, <1>5, <1>6, SumAppended
<1> QED
  BY <1>6, <1>7, <1>8

\* Books, debts and payments as they were.
LEMMA PaidStays ==
  ASSUME PaidInv, UNCHANGED <<Owed, Paid, history, taken>>, CallLinked',
         \A m \in Miner : inFlight(m)' = inFlight(m)
  PROVE  PaidInv'
<1>1. \A m \in Miner : sentTo(m)' = sentTo(m)
  BY DEF sentTo
<1> QED
  BY <1>1 DEF PaidInv, BooksBalance, Accounted, history

\* The loop and its call as they were, too.
LEMMA PaidRests ==
  ASSUME PaidInv, UNCHANGED <<Owed, Paid, history, taken, loop, sending>>
  PROVE  PaidInv'
<1>1. CallLinked' /\ \A m \in Miner : inFlight(m)' = inFlight(m)
  BY DEF PaidInv, CallLinked, inFlight
<1> QED
  BY <1>1, PaidStays

\* The steps of the pool's call.
LEMMA CallPays ==
  ASSUME PoolInv, PaidInv, Send(Pool) \/ Unreached(Pool), UNCHANGED poolVars
  PROVE  PaidInv'
<1>1. /\ PayerInv /\ BooksOK /\ CallLinked /\ Pool \in Service
      /\ UNCHANGED <<Owed, Paid, history, loop>>
  BY PoolAssumption DEF PoolInv, PaidInv, poolVars, books
<1>2. sending[Pool].pc # "none" => loop.pc = "pay"
  BY <1>1 DEF CallLinked, NoCall
<1>3. CASE Ask(Pool)
  <2>1. PICK r : /\ sending' = [sending EXCEPT ![Pool] = r] /\ UNCHANGED taken
                 /\ \/ r = done(FALSE)
                    \/ /\ r.pc = "post"
                       /\ r.tx = [to |-> sending[Pool].to, amount |-> sending[Pool].amount]
    <3>1. PICK r : r = IF Balance < sending[Pool].amount + Fee
                       THEN done(FALSE)
                       ELSE [pc    |-> "post",
                             tx    |-> [to |-> sending[Pool].to, amount |-> sending[Pool].amount],
                             nonce |-> IF nextNonce[Pool] > confirmed THEN nextNonce[Pool] ELSE confirmed]
      OBVIOUS
    <3>2. sending' = [sending EXCEPT ![Pool] = r] /\ UNCHANGED taken
      BY <1>3, <3>1 DEF Ask, become
    <3>3. \/ r = done(FALSE)
          \/ r.pc = "post" /\ r.tx = [to |-> sending[Pool].to, amount |-> sending[Pool].amount]
      BY <3>1
    <3> QED
      BY <3>2, <3>3
  <2>2. loop.pc = "pay" /\ sending[Pool].pc = "ask"
    BY <1>2, <1>3 DEF Ask
  <2>3. sending'[Pool] = r
    BY <1>1, <2>1 DEF PayerInv
  <2>4. CallLinked'
    BY <1>1, <2>1, <2>2, <2>3 DEF CallLinked, done
  <2>5. ~took(sending[Pool]) /\ ~took(r)
    BY <2>1, <2>2 DEF took, done
  <2>6. \A m \in Miner : inFlight(m)' = inFlight(m)
    BY <2>3, <2>5 DEF inFlight, took
  <2> QED
    BY <1>1, <2>1, <2>4, <2>6, PaidStays
<1>4. CASE Unreached(Pool)
  <2>1. /\ sending' = [sending EXCEPT ![Pool] = done(FALSE)] /\ UNCHANGED taken
        /\ sending[Pool].pc \in {"ask", "post"}
    BY <1>4 DEF Unreached, become
  <2>2. loop.pc = "pay"
    BY <1>2, <2>1
  <2>3. sending'[Pool] = done(FALSE)
    BY <1>1, <2>1 DEF PayerInv
  <2>4. CallLinked'
    BY <1>1, <2>2, <2>3 DEF CallLinked, done
  <2>5. \A m \in Miner : inFlight(m)' = inFlight(m)
    BY <2>1, <2>3 DEF inFlight, took, done
  <2> QED
    BY <1>1, <2>1, <2>4, <2>5, PaidStays
<1>5. CASE Answer(Pool)
  <2>1. /\ sending' = [sending EXCEPT ![Pool] = done(sending[Pool].verdict = "taken")]
        /\ UNCHANGED taken /\ sending[Pool].pc = "answer"
    BY <1>5 DEF Answer, become
  <2>2. loop.pc = "pay"
    BY <1>2, <2>1
  <2>3. sending'[Pool] = done(sending[Pool].verdict = "taken")
    BY <1>1, <2>1 DEF PayerInv
  <2>4. CallLinked'
    BY <1>1, <2>2, <2>3 DEF CallLinked, done
  <2>5. took(sending[Pool])' <=> took(sending[Pool])
    <3>1. sending'[Pool].pc = "done" /\ (sending'[Pool].ok <=> sending[Pool].verdict = "taken")
      <4>1. PICK ok \in BOOLEAN : ok <=> sending[Pool].verdict = "taken"
        OBVIOUS
      <4>2. done(sending[Pool].verdict = "taken") = done(ok)
        BY <4>1 DEF done
      <4>3. done(ok).pc = "done" /\ done(ok).ok = ok
        BY DEF done
      <4> QED
        BY <2>3, <4>1, <4>2, <4>3
    <3>2. took(sending[Pool])' <=> sending'[Pool].ok
      BY <3>1 DEF took
    <3>3. took(sending[Pool]) <=> sending[Pool].verdict = "taken"
      BY <2>1 DEF took
    <3> QED
      BY <3>1, <3>2, <3>3
  <2>6. \A m \in Miner : inFlight(m)' = inFlight(m)
    BY <1>1, <2>5 DEF inFlight
  <2> QED
    BY <1>1, <2>1, <2>4, <2>6, PaidStays
<1>6. CASE Post(Pool)
  <2>1. PICK t, v, nonce : /\ t = sending[Pool].tx /\ nonce = sending[Pool].nonce
                           /\ v = verdict(t, nonce)
    OBVIOUS
  <2>2. /\ sending[Pool].pc = "post"
        /\ taken' = IF v = "taken" THEN Append(taken, [by |-> Pool, to |-> t.to, amount |-> t.amount]) ELSE taken
        /\ sending' = [sending EXCEPT ![Pool] = [pc |-> "answer", nonce |-> nonce, verdict |-> v]]
    BY <1>6, <2>1 DEF Post, become
  <2>3. /\ loop.pc = "pay" /\ t.to = loop.to /\ t.amount = loop.pay - Fee
        /\ t \in Payment /\ loop.pay \in Nat /\ Fee \in Nat
    <3>1. loop.pc = "pay" /\ sending[Pool].tx = [to |-> loop.to, amount |-> loop.pay - Fee]
      BY <1>1, <1>2, <2>2 DEF CallLinked
    <3>2. t \in Payment
      BY <1>1, <2>1, <2>2 DEF PayerInv, CallOK
    <3>3. loop.pay \in Nat /\ Fee \in Nat
      BY <1>1, <3>1, PayerAssumption DEF BooksOK, LoopOK
    <3> QED
      BY <2>1, <3>1, <3>2, <3>3
  <2>4. sending'[Pool] = [pc |-> "answer", nonce |-> nonce, verdict |-> v]
    BY <1>1, <2>2 DEF PayerInv
  <2>5. CallLinked'
    BY <1>1, <2>3, <2>4 DEF CallLinked
  <2>6. ~took(sending[Pool])
    BY <2>2 DEF took
  <2>7. CASE v = "taken"
    <3>1. PICK p : p = [by |-> Pool, to |-> t.to, amount |-> t.amount]
      OBVIOUS
    <3>2. p \in Taken /\ taken' = Append(taken, p) /\ p.by = Pool /\ p.to = loop.to /\ p.amount + Fee = loop.pay
      BY <1>1, <2>2, <2>3, <2>7, <3>1 DEF Taken, Payment
    <3>3. took(sending[Pool])'
      BY <2>4, <2>7 DEF took
    <3>4. ASSUME NEW m \in Miner PROVE sentTo(m)' \in Nat /\ Accounted(m)'
      <4>1. sentTo(m)' = sentTo(m) + (IF p.to = m THEN p.amount + Fee ELSE 0) /\ sentTo(m) \in Nat
        BY <1>1, <3>2, SentNext DEF PayerInv
      <4>2. /\ sentTo(m) + Owed[m] <= accrued[m] + forgotten[m] /\ Owed[m] \in Nat
            /\ accrued[m] \in Nat /\ forgotten[m] \in Nat
        <5>1. inFlight(m) = 0 /\ Owed[m] \in Nat /\ accrued[m] \in Nat /\ forgotten[m] \in Nat
          BY <1>1, <2>6 DEF PaidInv, inFlight, BooksOK, Amounts
        <5> QED
          BY <4>1, <5>1 DEF PaidInv, Accounted
      <4>3. inFlight(m)' = IF p.to = m THEN loop.pay ELSE 0
        BY <1>1, <2>3, <3>2, <3>3 DEF inFlight
      <4>4. p.amount + Fee = loop.pay /\ loop.pay \in Nat
            /\ Owed'[m] = Owed[m] /\ accrued'[m] = accrued[m] /\ forgotten'[m] = forgotten[m]
        BY <1>1, <2>3, <3>2 DEF history
      <4> QED
        BY <4>1, <4>2, <4>3, <4>4 DEF Accounted
    <3>5. /\ accrued' \in Amounts /\ forgotten' \in Amounts /\ restored' \in [Miner -> Int]
          /\ BooksBalance'
      BY <1>1 DEF PaidInv, BooksBalance, history
    <3> QED
      BY <2>5, <3>4, <3>5 DEF PaidInv
  <2>8. CASE v # "taken"
    <3>1. ~took(sending[Pool])'
      BY <2>4, <2>8 DEF took
    <3>2. \A m \in Miner : inFlight(m)' = inFlight(m)
      BY <2>6, <3>1 DEF inFlight
    <3> QED
      BY <1>1, <2>2, <2>5, <2>8, <3>2, PaidStays
  <2> QED
    BY <2>7, <2>8
<1> QED
  BY <1>3, <1>4, <1>5, <1>6 DEF Send

\* The steps of the loop.
LEMMA LoopPays ==
  ASSUME PoolInv, PaidInv, payoutLoop
  PROVE  PaidInv'
<1>1. /\ PayerInv /\ BooksOK /\ CallLinked /\ Pool \in Service
      /\ DOMAIN sending = Service
  BY PoolAssumption DEF PoolInv, PaidInv, PayerInv
<1>2. CASE AskSpendable \/ ListDue \/ Sleep
  <2>1. /\ loop.pc # "pay" /\ loop'.pc # "pay"
        /\ UNCHANGED <<sending, taken, Owed, Paid, history>>
    BY <1>2 DEF AskSpendable, ListDue, Sleep, Asleep, payerVars, calls, books
  <2>2. CallLinked'
    BY <1>1, <2>1 DEF CallLinked
  <2>3. \A m \in Miner : inFlight(m)' = inFlight(m)
    BY <2>1 DEF inFlight
  <2> QED
    BY <2>1, <2>2, <2>3, PaidStays
<1>3. ASSUME NEW m \in Miner, Pay(m) PROVE PaidInv'
  <2>1. PICK pay : pay = IF Owed[m] > loop.avail THEN loop.avail ELSE Owed[m]
    OBVIOUS
  <2>2. /\ loop.pc = "next" /\ loop'.pc = "pay" /\ loop'.to = m /\ loop'.pay = pay
        /\ sending' = [sending EXCEPT ![Pool] = calling(m, pay - Fee)]
        /\ UNCHANGED <<taken, Owed, Paid, history>>
    BY <1>3, <2>1 DEF Pay, become, books
  <2>3. sending'[Pool] = calling(m, pay - Fee)
    BY <1>1, <2>2
  <2>4. CallLinked'
    BY <2>2, <2>3 DEF CallLinked, calling
  <2>5. \A d \in Miner : inFlight(d)' = inFlight(d)
    BY <2>2, <2>3 DEF inFlight, took, calling
  <2> QED
    BY <2>2, <2>4, <2>5, PaidStays
<1>4. CASE Settle
  <2>1. /\ loop.pc = "pay" /\ loop'.pc # "pay"
        /\ sending[Pool].pc = "done"
        /\ sending' = [sending EXCEPT ![Pool] = NoCall]
        /\ UNCHANGED <<taken, history>>
    BY <1>4 DEF Settle, become
  <2>2. CallLinked'
    BY <1>1, <2>1 DEF CallLinked
  <2>3. \A m \in Miner : inFlight(m)' = 0
    BY <2>1 DEF inFlight
  <2>4. took(sending[Pool]) <=> sending[Pool].ok
    BY <2>1 DEF took
  <2>5. CASE ~sending[Pool].ok
    <3>1. UNCHANGED <<Owed, Paid>>
      BY <1>4, <2>5 DEF Settle
    <3>2. \A m \in Miner : inFlight(m) = 0
      BY <2>4, <2>5 DEF inFlight
    <3>3. \A m \in Miner : inFlight(m)' = inFlight(m)
      BY <2>3, <3>2
    <3> QED
      BY <2>1, <2>2, <3>1, <3>3, PaidStays
  <2>6. CASE sending[Pool].ok
    <3>1. /\ Owed' = [Owed EXCEPT ![loop.to] = @ - loop.pay]
          /\ Paid' = [Paid EXCEPT ![loop.to] = @ + loop.pay]
      BY <1>4, <2>6 DEF Settle, settled
    <3>2. Owed \in Amounts /\ Paid \in Amounts /\ loop.to \in Miner /\ loop.pay \in Nat
      BY <1>1, <2>1 DEF BooksOK, LoopOK
    <3>3. ASSUME NEW m \in Miner
          PROVE  /\ sentTo(m)' \in Nat /\ Accounted(m)'
                 /\ Owed'[m] + Paid'[m] = accrued'[m] + restored'[m]
      <4>1. sentTo(m)' = sentTo(m)
        BY <2>1 DEF sentTo
      <4>2. inFlight(m) = (IF loop.to = m THEN loop.pay ELSE 0) /\ inFlight(m)' = 0
        BY <2>1, <2>3, <2>4, <2>6 DEF inFlight
      <4>3. /\ Owed[m] + Paid[m] = accrued[m] + restored[m] /\ Accounted(m) /\ sentTo(m) \in Nat
            /\ Owed[m] \in Nat /\ Paid[m] \in Nat
            /\ accrued[m] \in Nat /\ forgotten[m] \in Nat /\ restored[m] \in Int
        BY <3>2 DEF PaidInv, BooksBalance, Amounts
      <4>4. /\ Owed'[m] = IF loop.to = m THEN Owed[m] - loop.pay ELSE Owed[m]
            /\ Paid'[m] = IF loop.to = m THEN Paid[m] + loop.pay ELSE Paid[m]
        BY <3>1, <3>2 DEF Amounts
      <4>5. accrued'[m] = accrued[m] /\ forgotten'[m] = forgotten[m] /\ restored'[m] = restored[m]
        BY <2>1 DEF history
      <4> QED
        BY <3>2, <4>1, <4>2, <4>3, <4>4, <4>5 DEF Accounted
    <3>4. /\ accrued' \in Amounts /\ forgotten' \in Amounts /\ restored' \in [Miner -> Int]
          /\ BooksBalance'
      BY <2>1, <3>3 DEF PaidInv, BooksBalance, history
    <3> QED
      BY <2>2, <3>3, <3>4 DEF PaidInv
  <2> QED
    BY <2>5, <2>6
<1> QED
  BY <1>2, <1>3, <1>4 DEF payoutLoop

\* What a block credits is owed.
LEMMA CreditsPay ==
  ASSUME PoolInv, PaidInv, NEW b \in Block, onBlockFound(b)
  PROVE  PaidInv'
<1>1. /\ Owed' = [m \in Miner |-> Owed[m] + credits[m]]
      /\ accrued' = [m \in Miner |-> accrued[m] + credits[m]]
      /\ UNCHANGED <<sending, taken, Paid, loop, restored, forgotten>>
  BY DEF onBlockFound, payerVars, calls
<1>2. /\ credits \in Amounts /\ Owed \in Amounts /\ Paid \in Amounts /\ accrued \in Amounts
      /\ restored \in [Miner -> Int] /\ forgotten \in Amounts
  BY CreditsType DEF PoolInv, BooksOK, PaidInv
<1>3. accrued' \in Amounts
  BY <1>1, <1>2 DEF Amounts
<1>4. BooksBalance'
  <2>1. ASSUME NEW m \in Miner PROVE Owed'[m] + Paid'[m] = accrued'[m] + restored'[m]
    <3>1. /\ Owed'[m] = Owed[m] + credits[m] /\ accrued'[m] = accrued[m] + credits[m]
          /\ Paid'[m] = Paid[m] /\ restored'[m] = restored[m]
          /\ Owed[m] + Paid[m] = accrued[m] + restored[m]
      BY <1>1 DEF PaidInv, BooksBalance
    <3>2. /\ credits[m] \in Nat /\ Owed[m] \in Nat /\ Paid[m] \in Nat /\ accrued[m] \in Nat
          /\ restored[m] \in Int
      BY <1>2 DEF Amounts
    <3> QED
      BY <3>1, <3>2
  <2> QED
    BY <2>1 DEF BooksBalance
<1>5. CallLinked' /\ \A m \in Miner : inFlight(m)' = inFlight(m) /\ sentTo(m)' = sentTo(m)
  BY <1>1 DEF PaidInv, CallLinked, inFlight, sentTo
<1>6. ASSUME NEW m \in Miner PROVE sentTo(m)' \in Nat /\ Accounted(m)'
  <2>1. /\ Owed'[m] = Owed[m] + credits[m] /\ accrued'[m] = accrued[m] + credits[m]
        /\ forgotten'[m] = forgotten[m]
    BY <1>1
  <2>2. credits[m] \in Nat /\ Owed[m] \in Nat /\ accrued[m] \in Nat /\ forgotten[m] \in Nat
    BY <1>2 DEF Amounts
  <2>3. sentTo(m) \in Nat /\ Accounted(m) /\ inFlight(m) \in Int
    BY InFlightType DEF PaidInv
  <2> QED
    BY <1>5, <2>1, <2>2, <2>3 DEF Accounted
<1> QED
  BY <1>1, <1>2, <1>3, <1>4, <1>5, <1>6 DEF PaidInv

\* What is under way and was taken for nobody's credit but its own is forgotten.
LEMMA LostAnswerPays ==
  ASSUME PoolInv, PaidInv, AnswerOfPoolLost
  PROVE  PaidInv'
<1>1. /\ sending' = [sending EXCEPT ![Pool] = done(FALSE)] /\ sending[Pool].pc = "answer"
      /\ UNCHANGED <<taken, Owed, Paid, loop, accrued, restored>>
      /\ forgotten' = [m \in Miner |-> forgotten[m] + inFlight(m)]
  BY DEF AnswerOfPoolLost, AnswerLost, become, books
<1>2. Pool \in Service /\ DOMAIN sending = Service /\ CallLinked
  BY PoolAssumption DEF PoolInv, PayerInv, PaidInv
<1>3. sending'[Pool] = done(FALSE) /\ loop.pc = "pay"
  BY <1>1, <1>2 DEF CallLinked, NoCall
<1>4. CallLinked'
  BY <1>1, <1>3 DEF CallLinked, done
<1>5. \A m \in Miner : inFlight(m)' = 0 /\ sentTo(m)' = sentTo(m)
  BY <1>1, <1>3 DEF inFlight, took, done, sentTo
<1>6. forgotten \in Amounts /\ accrued \in Amounts /\ Owed \in Amounts
  BY DEF PaidInv, PoolInv, BooksOK
<1>7. forgotten' \in Amounts
  BY <1>1, <1>6, InFlightType DEF Amounts
<1>8. ASSUME NEW m \in Miner PROVE sentTo(m)' \in Nat /\ Accounted(m)'
  <2>1. forgotten'[m] = forgotten[m] + inFlight(m) /\ Owed'[m] = Owed[m] /\ accrued'[m] = accrued[m]
    BY <1>1
  <2>2. Owed[m] \in Nat /\ accrued[m] \in Nat /\ forgotten[m] \in Nat
    BY <1>6 DEF Amounts
  <2>3. sentTo(m) \in Nat /\ Accounted(m) /\ inFlight(m) \in Nat
    BY InFlightType DEF PaidInv
  <2> QED
    BY <1>5, <2>1, <2>2, <2>3 DEF Accounted
<1> QED
  BY <1>1, <1>4, <1>7, <1>8 DEF PaidInv, BooksBalance

\* A restart forgets the payment under way and what the older books owe again.
LEMMA RestartPays ==
  ASSUME PoolInv, PaidInv, RestartPool
  PROVE  PaidInv'
<1>1. /\ sending' = [sending EXCEPT ![Pool] = NoCall] /\ loop' = Asleep
      /\ UNCHANGED <<taken, accrued>>
  BY DEF RestartPool, become
<1>2. PICK onDisk \in {file, NoBooks} :
        /\ Owed' = onDisk.owed /\ Paid' = onDisk.paid
        /\ restored' = [m \in Miner |-> onDisk.owed[m] + onDisk.paid[m] - accrued[m]]
        /\ forgotten' = [m \in Miner |->
             LET again == onDisk.owed[m] - Owed[m]
             IN  forgotten[m] + inFlight(m) + IF again > 0 THEN again ELSE 0]
  BY DEF RestartPool
<1>3. onDisk.owed \in Amounts /\ onDisk.paid \in Amounts
  <2>1. NoBooks.owed \in Amounts /\ NoBooks.paid \in Amounts
    BY DEF NoBooks, Nothing, Amounts
  <2> QED
    BY <1>2, <2>1 DEF PoolInv, BooksOK
<1>4. Pool \in Service /\ DOMAIN sending = Service
  BY PoolAssumption DEF PoolInv, PayerInv
<1>5. CallLinked'
  BY <1>1, <1>4 DEF CallLinked, Asleep
<1>6. \A m \in Miner : inFlight(m)' = 0 /\ sentTo(m)' = sentTo(m)
  BY <1>1 DEF inFlight, Asleep, sentTo
<1>7. forgotten \in Amounts /\ accrued \in Amounts /\ Owed \in Amounts
  BY DEF PaidInv, PoolInv, BooksOK
<1>8. ASSUME NEW m \in Miner
      PROVE  /\ sentTo(m)' \in Nat /\ Accounted(m)'
             /\ forgotten'[m] \in Nat /\ restored'[m] \in Int
             /\ Owed'[m] + Paid'[m] = accrued'[m] + restored'[m]
  <2>1. PICK owed, again : owed = onDisk.owed[m] /\ again = owed - Owed[m]
    OBVIOUS
  <2>2. /\ Owed'[m] = owed /\ Paid'[m] = onDisk.paid[m] /\ accrued'[m] = accrued[m]
        /\ restored'[m] = owed + onDisk.paid[m] - accrued[m]
        /\ forgotten'[m] = forgotten[m] + inFlight(m) + IF again > 0 THEN again ELSE 0
    BY <1>1, <1>2, <2>1
  <2>3. /\ Owed[m] \in Nat /\ accrued[m] \in Nat /\ forgotten[m] \in Nat
        /\ owed \in Nat /\ onDisk.paid[m] \in Nat
    BY <1>3, <1>7, <2>1 DEF Amounts
  <2>4. sentTo(m) \in Nat /\ Accounted(m) /\ inFlight(m) \in Nat
    BY InFlightType DEF PaidInv
  <2> QED
    BY <1>6, <2>1, <2>2, <2>3, <2>4 DEF Accounted
<1>9. forgotten' \in Amounts /\ restored' \in [Miner -> Int]
  BY <1>2, <1>8 DEF Amounts
<1> QED
  BY <1>1, <1>5, <1>8, <1>9 DEF PaidInv, BooksBalance

\* The pool starts with the debts of its file.
LEMMA PoolStarts == PoolInit => PoolInv /\ PaidInv
<1> SUFFICES ASSUME PoolInit PROVE PoolInv /\ PaidInv
  OBVIOUS
<1>1. PayerInit /\ PayerInv
  BY PayerStarts DEF PoolInit
<1>2. /\ Owed \in Amounts /\ Paid \in Amounts /\ Shares \in Amounts /\ accrued = Owed
      /\ forgotten \in Amounts /\ restored \in [Miner -> Int]
      /\ \A m \in Miner : restored[m] = 0 /\ forgotten[m] = 0
      /\ file.owed = Owed /\ file.paid = Paid /\ \A m \in Miner : Paid[m] = 0
  BY PoolAssumption DEF PoolInit, Nothing, Amounts
<1>3. DOMAIN saves = Saver /\ \A s \in Saver : SaveOK(saves[s])
  BY DEF PoolInit, SaveOK, NoSave
<1>4. LoopOK /\ loop.pc = "sleep"
  BY DEF PoolInit, LoopOK, Asleep
<1>5. PoolInv
  BY <1>1, <1>2, <1>3, <1>4 DEF PoolInv, BooksOK
<1>6. ASSUME NEW m \in Miner PROVE sentTo(m) = 0
  <2> DEFINE f == [i \in DOMAIN <<>> |->
                     IF (<<>>)[i].by = Pool /\ (<<>>)[i].to = m THEN (<<>>)[i].amount + Fee ELSE 0]
  <2>1. DOMAIN f = {}
    BY EmptySeq
  <2> HIDE DEF f
  <2>2. SumFunction(f) = 0
    BY <2>1, SumEmpty DEF SumFunction
  <2>3. taken = <<>>
    BY <1>1 DEF PayerInit
  <2>4. sentTo(m) = SumFunction(f)
    BY <2>3 DEF f, sentTo
  <2> QED
    BY <2>2, <2>4
<1>7. CallLinked /\ \A m \in Miner : inFlight(m) = 0
  BY <1>1, <1>4, PoolAssumption DEF CallLinked, inFlight, PayerInit
<1>8. BooksBalance
  BY <1>2 DEF BooksBalance, Amounts
<1>9. \A m \in Miner : Accounted(m)
  BY <1>2, <1>6, <1>7 DEF Accounted, Amounts
<1> QED
  BY <1>2, <1>5, <1>6, <1>7, <1>8, <1>9 DEF PaidInv

\* Every step of the pool and the node.
LEMMA PoolStep ==
  ASSUME PoolInv, [PoolNext \/ (NodeNext /\ UNCHANGED poolVars)]_<<payerVars, poolVars>>
  PROVE  PoolInv'
<1>1. CASE \/ \E m \in Miner : RecordShare(m) \/ \E b \in Block : Solve(b, m)
           \/ \E b \in Block : Forward(b) \/ onBlockFound(b) \/ ForwardLost(b)
  BY <1>1, HandlersKeep
<1>2. CASE \E s \in Saver : Save(s)
  BY <1>2, SaveKeeps
<1>3. CASE payoutLoop
  BY <1>3, LoopKeeps
<1>4. CASE \/ (Send(Pool) \/ Unreached(Pool) \/ NodeNext) /\ UNCHANGED poolVars
           \/ AnswerOfPoolLost
  <2>1. PayerInv /\ BooksOK /\ Pool \in Service
    BY PoolAssumption DEF PoolInv
  <2>2. PayerInv'
    BY <1>4, <2>1, SendKeeps, NodeKeeps DEF AnswerOfPoolLost
  <2>3. BooksOK'
    BY <1>4, <2>1, BooksStay DEF poolVars, AnswerOfPoolLost
  <2> QED
    BY <2>2, <2>3 DEF PoolInv
<1>5. CASE RestartPool
  BY <1>5, RestartKeeps
<1>6. CASE UNCHANGED <<payerVars, poolVars>>
  BY <1>6, PayerStays, BooksStay DEF PoolInv, poolVars
<1> QED
  BY <1>1, <1>2, <1>3, <1>4, <1>5, <1>6 DEF PoolNext

\* Every step of the pool and the node, for the payments.
LEMMA PaidStep ==
  ASSUME PoolInv, PaidInv, [PoolNext \/ (NodeNext /\ UNCHANGED poolVars)]_<<payerVars, poolVars>>
  PROVE  PaidInv'
<1>1. CASE (\E m \in Miner : RecordShare(m) \/ \E b \in Block : Solve(b, m))
             \/ (\E b \in Block : Forward(b) \/ ForwardLost(b)) \/ \E s \in Saver : Save(s)
  <2>1. UNCHANGED <<Owed, Paid, history, taken, loop, sending>>
    BY <1>1 DEF RecordShare, Solve, Forward, ForwardLost, Save, SaveOwed, SavePaid, SaveWrite, payerVars, calls, books
  <2> QED
    BY <2>1, PaidRests
<1>2. CASE \E b \in Block : onBlockFound(b)
  BY <1>2, CreditsPay
<1>3. CASE payoutLoop
  BY <1>3, LoopPays
<1>4. CASE (Send(Pool) \/ Unreached(Pool)) /\ UNCHANGED poolVars
  BY <1>4, CallPays
<1>5. CASE NodeNext /\ UNCHANGED poolVars
  <2>1. UNCHANGED <<sending, taken>>
    BY <1>5 DEF NodeNext, Confirm, Mature, RestartNode, OtherPays, calls
  <2> QED
    BY <1>5, <2>1, PaidRests DEF poolVars, books
<1>6. CASE UNCHANGED <<payerVars, poolVars>>
  BY <1>6, PaidRests DEF payerVars, calls, poolVars, books
<1>7. CASE AnswerOfPoolLost \/ RestartPool
  BY <1>7, LostAnswerPays, RestartPays
<1> QED
  BY <1>1, <1>2, <1>3, <1>4, <1>5, <1>6, <1>7 DEF PoolNext

\* The books as the loop, the handlers and the wallet see them, whatever stops or
\* is lost: who is listed for a payment stays due, and what is on its way to a
\* miner is owed to it.
THEOREM PoolInvariant == PoolSpec => []PoolInv
<1>1. PoolInit => PoolInv
  BY PoolStarts
<1>2. PoolInv /\ [PoolNext \/ (NodeNext /\ UNCHANGED poolVars)]_<<payerVars, poolVars>>
        => PoolInv'
  BY PoolStep
<1> QED
  BY <1>1, <1>2, PTL DEF PoolSpec

\* However often the pool asks, stops, forgets its nonces or shares the wallet
\* with others, the node never holds payments of more than has matured.
THEOREM OverdraftSafety == PoolSpec => []NeverOverdrawn
<1>1. PoolInv => NeverOverdrawn
  BY DEF PoolInv, PayerInv
<1> QED
  BY <1>1, PoolInvariant, PTL

\* The books say what became of every credit, lost answers and restarts included.
LEMMA PaidAlways == PoolSpec => [](PoolInv /\ PaidInv)
<1>1. PoolInit => PaidInv
  BY PoolStarts
<1>2. PoolInv /\ PaidInv /\ [PoolNext \/ (NodeNext /\ UNCHANGED poolVars)]_<<payerVars, poolVars>>
        => PaidInv'
  BY PaidStep
<1> QED
  BY <1>1, <1>2, PoolInvariant, PTL DEF PoolSpec

\* What a miner was ever credited is what it is owed and what it was paid, but for
\* what restarts changed in both, for any reward, fee and number of miners.
THEOREM BalanceSafety == PoolSpec => []BooksBalance
<1>1. PaidInv => BooksBalance
  BY DEF PaidInv
<1> QED
  BY <1>1, PaidAlways, PTL

\* The node takes more for a miner than it was credited only by what the books
\* were made to forget: for any number of lost answers, restarts and savers, what
\* it took is what was settled, what is under way and owed, and what was forgotten.
THEOREM PaymentSafety == PoolSpec => []PaidOnce
<1>1. PoolInv /\ PaidInv => PaidOnce
  <2> SUFFICES ASSUME PoolInv, PaidInv, NEW m \in Miner
               PROVE  sentTo(m) <= accrued[m] + forgotten[m]
    BY DEF PaidOnce
  <2>1. /\ Owed[m] \in Nat /\ accrued[m] \in Nat /\ forgotten[m] \in Nat
        /\ sentTo(m) \in Nat /\ Accounted(m)
    BY DEF PoolInv, BooksOK, Amounts, PaidInv
  <2>2. inFlight(m) \in Nat /\ inFlight(m) <= Owed[m]
    BY InFlightType
  <2> QED
    BY <2>1, <2>2 DEF Accounted
<1> QED
  BY <1>1, PaidAlways, PTL

(***************************************************************************)
(* The faucet's reservations.                                              *)
(***************************************************************************)

Address == {addrOf(c) : c \in Claim}
Network == {ipOf(c) : c \in Claim}

Timed == {"reserve", "saveAddr", "saveIP", "saveWrite", "send", "pay", "release"}

\* The claim has reserved its addresses and has not given them back.
Holds(c) ==
  \/ claim[c].pc \in {"saveAddr", "saveIP", "saveWrite"} /\ claim[c].next = "send"
  \/ claim[c].pc \in {"send", "pay", "release"}

\* Claim d was paid and its cooldown is not over.
Cooling(d) == \E g \in grants : g.claim = d /\ g.at + Cooldown > now

FaucetTypes ==
  /\ now \in Nat \ {0}
  /\ Addr \in [Address -> Nat] /\ IP \in [Network -> Nat]
  /\ DOMAIN claim = Claim
  /\ \A c \in Claim :
       claim[c].pc \in Timed =>
         "at" \in DOMAIN claim[c] /\ claim[c].at \in 1 .. now /\ now < claim[c].at + Cooldown
  /\ \A g \in grants : g.claim \in Claim /\ g.at \in 1 .. now

\* The entries of a claim that holds, or was paid, are its own.
Entries ==
  /\ \A c \in Claim :
       Holds(c) => Addr[addrOf(c)] = claim[c].at /\ IP[ipOf(c)] = claim[c].at
  /\ \A g \in grants :
       now < g.at + Cooldown => Addr[addrOf(g.claim)] = g.at /\ IP[ipOf(g.claim)] = g.at

\* Who holds waited for the others.
Waited ==
  /\ \A c, d \in Claim : c # d /\ Holds(c) /\ Holds(d) => ~near(c, d)
  /\ \A c \in Claim : \A g \in grants :
       Holds(c) /\ g.claim # c /\ near(g.claim, c) => g.at + Cooldown <= now

\* A payment under way is that of one claim.
OneCall ==
  /\ \A c \in Claim : claim[c].pc = "pay" => sending[Tap].pc # "none"
  /\ \A c, d \in Claim : claim[c].pc = "pay" /\ claim[d].pc = "pay" => c = d

\* What was paid, and to whom.
Granted ==
  /\ \A g \in grants :
       \/ claim[g.claim].pc = "end"
       \/ claim[g.claim].pc = "pay" /\ took(sending[Tap]) /\ g.at = claim[g.claim].at
  /\ \A c \in Claim :
       claim[c].pc = "pay" /\ took(sending[Tap]) => \E g \in grants : g.claim = c

\* Whoever an entry keeps waiting.
Reasons ==
  /\ \A a \in Address :
       Addr[a] # 0 /\ Addr[a] + Cooldown > now =>
         \E d \in Claim : addrOf(d) = a /\ (Holds(d) \/ Cooling(d))
  /\ \A i \in Network :
       IP[i] # 0 /\ IP[i] + Cooldown > now =>
         \E d \in Claim : ipOf(d) = i /\ (Holds(d) \/ Cooling(d))

FaucetInv == FaucetTypes /\ Entries /\ Waited /\ OneCall /\ Granted /\ Reasons /\ GrantsSpaced

\* Dropping what does not cool any more.
LEMMA PurgedKeeps ==
  ASSUME NEW S, NEW f \in [S -> Nat], now \in Nat, NEW t \in 1 .. now
  PROVE  /\ purged(f, t) \in [S -> Nat]
         /\ \A k \in S : purged(f, t)[k] = f[k] \/ (purged(f, t)[k] = 0 /\ f[k] + Cooldown <= now)
<1>1. Cooldown \in Nat /\ \A k \in S : f[k] \in Nat
  BY FaucetAssumption
<1>2. ASSUME NEW k \in S, f[k] < t - Cooldown
      PROVE  f[k] + Cooldown <= now
  BY <1>1, <1>2
<1> QED
  BY <1>1, <1>2 DEF purged

\* Steps that only drop such entries and leave the payments as they are.
LEMMA FaucetRests ==
  ASSUME FaucetInv, UNCHANGED <<now, grants>>,
         Addr' \in [Address -> Nat], IP' \in [Network -> Nat],
         \A a \in Address : Addr'[a] = Addr[a] \/ (Addr'[a] = 0 /\ Addr[a] + Cooldown <= now),
         \A i \in Network : IP'[i] = IP[i] \/ (IP'[i] = 0 /\ IP[i] + Cooldown <= now),
         DOMAIN claim' = Claim,
         \A c \in Claim : claim'[c].pc \in Timed =>
           "at" \in DOMAIN claim'[c] /\ claim'[c].at \in 1 .. now /\ now < claim'[c].at + Cooldown,
         \A c \in Claim : Holds(c)' <=> Holds(c),
         \A c \in Claim : Holds(c) => claim'[c].at = claim[c].at,
         \A c \in Claim : claim'[c].pc = "pay" <=> claim[c].pc = "pay",
         \A c \in Claim : claim[c].pc = "end" => claim'[c].pc = "end",
         took(sending[Tap])' <=> took(sending[Tap]),
         sending[Tap].pc # "none" => sending'[Tap].pc # "none"
  PROVE  FaucetInv'
<1>0. /\ FaucetTypes /\ Entries /\ Waited /\ OneCall /\ Granted /\ Reasons /\ GrantsSpaced
      /\ Cooldown \in Nat /\ now \in Nat
      /\ \A c \in Claim : addrOf(c) \in Address /\ ipOf(c) \in Network
  BY FaucetAssumption DEF FaucetInv, FaucetTypes, Address, Network
<1>1. FaucetTypes'
  BY <1>0 DEF FaucetTypes
<1>2. Entries'
  <2>1. ASSUME NEW c \in Claim, Holds(c)'
        PROVE  Addr'[addrOf(c)] = claim'[c].at /\ IP'[ipOf(c)] = claim'[c].at
    <3>1. Holds(c) /\ claim[c].pc \in Timed
      BY <2>1 DEF Holds, Timed
    <3>2. /\ Addr[addrOf(c)] = claim[c].at /\ IP[ipOf(c)] = claim[c].at
          /\ claim[c].at \in Nat /\ now < claim[c].at + Cooldown
      BY <1>0, <3>1 DEF Entries, FaucetTypes
    <3> QED
      BY <1>0, <3>1, <3>2
  <2>2. ASSUME NEW g \in grants, now < g.at + Cooldown
        PROVE  Addr'[addrOf(g.claim)] = g.at /\ IP'[ipOf(g.claim)] = g.at
    <3>1. g.claim \in Claim /\ g.at \in Nat /\ Addr[addrOf(g.claim)] = g.at /\ IP[ipOf(g.claim)] = g.at
      BY <1>0, <2>2 DEF Entries, FaucetTypes
    <3> QED
      BY <1>0, <2>2, <3>1
  <2> QED
    BY <2>1, <2>2 DEF Entries
<1>3. Waited'
  BY <1>0 DEF Waited, near
<1>4. OneCall'
  BY <1>0 DEF OneCall
<1>5. Granted'
  <2>1. ASSUME NEW g \in grants
        PROVE  \/ claim'[g.claim].pc = "end"
               \/ claim'[g.claim].pc = "pay" /\ took(sending[Tap])' /\ g.at = claim'[g.claim].at
    <3>1. g.claim \in Claim
      BY <1>0 DEF FaucetTypes
    <3>2. claim[g.claim].pc = "pay" => Holds(g.claim)
      BY DEF Holds
    <3> QED
      BY <1>0, <3>1, <3>2 DEF Granted
  <2> QED
    BY <1>0, <2>1 DEF Granted
<1>6. \A d \in Claim : Cooling(d)' <=> Cooling(d)
  BY DEF Cooling
<1>7. Reasons'
  <2>1. ASSUME NEW a \in Address, Addr'[a] # 0, Addr'[a] + Cooldown > now
        PROVE  \E d \in Claim : addrOf(d) = a /\ (Holds(d)' \/ Cooling(d)')
    BY <1>0, <1>6, <2>1 DEF Reasons
  <2>2. ASSUME NEW i \in Network, IP'[i] # 0, IP'[i] + Cooldown > now
        PROVE  \E d \in Claim : ipOf(d) = i /\ (Holds(d)' \/ Cooling(d)')
    BY <1>0, <1>6, <2>2 DEF Reasons
  <2> QED
    BY <2>1, <2>2 DEF Reasons
<1>8. GrantsSpaced'
  BY <1>0 DEF GrantsSpaced, near
<1> QED
  BY <1>1, <1>2, <1>3, <1>4, <1>5, <1>7, <1>8 DEF FaucetInv

\* The clock goes on; no claim takes as long as the cooldown.
LEMMA TickKeeps ==
  ASSUME FaucetInv, Tick
  PROVE  FaucetInv'
<1>0. /\ FaucetTypes /\ Entries /\ Waited /\ OneCall /\ Granted /\ Reasons /\ GrantsSpaced
      /\ Cooldown \in Nat /\ now \in Nat \ {0} /\ now' = now + 1
      /\ UNCHANGED <<Addr, IP, claim, grants, sending>>
      /\ \A c \in Claim : "at" \in DOMAIN claim[c] => now + 1 < claim[c].at + Cooldown
  BY FaucetAssumption DEF FaucetInv, FaucetTypes, Tick, payerVars, calls, store
<1>1. FaucetTypes'
  BY <1>0 DEF FaucetTypes
<1>2. Entries'
  <2>1. \A c \in Claim : Holds(c)' => Addr'[addrOf(c)] = claim'[c].at /\ IP'[ipOf(c)] = claim'[c].at
    BY <1>0 DEF Entries, Holds
  <2>2. \A g \in grants : now' < g.at + Cooldown => now < g.at + Cooldown
    BY <1>0 DEF FaucetTypes
  <2> QED
    BY <1>0, <2>1, <2>2 DEF Entries
<1>3. Waited'
  <2>1. \A g \in grants : g.at + Cooldown <= now => g.at + Cooldown <= now'
    BY <1>0 DEF FaucetTypes
  <2>2. \A c \in Claim : Holds(c)' <=> Holds(c)
    BY <1>0 DEF Holds
  <2> QED
    BY <1>0, <2>1, <2>2 DEF Waited, near
<1>4. OneCall' /\ Granted' /\ GrantsSpaced'
  BY <1>0 DEF OneCall, Granted, GrantsSpaced, near, took
<1>5. Reasons'
  <2>1. ASSUME NEW d \in Claim, NEW last \in Nat, last + Cooldown > now', Holds(d) \/ Cooling(d),
               \A g \in grants : g.claim = d /\ g.at + Cooldown > now => g.at = last
        PROVE  Holds(d)' \/ Cooling(d)'
    <3>1. Holds(d)' <=> Holds(d)
      BY <1>0 DEF Holds
    <3>2. CASE Cooling(d)
      <4>1. PICK g \in grants : g.claim = d /\ g.at + Cooldown > now
        BY <3>2 DEF Cooling
      <4>2. g.at + Cooldown > now'
        BY <2>1, <4>1
      <4> QED
        BY <1>0, <4>1, <4>2 DEF Cooling
    <3> QED
      BY <2>1, <3>1, <3>2
  <2>2. \A g \in grants : g.at + Cooldown > now => now < g.at + Cooldown
    BY <1>0 DEF FaucetTypes
  <2>3. ASSUME NEW a \in Address, Addr[a] # 0, Addr[a] + Cooldown > now'
        PROVE  \E d \in Claim : addrOf(d) = a /\ (Holds(d)' \/ Cooling(d)')
    <3>1. Addr[a] \in Nat /\ Addr[a] + Cooldown > now
      BY <1>0, <2>3 DEF FaucetTypes
    <3>2. PICK d \in Claim : addrOf(d) = a /\ (Holds(d) \/ Cooling(d))
      BY <1>0, <2>3, <3>1 DEF Reasons
    <3>3. \A g \in grants : g.claim = d /\ g.at + Cooldown > now => g.at = Addr[a]
      BY <1>0, <2>2, <3>2 DEF Entries
    <3> QED
      BY <2>1, <2>3, <3>1, <3>2, <3>3
  <2>4. ASSUME NEW i \in Network, IP[i] # 0, IP[i] + Cooldown > now'
        PROVE  \E d \in Claim : ipOf(d) = i /\ (Holds(d)' \/ Cooling(d)')
    <3>1. IP[i] \in Nat /\ IP[i] + Cooldown > now
      BY <1>0, <2>4 DEF FaucetTypes
    <3>2. PICK d \in Claim : ipOf(d) = i /\ (Holds(d) \/ Cooling(d))
      BY <1>0, <2>4, <3>1 DEF Reasons
    <3>3. \A g \in grants : g.claim = d /\ g.at + Cooldown > now => g.at = IP[i]
      BY <1>0, <2>2, <3>2 DEF Entries
    <3> QED
      BY <2>1, <2>4, <3>1, <3>2, <3>3
  <2> QED
    BY <1>0, <2>3, <2>4 DEF Reasons
<1> QED
  BY <1>1, <1>2, <1>3, <1>4, <1>5 DEF FaucetInv

\* A claim reserves: whoever holds or was paid nearby has made it wait.
LEMMA ReserveKeeps ==
  ASSUME FaucetInv, NEW c \in Claim, claim[c].pc = "reserve", reserve(c, claim[c].at),
         saving(c, claim[c].at, "send"), UNCHANGED <<now, grants, sending>>
  PROVE  FaucetInv'
<1>0. /\ FaucetTypes /\ Entries /\ Waited /\ OneCall /\ Granted /\ Reasons /\ GrantsSpaced
      /\ Cooldown \in Nat /\ now \in Nat
      /\ \A d \in Claim : addrOf(d) \in Address /\ ipOf(d) \in Network
  BY FaucetAssumption DEF FaucetInv, FaucetTypes, Address, Network
<1>1. PICK t : t = claim[c].at
  OBVIOUS
<1>2. t \in 1 .. now /\ now < t + Cooldown
  BY <1>0, <1>1 DEF FaucetTypes, Timed
<1>3. /\ claim' = [claim EXCEPT ![c] = [pc |-> "saveAddr", at |-> t, next |-> "send"]]
      /\ Addr' = [purged(Addr, t) EXCEPT ![addrOf(c)] = t]
      /\ IP' = [purged(IP, t) EXCEPT ![ipOf(c)] = t]
  BY <1>1 DEF saving, does, reserve
<1>4. /\ Addr[addrOf(c)] = 0 \/ Addr[addrOf(c)] + Cooldown <= t
      /\ IP[ipOf(c)] = 0 \/ IP[ipOf(c)] + Cooldown <= t
  <2>1. Addr[addrOf(c)] \in Nat /\ IP[ipOf(c)] \in Nat
    BY <1>0 DEF FaucetTypes
  <2>2. ~coolingDown(c, t)
    BY <1>1 DEF reserve
  <2> QED
    BY <1>0, <1>2, <2>1, <2>2 DEF coolingDown
<1>5. /\ Addr' \in [Address -> Nat] /\ Addr'[addrOf(c)] = t
      /\ \A a \in Address : a # addrOf(c) => Addr'[a] = Addr[a] \/ (Addr'[a] = 0 /\ Addr[a] + Cooldown <= now)
  <2>1. /\ purged(Addr, t) \in [Address -> Nat]
        /\ \A a \in Address : purged(Addr, t)[a] = Addr[a] \/ (purged(Addr, t)[a] = 0 /\ Addr[a] + Cooldown <= now)
    BY <1>0, <1>2, PurgedKeeps DEF FaucetTypes
  <2> QED
    BY <1>0, <1>2, <1>3, <2>1
<1>6. /\ IP' \in [Network -> Nat] /\ IP'[ipOf(c)] = t
      /\ \A i \in Network : i # ipOf(c) => IP'[i] = IP[i] \/ (IP'[i] = 0 /\ IP[i] + Cooldown <= now)
  <2>1. /\ purged(IP, t) \in [Network -> Nat]
        /\ \A i \in Network : purged(IP, t)[i] = IP[i] \/ (purged(IP, t)[i] = 0 /\ IP[i] + Cooldown <= now)
    BY <1>0, <1>2, PurgedKeeps DEF FaucetTypes
  <2> QED
    BY <1>0, <1>2, <1>3, <2>1
<1>7. /\ claim'[c] = [pc |-> "saveAddr", at |-> t, next |-> "send"]
      /\ \A d \in Claim : d # c => claim'[d] = claim[d]
      /\ DOMAIN claim' = Claim
  BY <1>0, <1>3 DEF FaucetTypes
<1>8. /\ Holds(c)' /\ ~Holds(c) /\ claim'[c].at = t
      /\ \A d \in Claim : d # c => (Holds(d)' <=> Holds(d))
  BY <1>7 DEF Holds
<1>9. ASSUME NEW d \in Claim, Holds(d)
      PROVE  /\ ~near(c, d) /\ claim'[d].at = claim[d].at
             /\ Addr'[addrOf(d)] = claim[d].at /\ IP'[ipOf(d)] = claim[d].at
  <2>1. d # c /\ claim[d].pc \in Timed
    BY <1>8, <1>9 DEF Holds, Timed
  <2>2. /\ Addr[addrOf(d)] = claim[d].at /\ IP[ipOf(d)] = claim[d].at
        /\ claim[d].at \in 1 .. now /\ now < claim[d].at + Cooldown
    BY <1>0, <1>9, <2>1 DEF Entries, FaucetTypes
  <2>3. addrOf(d) # addrOf(c) /\ ipOf(d) # ipOf(c)
    BY <1>0, <1>2, <1>4, <2>2
  <2> QED
    BY <1>0, <1>5, <1>6, <1>7, <2>1, <2>2, <2>3 DEF near
<1>10. ASSUME NEW g \in grants, now < g.at + Cooldown
       PROVE  ~near(g.claim, c) /\ Addr'[addrOf(g.claim)] = g.at /\ IP'[ipOf(g.claim)] = g.at
  <2>1. /\ g.claim \in Claim /\ g.at \in 1 .. now
        /\ Addr[addrOf(g.claim)] = g.at /\ IP[ipOf(g.claim)] = g.at
    BY <1>0, <1>10 DEF Entries, FaucetTypes
  <2>2. addrOf(g.claim) # addrOf(c) /\ ipOf(g.claim) # ipOf(c)
    BY <1>0, <1>2, <1>4, <1>10, <2>1
  <2> QED
    BY <1>0, <1>5, <1>6, <1>10, <2>1, <2>2 DEF near
<1>11. FaucetTypes'
  <2>1. "at" \in DOMAIN claim'[c]
    BY <1>7
  <2> QED
    BY <1>0, <1>2, <1>5, <1>6, <1>7, <2>1 DEF FaucetTypes
<1>12. Entries'
  <2>1. ASSUME NEW d \in Claim, Holds(d)'
        PROVE  Addr'[addrOf(d)] = claim'[d].at /\ IP'[ipOf(d)] = claim'[d].at
    <3>1. CASE d = c
      BY <1>5, <1>6, <1>8, <3>1
    <3>2. CASE d # c
      BY <1>8, <1>9, <2>1, <3>2
    <3> QED
      BY <3>1, <3>2
  <2> QED
    BY <1>10, <2>1 DEF Entries
<1>13. Waited'
  <2>1. \A d, e \in Claim : d # e /\ Holds(d)' /\ Holds(e)' => ~near(d, e)
    <3>1. \A d \in Claim : Holds(d) => ~near(c, d) /\ ~near(d, c)
      BY <1>9 DEF near
    <3> QED
      BY <1>0, <1>8, <3>1 DEF Waited
  <2>2. ASSUME NEW d \in Claim, NEW g \in grants, Holds(d)', g.claim # d, near(g.claim, d)
        PROVE  g.at + Cooldown <= now
    <3>1. g.at \in Nat
      BY <1>0 DEF FaucetTypes
    <3>2. CASE d = c
      BY <1>0, <1>10, <2>2, <3>1, <3>2
    <3>3. CASE d # c
      BY <1>0, <1>8, <2>2, <3>3 DEF Waited
    <3> QED
      BY <3>2, <3>3
  <2> QED
    BY <2>1, <2>2 DEF Waited, near
<1>14. OneCall'
  BY <1>0, <1>7 DEF OneCall
<1>15. Granted'
  <2>1. \A g \in grants : g.claim \in Claim /\ g.claim # c
    BY <1>0 DEF FaucetTypes, Granted
  <2> QED
    BY <1>0, <1>7, <2>1 DEF Granted, took
<1>16. Reasons'
  <2>1. \A d \in Claim : (Holds(d) => Holds(d)') /\ (Cooling(d) => Cooling(d)')
    BY <1>8 DEF Cooling
  <2>2. \A a \in Address : Addr'[a] # 0 /\ Addr'[a] + Cooldown > now =>
          \E d \in Claim : addrOf(d) = a /\ (Holds(d)' \/ Cooling(d)')
    BY <1>0, <1>5, <1>8, <2>1 DEF Reasons
  <2>3. \A i \in Network : IP'[i] # 0 /\ IP'[i] + Cooldown > now =>
          \E d \in Claim : ipOf(d) = i /\ (Holds(d)' \/ Cooling(d)')
    BY <1>0, <1>6, <1>8, <2>1 DEF Reasons
  <2> QED
    BY <2>2, <2>3 DEF Reasons
<1>17. GrantsSpaced'
  BY <1>0 DEF GrantsSpaced, near
<1> QED
  BY <1>11, <1>12, <1>13, <1>14, <1>15, <1>16, <1>17 DEF FaucetInv

\* A claim's turn to be paid.
LEMMA BeginKeeps ==
  ASSUME FaucetInv, PayerInv, NEW c \in Claim, Begin(c)
  PROVE  FaucetInv'
<1>0. /\ FaucetTypes /\ Entries /\ Waited /\ OneCall /\ Granted /\ Reasons /\ GrantsSpaced
      /\ UNCHANGED <<now, Addr, IP, grants>> /\ Tap \in Service
  BY FaucetAssumption DEF FaucetInv, Begin, store
<1>1. /\ claim[c].pc = "send" /\ sending[Tap].pc = "none"
      /\ claim' = [claim EXCEPT ![c] = [pc |-> "pay", at |-> claim[c].at]]
      /\ sending'[Tap] = calling(addrOf(c), Grant)
  BY <1>0 DEF Begin, ready, become, does, PayerInv
<1>2. /\ claim'[c] = [pc |-> "pay", at |-> claim[c].at] /\ "at" \in DOMAIN claim'[c]
      /\ \A d \in Claim : d # c => claim'[d] = claim[d]
      /\ DOMAIN claim' = Claim
  BY <1>0, <1>1 DEF FaucetTypes
<1>3. \A d \in Claim : claim[d].pc # "pay"
  BY <1>0, <1>1 DEF OneCall
<1>4. \A d \in Claim : (Holds(d)' <=> Holds(d)) /\ claim'[d].at = claim[d].at
  BY <1>1, <1>2 DEF Holds
<1>5. sending'[Tap].pc = "ask" /\ ~took(sending[Tap])'
  BY <1>1 DEF calling, took
<1>6. FaucetTypes'
  BY <1>0, <1>1, <1>2 DEF FaucetTypes, Timed
<1>7. Entries' /\ Waited'
  BY <1>0, <1>4 DEF Entries, Waited, near
<1>8. OneCall'
  BY <1>2, <1>3, <1>5 DEF OneCall
<1>9. Granted'
  <2>1. \A g \in grants : claim[g.claim].pc = "end" /\ g.claim # c /\ g.claim \in Claim
    BY <1>0, <1>1, <1>3 DEF Granted, FaucetTypes
  <2> QED
    BY <1>0, <1>2, <1>5, <2>1 DEF Granted
<1>10. Reasons' /\ GrantsSpaced'
  BY <1>0, <1>4 DEF Reasons, Cooling, GrantsSpaced, near
<1> QED
  BY <1>6, <1>7, <1>8, <1>9, <1>10 DEF FaucetInv

\* The node takes the payment of a claim.
LEMMA GrantKeeps ==
  ASSUME FaucetInv, PayerInv, NEW c \in Claim, claim[c].pc = "pay", ~took(sending[Tap]),
         took(sending[Tap])', sending'[Tap].pc # "none",
         grants' = grants \cup {[claim |-> c, at |-> claim[c].at, paid |-> now]},
         UNCHANGED <<now, Addr, IP, claim>>
  PROVE  FaucetInv'
<1>0. /\ FaucetTypes /\ Entries /\ Waited /\ OneCall /\ Granted /\ Reasons /\ GrantsSpaced
      /\ \A d \in Claim : Holds(d)' <=> Holds(d)
  BY DEF FaucetInv, Holds
<1>1. PICK new : new = [claim |-> c, at |-> claim[c].at, paid |-> now]
  OBVIOUS
<1>2. /\ new.claim = c /\ new.at = claim[c].at /\ new.paid = now
      /\ grants' = grants \cup {new}
      /\ claim[c].at \in 1 .. now /\ Holds(c)
  BY <1>0, <1>1 DEF FaucetTypes, Timed, Holds
<1>3. \A g \in grants : claim[g.claim].pc = "end" /\ g.claim # c /\ g.claim \in Claim
  BY <1>0 DEF Granted, FaucetTypes
<1>4. FaucetTypes'
  BY <1>0, <1>2 DEF FaucetTypes
<1>5. Entries'
  BY <1>0, <1>2 DEF Entries
<1>6. Waited'
  <2>1. \A d \in Claim : Holds(d) /\ d # c => ~near(c, d)
    BY <1>0, <1>2 DEF Waited
  <2> QED
    BY <1>0, <1>2, <2>1 DEF Waited, near
<1>7. OneCall'
  BY <1>0 DEF OneCall
<1>8. Granted'
  <2>1. \A d \in Claim : claim[d].pc = "pay" => d = c
    BY <1>0 DEF OneCall
  <2> QED
    BY <1>0, <1>2, <1>3, <2>1 DEF Granted
<1>9. Reasons'
  <2>1. \A d \in Claim : Cooling(d) => Cooling(d)'
    BY <1>2 DEF Cooling
  <2> QED
    BY <1>0, <2>1 DEF Reasons
<1>10. GrantsSpaced'
  <2>1. \A g \in grants : near(g.claim, c) => g.at + Cooldown <= now
    BY <1>0, <1>2, <1>3 DEF Waited
  <2>2. \A g \in grants : near(c, g.claim) => near(g.claim, c)
    BY DEF near
  <2>3. ASSUME NEW g \in grants', NEW h \in grants', g.claim # h.claim, near(g.claim, h.claim)
        PROVE  g.at + Cooldown <= h.paid \/ h.at + Cooldown <= g.paid
    <3>1. CASE g \in grants /\ h \in grants
      BY <1>0, <2>3, <3>1 DEF GrantsSpaced
    <3>2. CASE g \in grants /\ h = new
      BY <1>2, <2>1, <2>3, <3>2
    <3>3. CASE g = new /\ h \in grants
      BY <1>2, <2>1, <2>2, <2>3, <3>3
    <3>4. CASE g = new /\ h = new
      BY <2>3, <3>4
    <3> QED
      BY <1>2, <3>1, <3>2, <3>3, <3>4
  <2> QED
    BY <2>3 DEF GrantsSpaced, near
<1> QED
  BY <1>4, <1>5, <1>6, <1>7, <1>8, <1>9, <1>10 DEF FaucetInv

\* The steps of a claim's call: the node takes the payment in one of them at most.
LEMMA GrantingKeeps ==
  ASSUME FaucetInv, PayerInv, NEW c \in Claim, Granting(c)
  PROVE  FaucetInv'
<1>0. FaucetTypes /\ Tap \in Service /\ DOMAIN sending = Service /\ taken \in Seq(Taken)
  BY FaucetAssumption DEF FaucetInv, PayerInv
<1>1. /\ claim[c].pc = "pay" /\ Send(Tap) /\ UNCHANGED <<now, Addr, IP, claim>>
      /\ grants' = IF taken' # taken
                   THEN grants \cup {[claim |-> c, at |-> claim[c].at, paid |-> now]}
                   ELSE grants
  BY DEF Granting, store
<1>2. CASE taken' = taken /\ (took(sending[Tap])' <=> took(sending[Tap])) /\ sending'[Tap].pc # "none"
  <2>1. /\ UNCHANGED <<now, grants>> /\ \A d \in Claim : Holds(d)' <=> Holds(d)
    BY <1>1, <1>2 DEF Holds
  <2> QED
    BY <1>0, <1>1, <1>2, <2>1, FaucetRests DEF FaucetTypes
<1>3. CASE Ask(Tap)
  <2>1. PICK r : /\ sending' = [sending EXCEPT ![Tap] = r] /\ UNCHANGED taken
                 /\ r.pc # "none" /\ ~took(r)
    <3>1. PICK r : r = IF Balance < sending[Tap].amount + Fee
                       THEN done(FALSE)
                       ELSE [pc    |-> "post",
                             tx    |-> [to |-> sending[Tap].to, amount |-> sending[Tap].amount],
                             nonce |-> IF nextNonce[Tap] > confirmed THEN nextNonce[Tap] ELSE confirmed]
      OBVIOUS
    <3>2. sending' = [sending EXCEPT ![Tap] = r] /\ UNCHANGED taken
      BY <1>3, <3>1 DEF Ask, become
    <3>3. r = done(FALSE) \/ r.pc = "post"
      BY <3>1
    <3>4. r.pc # "none" /\ ~took(r)
      BY <3>3 DEF took, done
    <3> QED
      BY <3>2, <3>4
  <2>2. sending'[Tap] = r /\ ~took(sending[Tap])
    BY <1>0, <1>3, <2>1 DEF Ask, took
  <2>3. ~took(sending[Tap])'
    BY <2>1, <2>2 DEF took
  <2> QED
    BY <1>2, <2>1, <2>2, <2>3
<1>4. CASE Answer(Tap)
  <2>1. PICK ok \in BOOLEAN : ok <=> sending[Tap].verdict = "taken"
    OBVIOUS
  <2>2. sending' = [sending EXCEPT ![Tap] = done(ok)] /\ UNCHANGED taken /\ sending[Tap].pc = "answer"
    <3>1. done(sending[Tap].verdict = "taken") = done(ok)
      BY <2>1 DEF done
    <3> QED
      BY <1>4, <3>1 DEF Answer, become
  <2>3. sending'[Tap] = done(ok)
    BY <1>0, <2>2
  <2>4. done(ok).pc = "done" /\ done(ok).ok = ok
    BY DEF done
  <2>5. (took(sending[Tap])' <=> took(sending[Tap])) /\ sending'[Tap].pc # "none"
    BY <2>1, <2>2, <2>3, <2>4 DEF took
  <2> QED
    BY <1>2, <2>2, <2>5
<1>5. CASE Post(Tap)
  <2>1. PICK v, nonce, t : /\ t = sending[Tap].tx /\ nonce = sending[Tap].nonce
                           /\ v = verdict(t, nonce)
    OBVIOUS
  <2>2. PICK p : p = [by |-> Tap, to |-> t.to, amount |-> t.amount]
    OBVIOUS
  <2>3. /\ sending[Tap].pc = "post"
        /\ taken' = IF v = "taken" THEN Append(taken, p) ELSE taken
        /\ sending' = [sending EXCEPT ![Tap] = [pc |-> "answer", nonce |-> nonce, verdict |-> v]]
    BY <1>5, <2>1, <2>2 DEF Post, become
  <2>4. sending'[Tap] = [pc |-> "answer", nonce |-> nonce, verdict |-> v] /\ ~took(sending[Tap])
    BY <1>0, <2>3 DEF took
  <2>5. (took(sending[Tap])' <=> v = "taken") /\ sending'[Tap].pc # "none"
    BY <2>4 DEF took
  <2>6. CASE v = "taken"
    <3>1. t \in Payment
      BY <1>0, <2>1, <2>3 DEF PayerInv, CallOK
    <3>2. p \in Taken
      BY <1>0, <2>2, <3>1 DEF Taken, Payment
    <3>3. Len(Append(taken, p)) = Len(taken) + 1 /\ Len(taken) \in Nat
      BY <1>0, <3>2, AppendProperties, LenProperties
    <3>4. taken' # taken
      BY <2>3, <2>6, <3>3
    <3>5. grants' = grants \cup {[claim |-> c, at |-> claim[c].at, paid |-> now]}
      BY <1>1, <3>4
    <3> QED
      BY <1>1, <2>4, <2>5, <2>6, <3>5, GrantKeeps
  <2>7. CASE v # "taken"
    BY <1>2, <2>3, <2>4, <2>5, <2>7
  <2> QED
    BY <2>6, <2>7
<1> QED
  BY <1>1, <1>3, <1>4, <1>5 DEF Send

\* A claim that was paid ends; one that was not still holds.
LEMMA FinishKeeps ==
  ASSUME FaucetInv, PayerInv, NEW c \in Claim, Finish(c)
  PROVE  FaucetInv'
<1>0. /\ FaucetTypes /\ Entries /\ Waited /\ OneCall /\ Granted /\ Reasons /\ GrantsSpaced
      /\ Cooldown \in Nat /\ Tap \in Service /\ DOMAIN sending = Service
      /\ \A d \in Claim : addrOf(d) \in Address /\ ipOf(d) \in Network
  BY FaucetAssumption DEF FaucetInv, PayerInv, Address, Network
<1>1. /\ claim[c].pc = "pay" /\ sending[Tap].pc = "done" /\ Holds(c)
      /\ sending'[Tap] = NoCall /\ UNCHANGED <<now, grants>>
  BY <1>0 DEF Finish, become, Holds
<1>2. ~took(sending[Tap])' /\ \A d \in Claim : claim[d].pc = "pay" => d = c
  BY <1>0, <1>1 DEF took, NoCall, OneCall
<1>3. now \in Nat /\ claim[c].at \in 1 .. now /\ now < claim[c].at + Cooldown
  BY <1>0, <1>1 DEF FaucetTypes, Timed
<1>4. CASE sending[Tap].ok
  <2>1. claim' = [claim EXCEPT ![c] = End] /\ UNCHANGED <<Addr, IP>>
    BY <1>4 DEF Finish, does, store
  <2>2. /\ claim'[c] = End /\ claim'[c].pc = "end" /\ DOMAIN claim' = Claim
        /\ \A d \in Claim : d # c => claim'[d] = claim[d]
    BY <1>0, <2>1 DEF FaucetTypes, End
  <2>3. ~Holds(c)' /\ \A d \in Claim : d # c => (Holds(d)' <=> Holds(d))
    BY <2>2 DEF Holds
  <2>4. FaucetTypes'
    BY <1>0, <1>1, <2>1, <2>2 DEF FaucetTypes, Timed
  <2>5. Entries' /\ Waited' /\ GrantsSpaced'
    BY <1>0, <1>1, <2>1, <2>2, <2>3 DEF Entries, Waited, GrantsSpaced, near
  <2>6. \A d \in Claim : claim'[d].pc # "pay"
    BY <1>2, <2>2
  <2>7. OneCall'
    BY <2>6 DEF OneCall
  <2>8. Granted'
    <3>1. \A g \in grants : g.claim \in Claim /\ claim'[g.claim].pc = "end"
      BY <1>0, <1>2, <2>2 DEF Granted, FaucetTypes
    <3> QED
      BY <1>1, <2>6, <3>1 DEF Granted
  <2>9. Cooling(c)'
    <3>1. PICK g \in grants : g.claim = c
      BY <1>0, <1>1, <1>4 DEF Granted, took
    <3>2. g.at = claim[c].at
      BY <1>0, <1>1, <3>1 DEF Granted
    <3> QED
      BY <1>1, <1>3, <3>1, <3>2 DEF Cooling
  <2>10. Reasons'
    <3>1. \A d \in Claim : (Cooling(d) => Cooling(d)') /\ (Holds(d) => Holds(d)' \/ Cooling(d)')
      BY <1>1, <2>3, <2>9 DEF Cooling
    <3> QED
      BY <1>0, <1>1, <2>1, <3>1 DEF Reasons
  <2> QED
    BY <2>4, <2>5, <2>7, <2>8, <2>10 DEF FaucetInv
<1>5. CASE ~sending[Tap].ok
  <2>1. PICK r : r = [pc |-> "release", at |-> claim[c].at]
    OBVIOUS
  <2>2. claim' = [claim EXCEPT ![c] = r] /\ UNCHANGED <<Addr, IP>>
    BY <1>5, <2>1 DEF Finish, does, store
  <2>3. /\ claim'[c] = r /\ r.pc = "release" /\ r.at = claim[c].at
        /\ "at" \in DOMAIN r /\ DOMAIN claim' = Claim
        /\ \A d \in Claim : d # c => claim'[d] = claim[d]
    BY <1>0, <2>1, <2>2 DEF FaucetTypes
  <2>4. /\ \A d \in Claim : Holds(d)' <=> Holds(d)
        /\ \A d \in Claim : Holds(d) => claim'[d].at = claim[d].at
    BY <1>1, <2>3 DEF Holds
  <2>5. \A g \in grants : g.claim \in Claim /\ g.claim # c /\ claim[g.claim].pc = "end"
    <3>1. ~took(sending[Tap])
      BY <1>1, <1>5 DEF took
    <3> QED
      BY <1>0, <1>1, <3>1 DEF Granted, FaucetTypes
  <2>6. FaucetTypes'
    BY <1>0, <1>1, <1>3, <2>2, <2>3 DEF FaucetTypes
  <2>7. Entries' /\ Waited' /\ GrantsSpaced'
    BY <1>0, <1>1, <2>2, <2>4 DEF Entries, Waited, GrantsSpaced, near
  <2>8. \A d \in Claim : claim'[d].pc # "pay"
    BY <1>2, <2>3
  <2>9. OneCall' /\ Granted'
    BY <1>1, <2>3, <2>5, <2>8 DEF OneCall, Granted
  <2>10. Reasons'
    <3>1. \A d \in Claim : Cooling(d)' <=> Cooling(d)
      BY <1>1 DEF Cooling
    <3> QED
      BY <1>0, <1>1, <2>2, <2>4, <3>1 DEF Reasons
  <2> QED
    BY <2>6, <2>7, <2>9, <2>10 DEF FaucetInv
<1> QED
  BY <1>4, <1>5

\* A payment that failed gives back the entries of its own claim only.
LEMMA ReleaseKeeps ==
  ASSUME FaucetInv, NEW c \in Claim, Release(c)
  PROVE  FaucetInv'
<1>0. /\ FaucetTypes /\ Entries /\ Waited /\ OneCall /\ Granted /\ Reasons /\ GrantsSpaced
      /\ Cooldown \in Nat
      /\ \A d \in Claim : addrOf(d) \in Address /\ ipOf(d) \in Network
  BY FaucetAssumption DEF FaucetInv, Address, Network
<1>1. claim[c].pc = "release" /\ Holds(c) /\ UNCHANGED <<sending, now, grants>>
  BY DEF Release, Holds, payerVars, calls
<1>2. PICK r : r = [pc |-> "saveAddr", at |-> claim[c].at, next |-> "end"]
  OBVIOUS
<1>3. /\ claim' = [claim EXCEPT ![c] = r]
      /\ Addr' = [Addr EXCEPT ![addrOf(c)] = 0]
      /\ IP' = [IP EXCEPT ![ipOf(c)] = 0]
  BY <1>2 DEF Release, does, saving, released
<1>4. /\ claim'[c] = r /\ r.pc = "saveAddr" /\ r.at = claim[c].at /\ r.next = "end"
      /\ "at" \in DOMAIN r /\ DOMAIN claim' = Claim
      /\ \A d \in Claim : d # c => claim'[d] = claim[d]
  BY <1>0, <1>2, <1>3 DEF FaucetTypes
<1>5. ~Holds(c)' /\ \A d \in Claim : d # c => (Holds(d)' <=> Holds(d))
  BY <1>4 DEF Holds
<1>6. /\ Addr' \in [Address -> Nat] /\ Addr'[addrOf(c)] = 0
      /\ \A a \in Address : a # addrOf(c) => Addr'[a] = Addr[a]
      /\ IP' \in [Network -> Nat] /\ IP'[ipOf(c)] = 0
      /\ \A i \in Network : i # ipOf(c) => IP'[i] = IP[i]
  BY <1>0, <1>3 DEF FaucetTypes
<1>7. \A g \in grants : g.claim \in Claim /\ g.claim # c
  BY <1>0, <1>1 DEF Granted, FaucetTypes
<1>8. FaucetTypes'
  <2>1. claim[c].at \in 1 .. now /\ now < claim[c].at + Cooldown
    BY <1>0, <1>1 DEF FaucetTypes, Timed
  <2> QED
    BY <1>0, <1>1, <1>4, <1>6, <2>1 DEF FaucetTypes
<1>9. Entries'
  <2>1. ASSUME NEW d \in Claim, Holds(d)'
        PROVE  Addr'[addrOf(d)] = claim'[d].at /\ IP'[ipOf(d)] = claim'[d].at
    <3>1. d # c /\ Holds(d)
      BY <1>5, <2>1
    <3>2. addrOf(d) # addrOf(c) /\ ipOf(d) # ipOf(c)
      BY <1>0, <1>1, <3>1 DEF Waited, near
    <3> QED
      BY <1>0, <1>4, <1>6, <3>1, <3>2 DEF Entries
  <2>2. ASSUME NEW g \in grants, now < g.at + Cooldown
        PROVE  Addr'[addrOf(g.claim)] = g.at /\ IP'[ipOf(g.claim)] = g.at
    <3>1. ~(g.at + Cooldown <= now) /\ g.claim \in Claim /\ g.claim # c
      BY <1>0, <1>7, <2>2 DEF FaucetTypes
    <3>2. addrOf(g.claim) # addrOf(c) /\ ipOf(g.claim) # ipOf(c)
      BY <1>0, <1>1, <3>1 DEF Waited, near
    <3> QED
      BY <1>0, <1>6, <2>2, <3>1, <3>2 DEF Entries
  <2> QED
    BY <1>1, <2>1, <2>2 DEF Entries
<1>10. Waited' /\ GrantsSpaced'
  BY <1>0, <1>1, <1>5 DEF Waited, GrantsSpaced, near
<1>11. \A d \in Claim : claim'[d].pc = "pay" <=> d # c /\ claim[d].pc = "pay"
  BY <1>1, <1>4
<1>12. OneCall' /\ Granted'
  <2>1. took(sending[Tap])' <=> took(sending[Tap])
    BY <1>1 DEF took
  <2> QED
    BY <1>0, <1>1, <1>4, <1>7, <1>11, <2>1 DEF OneCall, Granted
<1>13. Reasons'
  <2>1. \A d \in Claim : (Cooling(d) => Cooling(d)') /\ (d # c /\ Holds(d) => Holds(d)')
    BY <1>1, <1>5 DEF Cooling
  <2>2. ~Cooling(c)
    BY <1>7 DEF Cooling
  <2>3. \A a \in Address : Addr'[a] # 0 /\ Addr'[a] + Cooldown > now =>
          \E d \in Claim : addrOf(d) = a /\ (Holds(d)' \/ Cooling(d)')
    BY <1>0, <1>6, <2>1, <2>2 DEF Reasons
  <2>4. \A i \in Network : IP'[i] # 0 /\ IP'[i] + Cooldown > now =>
          \E d \in Claim : ipOf(d) = i /\ (Holds(d)' \/ Cooling(d)')
    BY <1>0, <1>6, <2>1, <2>2 DEF Reasons
  <2> QED
    BY <1>1, <2>3, <2>4 DEF Reasons
<1> QED
  BY <1>8, <1>9, <1>10, <1>12, <1>13 DEF FaucetInv

\* The handlers' other steps: who is made to wait, and what is written.
LEMMA HandlerRests ==
  ASSUME FaucetInv, NEW c \in Claim,
         \/ \E k \in Challenge : IssueChallenge(k, c) \/ Present(c, k)
         \/ Reserve(c) /\ ~saving(c, claim[c].at, "send")
         \/ SaveAddr(c) \/ SaveIP(c) \/ WriteLimits(c)
  PROVE  FaucetInv'
<1>0. /\ FaucetTypes /\ DOMAIN claim = Claim /\ UNCHANGED <<payerVars, now, grants>>
      /\ Addr \in [Address -> Nat] /\ IP \in [Network -> Nat] /\ now \in Nat \ {0} /\ Cooldown \in Nat \ {0}
      /\ \A d \in Claim : claim[d].pc \in Timed =>
           "at" \in DOMAIN claim[d] /\ claim[d].at \in 1 .. now /\ now < claim[d].at + Cooldown
  BY FaucetAssumption DEF FaucetInv, FaucetTypes, IssueChallenge, Present, Reserve, SaveAddr, SaveIP, WriteLimits
<1>1. /\ Addr' \in [Address -> Nat] /\ IP' \in [Network -> Nat]
      /\ \A a \in Address : Addr'[a] = Addr[a] \/ (Addr'[a] = 0 /\ Addr[a] + Cooldown <= now)
      /\ \A i \in Network : IP'[i] = IP[i] \/ (IP'[i] = 0 /\ IP[i] + Cooldown <= now)
  <2>1. CASE UNCHANGED <<Addr, IP>>
    BY <1>0, <2>1
  <2>2. ASSUME NEW t \in 1 .. now, Addr' = purged(Addr, t), IP' = purged(IP, t)
        PROVE  /\ Addr' \in [Address -> Nat] /\ IP' \in [Network -> Nat]
               /\ \A a \in Address : Addr'[a] = Addr[a] \/ (Addr'[a] = 0 /\ Addr[a] + Cooldown <= now)
               /\ \A i \in Network : IP'[i] = IP[i] \/ (IP'[i] = 0 /\ IP[i] + Cooldown <= now)
    BY <1>0, <2>2, PurgedKeeps
  <2>3. CASE \E k \in Challenge : IssueChallenge(k, c)
    <3>1. now \in 1 .. now
      BY <1>0
    <3> QED
      BY <2>2, <2>3, <3>1 DEF IssueChallenge
  <2>4. CASE Reserve(c) /\ ~saving(c, claim[c].at, "send")
    <3>1. claim[c].at \in 1 .. now
      BY <1>0, <2>4 DEF Reserve, Timed
    <3>2. Addr' = purged(Addr, claim[c].at) /\ IP' = purged(IP, claim[c].at)
      BY <2>4 DEF Reserve
    <3> QED
      BY <2>2, <3>1, <3>2
  <2> QED
    BY <2>1, <2>3, <2>4 DEF Present, SaveAddr, SaveIP, WriteLimits, store
<1>2. CASE UNCHANGED claim
  <2>1. \A d \in Claim : Holds(d)' <=> Holds(d)
    BY <1>2 DEF Holds
  <2>2. UNCHANGED sending /\ (took(sending[Tap])' <=> took(sending[Tap]))
    BY <1>0 DEF payerVars, calls, took
  <2> QED
    BY <1>0, <1>1, <1>2, <2>1, <2>2, FaucetRests
<1>3. ASSUME NEW r, claim' = [claim EXCEPT ![c] = r],
             r.pc \in Timed => "at" \in DOMAIN r /\ r.at \in 1 .. now /\ now < r.at + Cooldown,
             ((r.pc \in {"saveAddr", "saveIP", "saveWrite"} /\ r.next = "send") \/ r.pc = "send") <=> Holds(c),
             Holds(c) => r.at = claim[c].at,
             claim[c].pc # "pay", r.pc \notin {"pay", "release"}, claim[c].pc # "end"
      PROVE  FaucetInv'
  <2>1. claim'[c] = r /\ DOMAIN claim' = Claim /\ \A d \in Claim : d # c => claim'[d] = claim[d]
    BY <1>0, <1>3
  <2>2. \A d \in Claim : Holds(d)' <=> Holds(d)
    BY <1>3, <2>1 DEF Holds
  <2>3. UNCHANGED sending /\ (took(sending[Tap])' <=> took(sending[Tap]))
    BY <1>0 DEF payerVars, calls, took
  <2>4. \A d \in Claim : claim'[d].pc \in Timed =>
          "at" \in DOMAIN claim'[d] /\ claim'[d].at \in 1 .. now /\ now < claim'[d].at + Cooldown
    BY <1>0, <1>3, <2>1
  <2>5. \A d \in Claim : Holds(d) => claim'[d].at = claim[d].at
    BY <1>3, <2>1
  <2>6. \A d \in Claim : claim'[d].pc = "pay" <=> claim[d].pc = "pay"
    BY <1>3, <2>1
  <2>7. \A d \in Claim : claim[d].pc = "end" => claim'[d].pc = "end"
    BY <1>3, <2>1
  <2> QED
    BY <1>0, <1>1, <2>1, <2>2, <2>3, <2>4, <2>5, <2>6, <2>7, FaucetRests
<1>4. CASE \E k \in Challenge : IssueChallenge(k, c)
  BY <1>2, <1>4 DEF IssueChallenge
<1>5. CASE \E k \in Challenge : Present(c, k)
  <2>1. PICK r : /\ claim' = [claim EXCEPT ![c] = r] /\ claim[c].pc = "new"
                 /\ r = End \/ r = [pc |-> "reserve", at |-> now]
    BY <1>5 DEF Present, does
  <2>2. ~Holds(c)
    BY <2>1 DEF Holds
  <2>3. CASE r = End
    <3>1. r.pc = "end"
      BY <2>3 DEF End
    <3> QED
      BY <1>3, <2>1, <2>2, <3>1 DEF Timed
  <2>4. CASE r = [pc |-> "reserve", at |-> now]
    <3>1. r.pc = "reserve" /\ "at" \in DOMAIN r /\ r.at = now /\ now \in 1 .. now /\ now < now + Cooldown
      BY <1>0, <2>4
    <3> QED
      BY <1>3, <2>1, <2>2, <3>1
  <2> QED
    BY <2>1, <2>3, <2>4
<1>6. CASE Reserve(c) /\ ~saving(c, claim[c].at, "send")
  <2>1. claim[c].pc = "reserve" /\ claim' = [claim EXCEPT ![c] = End]
    BY <1>6 DEF Reserve, does
  <2>2. ~Holds(c) /\ End.pc = "end"
    BY <2>1 DEF Holds, End
  <2> QED
    BY <1>3, <2>1, <2>2 DEF Timed
<1>7. CASE SaveAddr(c)
  <2>1. PICK r : r = [pc |-> "saveIP", at |-> claim[c].at, next |-> claim[c].next, addr |-> Addr]
    OBVIOUS
  <2>2. /\ r.pc = "saveIP" /\ r.at = claim[c].at /\ r.next = claim[c].next /\ "at" \in DOMAIN r
        /\ claim[c].pc = "saveAddr" /\ claim' = [claim EXCEPT ![c] = r]
    BY <1>7, <2>1 DEF SaveAddr, does
  <2>3. Holds(c) <=> r.next = "send"
    BY <2>2 DEF Holds
  <2> QED
    BY <1>0, <1>3, <2>2, <2>3 DEF Timed
<1>8. CASE SaveIP(c)
  <2>1. PICK r : r = [pc |-> "saveWrite", at |-> claim[c].at, next |-> claim[c].next,
                      addr |-> claim[c].addr, ip |-> IP]
    OBVIOUS
  <2>2. /\ r.pc = "saveWrite" /\ r.at = claim[c].at /\ r.next = claim[c].next /\ "at" \in DOMAIN r
        /\ claim[c].pc = "saveIP" /\ claim' = [claim EXCEPT ![c] = r]
    BY <1>8, <2>1 DEF SaveIP, does
  <2>3. Holds(c) <=> r.next = "send"
    BY <2>2 DEF Holds
  <2> QED
    BY <1>0, <1>3, <2>2, <2>3 DEF Timed
<1>9. CASE WriteLimits(c)
  <2>1. PICK r : r = IF claim[c].next = "send" THEN [pc |-> "send", at |-> claim[c].at] ELSE End
    OBVIOUS
  <2>2. claim[c].pc = "saveWrite" /\ claim' = [claim EXCEPT ![c] = r]
    BY <1>9, <2>1 DEF WriteLimits, does
  <2>3. Holds(c) <=> claim[c].next = "send"
    BY <2>2 DEF Holds
  <2>4. CASE claim[c].next = "send"
    <3>1. r.pc = "send" /\ r.at = claim[c].at /\ "at" \in DOMAIN r
      BY <2>1, <2>4
    <3> QED
      BY <1>0, <1>3, <2>2, <2>3, <2>4, <3>1 DEF Timed
  <2>5. CASE claim[c].next # "send"
    <3>1. r.pc = "end"
      BY <2>1, <2>5 DEF End
    <3> QED
      BY <1>0, <1>3, <2>2, <2>3, <2>5, <3>1 DEF Timed
  <2> QED
    BY <2>4, <2>5
<1> QED
  BY <1>4, <1>5, <1>6, <1>7, <1>8, <1>9

\* Nobody has been paid at first.
LEMMA FaucetStarts == FaucetInit => FaucetInv /\ PayerInv
<1> SUFFICES ASSUME FaucetInit PROVE FaucetInv /\ PayerInv
  OBVIOUS
<1>1. /\ PayerInv /\ now = 1 /\ grants = {} /\ DOMAIN claim = Claim
      /\ \A c \in Claim : claim[c].pc = "new"
      /\ Addr \in [Address -> Nat] /\ IP \in [Network -> Nat]
      /\ \A a \in Address : Addr[a] = 0
      /\ \A i \in Network : IP[i] = 0
  BY PayerStarts DEF FaucetInit, Address, Network
<1>2. \A c \in Claim : ~Holds(c)
  BY <1>1 DEF Holds
<1>3. FaucetTypes /\ Entries /\ Waited
  BY <1>1, <1>2 DEF FaucetTypes, Entries, Waited, Timed
<1>4. OneCall /\ Granted /\ Reasons /\ GrantsSpaced
  BY <1>1 DEF OneCall, Granted, Reasons, GrantsSpaced
<1> QED
  BY <1>1, <1>3, <1>4 DEF FaucetInv

\* The wallet, under every step of the faucet.
LEMMA FaucetPayerKeeps ==
  ASSUME PayerInv,
         [\/ FaucetNext
          \/ NodeNext /\ UNCHANGED faucetVars
          \/ AnswerLost(Tap) /\ UNCHANGED faucetVars
          \/ RestartFaucet]_<<payerVars, faucetVars>>
  PROVE  PayerInv'
<1>0. Tap \in Service /\ Grant \in Nat
  BY FaucetAssumption
<1>1. CASE UNCHANGED payerVars
  BY <1>1, PayerStays
<1>2. CASE NodeNext
  BY <1>2, NodeKeeps
<1>3. CASE Send(Tap) \/ Unreached(Tap) \/ AnswerLost(Tap)
  BY <1>0, <1>3, SendKeeps
<1>4. ASSUME NEW c \in Claim, Begin(c) PROVE PayerInv'
  <2>1. CallOK(calling(addrOf(c), Grant))
    BY <1>0 DEF CallOK, calling, Payees
  <2> QED
    BY <1>0, <1>4, <2>1, CallKeeps DEF Begin, become
<1>5. CASE RestartFaucet \/ \E c \in Claim : Finish(c)
  <2>1. CallOK(NoCall)
    BY DEF CallOK, NoCall
  <2>2. sending' = [sending EXCEPT ![Tap] = NoCall] /\ UNCHANGED <<node, taken>>
    BY <1>5 DEF RestartFaucet, Finish, become
  <2> QED
    BY <1>0, <2>1, <2>2, CallKeeps
<1>6. \A c \in Claim : \A k \in Challenge :
        IssueChallenge(k, c) \/ Present(c, k) => UNCHANGED payerVars
  BY DEF IssueChallenge, Present
<1>7. \A c \in Claim :
        Reserve(c) \/ Release(c) \/ SaveAddr(c) \/ SaveIP(c) \/ WriteLimits(c) => UNCHANGED payerVars
  BY DEF Reserve, Release, SaveAddr, SaveIP, WriteLimits
<1>8. (\E c \in Claim : Granting(c)) => Send(Tap)
  BY DEF Granting
<1>9. Tick => UNCHANGED payerVars
  BY DEF Tick
<1> QED
  BY <1>1, <1>2, <1>3, <1>4, <1>5, <1>6, <1>7, <1>8, <1>9 DEF FaucetNext

\* The reservations, under every step without the faults of FaultyFaucetSpec.
LEMMA FaucetStep ==
  ASSUME FaucetInv, PayerInv,
         [FaucetNext \/ (NodeNext /\ UNCHANGED faucetVars)]_<<payerVars, faucetVars>>
  PROVE  FaucetInv'
<1>0. Tap \in Service /\ FaucetTypes
  BY FaucetAssumption DEF FaucetInv
<1>1. ASSUME UNCHANGED faucetVars, took(sending[Tap])' <=> took(sending[Tap]),
             sending[Tap].pc # "none" => sending'[Tap].pc # "none"
      PROVE  FaucetInv'
  <2>1. UNCHANGED <<now, Addr, IP, claim, grants>>
    BY <1>1 DEF faucetVars, store
  <2>2. \A d \in Claim : Holds(d)' <=> Holds(d)
    BY <2>1 DEF Holds
  <2> QED
    BY <1>0, <1>1, <2>1, <2>2, FaucetRests DEF FaucetTypes
<1>2. CASE Unreached(Tap) /\ UNCHANGED faucetVars
  <2>1. sending[Tap].pc \in {"ask", "post"} /\ sending'[Tap] = done(FALSE)
    BY <1>0, <1>2 DEF Unreached, become, PayerInv
  <2>2. sending'[Tap].pc = "done" /\ ~sending'[Tap].ok
    BY <2>1 DEF done
  <2>3. ~took(sending[Tap]) /\ ~took(sending[Tap])'
    BY <2>1, <2>2 DEF took
  <2> QED
    BY <1>1, <1>2, <2>2, <2>3
<1>3. CASE (NodeNext /\ UNCHANGED faucetVars) \/ UNCHANGED <<payerVars, faucetVars>>
  <2>1. UNCHANGED faucetVars /\ UNCHANGED sending
    BY <1>3 DEF NodeNext, Confirm, Mature, RestartNode, OtherPays, calls, payerVars
  <2> QED
    BY <1>1, <2>1 DEF took
<1>4. ASSUME NEW c \in Claim, Reserve(c), saving(c, claim[c].at, "send") PROVE FaucetInv'
  <2>1. claim[c].pc = "reserve" /\ UNCHANGED <<now, grants, sending>>
    BY <1>4 DEF Reserve, payerVars, calls
  <2>2. PICK t : t = claim[c].at
    OBVIOUS
  <2>3. claim'[c] = [pc |-> "saveAddr", at |-> t, next |-> "send"]
    BY <1>0, <1>4, <2>2 DEF saving, does, FaucetTypes
  <2>4. claim' # [claim EXCEPT ![c] = End]
    BY <1>0, <2>3 DEF End, FaucetTypes
  <2>5. reserve(c, claim[c].at)
    BY <1>4, <2>4 DEF Reserve, does
  <2> QED
    BY <1>4, <2>1, <2>5, ReserveKeeps
<1>5. ASSUME NEW c \in Claim,
             \/ \E k \in Challenge : IssueChallenge(k, c) \/ Present(c, k)
             \/ Reserve(c) \/ Begin(c) \/ Granting(c) \/ Finish(c) \/ Release(c)
             \/ SaveAddr(c) \/ SaveIP(c) \/ WriteLimits(c)
      PROVE  FaucetInv'
  BY <1>4, <1>5, HandlerRests, BeginKeeps, GrantingKeeps, FinishKeeps, ReleaseKeeps
<1>6. CASE Tick
  BY <1>6, TickKeeps
<1> QED
  BY <1>2, <1>3, <1>5, <1>6 DEF FaucetNext

\* The faucet's reservations, for any claimants, cooldown and number of claims:
\* the entries of whoever holds or was paid, and who is in its call of send.
THEOREM FaucetInvariant == FaucetSpec => [](FaucetInv /\ PayerInv)
<1>1. FaucetInit => FaucetInv /\ PayerInv
  BY FaucetStarts
<1>2. FaucetInv /\ PayerInv /\ [FaucetNext \/ (NodeNext /\ UNCHANGED faucetVars)]_<<payerVars, faucetVars>>
        => FaucetInv' /\ PayerInv'
  BY FaucetStep, FaucetPayerKeeps
<1> QED
  BY <1>1, <1>2, PTL DEF FaucetSpec

\* Two claims of one address or network address are never both paid within the
\* cooldown, however they interleave and whichever calls fail.
THEOREM SpacingSafety == FaucetSpec => []GrantsSpaced
<1>1. FaucetInv => GrantsSpaced
  BY DEF FaucetInv
<1> QED
  BY <1>1, FaucetInvariant, PTL

\* Nobody waits for a payment that failed: who has to wait is near a claim that was
\* paid or is under way.
THEOREM WaitingSafety == FaucetSpec => []WaitsForAReason
<1>1. FaucetInv => WaitsForAReason
  <2> SUFFICES ASSUME FaucetInv, NEW c \in Claim, coolingDown(c, now)
               PROVE  \E d \in Claim :
                        /\ near(c, d)
                        /\ \/ \E g \in grants : g.claim = d /\ g.at + Cooldown > now
                           \/ claim[d].pc \in {"saveAddr", "saveIP", "saveWrite", "send", "pay", "release"}
    BY DEF WaitsForAReason
  <2>1. addrOf(c) \in Address /\ ipOf(c) \in Network
    BY DEF Address, Network
  <2>2. PICK d \in Claim : (addrOf(d) = addrOf(c) \/ ipOf(d) = ipOf(c)) /\ (Holds(d) \/ Cooling(d))
    BY <2>1 DEF coolingDown, FaucetInv, Reasons
  <2> QED
    BY <2>2 DEF near, Holds, Cooling
<1> QED
  BY <1>1, FaucetInvariant, PTL

\* The faucet does not overdraw the wallet either, whatever stops or is lost.
THEOREM FaucetOverdraftSafety == FaultyFaucetSpec => []NeverOverdrawn
<1>1. FaucetInit => PayerInv
  BY FaucetStarts
<1>2. PayerInv /\ [\/ FaucetNext
                   \/ NodeNext /\ UNCHANGED faucetVars
                   \/ AnswerLost(Tap) /\ UNCHANGED faucetVars
                   \/ RestartFaucet]_<<payerVars, faucetVars>>
        => PayerInv'
  BY FaucetPayerKeeps
<1>3. PayerInv => NeverOverdrawn
  BY DEF PayerInv
<1> QED
  BY <1>1, <1>2, <1>3, PTL DEF FaultyFaucetSpec
=============================================================================
