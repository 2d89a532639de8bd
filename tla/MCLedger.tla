------------------------------ MODULE MCLedger ------------------------------
(***************************************************************************)
(* Chain on blocks with transactions: two accounts, rewards that mature    *)
(* while they are being reorganised, chains of nonces, two transactions    *)
(* for one nonce, an amount that overflows, signatures from before and     *)
(* after the chain-id height, and the fee floor on its way up.  One second *)
(* per block and a clock that allows them all: what the run is about is    *)
(* who owns what and what may still be spent.                              *)
(***************************************************************************)
EXTENDS Chain

CONSTANTS NoBlock, a1, a2

Height == 6

MCAddr == {a1, a2}

MCGenesis == [height |-> 0, prev |-> NoBlock, time |-> 0, target |-> GenesisTarget,
              miner |-> a2, reward |-> 0, txs |-> <<>>, seed |-> EpochSeed0]

tx(from, to, amount, fee, nonce, bound) ==
  [from |-> from, to |-> to, amount |-> amount, fee |-> fee, nonce |-> nonce, bound |-> bound]

pay      == tx(a1, a2, 2, 1, 0, FALSE)
payMore  == tx(a1, a2, 3, 2, 0, FALSE)         \* the same nonce, a higher fee
payLate  == tx(a1, a2, 2, 1, 0, TRUE)          \* the same payment, signed later
payNext  == tx(a1, a1, 1, 1, 1, TRUE)          \* to oneself
payBack  == tx(a2, a1, 1, 1, 0, TRUE)
payBack2 == tx(a2, a1, 2, 0, 0, FALSE)
payHuge  == tx(a1, a2, Word - 1, 3, 0, FALSE)  \* amount + fee is 2 as a word

MCTx == {pay, payMore, payLate, payNext, payBack, payBack2, payHuge}

ids == <<payHuge, payNext, payBack, pay, payLate, payMore, payBack2>>

MCTxID(t) == CHOOSE i \in DOMAIN ids : ids[i] = t

Bodies == {<<>>} \cup {<<t>> : t \in MCTx}
            \cup {<<pay, payBack2>>, <<payLate, payNext>>, <<payNext, payBack>>}

Miners == <<{a1, a2}, {a2}, {a1, a2}, {a1, a2}, {a2}, {a2}>>

child(c, miner, txs) ==
  [height |-> Len(c),
   prev   |-> c[Len(c)],
   time   |-> Len(c),
   target |-> expectedTarget(c),
   miner  |-> miner,
   reward |-> CoinbaseAmount(Len(c), txs),
   txs    |-> txs,
   seed   |-> epochSeedFor(c, Len(c))]

\* Bodies whose nonces and signatures fit; whether they are covered is the
\* rules' business.  The last block is there to make a chain of empty blocks the
\* heaviest.
fitting(c) ==
  LET st == stateOf(c)
  IN  {txs \in IF Len(c) = Height THEN {<<>>} ELSE Bodies : \A i \in DOMAIN txs :
         /\ CheckSigAt(txs[i], Len(c))
         /\ txs[i].nonce = st[txs[i].from].nonce
                             + Cardinality({j \in 1 .. i - 1 : txs[j].from = txs[i].from})}

successors(c) == {Append(c, child(c, m, txs)) : m \in Miners[Len(c)], txs \in fitting(c)}

valid(c) ==
  LET prefix == Front(c)
      b      == Last(c)
  IN  validBody(stateOf(prefix), b.txs, prefix, b.height)

emptyBlocks(c) == \A n \in DOMAIN c : c[n].txs = <<>>

\* The chains of each length, and those among them that keep the rules.
chains[h \in 0 .. Height] ==
  IF h = 0 THEN {<<MCGenesis>>}
           ELSE UNION {successors(c) : c \in {d \in chains[h - 1] :
                                                /\ h = 1 \/ valid(d)
                                                /\ h = Height => emptyBlocks(d)}}

Chains == UNION {chains[h] : h \in 0 .. Height}

MCBlock == {Last(c) : c \in Chains}

MCBatch == UNION {{SubSeq(c, n, Len(c)) : n \in 2 .. Len(c)} : c \in Chains}

MCSigned == {}

=============================================================================
