------------------------------ MODULE PeerSync ------------------------------
(***************************************************************************)
(* How nodes get each other's chains: the sync half of node/node.go.  A    *)
(* node runs syncWithPeer from its loop and, when a peer sends it a block  *)
(* that does not extend its tip, from the handler of /p2p/block too.  A    *)
(* session of syncWithPeer asks its peer many questions one after the      *)
(* other; neither chain is locked in between, so each question, each       *)
(* answer put to use and each look at the own chain is a step of its own.  *)
(* A question without an answer ends the session or the download.          *)
(***************************************************************************)
EXTENDS Engines

CONSTANTS
  Session,         \* what may run: [node, kind], kind "loop" or "gossip"
  BatchBlocks,     \* blocks of one answer, 200 in the code
  AdoptAfter,      \* blocks after which a download is adopted, 5000
  Loaded,          \* the chains the nodes may start with: node -> chain
  MaxDisturbances  \* bound of the model: unanswered questions and restarts

\* What a node accepts of its block file: genesis and a chain on it.
loads(c) ==
  /\ c \in Seq(Range(c)) /\ c # <<>> /\ c[1] = FirstBlock
  /\ \A i \in 2 .. Len(c) : /\ c[i].height = i - 1 /\ c[i].prev = c[i - 1]
                            /\ c[i].work \in Nat \ {0}

ASSUME PeerSyncAssumption ==
  /\ \A s \in Session : s.node \in Node /\ s.kind \in {"loop", "gossip"}
  /\ {BatchBlocks, AdoptAfter} \subseteq Nat \ {0}
  /\ \A start \in Loaded : start \in [Node -> Range(start)] /\ \A n \in Node : loads(start[n])
  /\ MaxDisturbances \in Nat

VARIABLES
  session,      \* what each session knows and does next
  gossip,       \* blocks on their way from node to node
  disturbances  \* how many questions went unanswered and nodes restarted

network == <<session, gossip, disturbances>>
vars == <<engines, network>>

Idle == [pc |-> "idle"]

become(s, r) == session' = [session EXCEPT ![s] = r]

peerOf(s) == session[s].peer

-----------------------------------------------------------------------------
(***************************************************************************)
(* One session of syncWithPeer.                                            *)
(***************************************************************************)

Start(s, p) ==
  /\ session[s].pc = "idle"
  /\ s.kind = "loop" /\ p # s.node
  /\ become(s, [pc |-> "tip", peer |-> p])
  /\ UNCHANGED <<engines, gossip, disturbances>>

\* The peer answers /p2p/tip: it reads its tip first and its work later.
AskTip(s) ==
  /\ session[s].pc = "tip"
  /\ become(s, [pc |-> "work", peer |-> peerOf(s), height |-> Height(peerOf(s))])
  /\ UNCHANGED <<engines, gossip, disturbances>>

AskWork(s) ==
  /\ session[s].pc = "work"
  /\ become(s, [pc     |-> "compare",
                peer   |-> peerOf(s),
                height |-> session[s].height,
                work   |-> CumWork(blocks[peerOf(s)])])
  /\ UNCHANGED <<engines, gossip, disturbances>>

\* Only a peer with more work is of interest.
Compare(s) ==
  /\ session[s].pc = "compare"
  /\ IF session[s].work > CumWork(blocks[s.node])
     THEN become(s, [pc |-> "ours", peer |-> peerOf(s), height |-> session[s].height])
     ELSE become(s, Idle)
  /\ UNCHANGED <<engines, gossip, disturbances>>

\* The common ancestor is searched between genesis and the lower of the tips.
BeginSearch(s) ==
  /\ session[s].pc = "ours"
  /\ become(s, [pc     |-> "search",
                peer   |-> peerOf(s),
                height |-> session[s].height,
                lo     |-> 0,
                hi     |-> IF session[s].height < Height(s.node)
                           THEN session[s].height ELSE Height(s.node),
                anc    |-> 0])
  /\ UNCHANGED <<engines, gossip, disturbances>>

middle(r) == (r.lo + r.hi) \div 2

\* The peer has no answer where it has no block.
AskHash(s) ==
  /\ session[s].pc = "search"
  /\ LET r == session[s]
     IN  IF middle(r) <= Height(r.peer)
         THEN become(s, [pc     |-> "match",
                         peer   |-> r.peer,
                         height |-> r.height,
                         lo     |-> r.lo,
                         hi     |-> r.hi,
                         anc    |-> r.anc,
                         hash   |-> BlockAt(r.peer, middle(r))])
         ELSE become(s, Idle)
  /\ UNCHANGED <<engines, gossip, disturbances>>

searchOrFetch(r, lo, hi, anc) ==
  IF lo <= hi
  THEN [pc |-> "search", peer |-> r.peer, height |-> r.height, lo |-> lo, hi |-> hi, anc |-> anc]
  ELSE [pc |-> "fetch", peer |-> r.peer, height |-> r.height, anc |-> anc,
        from |-> anc + 1, pending |-> <<>>]

\* Seeded fault: the middle stays in the range.
nextSearch_stays(r, same) ==
  IF same THEN searchOrFetch(r, middle(r) + 1, r.hi, middle(r))
          ELSE searchOrFetch(r, r.lo, middle(r), r.anc)

nextSearch(r, same) ==
  IF same THEN searchOrFetch(r, middle(r) + 1, r.hi, middle(r))
          ELSE searchOrFetch(r, r.lo, middle(r) - 1, r.anc)

Match(s) ==
  /\ session[s].pc = "match"
  /\ LET r    == session[s]
         same == middle(r) <= Height(s.node) /\ BlockAt(s.node, middle(r)) = r.hash
     IN  IF ~same /\ middle(r) = 0
         THEN become(s, Idle)
         ELSE become(s, nextSearch(r, same))
  /\ UNCHANGED <<engines, gossip, disturbances>>

\* After the last batch, or when none came, what was fetched is adopted.
endDownload(s, r) == IF r.pending = <<>> THEN become(s, Idle)
                     ELSE become(s, [r EXCEPT !.pc = "adoptLast"])

Fetch(s) ==
  /\ session[s].pc = "fetch"
  /\ LET r       == session[s]
         batch   == BlocksOf(blocks[r.peer], r.from, BatchBlocks)
         pending == r.pending \o batch
         from    == r.from + Len(batch)
         adopt   == from > r.height \/ Len(pending) >= AdoptAfter
     IN  IF batch = <<>>
         THEN endDownload(s, r)
         ELSE become(s, [r EXCEPT !.pc      = IF adopt THEN "adopt" ELSE "fetch",
                                  !.from    = from,
                                  !.pending = pending])
  /\ UNCHANGED <<engines, gossip, disturbances>>

Adopt(s) ==
  LET r == session[s]
  IN  /\ r.pc \in {"adopt", "adoptLast"}
      /\ TryAdoptChain(s.node, r.anc + 1, r.pending)
      /\ IF r.pc = "adopt" /\ r.from <= r.height /\ adopts(s.node, r.anc + 1, r.pending)
         THEN become(s, [r EXCEPT !.pc = "resume", !.pending = <<>>])
         ELSE become(s, Idle)
      /\ UNCHANGED <<gossip, disturbances>>

\* The download goes on from the own height, whatever the tip is by now.
Resume(s) ==
  /\ session[s].pc = "resume"
  /\ become(s, [session[s] EXCEPT !.pc = "fetch", !.anc = Height(s.node)])
  /\ UNCHANGED <<engines, gossip, disturbances>>

\* No answer: the session ends, or the download does.
Unanswered(s) ==
  /\ disturbances < MaxDisturbances
  /\ disturbances' = disturbances + 1
  /\ \/ session[s].pc \in {"tip", "work", "search"} /\ become(s, Idle)
     \/ session[s].pc = "fetch" /\ endDownload(s, session[s])
  /\ UNCHANGED <<engines, gossip>>

-----------------------------------------------------------------------------
(***************************************************************************)
(* Blocks that are found and passed on.                                    *)
(***************************************************************************)

broadcast(n, b) == {[from |-> n, to |-> p, block |-> b] : p \in Node \ {n}}

Mine(n, w) ==
  LET b == [height |-> Len(blocks[n]), prev |-> Last(blocks[n]), work |-> w, miner |-> n]
  IN  /\ mined < MaxMined
      /\ extends(n, b)
      /\ AddBlock(n, b)
      /\ mined' = mined + 1
      /\ gossip' = gossip \cup broadcast(n, b)
      /\ UNCHANGED <<session, disturbances>>

\* The handler of /p2p/block.  A block on another tip starts a session with the
\* peer that sent it.
Deliver(m) ==
  LET s == [node |-> m.to, kind |-> "gossip"]
  IN  \/ /\ extends(m.to, m.block)
         /\ AddBlock(m.to, m.block)
         /\ gossip' = (gossip \ {m}) \cup broadcast(m.to, m.block)
         /\ UNCHANGED <<mined, session, disturbances>>
      \/ /\ ~extends(m.to, m.block)
         /\ gossip' = gossip \ {m}
         /\ IF m.block.prev # Last(blocks[m.to]) /\ s \in Session /\ session[s] = Idle
            THEN become(s, [pc |-> "tip", peer |-> m.from])
            ELSE UNCHANGED session
         /\ UNCHANGED <<engines, disturbances>>

\* No one repeats a block that did not get through.
Lose(m) ==
  /\ gossip' = gossip \ {m}
  /\ UNCHANGED <<engines, session, disturbances>>

\* Node n starts again with what is on its disk; its sessions and what it was
\* sending are gone.
Restart(n, length) ==
  /\ disturbances < MaxDisturbances
  /\ disturbances' = disturbances + 1
  /\ LoseTail(n, length)
  /\ session' = [s \in Session |-> IF s.node = n THEN Idle ELSE session[s]]
  /\ gossip' = {m \in gossip : m.from # n}

-----------------------------------------------------------------------------
(***************************************************************************)
(* The specification.  Sessions go on, and the loop comes to every peer    *)
(* again and again.  Blocks that are found and sent, questions without an  *)
(* answer and restarts may happen or not.                                  *)
(***************************************************************************)

Step(s) ==
  \/ AskTip(s) \/ AskWork(s) \/ Compare(s) \/ BeginSearch(s) \/ AskHash(s)
  \/ Match(s) \/ Fetch(s) \/ Adopt(s) \/ Resume(s)

Traffic ==
  \/ \E s \in Session : Step(s) \/ Unanswered(s) \/ \E p \in Node : Start(s, p)
  \/ \E n \in Node, w \in Works : Mine(n, w)
  \/ \E m \in gossip : Deliver(m) \/ Lose(m)

Next == Traffic \/ \E n \in Node : Restart(n, Len(blocks[n]))

\* Every node has read its chain from its file.
Init ==
  /\ blocks \in Loaded
  /\ Checkpoints = [n \in Node |-> NoCheckpoints]
  /\ mined = 0
  /\ session = [s \in Session |-> Idle]
  /\ gossip = {}
  /\ disturbances = 0

Fairness ==
  \A s \in Session : /\ WF_vars(Step(s))
                     /\ \A p \in Node : SF_vars(Start(s, p))

Spec == Init /\ [][Next]_vars /\ Fairness

-----------------------------------------------------------------------------
\* How many leading blocks two chains have in common.
common(c, d) == CHOOSE k \in 1 .. Len(c) :
                  /\ k <= Len(d) /\ c[k] = d[k]
                  /\ k < Len(c) /\ k < Len(d) => c[k + 1] # d[k + 1]

\* Node p has a chain that node n ought to follow: it has more work, forks off
\* no deeper than the cap and has all that is final for n.
leads(p, n) ==
  /\ CumWork(blocks[p]) > CumWork(blocks[n])
  /\ MaxReorgDepth > 0 =>
       Len(blocks[n]) - common(blocks[n], blocks[p]) <= MaxReorgDepth
  /\ \A h \in DOMAIN Checkpoints[n] : h <= Height(p) /\ BlockAt(p, h) = Checkpoints[n][h]

\* ARCHITECTURE.md 6.1: sync "finds the common ancestor by binary search,
\* downloads in batches, adopts the higher-work chain".  A node does not stay
\* behind a chain it ought to follow, however the chains moved meanwhile.
CatchesUp == \A n \in Node : \A p \in Node \ {n} : leads(p, n) ~> ~leads(p, n)

\* Whatever the peers send and whenever it arrives, every step of a node is one
\* the promised fork choice allows, or none.
FC(n) == INSTANCE ForkChoice
           WITH chain <- blocks[n], final <- Checkpoints[n],
                MaxReorg <- MaxReorgDepth, Work <- CumWork

NodesFollowForkChoice ==
  [][\A n \in Node : FC(n)!Next \/ UNCHANGED <<blocks[n], Checkpoints[n]>>]_engines
=============================================================================
