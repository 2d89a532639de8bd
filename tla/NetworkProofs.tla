---------------------------- MODULE NetworkProofs ---------------------------
(***************************************************************************)
(* Theorems about modules PeerSync and Checkpoints: nodes that take blocks *)
(* and chains from each other follow the abstract fork choice, and what is *)
(* final for one of them does not contradict what is final for another.    *)
(***************************************************************************)
EXTENDS Checkpoints, Induction, SequenceTheorems

-----------------------------------------------------------------------------
(***************************************************************************)
(* Chains.  A block holds the one before it, so there is no set of all     *)
(* blocks: a sequence is one of whatever it lists.  W is a set of works    *)
(* that blocks above genesis may have.                                     *)
(***************************************************************************)

\* Genesis, and block on block from there.
ChainOf(c, W) ==
  /\ c \in Seq(Range(c)) /\ c # <<>> /\ c[1] = FirstBlock
  /\ \A i \in 2 .. Len(c) : /\ c[i].height = i - 1 /\ c[i].prev = c[i - 1]
                            /\ c[i].work \in W

\* Blocks that may come on top of a chain.
PartOf(c, W) == c \in Seq(Range(c)) /\ \A i \in 1 .. Len(c) : c[i].work \in W

\* A sequence is one of what it lists, and of anything more.
LEMMA ListsItself ==
  ASSUME NEW S, NEW c \in Seq(S)
  PROVE  c \in Seq(Range(c)) /\ Range(c) \subseteq S
<1>1. Len(c) \in Nat /\ DOMAIN c = 1 .. Len(c) /\ \A i \in 1 .. Len(c) : c[i] \in S
  BY LenProperties, ElementOfSeq
<1>2. \A i \in 1 .. Len(c) : c[i] \in Range(c)
  BY <1>1 DEF Range
<1>3. SubSeq(c, 1, Len(c)) \in Seq(Range(c))
  BY <1>1, <1>2, SubSeqProperties
<1>4. SubSeq(c, 1, Len(c)) = c
  BY SubSeqFull
<1> QED
  BY <1>1, <1>3, <1>4 DEF Range

\* Two sequences list elements of one set.
LEMMA TwoSequences ==
  ASSUME NEW c, c \in Seq(Range(c)), NEW d, d \in Seq(Range(d))
  PROVE  \E S : c \in Seq(S) /\ d \in Seq(S)
<1> DEFINE S == Range(c) \cup Range(d)
<1>1. Range(c) \subseteq S /\ Range(d) \subseteq S
  OBVIOUS
<1> HIDE DEF S
<1>2. c \in Seq(S) /\ d \in Seq(S)
  BY <1>1, SeqMonotonic
<1> QED
  BY <1>2

\* A part of a sequence.
LEMMA Part ==
  ASSUME NEW c, c \in Seq(Range(c)), NEW m \in Nat \ {0}, NEW n \in Nat, n <= Len(c)
  PROVE  LET p == SubSeq(c, m, n)
         IN  /\ p \in Seq(Range(p)) /\ Len(p) = (IF m <= n THEN n - m + 1 ELSE 0)
             /\ \A i \in 1 .. Len(p) : p[i] = c[m + i - 1]
<1> DEFINE p == SubSeq(c, m, n)
<1>1. Len(c) \in Nat
  BY LenProperties
<1>2. \A i \in m .. n : c[i] \in Range(c)
  <2>1. \A i \in m .. n : i \in 1 .. Len(c)
    BY <1>1
  <2> QED
    BY <2>1, ElementOfSeq
<1>3. /\ p \in Seq(Range(c)) /\ Len(p) = (IF m <= n THEN n - m + 1 ELSE 0)
      /\ \A i \in 1 .. n - m + 1 : p[i] = c[m + i - 1]
  BY <1>2, SubSeqProperties
<1>4. p \in Seq(Range(p))
  <2> HIDE DEF p
  <2> QED
    BY <1>3, ListsItself
<1>5. \A i \in 1 .. Len(p) : i \in 1 .. n - m + 1
  BY <1>3
<1> HIDE DEF p
<1> QED
  BY <1>3, <1>4, <1>5 DEF p

\* Two sequences one after the other.
LEMMA Joined ==
  ASSUME NEW c, c \in Seq(Range(c)), NEW d, d \in Seq(Range(d))
  PROVE  LET j == c \o d
         IN  /\ j \in Seq(Range(j)) /\ Len(j) = Len(c) + Len(d)
             /\ \A i \in 1 .. Len(c) : j[i] = c[i]
             /\ \A i \in 1 .. Len(d) : j[Len(c) + i] = d[i]
<1>1. PICK S : c \in Seq(S) /\ d \in Seq(S)
  BY TwoSequences
<1> DEFINE j == c \o d
<1>2. j \in Seq(S) /\ Len(j) = Len(c) + Len(d) /\ Len(c) \in Nat /\ Len(d) \in Nat
  BY <1>1, ConcatProperties, LenProperties
<1>3. \A i \in 1 .. Len(j) : j[i] = IF i <= Len(c) THEN c[i] ELSE d[i - Len(c)]
  BY <1>1, <1>2, ConcatProperties
<1>4. j \in Seq(Range(j))
  <2> HIDE DEF j
  <2> QED
    BY <1>2, ListsItself
<1>5. ASSUME NEW i \in 1 .. Len(c) PROVE j[i] = c[i]
  <2>1. i \in 1 .. Len(j) /\ i <= Len(c)
    BY <1>2
  <2> QED
    BY <1>3, <2>1
<1>6. ASSUME NEW i \in 1 .. Len(d) PROVE j[Len(c) + i] = d[i]
  <2>1. Len(c) + i \in 1 .. Len(j) /\ ~(Len(c) + i <= Len(c)) /\ (Len(c) + i) - Len(c) = i
    BY <1>2
  <2> QED
    BY <1>3, <2>1
<1> HIDE DEF j
<1> QED
  BY <1>2, <1>4, <1>5, <1>6 DEF j

\* A chain may begin with fewer blocks.
LEMMA Prefix ==
  ASSUME NEW W, NEW c, ChainOf(c, W), NEW k \in 1 .. Len(c)
  PROVE  LET p == SubSeq(c, 1, k)
         IN  ChainOf(p, W) /\ Len(p) = k /\ \A i \in 1 .. k : p[i] = c[i]
<1> DEFINE p == SubSeq(c, 1, k)
<1>1. c \in Seq(Range(c)) /\ Len(c) \in Nat /\ k \in Nat /\ 1 \in Nat \ {0} /\ k <= Len(c)
  BY LenProperties DEF ChainOf
<1>2. /\ p \in Seq(Range(p)) /\ Len(p) = (IF 1 <= k THEN k - 1 + 1 ELSE 0)
      /\ \A i \in 1 .. Len(p) : p[i] = c[1 + i - 1]
  <2>1. PICK m \in Nat \ {0} : m = 1
    OBVIOUS
  <2> DEFINE q == SubSeq(c, m, k)
  <2>2. /\ q \in Seq(Range(q)) /\ Len(q) = (IF m <= k THEN k - m + 1 ELSE 0)
        /\ \A i \in 1 .. Len(q) : q[i] = c[m + i - 1]
    BY <1>1, Part
  <2>3. p = q
    BY <2>1
  <2> HIDE DEF p, q
  <2> QED
    BY <2>1, <2>2, <2>3
<1> HIDE DEF p
<1>8. Len(p) = k
  BY <1>1, <1>2
<1>3. \A i \in 1 .. k : p[i] = c[i] /\ i \in 1 .. Len(c)
  BY <1>1, <1>2, <1>8
<1>4. 1 \in 1 .. k /\ p # <<>>
  BY <1>8, EmptySeq
<1>5. p[1] = FirstBlock
  BY <1>3, <1>4 DEF ChainOf
<1>6. ASSUME NEW i \in 2 .. Len(p)
      PROVE  p[i].height = i - 1 /\ p[i].prev = p[i - 1] /\ p[i].work \in W
  <2>1. i \in 1 .. k /\ i - 1 \in 1 .. k /\ i \in 2 .. Len(c)
    BY <1>1, <1>8
  <2> QED
    BY <1>3, <2>1 DEF ChainOf
<1>7. ChainOf(p, W)
  BY <1>2, <1>4, <1>5, <1>6 DEF ChainOf
<1> QED
  BY <1>3, <1>7, <1>8 DEF p

\* Blocks that validate on a chain make a longer one.
LEMMA Candidate ==
  ASSUME NEW W, NEW c, ChainOf(c, W), NEW new, PartOf(new, W), NEW cps, validOn(c, cps, new)
  PROVE  LET d == c \o new
         IN  ChainOf(d, W) /\ Len(d) = Len(c) + Len(new) /\ \A i \in 1 .. Len(c) : d[i] = c[i]
<1> DEFINE d == c \o new
<1>1. /\ c \in Seq(Range(c)) /\ Len(c) \in Nat \ {0} /\ new \in Seq(Range(new))
      /\ Len(new) \in Nat /\ DOMAIN new = 1 .. Len(new)
  BY LenProperties, EmptySeq DEF ChainOf, PartOf
<1>2. /\ d \in Seq(Range(d)) /\ Len(d) = Len(c) + Len(new)
      /\ \A i \in 1 .. Len(c) : d[i] = c[i]
      /\ \A i \in 1 .. Len(new) : d[Len(c) + i] = new[i]
  BY <1>1, Joined
<1> HIDE DEF d
<1>3. d # <<>> /\ d[1] = FirstBlock
  BY <1>1, <1>2, EmptySeq DEF ChainOf
<1>4. ASSUME NEW i \in 2 .. Len(d)
      PROVE  d[i].height = i - 1 /\ d[i].prev = d[i - 1] /\ d[i].work \in W
  <2>1. CASE i <= Len(c)
    <3>1. i \in 2 .. Len(c) /\ i \in 1 .. Len(c) /\ i - 1 \in 1 .. Len(c)
      BY <1>1, <2>1
    <3> QED
      BY <1>2, <3>1 DEF ChainOf
  <2>2. CASE ~(i <= Len(c))
    <3> DEFINE j == i - Len(c)
    <3>1. j \in 1 .. Len(new) /\ Len(c) + j = i /\ Len(c) \in 1 .. Len(c)
      BY <1>1, <1>2, <2>2
    <3> HIDE DEF j
    <3>2. d[i] = new[j]
      BY <1>2, <3>1
    <3>3. /\ new[j].height = Len(c) + j - 1
          /\ new[j].prev = (IF j = 1 THEN Last(c) ELSE new[j - 1])
          /\ new[j].work \in W
      BY <1>1, <3>1 DEF validOn, PartOf
    <3>4. d[i - 1] = IF j = 1 THEN Last(c) ELSE new[j - 1]
      <4>1. CASE j = 1
        <5>1. i - 1 = Len(c)
          BY <1>1, <3>1, <4>1
        <5> QED
          BY <1>2, <3>1, <4>1, <5>1 DEF Last
      <4>2. CASE j # 1
        <5>1. j - 1 \in 1 .. Len(new) /\ Len(c) + (j - 1) = i - 1
          BY <1>1, <3>1, <4>2
        <5> QED
          BY <1>2, <4>2, <5>1
      <4> QED
        BY <4>1, <4>2
    <3> QED
      BY <1>1, <3>1, <3>2, <3>3, <3>4
  <2> QED
    BY <2>1, <2>2
<1>5. ChainOf(d, W)
  BY <1>2, <1>3, <1>4 DEF ChainOf
<1> QED
  BY <1>2, <1>5 DEF d

\* One block on top.
LEMMA Extended ==
  ASSUME NEW W, NEW c, ChainOf(c, W), NEW b, b.work \in W, NEW cps, validOn(c, cps, <<b>>)
  PROVE  LET d == Append(c, b)
         IN  /\ ChainOf(d, W) /\ Len(d) = Len(c) + 1 /\ d[Len(c) + 1] = b
             /\ \A i \in 1 .. Len(c) : d[i] = c[i]
<1> DEFINE d == Append(c, b)
           S == Range(c) \cup {b}
<1>1. c \in Seq(Range(c)) /\ Len(c) \in Nat \ {0}
  BY LenProperties, EmptySeq DEF ChainOf
<1>2. c \in Seq(S) /\ b \in S
  <2>1. Range(c) \subseteq S /\ b \in S
    OBVIOUS
  <2> HIDE DEF S
  <2> QED
    BY <1>1, <2>1, SeqMonotonic
<1> HIDE DEF S
<1>3. d = c \o <<b>>
  BY <1>2, AppendIsConcat
<1>4. /\ Len(<<b>>) = 1 /\ <<b>>[1] = b /\ <<b>> \in Seq({b})
  OBVIOUS
<1>5. PartOf(<<b>>, W)
  <2> DEFINE one == <<b>>
  <2>1. one \in Seq({b}) /\ \A i \in 1 .. Len(one) : one[i].work \in W
    BY <1>4
  <2> HIDE DEF one
  <2>2. PartOf(one, W)
    BY <2>1, ListsItself DEF PartOf
  <2> QED
    BY <2>2 DEF one
<1>6. ChainOf(d, W) /\ Len(d) = Len(c) + 1 /\ \A i \in 1 .. Len(c) : d[i] = c[i]
  BY <1>3, <1>4, <1>5, Candidate
<1>7. d[Len(c) + 1] = b
  BY <1>2, AppendProperties
<1> QED
  BY <1>6, <1>7

\* A block on top adds its work to that of a chain.
LEMMA WorkOfExtended ==
  ASSUME NEW W \in SUBSET Nat, NEW c, ChainOf(c, W), NEW b, b.work \in W,
         NEW cps, validOn(c, cps, <<b>>)
  PROVE  CumWork(c) \in Int /\ CumWork(Append(c, b)) = CumWork(c) + b.work
<1> DEFINE d == Append(c, b)
           f == [i \in DOMAIN c |-> c[i].work]
           g == [i \in DOMAIN d |-> d[i].work]
<1>1. /\ ChainOf(d, W) /\ Len(d) = Len(c) + 1 /\ d[Len(c) + 1] = b
      /\ \A i \in 1 .. Len(c) : d[i] = c[i]
  BY Extended
<1> HIDE DEF d
<1>2. /\ Len(c) \in Nat /\ DOMAIN c = 1 .. Len(c) /\ Len(d) \in Nat /\ DOMAIN d = 1 .. Len(d)
  BY <1>1, LenProperties DEF ChainOf
<1>3. \A i \in 1 .. Len(d) : d[i].work \in Int
  <2> SUFFICES ASSUME NEW i \in 1 .. Len(d) PROVE d[i].work \in Int
    OBVIOUS
  <2>1. CASE i = 1
    BY <1>1, <2>1, EnginesAssumption DEF ChainOf
  <2>2. CASE i # 1
    <3>1. i \in 2 .. Len(d)
      BY <1>2, <2>2
    <3>2. d[i].work \in W
      BY <1>1, <3>1 DEF ChainOf
    <3>3. d[i].work \in Nat
      BY <3>2, Zenon
    <3> HIDE DEF f, g
    <3> QED
      BY <3>3
  <2> QED
    BY <2>1, <2>2
<1>4. /\ \A i \in 1 .. Len(c) + 1 : g[i] \in Int
      /\ g[Len(c) + 1] = b.work /\ DOMAIN g = 1 .. Len(c) + 1
  BY <1>1, <1>2, <1>3
<1>5. \A i \in 1 .. Len(c) : f[i] = g[i] /\ g[i] \in Int
  BY <1>1, <1>2, <1>3
<1>6. DOMAIN f = 1 .. Len(c) /\ IsFiniteSet(1 .. Len(c))
  BY <1>2, FS_Interval
<1> HIDE DEF f, g
<1>7. /\ SumFunctionOnSet(g, 1 .. Len(c) + 1) = SumFunctionOnSet(g, 1 .. Len(c)) + g[Len(c) + 1]
      /\ SumFunctionOnSet(g, 1 .. Len(c)) \in Int
  BY <1>2, <1>4, SumNext
<1>8. SumFunctionOnSet(f, 1 .. Len(c)) = SumFunctionOnSet(g, 1 .. Len(c))
  BY <1>5, <1>6, SumSame
<1>9. CumWork(c) = SumFunctionOnSet(f, 1 .. Len(c)) /\ CumWork(d) = SumFunctionOnSet(g, 1 .. Len(c) + 1)
  BY <1>4, <1>6 DEF CumWork, SumFunction, f, g
<1>10. CumWork(c) \in Int /\ CumWork(d) = CumWork(c) + b.work
  BY <1>4, <1>7, <1>8, <1>9
<1> QED
  BY <1>10 DEF d

-----------------------------------------------------------------------------
(***************************************************************************)
(* The inductive invariant: every node is on a chain that has what is      *)
(* final for it, and what sessions and gossip carry are blocks.            *)
(***************************************************************************)

ChainsInv(W) ==
  /\ blocks = [n \in Node |-> blocks[n]] /\ DOMAIN Checkpoints = Node
  /\ \A n \in Node : ChainOf(blocks[n], W)
  /\ \A n \in Node : \A h \in DOMAIN Checkpoints[n] :
       h \in 1 .. Height(n) /\ Checkpoints[n][h] = BlockAt(n, h)

\* What a session knows has the right form; what it fetched are blocks.
SessionInv(r, W) ==
  /\ r.pc # "idle" => r.peer \in Node
  /\ r.pc \in {"work", "compare", "ours", "search", "match"} => r.height \in Nat
  /\ r.pc \in {"search", "match"} => r.lo \in Nat /\ r.hi \in Nat /\ r.anc \in Nat
  /\ r.pc \in {"fetch", "adopt", "adoptLast", "resume"} =>
       /\ r = [pc |-> r.pc, peer |-> r.peer, height |-> r.height, anc |-> r.anc,
               from |-> r.from, pending |-> r.pending]
       /\ r.from \in Nat \ {0} /\ PartOf(r.pending, W)

TrafficInv(W) ==
  /\ DOMAIN session = Session
  /\ \A s \in Session : SessionInv(session[s], W)
  /\ \A m \in gossip : m.from \in Node /\ m.to \in Node /\ m.block.work \in W

NetInv(W) == ChainsInv(W) /\ TrafficInv(W)

\* The blocks that are mined and those the nodes start with have works in W.
WorksIn(W) ==
  /\ W \subseteq Nat \ {0} /\ Works \subseteq W
  /\ \A start \in Loaded : \A n \in Node : \A i \in 2 .. Len(start[n]) : start[n][i].work \in W

\* Nodes start with chains.
LEMMA InitNet == ASSUME NEW W, WorksIn(W) PROVE Init => NetInv(W)
<1> SUFFICES ASSUME Init PROVE NetInv(W)
  OBVIOUS
<1>1. blocks \in Loaded /\ blocks \in [Node -> Range(blocks)] /\ \A n \in Node : loads(blocks[n])
  BY PeerSyncAssumption DEF Init
<1>2. \A n \in Node : ChainOf(blocks[n], W)
  BY <1>1 DEF loads, ChainOf, WorksIn
<1>3. DOMAIN Checkpoints = Node /\ \A n \in Node : DOMAIN Checkpoints[n] = {}
  BY DEF Init, NoCheckpoints
<1>4. TrafficInv(W)
  BY DEF Init, TrafficInv, SessionInv, Idle
<1>5. blocks = [n \in Node |-> blocks[n]]
  BY <1>1
<1> QED
  BY <1>2, <1>3, <1>4, <1>5 DEF NetInv, ChainsInv

-----------------------------------------------------------------------------
(***************************************************************************)
(* What a step does to chains and checkpoints.                             *)
(***************************************************************************)

\* Node n moves to the chain c and keeps the first blocks of its own.
MovesTo(W, n, c, kept) ==
  /\ blocks' = [blocks EXCEPT ![n] = c] /\ UNCHANGED Checkpoints
  /\ ChainOf(c, W)
  /\ kept \in 1 .. Len(blocks[n]) /\ kept < Len(c)
  /\ \A i \in 1 .. kept : c[i] = blocks[n][i]
  /\ CumWork(c) > CumWork(blocks[n])
  /\ MaxReorgDepth > 0 => Len(blocks[n]) - kept <= MaxReorgDepth
  /\ \A h \in DOMAIN Checkpoints[n] : h < kept

ChainStep(W) ==
  \/ \E n \in Node : \E c, kept : MovesTo(W, n, c, kept)
  \/ UNCHANGED <<blocks, Checkpoints>>

EngineStep(W) == ChainStep(W) \/ \E n \in Node : \E cp : ApplyCheckpoint(n, cp)

\* A session asks for a checkpoint, or has used the answer.
Told ==
  /\ \E s \in Session, p \in Node : \E cp :
       become(s, [pc |-> "checkpoint", peer |-> p, cp |-> cp]) \/ become(s, Idle)
  /\ UNCHANGED gossip

\* Steps of either specification.
NetNext ==
  \/ Traffic
  \/ \E n \in Node : Restart(n, Len(blocks[n]))
  \/ \E n \in Node : \E cp : ApplyCheckpoint(n, cp) /\ (UNCHANGED network \/ Told)
  \/ UNCHANGED engines /\ Told

\* A block on the tip keeps the whole chain and adds its work.
LEMMA AddBlockMoves ==
  ASSUME NEW W, WorksIn(W), ChainsInv(W),
         NEW n \in Node, NEW b, b.work \in W, extends(n, b), AddBlock(n, b)
  PROVE  MovesTo(W, n, Append(blocks[n], b), Len(blocks[n]))
<1> DEFINE c == Append(blocks[n], b)
<1>1. ChainOf(blocks[n], W) /\ W \in SUBSET Nat
  BY DEF ChainsInv, WorksIn
<1>2. Len(blocks[n]) \in Nat \ {0}
  BY <1>1, LenProperties, EmptySeq DEF ChainOf
<1>3. validOn(blocks[n], Checkpoints[n], <<b>>)
  BY DEF extends
<1>4. /\ ChainOf(c, W) /\ Len(c) = Len(blocks[n]) + 1
      /\ \A i \in 1 .. Len(blocks[n]) : c[i] = blocks[n][i]
  BY <1>1, <1>3, Extended
<1>5. CumWork(blocks[n]) \in Int /\ CumWork(c) = CumWork(blocks[n]) + b.work
  BY <1>1, <1>3, WorkOfExtended
<1>6. CumWork(c) > CumWork(blocks[n])
  <2> DEFINE before == CumWork(blocks[n])
             after  == CumWork(c)
  <2>1. before \in Int /\ after = before + b.work /\ b.work \in Nat \ {0}
    BY <1>5 DEF WorksIn
  <2> HIDE DEF before, after
  <2>2. after > before
    BY <2>1
  <2> QED
    BY <2>2 DEF before, after
<1>7. blocks' = [blocks EXCEPT ![n] = c] /\ UNCHANGED Checkpoints
  BY DEF AddBlock
<1>8. \A h \in DOMAIN Checkpoints[n] : h < Len(blocks[n])
  BY <1>2 DEF ChainsInv, Height
<1>9. MaxReorgDepth > 0 => Len(blocks[n]) - Len(blocks[n]) <= MaxReorgDepth
  BY <1>2, EnginesAssumption
<1> HIDE DEF c
<1>10. MovesTo(W, n, c, Len(blocks[n]))
  BY <1>2, <1>4, <1>6, <1>7, <1>8, <1>9 DEF MovesTo
<1> QED
  BY <1>10 DEF c

\* An adoption keeps what is below the fork.
LEMMA AdoptMoves ==
  ASSUME NEW W, ChainsInv(W),
         NEW n \in Node, NEW start, NEW new, PartOf(new, W), TryAdoptChain(n, start, new)
  PROVE  (\E c, kept : MovesTo(W, n, c, kept)) \/ UNCHANGED <<blocks, Checkpoints>>
<1>1. CASE ~adopts(n, start, new)
  BY <1>1 DEF TryAdoptChain
<1>2. CASE adopts(n, start, new)
  <2> DEFINE own == blocks[n]
             low == SubSeq(own, 1, start)
             c   == candidate(n, start, new)
  <2>1. /\ new # <<>> /\ start \in 1 .. Len(own)
        /\ MaxReorgDepth > 0 => Len(own) - start <= MaxReorgDepth
        /\ \A h \in DOMAIN Checkpoints[n] : h < start
        /\ validOn(low, Checkpoints[n], new)
        /\ CumWork(c) > CumWork(own)
    BY <1>2 DEF adopts
  <2>2. ChainOf(own, W)
    BY DEF ChainsInv
  <2>3. ChainOf(low, W) /\ Len(low) = start /\ \A i \in 1 .. start : low[i] = own[i]
    <3> HIDE DEF own
    <3> QED
      BY <2>1, <2>2, Prefix
  <2>4. c = low \o new
    BY DEF candidate
  <2>5. /\ ChainOf(c, W) /\ Len(c) = start + Len(new)
        /\ \A i \in 1 .. start : c[i] = own[i]
    <3> HIDE DEF own, low, c
    <3>1. /\ ChainOf(low \o new, W) /\ Len(low \o new) = Len(low) + Len(new)
          /\ \A i \in 1 .. Len(low) : (low \o new)[i] = low[i]
      BY <2>1, <2>3, Candidate
    <3> QED
      BY <2>3, <2>4, <3>1
  <2>6. start < Len(c)
    <3>1. Len(new) \in Nat \ {0} /\ start \in Nat
      BY <2>1, LenProperties, EmptySeq DEF PartOf
    <3> HIDE DEF own, c
    <3> QED
      BY <2>5, <3>1
  <2>7. blocks' = [blocks EXCEPT ![n] = c] /\ UNCHANGED Checkpoints
    BY <1>2 DEF TryAdoptChain
  <2> HIDE DEF c
  <2>8. MovesTo(W, n, c, start)
    BY <2>1, <2>5, <2>6, <2>7 DEF MovesTo
  <2> QED
    BY <2>8
<1> QED
  BY <1>1, <1>2

\* A restart finds the whole chain on the disk.
LEMMA RestartKeeps ==
  ASSUME NEW W, ChainsInv(W), NEW n \in Node, LoseTail(n, Len(blocks[n]))
  PROVE  UNCHANGED <<blocks, Checkpoints>>
<1>1. blocks[n] \in Seq(Range(blocks[n]))
  BY DEF ChainsInv, ChainOf
<1>2. SubSeq(blocks[n], 1, Len(blocks[n])) = blocks[n]
  BY <1>1, SubSeqFull
<1>3. UNCHANGED Checkpoints /\ blocks' = [blocks EXCEPT ![n] = SubSeq(blocks[n], 1, Len(blocks[n]))]
  BY DEF LoseTail
<1>4. blocks' = [blocks EXCEPT ![n] = blocks[n]] /\ blocks = [p \in Node |-> blocks[p]]
  BY <1>2, <1>3 DEF ChainsInv
<1>5. blocks' = blocks
  BY <1>4
<1> QED
  BY <1>3, <1>5

\* Only a checkpoint changes what is final.
LEMMA ChainSteps ==
  ASSUME NEW W, WorksIn(W), NetInv(W),
         Traffic \/ (\E n \in Node : Restart(n, Len(blocks[n]))) \/ UNCHANGED vars
  PROVE  ChainStep(W)
<1>1. ChainsInv(W) /\ TrafficInv(W)
  BY DEF NetInv
<1>2. ASSUME NEW n \in Node, NEW w \in Works, Mine(n, w) PROVE ChainStep(W)
  <2> DEFINE b == [height |-> Len(blocks[n]), prev |-> Last(blocks[n]), work |-> w, miner |-> n]
  <2>1. extends(n, b) /\ AddBlock(n, b) /\ b.work = w
    BY <1>2 DEF Mine
  <2>2. b.work \in W
    BY <2>1 DEF WorksIn
  <2> HIDE DEF b
  <2>3. MovesTo(W, n, Append(blocks[n], b), Len(blocks[n]))
    BY <1>1, <2>1, <2>2, AddBlockMoves
  <2> QED
    BY <2>3 DEF ChainStep
<1>3. ASSUME NEW m \in gossip, Deliver(m) PROVE ChainStep(W)
  <2>1. CASE extends(m.to, m.block) /\ AddBlock(m.to, m.block)
    <3>1. m.to \in Node /\ m.block.work \in W
      BY <1>1 DEF TrafficInv
    <3>2. MovesTo(W, m.to, Append(blocks[m.to], m.block), Len(blocks[m.to]))
      BY <1>1, <2>1, <3>1, AddBlockMoves
    <3> QED
      BY <3>1, <3>2 DEF ChainStep
  <2>2. CASE UNCHANGED engines
    BY <2>2 DEF engines, ChainStep
  <2> QED
    BY <1>3, <2>1, <2>2 DEF Deliver
<1>4. ASSUME NEW s \in Session, Adopt(s) PROVE ChainStep(W)
  <2> DEFINE r == session[s]
  <2>1. r.pc \in {"adopt", "adoptLast"} /\ TryAdoptChain(s.node, r.anc + 1, r.pending)
    BY <1>4 DEF Adopt
  <2>2. s.node \in Node /\ PartOf(r.pending, W)
    BY <1>1, <2>1, PeerSyncAssumption DEF TrafficInv, SessionInv
  <2> HIDE DEF r
  <2>3. \/ \E c, kept : MovesTo(W, s.node, c, kept)
        \/ UNCHANGED <<blocks, Checkpoints>>
    BY <1>1, <2>1, <2>2, AdoptMoves
  <2> QED
    BY <2>2, <2>3 DEF ChainStep
<1>5. ASSUME NEW s \in Session, Step(s), ~Adopt(s) PROVE ChainStep(W)
  <2>1. UNCHANGED engines
    BY <1>5 DEF Step, AskTip, AskWork, Compare, BeginSearch, AskHash, Match, Fetch, Resume
  <2> QED
    BY <2>1 DEF engines, ChainStep
<1>6. ASSUME NEW s \in Session, Unanswered(s) PROVE ChainStep(W)
  BY <1>6 DEF Unanswered, engines, ChainStep
<1>7. ASSUME NEW s \in Session, NEW p \in Node, Start(s, p) PROVE ChainStep(W)
  BY <1>7 DEF Start, engines, ChainStep
<1>8. ASSUME NEW m \in gossip, Lose(m) PROVE ChainStep(W)
  BY <1>8 DEF Lose, engines, ChainStep
<1>9. ASSUME NEW n \in Node, Restart(n, Len(blocks[n])) PROVE ChainStep(W)
  BY <1>1, <1>9, RestartKeeps DEF Restart, ChainStep
<1>10. CASE UNCHANGED vars
  BY <1>10 DEF vars, engines, ChainStep
<1>11. Traffic => ChainStep(W)
  BY <1>2, <1>3, <1>4, <1>5, <1>6, <1>7, <1>8 DEF Traffic
<1> QED
  BY <1>9, <1>10, <1>11

\* Every step is one of these.
LEMMA EngineSteps ==
  ASSUME NEW W, WorksIn(W), NetInv(W), [NetNext]_vars
  PROVE  EngineStep(W)
<1>1. CASE Traffic \/ (\E n \in Node : Restart(n, Len(blocks[n]))) \/ UNCHANGED vars
  BY <1>1, ChainSteps DEF EngineStep
<1>2. CASE \E n \in Node : \E cp : ApplyCheckpoint(n, cp)
  BY <1>2 DEF EngineStep
<1>3. CASE UNCHANGED engines
  BY <1>3 DEF EngineStep, ChainStep, engines
<1> QED
  BY <1>1, <1>2, <1>3 DEF NetNext

\* A step of the engines keeps every node on a chain that has what is final for it.
LEMMA ChainsKept ==
  ASSUME NEW W, ChainsInv(W), EngineStep(W)
  PROVE  ChainsInv(W)'
<1>1. ASSUME NEW n \in Node, NEW c, NEW kept, MovesTo(W, n, c, kept) PROVE ChainsInv(W)'
  <2>1. /\ blocks' = [blocks EXCEPT ![n] = c] /\ UNCHANGED Checkpoints
        /\ blocks = [p \in Node |-> blocks[p]]
    BY <1>1 DEF MovesTo, ChainsInv
  <2>2. /\ blocks' = [p \in Node |-> blocks'[p]]
        /\ blocks'[n] = c /\ \A p \in Node \ {n} : blocks'[p] = blocks[p]
    BY <2>1
  <2>3. \A p \in Node : ChainOf(blocks'[p], W)
    BY <1>1, <2>2 DEF MovesTo, ChainsInv
  <2>4. ASSUME NEW p \in Node, NEW h \in DOMAIN Checkpoints[p]
        PROVE  h \in 1 .. Len(blocks'[p]) - 1 /\ Checkpoints[p][h] = blocks'[p][h + 1]
    <3>1. h \in 1 .. Len(blocks[p]) - 1 /\ Checkpoints[p][h] = blocks[p][h + 1]
      BY DEF ChainsInv, Height, BlockAt
    <3>2. CASE p = n
      <4>1. /\ h < kept /\ kept < Len(c) /\ kept \in 1 .. Len(blocks[n])
            /\ \A i \in 1 .. kept : c[i] = blocks[n][i]
        BY <1>1, <3>2 DEF MovesTo
      <4>2. Len(blocks[n]) \in Nat /\ Len(c) \in Nat
        BY <1>1, LenProperties DEF MovesTo, ChainsInv, ChainOf
      <4>3. h + 1 \in 1 .. kept /\ h \in 1 .. Len(c) - 1
        BY <3>1, <3>2, <4>1, <4>2
      <4> QED
        BY <2>2, <3>1, <3>2, <4>1, <4>3
    <3> QED
      BY <2>2, <3>1, <3>2
  <2> QED
    BY <2>1, <2>2, <2>3, <2>4 DEF ChainsInv, Height, BlockAt
<1>2. ASSUME NEW n \in Node, NEW cp, ApplyCheckpoint(n, cp) PROVE ChainsInv(W)'
  <2>1. CASE ~matches(n, cp)
    BY <1>2, <2>1 DEF ApplyCheckpoint, ChainsInv, Height, BlockAt
  <2>2. CASE matches(n, cp)
    <3>1. blocks' = blocks /\ cp.height \in 1 .. Height(n) /\ BlockAt(n, cp.height) = cp.hash
      BY <1>2, <2>2 DEF ApplyCheckpoint, matches
    <3>2. Checkpoints' = [Checkpoints EXCEPT ![n] =
                            [h \in DOMAIN Checkpoints[n] \cup {cp.height} |->
                               IF h = cp.height THEN cp.hash ELSE Checkpoints[n][h]]]
      BY <1>2, <2>2 DEF ApplyCheckpoint
    <3>3. DOMAIN Checkpoints' = Node /\ \A p \in Node \ {n} : Checkpoints'[p] = Checkpoints[p]
      BY <3>2 DEF ChainsInv
    <3>4. Checkpoints'[n] = [h \in DOMAIN Checkpoints[n] \cup {cp.height} |->
                               IF h = cp.height THEN cp.hash ELSE Checkpoints[n][h]]
      BY <3>2 DEF ChainsInv
    <3>5. ASSUME NEW p \in Node, NEW h \in DOMAIN Checkpoints'[p]
          PROVE  h \in 1 .. Height(p) /\ Checkpoints'[p][h] = BlockAt(p, h)
      <4>1. CASE p # n
        BY <3>3, <4>1 DEF ChainsInv
      <4>2. CASE p = n /\ h = cp.height
        BY <3>1, <3>4, <4>2
      <4>3. CASE p = n /\ h # cp.height
        BY <3>4, <4>3 DEF ChainsInv
      <4> QED
        BY <4>1, <4>2, <4>3
    <3> QED
      BY <3>1, <3>3, <3>5 DEF ChainsInv, Height, BlockAt
  <2> QED
    BY <2>1, <2>2
<1>3. CASE UNCHANGED <<blocks, Checkpoints>>
  BY <1>3 DEF ChainsInv, Height, BlockAt
<1> QED
  BY <1>1, <1>2, <1>3 DEF EngineStep, ChainStep

-----------------------------------------------------------------------------
(***************************************************************************)
(* What a step does to sessions and gossip.                                *)
(***************************************************************************)

\* Only one session goes on.
LEMMA Becomes ==
  ASSUME NEW W, TrafficInv(W), NEW s \in Session, NEW r, SessionInv(r, W),
         become(s, r), gossip' \subseteq gossip
  PROVE  TrafficInv(W)'
<1>1. /\ DOMAIN session' = Session
      /\ \A t \in Session : session'[t] = IF t = s THEN r ELSE session[t]
  BY DEF become, TrafficInv
<1>2. \A t \in Session : SessionInv(session'[t], W)
  BY <1>1 DEF TrafficInv
<1> QED
  BY <1>1, <1>2 DEF TrafficInv

\* A session that has not begun knows nothing.
LEMMA IdleInv == ASSUME NEW W PROVE SessionInv(Idle, W) /\ Idle.pc # "checkpoint"
BY DEF Idle, SessionInv

\* A session that begins knows its peer.
LEMMA TipInv ==
  ASSUME NEW W, NEW p \in Node
  PROVE  SessionInv([pc |-> "tip", peer |-> p], W)
BY DEF SessionInv

\* The search for the common ancestor starts and goes on within two heights.
LEMMA SearchInv ==
  ASSUME NEW W, NEW r, r.peer \in Node, r.height \in Nat,
         NEW lo \in Nat, NEW hi \in Int, NEW anc \in Nat
  PROVE  SessionInv(searchOrFetch(r, lo, hi, anc), W)
<1>1. CASE lo <= hi
  <2>1. hi \in Nat
    BY <1>1
  <2>2. searchOrFetch(r, lo, hi, anc) =
          [pc |-> "search", peer |-> r.peer, height |-> r.height, lo |-> lo, hi |-> hi, anc |-> anc]
    BY <1>1 DEF searchOrFetch
  <2> QED
    BY <2>1, <2>2 DEF SessionInv
<1>2. CASE ~(lo <= hi)
  <2> DEFINE f == [pc |-> "fetch", peer |-> r.peer, height |-> r.height, anc |-> anc,
                   from |-> anc + 1, pending |-> <<>>]
  <2>1. searchOrFetch(r, lo, hi, anc) = f
    BY <1>2 DEF searchOrFetch
  <2>2. /\ f = [pc |-> f.pc, peer |-> f.peer, height |-> f.height, anc |-> f.anc,
                from |-> f.from, pending |-> f.pending]
        /\ f.pc = "fetch" /\ f.peer \in Node /\ f.from \in Nat \ {0} /\ f.pending = <<>>
    OBVIOUS
  <2>3. PartOf(<<>>, W)
    BY EmptySeq DEF PartOf
  <2> HIDE DEF f
  <2>4. SessionInv(f, W)
    BY <2>2, <2>3 DEF SessionInv
  <2> QED
    BY <2>1, <2>4
<1> QED
  BY <1>1, <1>2

\* What a download has is adopted at its end.
LEMMA EndDownloadInv ==
  ASSUME NEW W, NEW s \in Session, NEW r, SessionInv(r, W), r.pc = "fetch", endDownload(s, r)
  PROVE  \E t : SessionInv(t, W) /\ t.pc # "checkpoint" /\ become(s, t)
<1>1. CASE r.pending = <<>>
  BY <1>1, IdleInv DEF endDownload
<1>2. CASE r.pending # <<>>
  <2> DEFINE t == [r EXCEPT !.pc = "adoptLast"]
  <2>1. /\ r = [pc |-> r.pc, peer |-> r.peer, height |-> r.height, anc |-> r.anc,
                from |-> r.from, pending |-> r.pending]
        /\ r.peer \in Node /\ r.from \in Nat \ {0} /\ PartOf(r.pending, W)
    BY DEF SessionInv
  <2>2. t = [pc |-> "adoptLast", peer |-> r.peer, height |-> r.height, anc |-> r.anc,
             from |-> r.from, pending |-> r.pending]
    BY <2>1
  <2>3. /\ t.pc = "adoptLast" /\ t.peer = r.peer /\ t.from = r.from /\ t.pending = r.pending
        /\ t.height = r.height /\ t.anc = r.anc
    BY <2>2
  <2>4. become(s, t)
    BY <1>2 DEF endDownload
  <2> HIDE DEF t
  <2>5. SessionInv(t, W)
    BY <2>1, <2>2, <2>3 DEF SessionInv
  <2> QED
    BY <2>3, <2>4, <2>5
<1> QED
  BY <1>1, <1>2

\* A batch is part of the peer's chain, above genesis.
LEMMA BatchInv ==
  ASSUME NEW W, NEW c, ChainOf(c, W), NEW from \in Nat \ {0}, NEW pending, PartOf(pending, W)
  PROVE  LET batch == BlocksOf(c, from, BatchBlocks)
         IN  PartOf(pending \o batch, W) /\ Len(batch) \in Nat
<1> DEFINE last == IF from + BatchBlocks < Len(c) THEN from + BatchBlocks ELSE Len(c)
           batch == SubSeq(c, from + 1, last)
           all == pending \o batch
<1>1. /\ c \in Seq(Range(c)) /\ Len(c) \in Nat /\ BatchBlocks \in Nat
      /\ last \in Nat /\ last <= Len(c) /\ from + 1 \in Nat \ {0}
  BY LenProperties, PeerSyncAssumption DEF ChainOf
<1>2. batch = BlocksOf(c, from, BatchBlocks)
  BY DEF BlocksOf
<1> HIDE DEF last
<1>3. /\ batch \in Seq(Range(batch)) /\ Len(batch) = (IF from + 1 <= last THEN last - (from + 1) + 1 ELSE 0)
      /\ \A i \in 1 .. Len(batch) : batch[i] = c[(from + 1) + i - 1]
  BY <1>1, Part
<1> HIDE DEF batch
<1>4. ASSUME NEW i \in 1 .. Len(batch) PROVE batch[i].work \in W
  <2>1. Len(batch) \in Nat /\ from + 1 <= last
    BY <1>1, <1>3
  <2>2. (from + 1) + i - 1 \in 2 .. Len(c)
    BY <1>1, <1>3, <2>1
  <2> QED
    BY <1>3, <2>2 DEF ChainOf
<1>5. pending \in Seq(Range(pending)) /\ Len(pending) \in Nat /\ Len(batch) \in Nat
  BY <1>3, LenProperties DEF PartOf
<1>6. /\ all \in Seq(Range(all)) /\ Len(all) = Len(pending) + Len(batch)
      /\ \A i \in 1 .. Len(pending) : all[i] = pending[i]
      /\ \A i \in 1 .. Len(batch) : all[Len(pending) + i] = batch[i]
  BY <1>3, <1>5, Joined
<1> HIDE DEF all
<1>7. ASSUME NEW i \in 1 .. Len(all) PROVE all[i].work \in W
  <2>1. CASE i <= Len(pending)
    <3>1. i \in 1 .. Len(pending)
      BY <1>5, <1>6, <2>1
    <3> QED
      BY <1>6, <3>1 DEF PartOf
  <2>2. CASE ~(i <= Len(pending))
    <3>1. i - Len(pending) \in 1 .. Len(batch) /\ Len(pending) + (i - Len(pending)) = i
      BY <1>5, <1>6, <2>2
    <3>2. all[i] = batch[i - Len(pending)]
      BY <1>6, <3>1
    <3> QED
      BY <1>4, <3>1, <3>2
  <2> QED
    BY <2>1, <2>2
<1>8. PartOf(all, W)
  BY <1>6, <1>7 DEF PartOf
<1> QED
  BY <1>2, <1>5, <1>8 DEF all

\* The answers of a peer that has a chain, and what a session makes of them.
LEMMA StepTraffic ==
  ASSUME NEW W, NetInv(W), NEW s \in Session, Step(s)
  PROVE  TrafficInv(W)' /\ \A t \in Session : session'[t].pc = "checkpoint" => session'[t] = session[t]
<1> DEFINE r == session[s]
<1>1. TrafficInv(W) /\ ChainsInv(W) /\ SessionInv(r, W) /\ s.node \in Node
  BY PeerSyncAssumption DEF NetInv, TrafficInv
<1>2. \A n \in Node : Height(n) \in Nat
  <2>1. \A n \in Node : Len(blocks[n]) \in Nat \ {0}
    BY <1>1, LenProperties, EmptySeq DEF ChainsInv, ChainOf
  <2> QED
    BY <2>1 DEF Height
<1>3. gossip' = gossip
  BY DEF Step, AskTip, AskWork, Compare, BeginSearch, AskHash, Match, Fetch, Adopt, Resume
<1>4. SUFFICES \E t : SessionInv(t, W) /\ t.pc # "checkpoint" /\ become(s, t)
  BY <1>1, <1>3, Becomes DEF become, TrafficInv
<1>5. CASE AskTip(s)
  <2> DEFINE t == [pc |-> "work", peer |-> r.peer, height |-> Height(r.peer)]
  <2>1. become(s, t) /\ r.peer \in Node
    BY <1>1, <1>5 DEF AskTip, peerOf, SessionInv
  <2>2. SessionInv(t, W)
    BY <1>2, <2>1 DEF SessionInv
  <2> QED
    BY <2>1, <2>2
<1>6. CASE AskWork(s)
  <2> DEFINE t == [pc |-> "compare", peer |-> r.peer, height |-> r.height,
                   work |-> CumWork(blocks[r.peer])]
  <2>1. become(s, t) /\ r.peer \in Node /\ r.height \in Nat
    BY <1>1, <1>6 DEF AskWork, peerOf, SessionInv
  <2>2. SessionInv(t, W)
    BY <2>1 DEF SessionInv
  <2> QED
    BY <2>1, <2>2
<1>7. CASE Compare(s)
  <2> DEFINE t == [pc |-> "ours", peer |-> r.peer, height |-> r.height]
  <2>1. (become(s, t) \/ become(s, Idle)) /\ r.peer \in Node /\ r.height \in Nat
    BY <1>1, <1>7 DEF Compare, peerOf, SessionInv
  <2>2. SessionInv(t, W)
    BY <2>1 DEF SessionInv
  <2> QED
    BY <2>1, <2>2, IdleInv
<1>8. CASE BeginSearch(s)
  <2> DEFINE top == IF r.height < Height(s.node) THEN r.height ELSE Height(s.node)
             t == [pc |-> "search", peer |-> r.peer, height |-> r.height,
                   lo |-> 0, hi |-> top, anc |-> 0]
  <2>1. become(s, t) /\ r.peer \in Node /\ r.height \in Nat
    BY <1>1, <1>8 DEF BeginSearch, peerOf, SessionInv
  <2>2. top \in Nat
    BY <1>1, <1>2, <2>1
  <2>3. SessionInv(t, W)
    <3> HIDE DEF top
    <3> QED
      BY <2>1, <2>2 DEF SessionInv
  <2> QED
    BY <2>1, <2>3
<1>9. CASE AskHash(s)
  <2> DEFINE t == [pc |-> "match", peer |-> r.peer, height |-> r.height, lo |-> r.lo,
                   hi |-> r.hi, anc |-> r.anc, hash |-> BlockAt(r.peer, middle(r))]
  <2>1. /\ become(s, t) \/ become(s, Idle)
        /\ r.peer \in Node /\ r.height \in Nat /\ r.lo \in Nat /\ r.hi \in Nat /\ r.anc \in Nat
    BY <1>1, <1>9 DEF AskHash, SessionInv
  <2>2. SessionInv(t, W)
    BY <2>1 DEF SessionInv
  <2> QED
    BY <2>1, <2>2, IdleInv
<1>10. CASE Match(s)
  <2>1. r.peer \in Node /\ r.height \in Nat /\ r.lo \in Nat /\ r.hi \in Nat /\ r.anc \in Nat
    BY <1>1, <1>10 DEF Match, SessionInv
  <2>2. middle(r) \in Nat
    BY <2>1 DEF middle
  <2>3. \E same \in BOOLEAN : become(s, Idle) \/ become(s, nextSearch(r, same))
    BY <1>10 DEF Match
  <2> HIDE DEF r
  <2>4. ASSUME NEW same \in BOOLEAN
        PROVE  SessionInv(nextSearch(r, same), W) /\ nextSearch(r, same).pc # "checkpoint"
    <3>1. /\ middle(r) + 1 \in Nat /\ r.hi \in Int /\ middle(r) - 1 \in Int
      BY <2>1, <2>2
    <3>2. /\ SessionInv(searchOrFetch(r, middle(r) + 1, r.hi, middle(r)), W)
          /\ SessionInv(searchOrFetch(r, r.lo, middle(r) - 1, r.anc), W)
      BY <2>1, <2>2, <3>1, SearchInv
    <3>3. \A lo, hi, anc : searchOrFetch(r, lo, hi, anc).pc # "checkpoint"
      BY DEF searchOrFetch
    <3> QED
      BY <3>2, <3>3 DEF nextSearch
  <2> QED
    BY <2>3, <2>4, IdleInv
<1>11. CASE Fetch(s)
  <2> DEFINE batch   == BlocksOf(blocks[r.peer], r.from, BatchBlocks)
             pending == r.pending \o batch
             from    == r.from + Len(batch)
             pc      == IF from > r.height \/ Len(pending) >= AdoptAfter THEN "adopt" ELSE "fetch"
             t == [r EXCEPT !.pc = pc, !.from = from, !.pending = pending]
  <2>1. r.pc = "fetch" /\ (endDownload(s, r) \/ become(s, t))
    BY <1>11 DEF Fetch
  <2>2. /\ r = [pc |-> r.pc, peer |-> r.peer, height |-> r.height, anc |-> r.anc,
                from |-> r.from, pending |-> r.pending]
        /\ r.peer \in Node /\ r.from \in Nat \ {0} /\ PartOf(r.pending, W)
    BY <1>1, <2>1 DEF SessionInv
  <2>3. ChainOf(blocks[r.peer], W)
    BY <1>1, <2>2 DEF ChainsInv
  <2>4. PartOf(pending, W) /\ Len(batch) \in Nat
    <3> HIDE DEF r
    <3> QED
      BY <2>2, <2>3, BatchInv
  <2>5. from \in Nat \ {0} /\ pc \in {"adopt", "fetch"}
    BY <2>2, <2>4
  <2> HIDE DEF r, batch, pending, from, pc
  <2>6. t = [pc |-> pc, peer |-> r.peer, height |-> r.height, anc |-> r.anc,
             from |-> from, pending |-> pending]
    <3> DEFINE u == [pc |-> pc, peer |-> r.peer, height |-> r.height, anc |-> r.anc,
                     from |-> r.from, pending |-> r.pending]
               v == [pc |-> pc, peer |-> r.peer, height |-> r.height, anc |-> r.anc,
                     from |-> from, pending |-> r.pending]
    <3>1. [r EXCEPT !.pc = pc] = u
      BY <2>2
    <3>2. [u EXCEPT !.from = from] = v
      OBVIOUS
    <3>3. [v EXCEPT !.pending = pending] =
            [pc |-> pc, peer |-> r.peer, height |-> r.height, anc |-> r.anc,
             from |-> from, pending |-> pending]
      OBVIOUS
    <3>4. t = [[[r EXCEPT !.pc = pc] EXCEPT !.from = from] EXCEPT !.pending = pending]
      OBVIOUS
    <3> QED
      BY <3>1, <3>2, <3>3, <3>4, Zenon
  <2>7. /\ t.pc = pc /\ t.peer = r.peer /\ t.from = from /\ t.pending = pending
        /\ t.height = r.height /\ t.anc = r.anc
    BY <2>6
  <2> HIDE DEF t
  <2>8. SessionInv(t, W)
    BY <2>2, <2>4, <2>5, <2>6, <2>7 DEF SessionInv
  <2>9. CASE endDownload(s, r)
    BY <1>1, <2>1, <2>9, EndDownloadInv
  <2> QED
    BY <2>1, <2>5, <2>7, <2>8, <2>9
<1>12. CASE Adopt(s)
  <2> DEFINE t == [r EXCEPT !.pc = "resume", !.pending = <<>>]
  <2>1. r.pc \in {"adopt", "adoptLast"} /\ (become(s, t) \/ become(s, Idle))
    BY <1>12 DEF Adopt
  <2>2. /\ r = [pc |-> r.pc, peer |-> r.peer, height |-> r.height, anc |-> r.anc,
                from |-> r.from, pending |-> r.pending]
        /\ r.peer \in Node /\ r.from \in Nat \ {0}
    BY <1>1, <2>1 DEF SessionInv
  <2> HIDE DEF r
  <2>3. t = [pc |-> "resume", peer |-> r.peer, height |-> r.height, anc |-> r.anc,
             from |-> r.from, pending |-> <<>>]
    <3> DEFINE u == [pc |-> "resume", peer |-> r.peer, height |-> r.height, anc |-> r.anc,
                     from |-> r.from, pending |-> r.pending]
    <3>1. [r EXCEPT !.pc = "resume"] = u
      BY <2>2
    <3>2. [u EXCEPT !.pending = <<>>] =
            [pc |-> "resume", peer |-> r.peer, height |-> r.height, anc |-> r.anc,
             from |-> r.from, pending |-> <<>>]
      OBVIOUS
    <3>3. t = [[r EXCEPT !.pc = "resume"] EXCEPT !.pending = <<>>]
      OBVIOUS
    <3> QED
      BY <3>1, <3>2, <3>3, Zenon
  <2>4. /\ t.pc = "resume" /\ t.peer = r.peer /\ t.from = r.from /\ t.pending = <<>>
        /\ t.height = r.height /\ t.anc = r.anc
    BY <2>3
  <2>5. PartOf(<<>>, W)
    BY EmptySeq DEF PartOf
  <2> HIDE DEF t
  <2>6. SessionInv(t, W)
    BY <2>2, <2>3, <2>4, <2>5 DEF SessionInv
  <2> QED
    BY <2>1, <2>4, <2>6, IdleInv
<1>13. CASE Resume(s)
  <2> DEFINE t == [r EXCEPT !.pc = "fetch", !.anc = Height(s.node)]
  <2>1. r.pc = "resume" /\ become(s, t)
    BY <1>13 DEF Resume
  <2>2. /\ r = [pc |-> r.pc, peer |-> r.peer, height |-> r.height, anc |-> r.anc,
                from |-> r.from, pending |-> r.pending]
        /\ r.peer \in Node /\ r.from \in Nat \ {0} /\ PartOf(r.pending, W)
    BY <1>1, <2>1 DEF SessionInv
  <2> HIDE DEF r
  <2>3. t = [pc |-> "fetch", peer |-> r.peer, height |-> r.height, anc |-> Height(s.node),
             from |-> r.from, pending |-> r.pending]
    <3> DEFINE u == [pc |-> "fetch", peer |-> r.peer, height |-> r.height, anc |-> r.anc,
                     from |-> r.from, pending |-> r.pending]
    <3>1. [r EXCEPT !.pc = "fetch"] = u
      BY <2>2
    <3>2. [u EXCEPT !.anc = Height(s.node)] =
            [pc |-> "fetch", peer |-> r.peer, height |-> r.height, anc |-> Height(s.node),
             from |-> r.from, pending |-> r.pending]
      OBVIOUS
    <3>3. t = [[r EXCEPT !.pc = "fetch"] EXCEPT !.anc = Height(s.node)]
      OBVIOUS
    <3> QED
      BY <3>1, <3>2, <3>3, Zenon
  <2>4. /\ t.pc = "fetch" /\ t.peer = r.peer /\ t.from = r.from /\ t.pending = r.pending
        /\ t.height = r.height /\ t.anc = Height(s.node)
    BY <2>3
  <2> HIDE DEF t
  <2>5. SessionInv(t, W)
    BY <2>2, <2>3, <2>4 DEF SessionInv
  <2> QED
    BY <2>1, <2>4, <2>5
<1> QED
  BY <1>5, <1>6, <1>7, <1>8, <1>9, <1>10, <1>11, <1>12, <1>13 DEF Step

\* A block that is passed on is the same block.
LEMMA Broadcast ==
  ASSUME NEW W, NEW n \in Node, NEW b, b.work \in W
  PROVE  \A m \in broadcast(n, b) : m.from \in Node /\ m.to \in Node /\ m.block.work \in W
BY DEF broadcast

\* Every step of either specification keeps the invariant.
LEMMA NextNet ==
  ASSUME NEW W, WorksIn(W)
  PROVE  NetInv(W) /\ [NetNext]_vars => NetInv(W)'
<1> SUFFICES ASSUME NetInv(W), [NetNext]_vars PROVE NetInv(W)'
  OBVIOUS
<1>1. ChainsInv(W) /\ TrafficInv(W)
  BY DEF NetInv
<1>2. ChainsInv(W)'
  BY <1>1, EngineSteps, ChainsKept
<1>3. ASSUME NEW s \in Session, Step(s) PROVE TrafficInv(W)'
  BY <1>3, StepTraffic
<1>4. ASSUME NEW s \in Session, Unanswered(s) PROVE TrafficInv(W)'
  <2>1. gossip' = gossip
    BY <1>4 DEF Unanswered
  <2>2. CASE become(s, Idle)
    BY <1>1, <2>1, <2>2, IdleInv, Becomes
  <2>3. CASE session[s].pc = "fetch" /\ endDownload(s, session[s])
    <3>1. SessionInv(session[s], W)
      BY <1>1 DEF TrafficInv
    <3>2. \E t : SessionInv(t, W) /\ become(s, t)
      BY <2>3, <3>1, EndDownloadInv
    <3> QED
      BY <1>1, <2>1, <3>2, Becomes
  <2> QED
    BY <1>4, <2>2, <2>3 DEF Unanswered
<1>5. ASSUME NEW s \in Session, NEW p \in Node, Start(s, p) PROVE TrafficInv(W)'
  BY <1>1, <1>5, TipInv, Becomes DEF Start
<1>6. ASSUME NEW n \in Node, NEW w \in Works, Mine(n, w) PROVE TrafficInv(W)'
  <2> DEFINE b == [height |-> Len(blocks[n]), prev |-> Last(blocks[n]), work |-> w, miner |-> n]
  <2>1. gossip' = gossip \cup broadcast(n, b) /\ session' = session /\ b.work \in W
    BY <1>6 DEF Mine, WorksIn
  <2> HIDE DEF b
  <2>2. \A m \in gossip' : m.from \in Node /\ m.to \in Node /\ m.block.work \in W
    BY <1>1, <2>1, Broadcast DEF TrafficInv
  <2> QED
    BY <1>1, <2>1, <2>2 DEF TrafficInv
<1>7. ASSUME NEW m \in gossip, Deliver(m) PROVE TrafficInv(W)'
  <2>1. m.from \in Node /\ m.to \in Node /\ m.block.work \in W
    BY <1>1 DEF TrafficInv
  <2>2. CASE gossip' = (gossip \ {m}) \cup broadcast(m.to, m.block) /\ session' = session
    <3>1. \A l \in gossip' : l.from \in Node /\ l.to \in Node /\ l.block.work \in W
      BY <1>1, <2>1, <2>2, Broadcast DEF TrafficInv
    <3> QED
      BY <1>1, <2>2, <3>1 DEF TrafficInv
  <2>3. CASE gossip' = gossip \ {m} /\ session' = session
    BY <1>1, <2>3 DEF TrafficInv
  <2>4. ASSUME gossip' = gossip \ {m},
               NEW s \in Session, become(s, [pc |-> "tip", peer |-> m.from])
        PROVE  TrafficInv(W)'
    BY <1>1, <2>1, <2>4, TipInv, Becomes
  <2> QED
    BY <1>7, <2>2, <2>3, <2>4 DEF Deliver
<1>8. ASSUME NEW m \in gossip, Lose(m) PROVE TrafficInv(W)'
  BY <1>1, <1>8 DEF Lose, TrafficInv
<1>9. ASSUME NEW n \in Node, Restart(n, Len(blocks[n])) PROVE TrafficInv(W)'
  <2>1. session' = [s \in Session |-> IF s.node = n THEN Idle ELSE session[s]]
        /\ gossip' \subseteq gossip
    BY <1>9 DEF Restart
  <2>2. \A s \in Session : SessionInv(session'[s], W)
    BY <1>1, <2>1, IdleInv DEF TrafficInv
  <2> QED
    BY <1>1, <2>1, <2>2 DEF TrafficInv
<1>10. UNCHANGED network => TrafficInv(W)'
  BY <1>1 DEF network, TrafficInv
<1>11. ASSUME Told PROVE TrafficInv(W)'
  <2>1. PICK s \in Session, p \in Node : \E cp :
          become(s, [pc |-> "checkpoint", peer |-> p, cp |-> cp]) \/ become(s, Idle)
    BY <1>11 DEF Told
  <2>2. PICK cp : become(s, [pc |-> "checkpoint", peer |-> p, cp |-> cp]) \/ become(s, Idle)
    BY <2>1
  <2>3. SessionInv([pc |-> "checkpoint", peer |-> p, cp |-> cp], W)
    BY DEF SessionInv
  <2> QED
    BY <1>1, <1>11, <2>2, <2>3, IdleInv, Becomes DEF Told
<1>12. TrafficInv(W)'
  BY <1>3, <1>4, <1>5, <1>6, <1>7, <1>8, <1>9, <1>10, <1>11 DEF NetNext, Traffic, vars
<1> QED
  BY <1>2, <1>12 DEF NetInv

\* Only the loop asks for checkpoints.
LEMMA TrafficTold ==
  ASSUME NEW W, NetInv(W), Traffic
  PROVE  \A t \in Session : session'[t].pc = "checkpoint" => session'[t] = session[t]
<1>1. TrafficInv(W)
  BY DEF NetInv
<1>2. ASSUME NEW s \in Session, NEW r, r.pc # "checkpoint", become(s, r), NEW t \in Session,
             session'[t].pc = "checkpoint"
      PROVE  session'[t] = session[t]
  BY <1>1, <1>2 DEF become, TrafficInv
<1>3. ASSUME NEW s \in Session, Unanswered(s)
      PROVE  \A t \in Session : session'[t].pc = "checkpoint" => session'[t] = session[t]
  <2>1. SessionInv(session[s], W)
    BY <1>1 DEF TrafficInv
  <2>2. \E r : r.pc # "checkpoint" /\ become(s, r)
    BY <1>3, <2>1, IdleInv, EndDownloadInv DEF Unanswered
  <2> QED
    BY <1>2, <2>2
<1>4. ASSUME NEW s \in Session, NEW p \in Node, Start(s, p)
      PROVE  \A t \in Session : session'[t].pc = "checkpoint" => session'[t] = session[t]
  <2>1. [pc |-> "tip", peer |-> p].pc # "checkpoint"
    OBVIOUS
  <2> QED
    BY <1>2, <1>4, <2>1 DEF Start
<1>5. ASSUME NEW m \in gossip, Deliver(m)
      PROVE  \A t \in Session : session'[t].pc = "checkpoint" => session'[t] = session[t]
  <2>1. [pc |-> "tip", peer |-> m.from].pc # "checkpoint"
    OBVIOUS
  <2> QED
    BY <1>2, <1>5, <2>1 DEF Deliver
<1>6. ASSUME NEW n \in Node, NEW w \in Works, Mine(n, w) PROVE session' = session
  BY <1>6 DEF Mine
<1>7. ASSUME NEW m \in gossip, Lose(m) PROVE session' = session
  BY <1>7 DEF Lose
<1> QED
  BY <1>3, <1>4, <1>5, <1>6, <1>7, StepTraffic DEF Traffic

-----------------------------------------------------------------------------
(***************************************************************************)
(* Every node implements the abstract fork choice.                         *)
(***************************************************************************)

\* A move to another chain is one that the fork choice allows.
LEMMA MoveRefines ==
  ASSUME NEW W, ChainsInv(W), NEW n \in Node, NEW c, NEW kept, MovesTo(W, n, c, kept)
  PROVE  FC(n)!Next
<1>1. /\ blocks'[n] = c /\ Checkpoints'[n] = Checkpoints[n]
      /\ ChainOf(c, W) /\ CumWork(c) > CumWork(blocks[n])
  BY DEF MovesTo, ChainsInv
<1>2. /\ kept \in 1 .. Len(blocks[n]) /\ kept < Len(c)
      /\ \A i \in 1 .. kept : c[i] = blocks[n][i]
      /\ MaxReorgDepth > 0 => Len(blocks[n]) - kept <= MaxReorgDepth
      /\ \A h \in DOMAIN Checkpoints[n] : h < kept
  BY DEF MovesTo
<1>3. Len(blocks[n]) \in Nat /\ Len(c) \in Nat
  BY <1>1, LenProperties DEF ChainsInv, ChainOf
<1>4. ASSUME NEW h \in Nat, h < kept PROVE FC(n)!Agree(c, blocks[n], h)
  <2>1. h + 1 \in 1 .. kept /\ h < Len(c) /\ h < Len(blocks[n])
    BY <1>2, <1>3, <1>4
  <2> QED
    BY <1>2, <2>1 DEF FC!Agree
<1>5. FC(n)!Linked(c)
  <2>1. ASSUME NEW i \in 1 .. Len(c) - 1 PROVE c[i + 1].prev = c[i] /\ c[i + 1].height = i
    <3>1. i + 1 \in 2 .. Len(c) /\ (i + 1) - 1 = i
      BY <1>3
    <3>2. c[i + 1].height = (i + 1) - 1 /\ c[i + 1].prev = c[(i + 1) - 1]
      BY <1>1, <3>1 DEF ChainOf
    <3> QED
      BY <3>1, <3>2
  <2> QED
    BY <1>1, <2>1 DEF ChainOf, FC!Linked
<1>6. MaxReorgDepth > 0 /\ Len(blocks[n]) > MaxReorgDepth
        => FC(n)!Agree(c, blocks[n], Len(blocks[n]) - MaxReorgDepth - 1)
  <2> SUFFICES ASSUME MaxReorgDepth > 0, Len(blocks[n]) > MaxReorgDepth
               PROVE  FC(n)!Agree(c, blocks[n], Len(blocks[n]) - MaxReorgDepth - 1)
    OBVIOUS
  <2>1. /\ Len(blocks[n]) - MaxReorgDepth - 1 \in Nat
        /\ Len(blocks[n]) - MaxReorgDepth - 1 < kept
    BY <1>2, <1>3, EnginesAssumption
  <2> QED
    BY <1>4, <2>1
<1>7. \A h \in DOMAIN Checkpoints[n] : FC(n)!Agree(c, blocks[n], h)
  <2>1. \A h \in DOMAIN Checkpoints[n] : h \in Nat
    BY <1>3 DEF ChainsInv, Height
  <2> QED
    BY <1>2, <1>4, <2>1
<1>8. FC(n)!Move(blocks'[n])
  BY <1>1, <1>5, <1>6, <1>7 DEF FC!Move
<1> QED
  BY <1>8 DEF FC!Next

\* A checkpoint is taken for a block of the chain.
LEMMA CheckpointRefines ==
  ASSUME NEW W, ChainsInv(W), NEW n \in Node, NEW cp, ApplyCheckpoint(n, cp)
  PROVE  FC(n)!Next \/ UNCHANGED <<blocks[n], Checkpoints[n]>>
<1>1. CASE ~matches(n, cp)
  BY <1>1 DEF ApplyCheckpoint
<1>2. CASE matches(n, cp)
  <2>1. /\ cp.height \in 1 .. Len(blocks[n]) - 1 /\ blocks[n][cp.height + 1] = cp.hash
        /\ blocks' = blocks
        /\ Checkpoints'[n] = [h \in DOMAIN Checkpoints[n] \cup {cp.height} |->
                                IF h = cp.height THEN cp.hash ELSE Checkpoints[n][h]]
    BY <1>2 DEF ApplyCheckpoint, matches, Height, BlockAt, ChainsInv
  <2>2. \A h \in DOMAIN Checkpoints[n] : Checkpoints[n][h] = blocks[n][h + 1]
    BY DEF ChainsInv, BlockAt
  <2>3. Checkpoints'[n] = [h \in DOMAIN Checkpoints[n] \cup {cp.height} |-> blocks[n][h + 1]]
    BY <2>1, <2>2
  <2>4. FC(n)!Finalise(cp.height)
    BY <2>1, <2>3 DEF FC!Finalise
  <2> QED
    BY <2>1, <2>4 DEF FC!Next
<1> QED
  BY <1>1, <1>2

\* So is every step of the engines, for every node.
LEMMA EveryNodeRefines ==
  ASSUME NEW W, ChainsInv(W), EngineStep(W)
  PROVE  \A n \in Node : FC(n)!Next \/ UNCHANGED <<blocks[n], Checkpoints[n]>>
<1> SUFFICES ASSUME NEW n \in Node
             PROVE  FC(n)!Next \/ UNCHANGED <<blocks[n], Checkpoints[n]>>
  OBVIOUS
<1>1. ASSUME NEW p \in Node, NEW c, NEW kept, MovesTo(W, p, c, kept)
      PROVE  FC(n)!Next \/ UNCHANGED <<blocks[n], Checkpoints[n]>>
  <2>1. CASE p = n
    BY <1>1, <2>1, MoveRefines
  <2>2. CASE p # n
    BY <1>1, <2>2 DEF MovesTo, ChainsInv
  <2> QED
    BY <2>1, <2>2
<1>2. ASSUME NEW p \in Node, NEW cp, ApplyCheckpoint(p, cp)
      PROVE  FC(n)!Next \/ UNCHANGED <<blocks[n], Checkpoints[n]>>
  <2>1. CASE p = n
    BY <1>2, <2>1, CheckpointRefines
  <2>2. CASE p # n
    BY <1>2, <2>2 DEF ApplyCheckpoint, ChainsInv
  <2> QED
    BY <2>1, <2>2
<1>3. CASE UNCHANGED <<blocks, Checkpoints>>
  BY <1>3
<1> QED
  BY <1>1, <1>2, <1>3 DEF EngineStep, ChainStep

\* Both specifications take steps of NetNext.
LEMMA StepOfEither ==
  /\ [Next]_vars => [NetNext]_vars
  /\ [CheckpointsNext]_<<vars, finality>> => [NetNext]_vars
<1>1. [Next]_vars => [NetNext]_vars
  BY DEF Next, NetNext
<1>2. [CheckpointsNext]_<<vars, finality>> => [NetNext]_vars
  <2>1. ReadStatus \/ ReadBlock => UNCHANGED vars
    BY DEF ReadStatus, ReadBlock
  <2>2. Post => NetNext
    BY CheckpointsAssumption DEF Post, NetNext
  <2>3. ASSUME NEW n \in Node, fetchCheckpoint(n) PROVE NetNext
    BY <2>3 DEF fetchCheckpoint, NetNext, Told
  <2>6. ASSUME NEW n \in Node, NEW p \in Node, AskCheckpoint(n, p) PROVE NetNext
    BY <2>6 DEF AskCheckpoint, NetNext, Told
  <2>4. ASSUME NEW n \in Node, RestartNode(n) PROVE NetNext
    BY <2>4 DEF RestartNode, NetNext
  <2>5. Traffic => NetNext
    BY DEF NetNext
  <2> QED
    BY <2>1, <2>2, <2>3, <2>4, <2>5, <2>6 DEF CheckpointsNext
<1> QED
  BY <1>1, <1>2

\* And begin alike.
LEMMA EitherSpec == Spec \/ CheckpointsSpec => Init /\ [][NetNext]_vars
<1>1. CheckpointsInit => Init
  BY DEF CheckpointsInit
<1> QED
  BY <1>1, StepOfEither, PTL DEF Spec, CheckpointsSpec

\* The works of the model are numbers above 0.
LEMMA AnyWorks == WorksIn(Nat \ {0})
BY PeerSyncAssumption, EnginesAssumption DEF WorksIn, loads

\* Whatever is sent, lost and restarted, every node stays on a chain that has
\* all that is final for it.
THEOREM NetInvariant ==
  ASSUME NEW W, WorksIn(W)
  PROVE  Spec \/ CheckpointsSpec => []NetInv(W)
BY EitherSpec, InitNet, NextNet, PTL

\* Whatever the peers send and whenever it arrives, every step of every node is
\* one the abstract fork choice allows, or none.
THEOREM NetworkRefinement == Spec \/ CheckpointsSpec => NodesFollowForkChoice
<1> DEFINE W == Nat \ {0}
<1>1. WorksIn(W)
  BY AnyWorks
<1> HIDE DEF W
<1>2. (Init => NetInv(W)) /\ (NetInv(W) /\ [NetNext]_vars => NetInv(W)')
  BY <1>1, InitNet, NextNet
<1>3. NetInv(W) /\ [NetNext]_vars
        => [\A n \in Node : FC(n)!Next \/ UNCHANGED <<blocks[n], Checkpoints[n]>>]_engines
  BY <1>1, EngineSteps, EveryNodeRefines DEF NetInv
<1> QED
  BY <1>2, <1>3, EitherSpec, PTL DEF NodesFollowForkChoice

-----------------------------------------------------------------------------
(***************************************************************************)
(* What is final.  Only the authority's node can refuse a checkpoint that  *)
(* is served all the same; whatever else is served or taken it has taken   *)
(* itself, and what is final for it is on its chain.                       *)
(***************************************************************************)

\* The block b of height h is final for the authority.
Sealed(h, b) == h \in DOMAIN Checkpoints[Authority] /\ Checkpoints[Authority][h] = b

Known(h, b) == Sealed(h, b) \/ disowned(h, b)

\* What is served, on its way or taken is final for the authority, unless its
\* node refused it.
FinalInv ==
  /\ DOMAIN served = Node
  /\ \A n \in Node : served[n] # NoCheckpoint => Known(served[n].height, served[n].hash)
  /\ \A s \in Session : session[s].pc = "checkpoint" =>
       Known(session[s].cp.height, session[s].cp.hash)
  /\ \A n \in Node : \A h \in DOMAIN Checkpoints[n] : Known(h, Checkpoints[n][h])

\* Chains that have a block in common have all below it in common.
LEMMA CommonBelow ==
  ASSUME NEW W, NEW c, ChainOf(c, W), NEW d, ChainOf(d, W),
         NEW k \in Nat, k < Len(c), k < Len(d), c[k + 1] = d[k + 1]
  PROVE  \A h \in 0 .. k : c[h + 1] = d[h + 1]
<1> DEFINE S == {j \in 0 .. k : c[(k - j) + 1] = d[(k - j) + 1]}
<1>1. 0 \in S
  OBVIOUS
<1>2. ASSUME NEW j \in 0 .. k - 1, j \in S PROVE j + 1 \in S
  <2>1. Len(c) \in Nat /\ Len(d) \in Nat
    BY LenProperties DEF ChainOf
  <2>2. /\ (k - j) + 1 \in 2 .. Len(c) /\ (k - j) + 1 \in 2 .. Len(d)
        /\ ((k - j) + 1) - 1 = (k - (j + 1)) + 1 /\ j + 1 \in 0 .. k
    BY <2>1
  <2>3. /\ c[(k - j) + 1].prev = c[((k - j) + 1) - 1]
        /\ d[(k - j) + 1].prev = d[((k - j) + 1) - 1]
    BY <2>2 DEF ChainOf
  <2>4. c[(k - j) + 1] = d[(k - j) + 1]
    BY <1>2
  <2> QED
    BY <2>2, <2>3, <2>4
<1> HIDE DEF S
<1>3. 0 .. k \subseteq S
  BY <1>1, <1>2, CountUp
<1>4. ASSUME NEW h \in 0 .. k PROVE c[h + 1] = d[h + 1]
  <2>1. k - h \in S /\ k - (k - h) = h
    BY <1>3
  <2> QED
    BY <2>1 DEF S
<1> QED
  BY <1>4

\* The invariant gives the agreement.
LEMMA FinalInvAgrees ==
  ASSUME NEW W, ChainsInv(W), FinalInv
  PROVE  FinalAgreement
<1> SUFFICES ASSUME NEW n \in Node, NEW p \in Node,
                    NEW h \in DOMAIN Checkpoints[n], NEW k \in DOMAIN Checkpoints[p], h <= k,
                    ~disowned(h, Checkpoints[n][h]), ~disowned(k, Checkpoints[p][k])
             PROVE  h <= Height(p) /\ BlockAt(p, h) = Checkpoints[n][h]
  BY DEF FinalAgreement
<1> DEFINE a == blocks[Authority]
           c == blocks[p]
<1>1. ChainOf(a, W) /\ ChainOf(c, W) /\ Authority \in Node
  BY CheckpointsAssumption DEF ChainsInv
<1>2. Sealed(h, Checkpoints[n][h]) /\ Sealed(k, Checkpoints[p][k])
  BY DEF FinalInv, Known
<1>3. /\ h \in 1 .. Height(Authority) /\ k \in 1 .. Height(Authority)
      /\ Checkpoints[n][h] = BlockAt(Authority, h) /\ Checkpoints[p][k] = BlockAt(Authority, k)
  BY <1>1, <1>2 DEF Sealed, ChainsInv
<1>4. k \in 1 .. Height(p) /\ Checkpoints[p][k] = BlockAt(p, k)
  BY DEF ChainsInv
<1>5. /\ k \in Nat /\ k < Len(a) /\ k < Len(c) /\ a[k + 1] = c[k + 1] /\ h \in 0 .. k
  <2>1. Len(a) \in Nat /\ Len(c) \in Nat
    BY <1>1, LenProperties DEF ChainOf
  <2> QED
    BY <1>3, <1>4, <2>1 DEF Height, BlockAt
<1>6. a[h + 1] = c[h + 1]
  <2> HIDE DEF a, c
  <2> QED
    BY <1>1, <1>5, CommonBelow
<1>7. h <= Height(p)
  <2>1. Height(p) \in Int
    BY <1>1, LenProperties DEF ChainOf, Height
  <2> QED
    BY <1>3, <1>4, <2>1
<1> QED
  BY <1>3, <1>6, <1>7 DEF BlockAt

\* At the start nothing is final or served.
LEMMA InitFinal == CheckpointsInit => FinalInv
<1> SUFFICES ASSUME CheckpointsInit PROVE FinalInv
  OBVIOUS
<1>1. \A n \in Node : DOMAIN Checkpoints[n] = {}
  BY DEF CheckpointsInit, Init, NoCheckpoints
<1>2. DOMAIN served = Node /\ \A n \in Node : served[n] = NoCheckpoint
  BY DEF CheckpointsInit
<1>3. \A s \in Session : session[s].pc = "idle"
  BY DEF CheckpointsInit, Init, Idle
<1> QED
  BY <1>1, <1>2, <1>3 DEF FinalInv

\* What is known stays known, if nothing the authority refused is forgotten
\* before it is final for it.
LEMMA KnownStays ==
  ASSUME \A h, b : Sealed(h, b) => Sealed(h, b)',
         \A cp \in refused : cp \in refused' \/ Sealed(cp.height, cp.hash)'
  PROVE  \A h, b : Known(h, b) => Known(h, b)'
<1> SUFFICES ASSUME NEW h, NEW b, Known(h, b) PROVE Known(h, b)'
  OBVIOUS
<1>1. CASE Sealed(h, b)
  BY <1>1 DEF Known
<1>2. ASSUME NEW cp \in refused, cp.height = h, cp.hash = b PROVE Known(h, b)'
  BY <1>2 DEF Known, disowned
<1> QED
  BY <1>1, <1>2 DEF Known, disowned

\* A checkpoint that is taken leaves what is final as it is.
LEMMA SealsStay ==
  ASSUME NEW W, ChainsInv(W), NEW n \in Node, NEW cp, ApplyCheckpoint(n, cp),
         NEW h, NEW b, Sealed(h, b)
  PROVE  Sealed(h, b)'
<1>1. Authority \in Node
  BY CheckpointsAssumption
<1>2. CASE ~matches(n, cp) \/ n # Authority
  BY <1>1, <1>2 DEF ApplyCheckpoint, Sealed, ChainsInv
<1>3. CASE matches(n, cp) /\ n = Authority
  <2>1. Checkpoints'[Authority] =
          [i \in DOMAIN Checkpoints[Authority] \cup {cp.height} |->
             IF i = cp.height THEN cp.hash ELSE Checkpoints[Authority][i]]
    BY <1>1, <1>3 DEF ApplyCheckpoint, ChainsInv
  <2>2. BlockAt(Authority, cp.height) = cp.hash /\ Checkpoints[Authority][h] = BlockAt(Authority, h)
    BY <1>1, <1>3 DEF matches, ChainsInv, Sealed
  <2> QED
    BY <2>1, <2>2 DEF Sealed
<1> QED
  BY <1>2, <1>3

\* What the authority's node takes is final for it.
LEMMA TakenIsSealed ==
  ASSUME NEW W, ChainsInv(W), NEW cp, ApplyCheckpoint(Authority, cp), matches(Authority, cp)
  PROVE  Sealed(cp.height, cp.hash)'
<1>1. Authority \in Node
  BY CheckpointsAssumption
<1>2. Checkpoints'[Authority] =
        [i \in DOMAIN Checkpoints[Authority] \cup {cp.height} |->
           IF i = cp.height THEN cp.hash ELSE Checkpoints[Authority][i]]
  BY <1>1 DEF ApplyCheckpoint, ChainsInv
<1> QED
  BY <1>2 DEF Sealed

\* A node that takes a known checkpoint has only known ones.
LEMMA TakesKnown ==
  ASSUME NEW W, ChainsInv(W), FinalInv, NEW n \in Node, NEW cp, ApplyCheckpoint(n, cp),
         Known(cp.height, cp.hash)', \A h, b : Known(h, b) => Known(h, b)'
  PROVE  \A p \in Node : \A h \in DOMAIN Checkpoints'[p] : \A b :
           b = Checkpoints'[p][h] => Known(h, b)'
<1> SUFFICES ASSUME NEW p \in Node, NEW h \in DOMAIN Checkpoints'[p], NEW b, b = Checkpoints'[p][h]
             PROVE  Known(h, b)'
  OBVIOUS
<1>1. CASE p # n \/ ~matches(n, cp)
  <2>1. Checkpoints'[p] = Checkpoints[p]
    BY <1>1 DEF ApplyCheckpoint, ChainsInv
  <2> QED
    BY <2>1 DEF FinalInv
<1>2. CASE p = n /\ matches(n, cp)
  <2>1. Checkpoints'[p] = [i \in DOMAIN Checkpoints[p] \cup {cp.height} |->
                             IF i = cp.height THEN cp.hash ELSE Checkpoints[p][i]]
    BY <1>2 DEF ApplyCheckpoint, ChainsInv
  <2>2. CASE h = cp.height
    BY <2>1, <2>2
  <2>3. CASE h # cp.height
    <3>1. h \in DOMAIN Checkpoints[p] /\ Checkpoints'[p][h] = Checkpoints[p][h]
      BY <2>1, <2>3
    <3>2. Known(h, b)
      BY <3>1 DEF FinalInv
    <3> QED
      BY <3>2
  <2> QED
    BY <2>2, <2>3
<1> QED
  BY <1>1, <1>2

\* What is served after a checkpoint is that or what was served before.
LEMMA Serves ==
  ASSUME DOMAIN served = Node, NEW n \in Node, NEW cp, NEW v, v = serve(n, cp)
  PROVE  DOMAIN v = Node /\ \A p \in Node : v[p] = served[p] \/ v[p] = cp
BY DEF serve

\* Blocks, restarts and questions leave what is final alone.
LEMMA RestFinal ==
  ASSUME FinalInv, UNCHANGED <<Checkpoints, refused>>, DOMAIN served' = Node,
         \A n \in Node : served'[n] = served[n] \/ served'[n] = NoCheckpoint,
         \A s \in Session : session'[s].pc = "checkpoint" =>
           \/ session'[s] = session[s]
           \/ \E n \in Node : served[n] # NoCheckpoint /\ session'[s].cp = served[n]
  PROVE  FinalInv'
<1>1. \A h, b : Known(h, b)' <=> Known(h, b)
  BY DEF Known, Sealed, disowned
<1>2. ASSUME NEW n \in Node, served'[n] # NoCheckpoint, NEW cp, cp = served'[n]
      PROVE  Known(cp.height, cp.hash)'
  BY <1>1, <1>2 DEF FinalInv
<1>3. ASSUME NEW s \in Session, session'[s].pc = "checkpoint", NEW cp, cp = session'[s].cp
      PROVE  Known(cp.height, cp.hash)'
  BY <1>1, <1>3 DEF FinalInv
<1>4. ASSUME NEW n \in Node, NEW h \in DOMAIN Checkpoints'[n], NEW b, b = Checkpoints'[n][h]
      PROVE  Known(h, b)'
  BY <1>1, <1>4 DEF FinalInv
<1> QED
  BY <1>2, <1>3, <1>4 DEF FinalInv, Known, Sealed, disowned

\* A checkpoint that a node looks at, and what it makes of it.
LEMMA TakingFinal ==
  ASSUME NEW W, ChainsInv(W), FinalInv, NEW n \in Node, NEW cp, ApplyCheckpoint(n, cp),
         \A h, b : Known(h, b) => Known(h, b)', Known(cp.height, cp.hash)',
         served' = serve(n, cp) \/ served' = served,
         \A s \in Session : session'[s].pc = "checkpoint" => session'[s] = session[s]
  PROVE  FinalInv'
<1>1. DOMAIN served' = Node /\ \A p \in Node : served'[p] = served[p] \/ served'[p] = cp
  <2>1. DOMAIN served = Node
    BY DEF FinalInv
  <2>2. PICK v : v = serve(n, cp)
    OBVIOUS
  <2>3. DOMAIN v = Node /\ \A p \in Node : v[p] = served[p] \/ v[p] = cp
    BY <2>1, <2>2, Serves
  <2> QED
    BY <2>1, <2>2, <2>3
<1>2. ASSUME NEW p \in Node, served'[p] # NoCheckpoint, NEW c, c = served'[p]
      PROVE  Known(c.height, c.hash)'
  BY <1>1, <1>2 DEF FinalInv
<1>3. ASSUME NEW s \in Session, session'[s].pc = "checkpoint", NEW c, c = session'[s].cp
      PROVE  Known(c.height, c.hash)'
  BY <1>3 DEF FinalInv
<1>4. \A p \in Node : \A h \in DOMAIN Checkpoints'[p] : \A b : b = Checkpoints'[p][h] => Known(h, b)'
  BY TakesKnown
<1> QED
  BY <1>1, <1>2, <1>3, <1>4 DEF FinalInv, Known, Sealed, disowned

\* What is posted is final for the authority's node, or it is refused.
LEMMA PostFinal ==
  ASSUME NEW W, ChainsInv(W), FinalInv, Post
  PROVE  FinalInv'
<1>1. PICK cp : cp = signer.cp
  OBVIOUS
<1>2. /\ Authority \in Node /\ ApplyCheckpoint(Authority, cp) /\ served' = serve(Authority, cp)
      /\ refused' = (IF matches(Authority, cp) THEN refused ELSE refused \cup {cp})
      /\ session' = session
  BY <1>1, CheckpointsAssumption DEF Post, network
<1>3. \A h, b : Sealed(h, b) => Sealed(h, b)'
  BY <1>2, SealsStay
<1>4. \A c \in refused : c \in refused'
  BY <1>2
<1>5. \A h, b : Known(h, b) => Known(h, b)'
  BY <1>3, <1>4, KnownStays
<1>6. Known(cp.height, cp.hash)'
  <2>1. CASE matches(Authority, cp)
    BY <1>2, <2>1, TakenIsSealed DEF Known
  <2>2. CASE ~matches(Authority, cp)
    BY <1>2, <2>2 DEF Known, disowned
  <2> QED
    BY <2>1, <2>2
<1> QED
  BY <1>2, <1>5, <1>6, TakingFinal

\* So is what a node fetches.
LEMMA FetchFinal ==
  ASSUME NEW W, NetInv(W), FinalInv, NEW n \in Node, fetchCheckpoint(n)
  PROVE  FinalInv'
<1>0. ChainsInv(W) /\ DOMAIN session = Session
  BY DEF NetInv, TrafficInv
<1>1. PICK loop, cp : loop = [node |-> n, kind |-> "loop"] /\ cp = session[loop].cp
  OBVIOUS
<1>2. /\ loop \in Session /\ session[loop].pc = "checkpoint"
      /\ ApplyCheckpoint(n, cp)
      /\ served' = IF matches(n, cp) THEN serve(n, cp) ELSE served
      /\ refused' = (IF n = Authority /\ matches(n, cp) THEN refused \ {cp} ELSE refused)
      /\ session' = [session EXCEPT ![loop] = Idle]
  BY <1>1 DEF fetchCheckpoint, become
<1>3. \A h, b : Sealed(h, b) => Sealed(h, b)'
  BY <1>0, <1>2, SealsStay
<1>4. ASSUME NEW c \in refused PROVE c \in refused' \/ Sealed(c.height, c.hash)'
  <2>1. CASE c # cp \/ ~(n = Authority /\ matches(n, cp))
    BY <1>2, <2>1
  <2>2. CASE c = cp /\ n = Authority /\ matches(n, cp)
    BY <1>0, <1>2, <2>2, TakenIsSealed
  <2> QED
    BY <2>1, <2>2
<1>5. \A h, b : Known(h, b) => Known(h, b)'
  BY <1>3, <1>4, KnownStays
<1>6. Known(cp.height, cp.hash)
  BY <1>1, <1>2 DEF FinalInv
<1>7. Known(cp.height, cp.hash)'
  BY <1>5, <1>6
<1>8. \A s \in Session : session'[s].pc = "checkpoint" => session'[s] = session[s]
  BY <1>0, <1>2 DEF Idle
<1> QED
  BY <1>0, <1>2, <1>5, <1>7, <1>8, TakingFinal

\* Every step keeps the invariant.
LEMMA NextFinal ==
  ASSUME NEW W, WorksIn(W)
  PROVE  NetInv(W) /\ FinalInv /\ [CheckpointsNext]_<<vars, finality>> => FinalInv'
<1> SUFFICES ASSUME NetInv(W), FinalInv, [CheckpointsNext]_<<vars, finality>> PROVE FinalInv'
  OBVIOUS
<1>1. ChainsInv(W) /\ DOMAIN served = Node /\ DOMAIN session = Session
  BY DEF NetInv, TrafficInv, FinalInv
<1>2. CASE Traffic /\ UNCHANGED finality
  <2>1. Checkpoints' = Checkpoints
    BY <1>2, ChainSteps DEF ChainStep, MovesTo
  <2> QED
    BY <1>1, <1>2, <2>1, TrafficTold, RestFinal DEF finality
<1>3. ASSUME NEW n \in Node, RestartNode(n) PROVE FinalInv'
  <2>1. /\ Restart(n, Len(blocks[n])) /\ served' = [served EXCEPT ![n] = NoCheckpoint]
        /\ refused' = refused
        /\ session' = [s \in Session |-> IF s.node = n THEN Idle ELSE session[s]]
    BY <1>3 DEF RestartNode, Restart
  <2>2. Checkpoints' = Checkpoints
    BY <2>1, ChainSteps DEF ChainStep, MovesTo
  <2>3. \A s \in Session : session'[s].pc = "checkpoint" => session'[s] = session[s]
    BY <2>1 DEF Idle
  <2> QED
    BY <1>1, <2>1, <2>2, <2>3, RestFinal
<1>4. CASE ReadStatus \/ ReadBlock
  BY <1>1, <1>4, RestFinal DEF ReadStatus, ReadBlock, vars, engines, network
<1>5. CASE Post
  BY <1>1, <1>5, PostFinal
<1>6. ASSUME NEW n \in Node, fetchCheckpoint(n) PROVE FinalInv'
  BY <1>6, FetchFinal
<1>7. ASSUME NEW n \in Node, NEW p \in Node, AskCheckpoint(n, p) PROVE FinalInv'
  <2>1. PICK loop : loop = [node |-> n, kind |-> "loop"]
    OBVIOUS
  <2>2. /\ loop \in Session /\ served[p] # NoCheckpoint
        /\ session' = [session EXCEPT ![loop] = [pc |-> "checkpoint", peer |-> p, cp |-> served[p]]]
        /\ UNCHANGED <<Checkpoints, refused, served>>
    BY <1>7, <2>1 DEF AskCheckpoint, become, engines, finality
  <2>3. \A s \in Session : s # loop => session'[s] = session[s]
    BY <1>1, <2>2
  <2>4. session'[loop].cp = served[p]
    BY <1>1, <2>2
  <2> QED
    BY <1>1, <2>2, <2>3, <2>4, RestFinal
<1>8. CASE UNCHANGED <<vars, finality>>
  BY <1>1, <1>8, RestFinal DEF vars, engines, network, finality
<1> QED
  BY <1>2, <1>3, <1>4, <1>5, <1>6, <1>7, <1>8 DEF CheckpointsNext

\* Whatever the depth the tool signs at, the cap on reorgs and the works of the
\* blocks, and however questions, posts, reorgs and restarts cross: two nodes hold
\* different final blocks only after the authority's own node refused one of them
\* and served it.
THEOREM AgreementSafety == CheckpointsSpec => []FinalAgreement
<1> DEFINE W == Nat \ {0}
<1>1. WorksIn(W)
  BY AnyWorks
<1> HIDE DEF W
<1>2. (Init => NetInv(W)) /\ (NetInv(W) /\ [NetNext]_vars => NetInv(W)')
  BY <1>1, InitNet, NextNet
<1>3. NetInv(W) /\ FinalInv /\ [CheckpointsNext]_<<vars, finality>> => FinalInv'
  BY <1>1, NextFinal
<1>4. NetInv(W) /\ FinalInv => FinalAgreement
  BY FinalInvAgrees DEF NetInv
<1> QED
  BY <1>2, <1>3, <1>4, EitherSpec, InitFinal, PTL DEF CheckpointsSpec
=============================================================================
