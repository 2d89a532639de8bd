---------------------------- MODULE EngineProofs ----------------------------
(***************************************************************************)
(* Theorems about module Chain, for every block tree, every set of         *)
(* transactions and checkpoints and every value of the consensus           *)
(* parameters.  The first part needs only the links between blocks, their  *)
(* files and the checkpoints; the second rests on what the account rules   *)
(* compute: types, derived data, the mempool, the work of the chain and    *)
(* the fork choice.                                                        *)
(***************************************************************************)
EXTENDS LedgerProofs

-----------------------------------------------------------------------------
(***************************************************************************)
(* Chains as sequences.                                                    *)
(***************************************************************************)

\* One more block leaves the others where they are.
LEMMA ExtendedChain ==
  ASSUME NEW c \in Seq(Block), NEW b \in Block
  PROVE  /\ Append(c, b) \in Seq(Block)
         /\ Len(Append(c, b)) = Len(c) + 1
         /\ \A n \in 1 .. Len(c) : Append(c, b)[n] = c[n]
         /\ Append(c, b)[Len(c) + 1] = b
BY AppendProperties

\* The first n blocks of a chain.
LEMMA PrefixOfChain ==
  ASSUME NEW c \in Seq(Block), NEW n \in 1 .. Len(c)
  PROVE  /\ SubSeq(c, 1, n) \in Seq(Block)
         /\ Len(SubSeq(c, 1, n)) = n
         /\ \A i \in 1 .. n : SubSeq(c, 1, n)[i] = c[i]
<1>1. \A i \in 1 .. n : c[i] \in Block
  BY ElementOfSeq
<1>2. n \in Int /\ 1 \in Int /\ 1 <= n
  OBVIOUS
<1> QED
  BY <1>1, <1>2, SubSeqProperties

\* A candidate keeps our blocks below the fork point and goes on with the new.
LEMMA CandidateChain ==
  ASSUME blocks \in Seq(Block),
         NEW new \in Seq(Block), NEW start \in 1 .. Len(blocks)
  PROVE  /\ candidate(start, new) \in Seq(Block)
         /\ Len(candidate(start, new)) = start + Len(new)
         /\ \A n \in 1 .. start : candidate(start, new)[n] = blocks[n]
<1> DEFINE kept == SubSeq(blocks, 1, start)
<1>1. kept \in Seq(Block) /\ Len(kept) = start /\ \A n \in 1 .. start : kept[n] = blocks[n]
  BY PrefixOfChain
<1>2. /\ kept \o new \in Seq(Block)
      /\ Len(kept \o new) = Len(kept) + Len(new)
      /\ \A i \in 1 .. Len(kept) + Len(new) :
           (kept \o new)[i] = IF i <= Len(kept) THEN kept[i] ELSE new[i - Len(kept)]
  BY <1>1, ConcatProperties
<1>3. Len(new) \in Nat /\ start \in Nat
  BY LenProperties
<1> QED
  BY <1>1, <1>2, <1>3 DEF candidate

-----------------------------------------------------------------------------
(***************************************************************************)
(* The inductive invariant.  CheckpointsMatchChain is not inductive by     *)
(* itself: a restart replaces chain and checkpoints by the files, so they  *)
(* must be known to hold what memory holds.                                *)
(***************************************************************************)

ChainInv ==
  /\ blocks \in Seq(Block)
  /\ blocks # <<>>
  /\ ChainLinked
  /\ DOMAIN Checkpoints \subseteq Nat
  /\ CheckpointsMatchChain
  /\ blocksFile = blocks
  /\ checkpointsFile = Checkpoints
  /\ running

\* A new node has genesis in memory and on disk, and no checkpoint.
LEMMA ChainInvInit == Init => ChainInv
<1> SUFFICES ASSUME Init PROVE ChainInv
  OBVIOUS
<1>1. <<Genesis>> \in Seq(Block) /\ Len(<<Genesis>>) = 1 /\ <<Genesis>>[1] = Genesis
  BY ChainAssumption
<1> QED
  BY <1>1 DEF Init, ChainInv, ChainLinked, CheckpointsMatchChain, NoCheckpoints

\* A block that validateBlock accepts keeps the chain linked; all checkpoints
\* are below it.
LEMMA AddBlockInv ==
  ASSUME ChainInv, NEW b \in Block, AddBlock(b, "ok")
  PROVE  ChainInv'
<1>1. blocks \in Seq(Block) /\ Len(blocks) \in Nat \ {0}
  BY EmptySeq DEF ChainInv
<1>2. b.height = Len(blocks) /\ b.prev = blocks[Len(blocks)]
  BY DEF AddBlock, validateBlock, rulesOK, linksTo
<1>3. /\ blocks' \in Seq(Block)
      /\ Len(blocks') = Len(blocks) + 1
      /\ \A n \in 1 .. Len(blocks) : blocks'[n] = blocks[n]
      /\ blocks'[Len(blocks) + 1] = b
  BY <1>1, ExtendedChain DEF AddBlock, extend
<1>4. UNCHANGED <<Checkpoints, checkpointsFile, running>> /\ blocksFile' = blocks'
  BY DEF AddBlock, extend, appendToDisk, Written, ChainInv
<1>5. ChainLinked'
  BY <1>1, <1>2, <1>3 DEF ChainInv, ChainLinked
<1>6. CheckpointsMatchChain'
  BY <1>1, <1>3, <1>4 DEF ChainInv, CheckpointsMatchChain
<1>7. blocks' # <<>>
  BY <1>1, <1>3
<1> QED
  BY <1>3, <1>4, <1>5, <1>6, <1>7 DEF ChainInv

\* A reorg keeps everything up to the fork point and leaves a linked chain.
LEMMA AdoptedChain ==
  ASSUME blocks \in Seq(Block), blocks # <<>>, ChainLinked,
         NEW new \in Batch, NEW start, NEW how, TryAdoptChain(start, new, how)
  PROVE  /\ blocks' = candidate(start, new)
         /\ blocks' \in Seq(Block) /\ blocks' # <<>> /\ ChainLinked'
         /\ start \in 1 .. Len(blocks) /\ start < Len(blocks')
         /\ \A n \in 1 .. start : blocks'[n] = blocks[n]
         /\ \A h \in DOMAIN Checkpoints : h < start
<1> DEFINE chain == candidate(start, new)
<1>1. Len(blocks) \in Nat \ {0}
  BY EmptySeq
<1>2. new \in Seq(Block) /\ new # <<>> /\ Len(new) \in Nat \ {0}
  BY EmptySeq, ChainAssumption
<1>3. start \in 1 .. Len(blocks) /\ \A h \in DOMAIN Checkpoints : h < start
  BY DEF TryAdoptChain, mayFork
<1>4. /\ chain \in Seq(Block)
      /\ Len(chain) = start + Len(new)
      /\ \A n \in 1 .. start : chain[n] = blocks[n]
  BY <1>1, <1>2, <1>3, CandidateChain
<1>5. \A n \in start .. Len(chain) - 1 : chain[n + 1].height = n /\ chain[n + 1].prev = chain[n]
  <2> SUFFICES ASSUME NEW n \in start .. Len(chain) - 1
               PROVE  chain[n + 1].height = n /\ chain[n + 1].prev = chain[n]
    OBVIOUS
  <2> DEFINE below == SubSeq(chain, 1, n)
  <2>1. n \in 1 .. Len(chain)
    BY <1>1, <1>2, <1>3, <1>4
  <2>2. Len(below) = n /\ below[n] = chain[n]
    BY <1>4, <2>1, PrefixOfChain
  <2>3. rulesOK(below, stateOf(below), chain[n + 1])
    BY DEF TryAdoptChain, validateBlock
  <2> QED
    BY <2>2, <2>3 DEF rulesOK, linksTo
<1>6. blocks' = chain
  BY DEF TryAdoptChain, switchTo
<1>7. ChainLinked'
  <2>1. blocks'[1] = Genesis
    BY <1>3, <1>4, <1>6 DEF ChainLinked
  <2>2. ASSUME NEW n \in 1 .. Len(chain) - 1
        PROVE  chain[n + 1].prev = chain[n] /\ chain[n + 1].height = n
    <3>1. CASE n < start
      <4>1. n \in 1 .. Len(blocks) - 1 /\ n \in 1 .. start /\ n + 1 \in 1 .. start
        BY <1>1, <1>3, <3>1
      <4>2. chain[n] = blocks[n] /\ chain[n + 1] = blocks[n + 1]
        BY <1>4, <4>1
      <4> QED
        BY <4>1, <4>2 DEF ChainLinked
    <3>2. CASE n >= start
      BY <1>1, <1>2, <1>3, <1>4, <1>5, <3>2
    <3> QED
      BY <1>1, <1>3, <3>1, <3>2
  <2> QED
    BY <1>6, <2>1, <2>2 DEF ChainLinked
<1>8. chain # <<>> /\ start < Len(chain)
  BY <1>1, <1>2, <1>3, <1>4
<1> QED
  BY <1>3, <1>4, <1>6, <1>7, <1>8

\* Every checkpoint is below the fork point.
LEMMA TryAdoptChainInv ==
  ASSUME ChainInv, NEW new \in Batch, NEW start, TryAdoptChain(start, new, "ok")
  PROVE  ChainInv'
<1>1. /\ blocks \in Seq(Block) /\ blocks # <<>> /\ ChainLinked
      /\ Len(blocks) \in Nat /\ DOMAIN Checkpoints \subseteq Nat
  BY LenProperties DEF ChainInv
<1>2. /\ blocks' \in Seq(Block) /\ blocks' # <<>> /\ ChainLinked'
      /\ start \in 1 .. Len(blocks) /\ start < Len(blocks')
      /\ \A n \in 1 .. start : blocks'[n] = blocks[n]
      /\ \A h \in DOMAIN Checkpoints : h < start
  BY <1>1, AdoptedChain
<1>3. blocksFile' = blocks' /\ UNCHANGED <<Checkpoints, checkpointsFile, running>>
  BY DEF TryAdoptChain, switchTo, saveAll, Written
<1>4. CheckpointsMatchChain'
  <2>1. Len(blocks') \in Nat
    BY <1>2, LenProperties
  <2> QED
    BY <1>1, <1>2, <1>3, <2>1 DEF ChainInv, CheckpointsMatchChain
<1> QED
  BY <1>1, <1>2, <1>3, <1>4 DEF ChainInv

\* A checkpoint is recorded only for the block we have.
LEMMA ApplyCheckpointInv ==
  ASSUME ChainInv, NEW cp \in Signed, ApplyCheckpoint(cp, "ok")
  PROVE  ChainInv'
<1>1. /\ cp.height \in Nat
      /\ cp.height < Len(blocks)
      /\ blocks[cp.height + 1] = cp.hash
  BY ChainAssumption DEF ApplyCheckpoint
<1>2. /\ Checkpoints' = [h \in DOMAIN Checkpoints \cup {cp.height} |->
                           IF h = cp.height THEN cp.hash ELSE Checkpoints[h]]
      /\ checkpointsFile' = Checkpoints'
      /\ UNCHANGED <<blocks, blocksFile, running>>
  BY DEF ApplyCheckpoint, saveCheckpoints, Written
<1>3. CheckpointsMatchChain' /\ DOMAIN Checkpoints' \subseteq Nat
  BY <1>1, <1>2 DEF ChainInv, CheckpointsMatchChain
<1> QED
  BY <1>2, <1>3 DEF ChainInv, ChainLinked

\* The files hold what memory holds, so a restart comes back to it.
LEMMA RestartInv ==
  ASSUME ChainInv, Restart
  PROVE  ChainInv' /\ UNCHANGED <<blocks, Checkpoints>>
<1>1. blocksFile \in Seq(Block) /\ loaded(blocksFile) = blocks /\ blocks[1] = Genesis
  BY DEF ChainInv, ChainLinked, loaded
<1>2. Torn \notin Range(blocksFile)
  BY <1>1, RangeOfSeq, ChainAssumption
<1>3. loads(blocksFile)
  BY <1>1, <1>2 DEF loads
<1>4. /\ blocks' = blocks
      /\ Checkpoints' = Checkpoints
      /\ UNCHANGED <<blocksFile, checkpointsFile, running>>
  BY <1>1, <1>3 DEF Restart, NewChain, ChainInv
<1> QED
  BY <1>4 DEF ChainInv, ChainLinked, CheckpointsMatchChain

\* Every step keeps the invariant.
LEMMA ChainInvNext == ChainInv /\ [Next]_vars => ChainInv'
<1> SUFFICES ASSUME ChainInv, [Next]_vars PROVE ChainInv'
  OBVIOUS
<1>1. ASSUME NEW b \in Block, AddBlock(b, "ok") PROVE ChainInv'
  BY <1>1, AddBlockInv
<1>2. ASSUME NEW new \in Batch, TryAdoptChain(new[1].height, new, "ok") PROVE ChainInv'
  BY <1>2, TryAdoptChainInv
<1>3. ASSUME NEW t \in Tx, AddTx(t) PROVE ChainInv'
  BY <1>3 DEF AddTx, ChainInv, ChainLinked, CheckpointsMatchChain
<1>4. ASSUME NEW cp \in Signed, ApplyCheckpoint(cp, "ok") PROVE ChainInv'
  BY <1>4, ApplyCheckpointInv
<1>5. CASE Restart
  BY <1>5, RestartInv
<1>6. CASE Tick
  BY <1>6 DEF Tick, memory, ChainInv, ChainLinked, CheckpointsMatchChain
<1>7. CASE UNCHANGED vars
  BY <1>7 DEF vars, memory, ChainInv, ChainLinked, CheckpointsMatchChain
<1> QED
  BY <1>1, <1>2, <1>3, <1>4, <1>5, <1>6, <1>7 DEF Next, Method

\* With writes that succeed, chain, checkpoints and files stay together.
THEOREM ChainInvariant == Spec => []ChainInv
BY ChainInvInit, ChainInvNext, PTL DEF Spec

\* With writes that succeed, the chain and the recorded checkpoints never part:
\* not by a block, not by a reorg of any depth, not by a restart.
THEOREM CheckpointSafety == Spec => []CheckpointsMatchChain
<1>1. ChainInv => CheckpointsMatchChain
  BY DEF ChainInv
<1> QED
  BY <1>1, ChainInvariant, PTL

\* The main chain always is one linked chain from genesis.
THEOREM LinkSafety == Spec => []ChainLinked
<1>1. ChainInv => ChainLinked
  BY DEF ChainInv
<1> QED
  BY <1>1, ChainInvariant, PTL

-----------------------------------------------------------------------------
(***************************************************************************)
(* Finality as an action property: a step changes nothing at or below a    *)
(* checkpoint.                                                             *)
(***************************************************************************)

\* Two chains that agree block by block agree as prefixes.
LEMMA SamePrefix ==
  ASSUME NEW c \in Seq(Block), NEW d \in Seq(Block),
         NEW k \in 1 .. Len(c), k \in 1 .. Len(d),
         \A n \in 1 .. k : c[n] = d[n]
  PROVE  SubSeq(c, 1, k) = SubSeq(d, 1, k)
<1>1. /\ SubSeq(c, 1, k) \in Seq(Block)
      /\ Len(SubSeq(c, 1, k)) = k
      /\ \A i \in 1 .. k : SubSeq(c, 1, k)[i] = c[i]
  BY PrefixOfChain
<1>2. /\ SubSeq(d, 1, k) \in Seq(Block)
      /\ Len(SubSeq(d, 1, k)) = k
      /\ \A i \in 1 .. k : SubSeq(d, 1, k)[i] = d[i]
  BY PrefixOfChain
<1> QED
  BY <1>1, <1>2, SeqEqual

\* What FinalityKept says of one step.
FinalUnchanged ==
  \A h \in DOMAIN Checkpoints :
    /\ h \in DOMAIN Checkpoints'
    /\ h < Len(blocks')
    /\ SubSeq(blocks', 1, h + 1) = SubSeq(blocks, 1, h + 1)

\* If no checkpoint is dropped and the blocks up to every checkpoint stay, what
\* is final stays.
LEMMA KeptBelow ==
  ASSUME ChainInv, ChainInv', DOMAIN Checkpoints \subseteq DOMAIN Checkpoints',
         \A h \in DOMAIN Checkpoints : \A n \in 1 .. h + 1 : blocks'[n] = blocks[n]
  PROVE  FinalUnchanged
<1> SUFFICES ASSUME NEW h \in DOMAIN Checkpoints
             PROVE  /\ h \in DOMAIN Checkpoints'
                    /\ h < Len(blocks')
                    /\ SubSeq(blocks', 1, h + 1) = SubSeq(blocks, 1, h + 1)
  BY DEF FinalUnchanged
<1>1. h \in DOMAIN Checkpoints' /\ h \in Nat
  BY DEF ChainInv
<1>2. h < Len(blocks) /\ h < Len(blocks')
  BY <1>1 DEF ChainInv, CheckpointsMatchChain
<1>3. blocks \in Seq(Block) /\ blocks' \in Seq(Block)
  BY DEF ChainInv
<1>4. h + 1 \in 1 .. Len(blocks) /\ h + 1 \in 1 .. Len(blocks')
  BY <1>1, <1>2, <1>3, LenProperties
<1> QED
  BY <1>1, <1>2, <1>3, <1>4, SamePrefix

\* Every step keeps what is final.
LEMMA FinalStep == ChainInv /\ ChainInv' /\ [Next]_vars => FinalUnchanged
<1> SUFFICES ASSUME ChainInv, ChainInv', [Next]_vars PROVE FinalUnchanged
  OBVIOUS
<1>0. /\ blocks \in Seq(Block)
      /\ Len(blocks) \in Nat
      /\ \A h \in DOMAIN Checkpoints : h \in Nat /\ h < Len(blocks)
  BY LenProperties DEF ChainInv, CheckpointsMatchChain
<1>1. ASSUME NEW b \in Block, AddBlock(b, "ok") PROVE FinalUnchanged
  <2>1. \A n \in 1 .. Len(blocks) : blocks'[n] = blocks[n]
    BY <1>0, <1>1, ExtendedChain DEF AddBlock, extend
  <2>2. Checkpoints' = Checkpoints
    BY <1>1 DEF AddBlock, extend
  <2> QED
    BY <1>0, <2>1, <2>2, KeptBelow
<1>2. ASSUME NEW new \in Batch, TryAdoptChain(new[1].height, new, "ok") PROVE FinalUnchanged
  <2> DEFINE start == new[1].height
  <2> HIDE DEF start
  <2>1. start \in 1 .. Len(blocks) /\ \A h \in DOMAIN Checkpoints : h < start
    BY <1>2 DEF TryAdoptChain, mayFork, start
  <2>2. new \in Seq(Block)
    BY ChainAssumption
  <2>3. \A n \in 1 .. start : candidate(start, new)[n] = blocks[n]
    BY <1>0, <2>1, <2>2, CandidateChain
  <2>4. blocks' = candidate(start, new) /\ Checkpoints' = Checkpoints
    BY <1>2 DEF TryAdoptChain, switchTo, start
  <2> QED
    BY <1>0, <2>1, <2>3, <2>4, KeptBelow
<1>3. ASSUME NEW t \in Tx, AddTx(t) PROVE FinalUnchanged
  BY <1>3, KeptBelow DEF AddTx
<1>4. ASSUME NEW cp \in Signed, ApplyCheckpoint(cp, "ok") PROVE FinalUnchanged
  BY <1>4, KeptBelow DEF ApplyCheckpoint
<1>5. CASE Restart
  BY <1>5, RestartInv, KeptBelow
<1>6. CASE Tick
  BY <1>6, KeptBelow DEF Tick, memory
<1>7. CASE UNCHANGED vars
  BY <1>7, KeptBelow DEF vars, memory
<1> QED
  BY <1>1, <1>2, <1>3, <1>4, <1>5, <1>6, <1>7 DEF Next, Method

\* What is under a checkpoint is never replaced, by any step.
THEOREM Finality == Spec => FinalityKept
<1>1. ChainInv /\ ChainInv' /\ [Next]_vars => [FinalUnchanged]_vars
  BY FinalStep
<1>2. Spec => [][FinalUnchanged]_vars
  BY <1>1, ChainInvariant, PTL DEF Spec
<1> QED
  BY <1>2 DEF FinalityKept, FinalUnchanged

-----------------------------------------------------------------------------
(***************************************************************************)
(* A machine that stops and loses the end of the block file.  After it     *)
(* lost all of it, the node starts from genesis and does not write it: the *)
(* file is then the chain without its first block, until a reorg rewrites  *)
(* it or the next start refuses it.                                        *)
(***************************************************************************)

\* The file has the chain, or all of it but genesis.
FileIsEnd ==
  \/ blocksFile = blocks
  \/ /\ Len(blocksFile) = Len(blocks) - 1
     /\ \A n \in 1 .. Len(blocksFile) : blocksFile[n] = blocks[n + 1]

CrashInv ==
  /\ blocks \in Seq(Block)
  /\ blocks # <<>>
  /\ ChainLinked
  /\ StoreIsChain
  /\ DOMAIN Checkpoints \subseteq Nat \ {0}
  /\ CheckpointsNeverConflict
  /\ running => blocksFile \in Seq(Block) /\ FileIsEnd /\ checkpointsFile = Checkpoints

\* A new node has lost nothing.
LEMMA CrashInvInit == Init => CrashInv
<1> SUFFICES ASSUME Init PROVE CrashInv
  OBVIOUS
<1>1. <<Genesis>> \in Seq(Block) /\ Len(<<Genesis>>) = 1 /\ <<Genesis>>[1] = Genesis
  BY ChainAssumption
<1> QED
  BY <1>1 DEF Init, CrashInv, ChainLinked, StoreIsChain, CheckpointsNeverConflict, FileIsEnd, NoCheckpoints

\* A file that has a linked chain, or all of it but genesis, is linked.
LEMMA FileLinked ==
  ASSUME NEW c \in Seq(Block), \A n \in 1 .. Len(c) - 1 : c[n + 1].prev = c[n],
         NEW f \in Seq(Block),
         \/ f = c
         \/ Len(f) = Len(c) - 1 /\ \A n \in 1 .. Len(f) : f[n] = c[n + 1]
  PROVE  \A n \in 1 .. Len(f) - 1 : f[n + 1].prev = f[n]
<1>1. Len(c) \in Nat /\ Len(f) \in Nat
  BY LenProperties
<1>2. CASE f # c
  <2> SUFFICES ASSUME NEW n \in 1 .. Len(f) - 1 PROVE f[n + 1].prev = f[n]
    OBVIOUS
  <2>1. n \in 1 .. Len(f) /\ n + 1 \in 1 .. Len(f) /\ n + 1 \in 1 .. Len(c) - 1
    BY <1>1, <1>2
  <2> QED
    BY <1>2, <2>1
<1> QED
  BY <1>2

\* One more block is one more line.
LEMMA AddBlockCrash ==
  ASSUME CrashInv, NEW b \in Block, AddBlock(b, "ok")
  PROVE  CrashInv'
<1>0. running
  BY DEF AddBlock
<1>1. blocks \in Seq(Block) /\ Len(blocks) \in Nat \ {0} /\ blocksFile \in Seq(Block)
  BY <1>0, EmptySeq DEF CrashInv
<1>2. /\ b.height = Len(blocks) /\ b.prev = blocks[Len(blocks)]
      /\ b.height \in DOMAIN Checkpoints => Checkpoints[b.height] = b
      /\ running
  BY DEF AddBlock, validateBlock, rulesOK, linksTo
<1>3. /\ blocks' \in Seq(Block)
      /\ Len(blocks') = Len(blocks) + 1
      /\ \A n \in 1 .. Len(blocks) : blocks'[n] = blocks[n]
      /\ blocks'[Len(blocks) + 1] = b
  BY <1>1, ExtendedChain DEF AddBlock, extend
<1>4. UNCHANGED <<Checkpoints, checkpointsFile, running>> /\ blocksFile' = Append(blocksFile, b)
      /\ blocks' = Append(blocks, b)
  BY DEF AddBlock, extend, appendToDisk, Written
<1>5. /\ blocksFile' \in Seq(Block)
      /\ Len(blocksFile') = Len(blocksFile) + 1
      /\ \A n \in 1 .. Len(blocksFile) : blocksFile'[n] = blocksFile[n]
      /\ blocksFile'[Len(blocksFile) + 1] = b
  BY <1>1, <1>4, ExtendedChain
<1>6. ChainLinked'
  <2>1. ASSUME NEW n \in 1 .. Len(blocks)
        PROVE  blocks'[n + 1].prev = blocks'[n] /\ blocks'[n + 1].height = n
    <3>1. CASE n = Len(blocks)
      BY <1>1, <1>2, <1>3, <3>1
    <3>2. CASE n # Len(blocks)
      <4>1. n \in 1 .. Len(blocks) - 1 /\ n + 1 \in 1 .. Len(blocks)
        BY <1>1, <3>2
      <4> QED
        BY <1>3, <4>1 DEF CrashInv, ChainLinked
    <3> QED
      BY <3>1, <3>2
  <2>2. blocks'[1] = Genesis /\ Len(blocks') - 1 = Len(blocks)
    BY <1>1, <1>3 DEF CrashInv, ChainLinked
  <2> QED
    BY <2>1, <2>2 DEF ChainLinked
<1>7. FileIsEnd'
  <2>1. CASE blocksFile = blocks
    BY <1>4, <2>1 DEF FileIsEnd
  <2>2. CASE blocksFile # blocks
    <3>1. /\ Len(blocksFile) = Len(blocks) - 1
          /\ \A n \in 1 .. Len(blocksFile) : blocksFile[n] = blocks[n + 1]
      BY <1>2, <2>2 DEF CrashInv, FileIsEnd
    <3>2. ASSUME NEW n \in 1 .. Len(blocksFile') PROVE blocksFile'[n] = blocks'[n + 1]
      <4>1. CASE n = Len(blocksFile')
        BY <1>1, <1>3, <1>5, <3>1, <4>1
      <4>2. CASE n # Len(blocksFile')
        <5>1. n \in 1 .. Len(blocksFile) /\ n + 1 \in 1 .. Len(blocks)
          BY <1>1, <1>5, <3>1, <4>2
        <5> QED
          BY <1>3, <1>5, <3>1, <5>1
      <4> QED
        BY <4>1, <4>2
    <3>3. Len(blocksFile') = Len(blocks') - 1
      BY <1>1, <1>3, <1>5, <3>1
    <3> QED
      BY <3>2, <3>3 DEF FileIsEnd
  <2> QED
    BY <2>1, <2>2
<1>8. StoreIsChain'
  <2>1. \A n \in 1 .. Len(blocks') - 1 : blocks'[n + 1].prev = blocks'[n]
    BY <1>6 DEF ChainLinked
  <2> QED
    BY <1>3, <1>5, <1>7, <2>1, FileLinked DEF FileIsEnd, StoreIsChain
<1>9. CheckpointsNeverConflict'
  <2> SUFFICES ASSUME NEW h \in DOMAIN Checkpoints, h < Len(blocks) + 1
               PROVE  blocks'[h + 1] = Checkpoints[h]
    BY <1>3, <1>4 DEF CheckpointsNeverConflict
  <2>1. h \in Nat
    BY DEF CrashInv
  <2>2. CASE h = Len(blocks)
    BY <1>2, <1>3, <2>2
  <2>3. CASE h < Len(blocks)
    BY <1>1, <1>3, <2>1, <2>3 DEF CrashInv, CheckpointsNeverConflict
  <2> QED
    BY <1>1, <2>1, <2>2, <2>3
<1>10. blocks' # <<>>
  BY <1>1, <1>3
<1> QED
  BY <1>3, <1>4, <1>5, <1>6, <1>7, <1>8, <1>9, <1>10 DEF CrashInv

\* A reorg rewrites the file, and all checkpoints are below it.
LEMMA TryAdoptCrash ==
  ASSUME CrashInv, NEW new \in Batch, NEW start, TryAdoptChain(start, new, "ok")
  PROVE  CrashInv'
<1>1. /\ blocks \in Seq(Block) /\ blocks # <<>> /\ ChainLinked
      /\ Len(blocks) \in Nat /\ DOMAIN Checkpoints \subseteq Nat
  BY LenProperties DEF CrashInv
<1>2. /\ blocks' \in Seq(Block) /\ blocks' # <<>> /\ ChainLinked'
      /\ start \in 1 .. Len(blocks)
      /\ \A n \in 1 .. start : blocks'[n] = blocks[n]
      /\ \A h \in DOMAIN Checkpoints : h < start
  BY <1>1, AdoptedChain
<1>3. blocksFile' = blocks' /\ UNCHANGED <<Checkpoints, checkpointsFile, running>>
  BY DEF TryAdoptChain, switchTo, saveAll, Written
<1>4. CheckpointsNeverConflict'
  BY <1>1, <1>2, <1>3 DEF CrashInv, CheckpointsNeverConflict
<1>5. StoreIsChain'
  BY <1>2, <1>3 DEF ChainLinked, StoreIsChain
<1> QED
  BY <1>2, <1>3, <1>4, <1>5 DEF CrashInv, FileIsEnd

\* A checkpoint is written as it is recorded.
LEMMA ApplyCheckpointCrash ==
  ASSUME CrashInv, NEW cp \in Signed, ApplyCheckpoint(cp, "ok")
  PROVE  CrashInv'
<1>1. cp.height \in Nat \ {0} /\ blocks[cp.height + 1] = cp.hash
  BY ChainAssumption DEF ApplyCheckpoint
<1>2. /\ Checkpoints' = [h \in DOMAIN Checkpoints \cup {cp.height} |->
                           IF h = cp.height THEN cp.hash ELSE Checkpoints[h]]
      /\ checkpointsFile' = Checkpoints'
      /\ UNCHANGED <<blocks, blocksFile, running>>
  BY DEF ApplyCheckpoint, saveCheckpoints, Written
<1>3. CheckpointsNeverConflict' /\ DOMAIN Checkpoints' \subseteq Nat \ {0}
  BY <1>1, <1>2 DEF CrashInv, CheckpointsNeverConflict
<1> QED
  BY <1>2, <1>3 DEF CrashInv, ChainLinked, StoreIsChain, FileIsEnd

\* Started from the beginning of its file, the node has a beginning of its chain,
\* or it refuses the file because genesis is missing.
LEMMA NewChainCrash ==
  ASSUME CrashInv, running, NEW n \in 0 .. Len(blocksFile),
         blocksFile' = SubSeq(blocksFile, 1, n), NewChain(blocksFile'),
         checkpointsFile' \in {checkpointsFile, NoCheckpoints}
  PROVE  CrashInv'
<1> DEFINE file == blocksFile'
<1>1. /\ blocks \in Seq(Block) /\ Len(blocks) \in Nat \ {0} /\ blocks[1] = Genesis
      /\ blocksFile \in Seq(Block) /\ Len(blocksFile) \in Nat
      /\ DOMAIN Checkpoints \subseteq Nat \ {0} /\ checkpointsFile = Checkpoints
  BY EmptySeq, LenProperties DEF CrashInv, ChainLinked
<1>2. /\ file \in Seq(Block) /\ Len(file) = n
      /\ \A i \in 1 .. n : file[i] = blocksFile[i]
  <2>1. CASE n = 0
    <3>1. SubSeq(blocksFile, 1, 0) = <<>>
      BY <1>1, SubSeqProperties, EmptySeq
    <3> QED
      BY <2>1, <3>1, EmptySeq
  <2>2. CASE n # 0
    BY <1>1, <2>2, PrefixOfChain
  <2> QED
    BY <2>1, <2>2
<1>3. StoreIsChain'
  <2> SUFFICES ASSUME NEW i \in 1 .. n - 1 PROVE file[i + 1].prev = file[i]
    BY <1>2 DEF StoreIsChain
  <2>1. i \in 1 .. n /\ i + 1 \in 1 .. n /\ i \in 1 .. Len(blocksFile) - 1
    BY <1>1
  <2>2. blocksFile[i] \in Block /\ blocksFile[i + 1] \in Block
    BY <1>1, <2>1, ElementOfSeq
  <2> QED
    BY <1>2, <2>1, <2>2, ChainAssumption DEF CrashInv, StoreIsChain
<1> HIDE DEF file
<1>4. CASE ~loads(file)
  BY <1>1, <1>2, <1>3, <1>4 DEF NewChain, memory, file, CrashInv, ChainLinked, CheckpointsNeverConflict
<1>5. CASE loads(file)
  <2>1. /\ blocks' = loaded(file) /\ loaded(file)[1] = Genesis
        /\ checkpointsFile' = Checkpoints' /\ UNCHANGED running
        /\ DOMAIN Checkpoints' \subseteq DOMAIN Checkpoints
        /\ \A h \in DOMAIN Checkpoints' : Checkpoints'[h] = Checkpoints[h]
    BY <1>1, <1>5 DEF NewChain, loads, file, NoCheckpoints
  <2>2. CASE n = 0
    <3>1. file = <<>> /\ blocks' = <<Genesis>>
      BY <1>2, <2>1, <2>2, EmptySeq DEF loaded
    <3>2. blocks' \in Seq(Block) /\ Len(blocks') = 1 /\ blocks'[1] = Genesis
      BY <3>1, ChainAssumption
    <3>3. ChainLinked' /\ CheckpointsNeverConflict' /\ FileIsEnd'
      BY <1>1, <1>2, <2>1, <2>2, <3>2 DEF ChainLinked, CheckpointsNeverConflict, FileIsEnd, file
    <3> QED
      BY <1>1, <1>2, <1>3, <2>1, <3>2, <3>3 DEF CrashInv, file
  <2>3. CASE n # 0
    <3>1. blocks' = file
      BY <1>2, <2>1, <2>3, EmptySeq DEF loaded
    <3>2. 1 \in 1 .. n /\ blocksFile[1] = Genesis
      BY <1>2, <2>1, <2>3, <3>1
    <3>3. blocksFile = blocks
      <4>1. SUFFICES ASSUME blocksFile # blocks PROVE FALSE
        OBVIOUS
      <4>2. Len(blocksFile) = Len(blocks) - 1 /\ blocksFile[1] = blocks[2]
        BY <1>1, <3>2, <4>1 DEF CrashInv, FileIsEnd
      <4>3. blocks[2].height = 1
        BY <1>1, <3>2, <4>2 DEF CrashInv, ChainLinked
      <4> QED
        BY <3>2, <4>2, <4>3, ChainAssumption
    <3>4. /\ Len(blocks') = n /\ n <= Len(blocks)
          /\ \A i \in 1 .. n : blocks'[i] = blocks[i]
      BY <1>2, <3>1, <3>3
    <3>5. ChainLinked'
      <4>1. 1 \in 1 .. n /\ n \in Nat
        BY <1>1, <2>3
      <4>2. \A i \in 1 .. n - 1 : blocks'[i + 1].prev = blocks'[i] /\ blocks'[i + 1].height = i
        <5> SUFFICES ASSUME NEW i \in 1 .. n - 1
                     PROVE  blocks'[i + 1].prev = blocks'[i] /\ blocks'[i + 1].height = i
          OBVIOUS
        <5>1. i \in 1 .. n /\ i + 1 \in 1 .. n /\ i \in 1 .. Len(blocks) - 1
          BY <1>1, <3>4, <4>1
        <5>2. blocks[i + 1].prev = blocks[i] /\ blocks[i + 1].height = i
          BY <5>1 DEF CrashInv, ChainLinked
        <5> QED
          BY <3>4, <5>1, <5>2
      <4> QED
        BY <1>1, <3>4, <4>1, <4>2 DEF ChainLinked
    <3>6. CheckpointsNeverConflict'
      BY <1>1, <2>1, <3>4 DEF CrashInv, CheckpointsNeverConflict
    <3> QED
      BY <1>1, <1>2, <1>3, <2>1, <2>3, <3>1, <3>3, <3>5, <3>6, EmptySeq DEF CrashInv, FileIsEnd, file
  <2> QED
    BY <2>2, <2>3
<1> QED
  BY <1>4, <1>5

\* A file that ends inside a line is refused.
LEMMA TornCrash ==
  ASSUME CrashInv, running, NEW n \in 0 .. Len(blocksFile) - 1,
         blocksFile' = Append(SubSeq(blocksFile, 1, n), Torn), NewChain(blocksFile')
  PROVE  CrashInv'
<1>1. blocksFile \in Seq(Block) /\ Len(blocksFile) \in Nat
  BY LenProperties DEF CrashInv
<1>2. PICK whole : whole = SubSeq(blocksFile, 1, n)
  OBVIOUS
<1>3. /\ whole \in Seq(Block) /\ Len(whole) = n
      /\ \A i \in 1 .. n : whole[i] = blocksFile[i]
  <2>1. CASE n = 0
    <3>1. SubSeq(blocksFile, 1, 0) = <<>>
      BY <1>1, SubSeqProperties, EmptySeq
    <3> QED
      BY <1>2, <2>1, <3>1, EmptySeq
  <2>2. CASE n # 0
    BY <1>1, <1>2, <2>2, PrefixOfChain
  <2> QED
    BY <2>1, <2>2
<1>4. PICK file : file = blocksFile' /\ file = Append(whole, Torn)
  BY <1>2
<1>5. /\ file \in Seq(Block \cup {Torn}) /\ Len(file) = n + 1 /\ file[n + 1] = Torn
      /\ \A i \in 1 .. n : file[i] = blocksFile[i]
  <2>1. whole \in Seq(Block \cup {Torn})
    BY <1>3
  <2> QED
    BY <1>4, <1>3, <2>1, AppendProperties
<1>6. ~loads(file)
  <2>1. n + 1 \in 1 .. Len(file)
    BY <1>1, <1>5
  <2>2. Torn \in Range(file)
    BY <1>5, <2>1, LenProperties DEF Range
  <2> QED
    BY <2>2 DEF loads
<1>7. ~running' /\ UNCHANGED <<blocks, Checkpoints>>
  BY <1>4, <1>6 DEF NewChain, memory
<1>8. StoreIsChain'
  <2> SUFFICES ASSUME NEW i \in 1 .. n, Torn \notin {file[i], file[i + 1]} PROVE file[i + 1].prev = file[i]
    BY <1>1, <1>4, <1>5 DEF StoreIsChain
  <2>1. i \in 1 .. n /\ i + 1 \in 1 .. n /\ i \in 1 .. Len(blocksFile) - 1
    BY <1>1, <1>5
  <2>2. Torn \notin {blocksFile[i], blocksFile[i + 1]}
    BY <1>5, <2>1
  <2> QED
    BY <1>5, <2>1, <2>2 DEF CrashInv, StoreIsChain
<1> QED
  BY <1>7, <1>8 DEF CrashInv, ChainLinked, CheckpointsNeverConflict

\* Every step keeps the invariant, the loss of the end of the file too.
LEMMA CrashInvNext == CrashInv /\ [CrashNext]_vars => CrashInv'
<1> SUFFICES ASSUME CrashInv, [CrashNext]_vars PROVE CrashInv'
  OBVIOUS
<1>1. ASSUME NEW b \in Block, AddBlock(b, "ok") PROVE CrashInv'
  BY <1>1, AddBlockCrash
<1>2. ASSUME NEW new \in Batch, TryAdoptChain(new[1].height, new, "ok") PROVE CrashInv'
  BY <1>2, TryAdoptCrash
<1>3. ASSUME NEW t \in Tx, AddTx(t) PROVE CrashInv'
  BY <1>3 DEF AddTx, CrashInv, ChainLinked, StoreIsChain, CheckpointsNeverConflict, FileIsEnd
<1>4. ASSUME NEW cp \in Signed, ApplyCheckpoint(cp, "ok") PROVE CrashInv'
  BY <1>4, ApplyCheckpointCrash
<1>5. running => blocksFile \in Seq(Block) /\ Len(blocksFile) \in Nat
  BY LenProperties DEF CrashInv
<1>6. CASE Restart
  <2>1. blocksFile' = SubSeq(blocksFile, 1, Len(blocksFile)) /\ Len(blocksFile) \in 0 .. Len(blocksFile)
    BY <1>5, <1>6, SubSeqFull DEF Restart
  <2> QED
    BY <1>6, <2>1, NewChainCrash DEF Restart
<1>7. CASE PowerLoss
  <2>1. PICK n \in 0 .. Len(blocksFile) - 1 :
          /\ running /\ NewChain(blocksFile')
          /\ blocksFile' \in {SubSeq(blocksFile, 1, n), Append(SubSeq(blocksFile, 1, n), Torn)}
          /\ checkpointsFile' \in {checkpointsFile, NoCheckpoints}
    BY <1>7 DEF PowerLoss
  <2>2. n \in 0 .. Len(blocksFile)
    BY <1>5, <2>1
  <2> QED
    BY <2>1, <2>2, NewChainCrash, TornCrash
<1>8. CASE Tick \/ UNCHANGED vars
  BY <1>8 DEF Tick, vars, memory, CrashInv, ChainLinked, StoreIsChain, CheckpointsNeverConflict, FileIsEnd
<1> QED
  BY <1>1, <1>2, <1>3, <1>4, <1>6, <1>7, <1>8 DEF CrashNext, Next, Method

\* What a machine that stops leaves of the file, and what the node makes of it,
\* are kept.
THEOREM CrashInvariant == CrashSpec => []CrashInv
BY CrashInvInit, CrashInvNext, PTL DEF CrashSpec

\* A write that is lost never leaves a file whose blocks do not follow each
\* other.
THEOREM StoreSafety == CrashSpec => []StoreIsChain
<1>1. CrashInv => StoreIsChain
  BY DEF CrashInv
<1> QED
  BY <1>1, CrashInvariant, PTL

\* However often the machine stops, and whatever is lost of the chain, the node
\* never contradicts a checkpoint it recorded.
THEOREM CrashCheckpointSafety == CrashSpec => []CheckpointsNeverConflict
<1>1. CrashInv => CheckpointsNeverConflict
  BY DEF CrashInv
<1> QED
  BY <1>1, CrashInvariant, PTL

-----------------------------------------------------------------------------
(***************************************************************************)
(* The inductive invariant.  It is inductive for any step of any of the    *)
(* three specifications.  The pool's nonces need the accounts only to be   *)
(* those that pruneMempool was given.                                      *)
(***************************************************************************)

AnyNext == Method({"ok", "failed", "torn"}, {"ok", "failed"}) \/ PowerLoss

EngineInv == TypeOK /\ DerivedIsReplay /\ OneTxPerNonce

\* What is derived from a chain has the types of the fields.
LEMMA DerivedTyped ==
  ASSUME NEW c \in Seq(Block), NEW st, NEW tot, NEW w,
         st = stateOf(c), tot = totalsOf(c), w = workOfChain(c)
  PROVE  /\ st \in [Addr -> [balance : 0 .. Word - 1, nonce : Nat]]
         /\ DOMAIN tot = Addr
         /\ w \in Nat
BY DerivedTypes DEF Balances, Totals

\* A new node has genesis and what follows from it.
LEMMA EngineInvInit == Init => EngineInv
<1> SUFFICES ASSUME Init PROVE EngineInv
  OBVIOUS
<1>1. blocks = <<Genesis>> /\ blocks \in Seq(Block) /\ blocks # <<>> /\ DerivedIsReplay
  BY ChainAssumption DEF Init, DerivedIsReplay
<1>2. mempool = {} /\ Checkpoints = NoCheckpoints /\ checkpointsFile = NoCheckpoints
  BY DEF Init
<1>3. DOMAIN NoCheckpoints = {} /\ Range(NoCheckpoints) = {}
  BY DEF NoCheckpoints, Range
<1>4. blocksFile \in Seq(Block \cup {Torn}) /\ running \in BOOLEAN /\ now \in 0 .. MaxTime
  BY ChainAssumption DEF Init
<1> QED
  BY <1>1, <1>2, <1>3, <1>4, DerivedTyped DEF EngineInv, TypeOK, OneTxPerNonce, DerivedIsReplay

\* A pruned pool has one transaction per nonce if the pool had.
LEMMA PrunedPool ==
  ASSUME NEW pool, NEW st,
         \A t, u \in pool : u.from = t.from /\ u.nonce = t.nonce => u = t
  PROVE  /\ pruneMempool(pool, st) \subseteq pool
         /\ \A t \in pruneMempool(pool, st) :
              /\ t.nonce >= st[t.from].nonce
              /\ \A u \in pruneMempool(pool, st) : u.from = t.from /\ u.nonce = t.nonce => u = t
BY DEF pruneMempool

\* Block by block, what is derived is kept up.
LEMMA AddBlockEngine ==
  ASSUME EngineInv, NEW b \in Block, NEW how \in {"ok", "failed", "torn"}, AddBlock(b, how)
  PROVE  EngineInv'
<1>1. blocks' \in Seq(Block) /\ blocks' # <<>> /\ DerivedIsReplay'
  <2>1. blocks \in Seq(Block) /\ DerivedIsReplay
    BY DEF EngineInv, TypeOK
  <2>2. /\ blocks' = Append(blocks, b)
        /\ state' = applyBlockToState(state, b)
        /\ totals' = applyBlockToTotals(totals, b)
        /\ cumWork' = cumWork + WorkOf(b.target)
    BY DEF AddBlock, extend
  <2> QED
    BY <2>1, <2>2, DerivedOfExtended, AppendProperties, EmptySeq DEF DerivedIsReplay
<1>2. blocksFile' \in Seq(Block \cup {Torn})
  <2>1. blocksFile \in Seq(Block \cup {Torn})
    BY DEF EngineInv, TypeOK
  <2> QED
    BY <2>1, AppendProperties DEF AddBlock, extend, appendToDisk, Written
<1>3. mempool' \subseteq Tx /\ OneTxPerNonce'
  <2> DEFINE pool == mempool \ Range(b.txs)
  <2>1. \A t, u \in pool : u.from = t.from /\ u.nonce = t.nonce => u = t
    BY DEF EngineInv, OneTxPerNonce
  <2>2. mempool' = pruneMempool(pool, state') /\ pool \subseteq Tx
    BY DEF AddBlock, extend, EngineInv, TypeOK
  <2> HIDE DEF pool
  <2> QED
    BY <2>1, <2>2, PrunedPool DEF OneTxPerNonce
<1>4. UNCHANGED <<Checkpoints, checkpointsFile, running, now>>
  BY DEF AddBlock, extend
<1> QED
  BY <1>1, <1>2, <1>3, <1>4, DerivedTyped DEF EngineInv, TypeOK, DerivedIsReplay

\* A reorg swaps all of it.
LEMMA TryAdoptEngine ==
  ASSUME EngineInv, NEW new \in Batch, NEW start, NEW how \in {"ok", "failed"},
         TryAdoptChain(start, new, how)
  PROVE  EngineInv'
<1> DEFINE chain == candidate(start, new)
<1>1. chain \in Seq(Block) /\ chain # <<>>
  <2>1. blocks \in Seq(Block) /\ start \in 1 .. Len(blocks) /\ new \in Seq(Block)
    BY ChainAssumption DEF TryAdoptChain, mayFork, EngineInv, TypeOK
  <2>2. chain \in Seq(Block) /\ Len(chain) = start + Len(new)
    BY <2>1, CandidateChain
  <2> HIDE DEF chain
  <2> QED
    BY <2>1, <2>2, EmptySeq, LenProperties
<1>2. /\ blocks' = chain
      /\ state' = stateOf(chain) /\ totals' = totalsOf(chain) /\ cumWork' = workOfChain(chain)
      /\ mempool' = pruneMempool(mempool, state')
      /\ blocksFile' \in {blocksFile, chain}
      /\ UNCHANGED <<Checkpoints, checkpointsFile, running, now>>
  BY DEF TryAdoptChain, switchTo, saveAll, Written
<1> HIDE DEF chain
<1>3. DerivedIsReplay'
  BY <1>2 DEF DerivedIsReplay
<1>4. blocksFile' \in Seq(Block \cup {Torn})
  BY <1>1, <1>2, SeqMonotonic DEF EngineInv, TypeOK
<1>5. mempool' \subseteq Tx /\ OneTxPerNonce'
  BY <1>2, PrunedPool DEF EngineInv, TypeOK, OneTxPerNonce
<1> QED
  BY <1>1, <1>2, <1>3, <1>4, <1>5, DerivedTyped DEF EngineInv, TypeOK

\* A transaction joins the pool with a nonce its sender has neither used nor
\* queued.
LEMMA AddTxEngine ==
  ASSUME EngineInv, NEW t \in Tx, AddTx(t)
  PROVE  EngineInv'
<1>1. /\ t.nonce >= state[t.from].nonce
      /\ \A m \in mempool : m.from = t.from => m.nonce # t.nonce
  BY DEF AddTx, validateMempoolTx, continuesQueue
<1>2. mempool' = mempool \cup {t} /\ state' = state
  BY DEF AddTx
<1>3. OneTxPerNonce'
  BY <1>1, <1>2 DEF EngineInv, OneTxPerNonce
<1> QED
  BY <1>3 DEF AddTx, EngineInv, TypeOK, DerivedIsReplay

\* A checkpoint touches nothing that is derived.
LEMMA ApplyCheckpointEngine ==
  ASSUME EngineInv, NEW cp \in Signed, NEW how \in {"ok", "failed"}, ApplyCheckpoint(cp, how)
  PROVE  EngineInv'
<1>1. cp.height \in Nat /\ cp.hash \in Block
  BY ChainAssumption
<1>2. /\ Checkpoints' = [h \in DOMAIN Checkpoints \cup {cp.height} |->
                           IF h = cp.height THEN cp.hash ELSE Checkpoints[h]]
      /\ checkpointsFile' \in {NoCheckpoints, Checkpoints'}
      /\ UNCHANGED <<blocks, state, totals, cumWork, mempool, blocksFile, running, now>>
  BY DEF ApplyCheckpoint, saveCheckpoints, Written
<1>3. DOMAIN Checkpoints' \subseteq Nat /\ Range(Checkpoints') \subseteq Block
  <2>1. /\ DOMAIN Checkpoints \subseteq Nat
        /\ \A h \in DOMAIN Checkpoints : Checkpoints[h] \in Block
    BY DEF EngineInv, TypeOK, Range
  <2>2. /\ DOMAIN Checkpoints' \subseteq Nat
        /\ \A h \in DOMAIN Checkpoints' : Checkpoints'[h] \in Block
    BY <1>1, <1>2, <2>1
  <2> QED
    BY <2>2 DEF Range
<1>4. DOMAIN NoCheckpoints = {} /\ Range(NoCheckpoints) = {}
  BY DEF NoCheckpoints, Range
<1> QED
  BY <1>2, <1>3, <1>4 DEF EngineInv, TypeOK, DerivedIsReplay, OneTxPerNonce

\* Whatever file a node starts from: it refuses it, or has a chain and what is
\* derived from it.
LEMMA NewChainEngine ==
  ASSUME EngineInv, NEW file \in Seq(Block \cup {Torn}), blocksFile' = file, NewChain(file),
         checkpointsFile' \in {checkpointsFile, NoCheckpoints}
  PROVE  EngineInv'
<1>0. DOMAIN checkpointsFile' \subseteq Nat /\ Range(checkpointsFile') \subseteq Block
  BY DEF EngineInv, TypeOK, NoCheckpoints, Range
<1>1. CASE loads(file)
  <2>1. loaded(file) \in Seq(Block) /\ loaded(file) # <<>>
    <3>1. CASE file = <<>>
      BY <3>1, ChainAssumption DEF loaded
    <3>2. CASE file # <<>>
      <4>1. Torn \notin Range(file) /\ loaded(file) = file
        BY <1>1, <3>2 DEF loads, loaded
      <4>2. \A n \in 1 .. Len(file) : file[n] \in Block
        BY <4>1, ElementOfSeq, RangeOfSeq, LenProperties DEF Range
      <4>3. file \in Seq(Block)
        BY <4>2, LenProperties
      <4> QED
        BY <3>2, <4>1, <4>3
    <3> QED
      BY <3>1, <3>2
  <2>2. /\ blocks' = loaded(file) /\ DerivedIsReplay'
        /\ mempool' = {} /\ Checkpoints' = checkpointsFile'
        /\ UNCHANGED <<running, now>>
    BY <1>1 DEF NewChain, DerivedIsReplay
  <2>3. OneTxPerNonce' /\ mempool' \subseteq Tx
    BY <2>2 DEF OneTxPerNonce
  <2> QED
    BY <1>0, <2>1, <2>2, <2>3, DerivedTyped DEF EngineInv, TypeOK, DerivedIsReplay
<1>2. CASE ~loads(file)
  BY <1>0, <1>2 DEF NewChain, memory, EngineInv, TypeOK, DerivedIsReplay, OneTxPerNonce
<1> QED
  BY <1>1, <1>2

\* Every step of every specification keeps the invariant.
LEMMA EngineInvNext == EngineInv /\ [AnyNext]_vars => EngineInv'
<1> SUFFICES ASSUME EngineInv, [AnyNext]_vars PROVE EngineInv'
  OBVIOUS
<1> DEFINE append  == {"ok", "failed", "torn"}
           rewrite == {"ok", "failed"}
<1>1. ASSUME NEW b \in Block, NEW how \in append, AddBlock(b, how) PROVE EngineInv'
  BY <1>1, AddBlockEngine
<1>2. ASSUME NEW new \in Batch, NEW how \in rewrite, TryAdoptChain(new[1].height, new, how)
      PROVE  EngineInv'
  BY <1>2, TryAdoptEngine
<1>3. ASSUME NEW t \in Tx, AddTx(t) PROVE EngineInv'
  BY <1>3, AddTxEngine
<1>4. ASSUME NEW cp \in Signed, NEW how \in rewrite, ApplyCheckpoint(cp, how) PROVE EngineInv'
  BY <1>4, ApplyCheckpointEngine
<1>5. blocksFile \in Seq(Block \cup {Torn})
  BY DEF EngineInv, TypeOK
<1>6. CASE Restart
  BY <1>5, <1>6, NewChainEngine DEF Restart
<1>7. CASE Tick
  <2>1. now' \in 0 .. MaxTime
    BY <1>7, ChainAssumption DEF Tick, EngineInv, TypeOK
  <2> QED
    BY <1>7, <2>1 DEF Tick, memory, EngineInv, TypeOK, DerivedIsReplay, OneTxPerNonce
<1>8. CASE PowerLoss
  <2>1. PICK n \in 0 .. Len(blocksFile) - 1 :
          /\ running /\ NewChain(blocksFile')
          /\ blocksFile' \in {SubSeq(blocksFile, 1, n), Append(SubSeq(blocksFile, 1, n), Torn)}
          /\ checkpointsFile' \in {checkpointsFile, NoCheckpoints}
    BY <1>8 DEF PowerLoss
  <2>2. blocksFile' \in Seq(Block \cup {Torn})
    <3>1. \A i \in 1 .. n : blocksFile[i] \in Block \cup {Torn}
      BY <1>5, ElementOfSeq, LenProperties
    <3>2. SubSeq(blocksFile, 1, n) \in Seq(Block \cup {Torn})
      BY <1>5, <2>1, <3>1, SubSeqProperties, LenProperties
    <3> QED
      BY <2>1, <3>2, AppendProperties
  <2> QED
    BY <2>1, <2>2, NewChainEngine
<1>9. CASE UNCHANGED vars
  BY <1>9 DEF vars, memory, EngineInv, TypeOK, DerivedIsReplay, OneTxPerNonce
<1> QED
  BY <1>1, <1>2, <1>3, <1>4, <1>6, <1>7, <1>8, <1>9 DEF AnyNext, Method

-----------------------------------------------------------------------------
\* Whether writes succeed, fail or are lost with the power, the invariant holds.
THEOREM EngineInvariant == Spec \/ CrashSpec \/ FaultySpec => []EngineInv
<1>1. Next => AnyNext
  <2>1. Method({"ok"}, {"ok"}) => Method({"ok", "failed", "torn"}, {"ok", "failed"})
    BY DEF Method
  <2> QED
    BY <2>1 DEF Next, AnyNext
<1>2. CrashNext => AnyNext
  BY <1>1 DEF CrashNext, AnyNext
<1>3. FaultyNext => AnyNext
  BY DEF FaultyNext, AnyNext
<1>4. Spec \/ CrashSpec \/ FaultySpec => Init /\ [][AnyNext]_vars
  BY <1>1, <1>2, <1>3, PTL DEF Spec, CrashSpec, FaultySpec
<1> QED
  BY <1>4, EngineInvInit, EngineInvNext, PTL

\* Every field keeps its type.
THEOREM TypeSafety == Spec \/ CrashSpec \/ FaultySpec => []TypeOK
<1>1. EngineInv => TypeOK
  BY DEF EngineInv
<1> QED
  BY <1>1, EngineInvariant, PTL

\* Accounts, totals and work, kept up block by block, swapped in a reorg of any
\* depth and rebuilt at a restart, are always those of the blocks in memory.
THEOREM DerivedSafety == Spec \/ CrashSpec \/ FaultySpec => []DerivedIsReplay
<1>1. EngineInv => DerivedIsReplay
  BY DEF EngineInv
<1> QED
  BY <1>1, EngineInvariant, PTL

\* However blocks, reorgs and submissions follow each other, the mempool never
\* holds a used nonce, nor two transactions of a sender for one nonce.
THEOREM MempoolSafety == Spec \/ CrashSpec \/ FaultySpec => []OneTxPerNonce
<1>1. EngineInv => OneTxPerNonce
  BY DEF EngineInv
<1> QED
  BY <1>1, EngineInvariant, PTL

-----------------------------------------------------------------------------
(***************************************************************************)
(* With writes that succeed, the engine implements the abstract fork       *)
(* choice of module ForkChoice, and every change of chain pays the work    *)
(* the reorg penalty asks for.                                             *)
(***************************************************************************)

NodeInv == ChainInv /\ EngineInv

\* Both inductive invariants hold together.
LEMMA NodeInvariant == Spec => []NodeInv
<1>1. Spec => []EngineInv
  BY EngineInvariant, PTL
<1> QED
  BY <1>1, ChainInvariant, PTL DEF NodeInv

\* The chain a step of Next moves to, and what it keeps of ours.
MovesTo(c, kept) ==
  /\ blocks' = c
  /\ c \in Seq(Block)
  /\ kept \in 1 .. Len(blocks) /\ kept < Len(c)
  /\ \A n \in 1 .. kept : c[n] = blocks[n]
  /\ workOfChain(c) > threshold(Len(blocks) - kept)
  /\ MaxReorgDepth > 0 => Len(blocks) - kept <= MaxReorgDepth
  /\ \A h \in DOMAIN Checkpoints : h < kept
  /\ UNCHANGED Checkpoints

\* A block on the tip keeps all of our chain.
LEMMA AddBlockMoves ==
  ASSUME NodeInv, NEW b \in Block, AddBlock(b, "ok")
  PROVE  \E c : MovesTo(c, Len(blocks))
<1>1. /\ blocks \in Seq(Block) /\ Len(blocks) \in Nat \ {0}
      /\ cumWork = workOfChain(blocks) /\ cumWork \in Nat
      /\ \A h \in DOMAIN Checkpoints : h < Len(blocks)
  BY EmptySeq DEF NodeInv, ChainInv, EngineInv, TypeOK, DerivedIsReplay, CheckpointsMatchChain
<1> DEFINE c == Append(blocks, b)
<1>2. /\ c \in Seq(Block) /\ Len(c) = Len(blocks) + 1
      /\ \A n \in 1 .. Len(blocks) : c[n] = blocks[n]
  BY <1>1, ExtendedChain
<1>3. workOfChain(c) = workOfChain(blocks) + WorkOf(b.target) /\ WorkOf(b.target) \in Nat \ {0}
  BY <1>1, DerivedOfExtended, WorkOfType
<1>4. blocks' = c /\ UNCHANGED Checkpoints
  BY DEF AddBlock, extend
<1> HIDE DEF c
<1>5. threshold(Len(blocks) - Len(blocks)) = cumWork
  BY <1>1 DEF threshold
<1>6. MaxReorgDepth \in Nat
  BY ChainAssumption
<1>7. workOfChain(c) > threshold(Len(blocks) - Len(blocks))
  BY <1>1, <1>3, <1>5
<1> QED
  BY <1>1, <1>2, <1>4, <1>6, <1>7 DEF MovesTo

\* A reorg keeps what is below its fork point.
LEMMA TryAdoptMoves ==
  ASSUME NodeInv, NEW new \in Batch, NEW start, TryAdoptChain(start, new, "ok")
  PROVE  \E c : MovesTo(c, start)
<1> DEFINE c == candidate(start, new)
<1>1. blocks \in Seq(Block)
  BY DEF NodeInv, ChainInv
<1>2. new \in Seq(Block) /\ Len(new) \in Nat \ {0}
  BY EmptySeq, ChainAssumption
<1>3. /\ start \in 1 .. Len(blocks)
      /\ MaxReorgDepth > 0 => Len(blocks) - start <= MaxReorgDepth
      /\ \A h \in DOMAIN Checkpoints : h < start
  BY DEF TryAdoptChain, mayFork
<1>4. /\ c \in Seq(Block) /\ Len(c) = start + Len(new)
      /\ \A n \in 1 .. start : c[n] = blocks[n]
  BY <1>1, <1>2, <1>3, CandidateChain
<1>5. /\ workOfChain(c) > threshold(Len(blocks) - start)
      /\ blocks' = c /\ UNCHANGED Checkpoints
  BY DEF TryAdoptChain, switchTo
<1> HIDE DEF c
<1>6. start < Len(c)
  BY <1>1, <1>2, <1>3, <1>4
<1> QED
  BY <1>3, <1>4, <1>5, <1>6 DEF MovesTo

\* A step moves to another chain, records a checkpoint, or touches neither.
LEMMA Steps ==
  ASSUME NodeInv, [Next]_vars
  PROVE  \/ \E c, kept : MovesTo(c, kept)
         \/ \E cp \in Signed : ApplyCheckpoint(cp, "ok")
         \/ UNCHANGED <<blocks, Checkpoints>>
<1>1. ASSUME NEW b \in Block, AddBlock(b, "ok") PROVE \E c, kept : MovesTo(c, kept)
  BY <1>1, AddBlockMoves
<1>2. ASSUME NEW new \in Batch, TryAdoptChain(new[1].height, new, "ok")
      PROVE  \E c, kept : MovesTo(c, kept)
  BY <1>2, TryAdoptMoves
<1>3. ASSUME NEW t \in Tx, AddTx(t) PROVE UNCHANGED <<blocks, Checkpoints>>
  BY <1>3 DEF AddTx
<1>4. CASE Restart
  BY <1>4, RestartInv DEF NodeInv
<1>5. CASE Tick \/ UNCHANGED vars
  BY <1>5 DEF Tick, memory, vars
<1> QED
  BY <1>1, <1>2, <1>3, <1>4, <1>5 DEF Next, Method

-----------------------------------------------------------------------------
(***************************************************************************)
(* The work of the chain.                                                  *)
(***************************************************************************)

\* What WorkOnlyGrows says of one step.
WorkGrown ==
  blocks' # blocks =>
    cumWork' > cumWork + IF discarded > 1
                         THEN (cumWork * discarded * ReorgPenaltyPermille) \div 1000
                         ELSE 0

\* What a step throws away lies above what it keeps.
LEMMA Discarded ==
  ASSUME NodeInv, NEW c, NEW kept, MovesTo(c, kept)
  PROVE  discarded \in Nat /\ discarded <= Len(blocks) - kept
<1> DEFINE D == {n \in 1 .. Len(blocks) : n > Len(blocks') \/ SubSeq(blocks', 1, n) # SubSeq(blocks, 1, n)}
<1>1. blocks \in Seq(Block) /\ Len(blocks) \in Nat /\ Len(c) \in Nat
  BY LenProperties DEF NodeInv, ChainInv, MovesTo
<1>2. /\ blocks' = c /\ c \in Seq(Block)
      /\ kept \in 1 .. Len(blocks) /\ kept < Len(c)
      /\ \A n \in 1 .. kept : c[n] = blocks[n]
  BY DEF MovesTo
<1>3. ASSUME NEW n \in 1 .. kept
      PROVE  n <= Len(blocks') /\ SubSeq(blocks', 1, n) = SubSeq(blocks, 1, n)
  <2>1. n \in 1 .. Len(blocks) /\ n \in 1 .. Len(c) /\ \A i \in 1 .. n : c[i] = blocks[i]
    BY <1>1, <1>2
  <2> QED
    BY <1>1, <1>2, <2>1, SamePrefix
<1>4. D \in SUBSET (kept + 1 .. Len(blocks))
  BY <1>1, <1>2, <1>3
<1>5. /\ IsFiniteSet(kept + 1 .. Len(blocks))
      /\ Cardinality(kept + 1 .. Len(blocks)) = Len(blocks) - kept
  <2> DEFINE lo == kept + 1
             hi == Len(blocks)
  <2>1. lo \in Int /\ hi \in Int /\ hi - lo + 1 = (IF lo > hi THEN 0 ELSE hi - lo + 1)
    BY <1>1, <1>2
  <2>2. hi - lo + 1 = Len(blocks) - kept
    BY <1>1, <1>2
  <2> HIDE DEF lo, hi
  <2>3. IsFiniteSet(lo .. hi) /\ Cardinality(lo .. hi) = hi - lo + 1
    BY <2>1, FS_Interval
  <2> QED
    BY <2>2, <2>3 DEF lo, hi
<1> HIDE DEF D
<1>6. Cardinality(D) \in Nat /\ Cardinality(D) <= Len(blocks) - kept
  BY <1>4, <1>5, FS_Subset, FS_CardinalityType
<1> QED
  BY <1>6 DEF discarded, D

\* The penalty grows with the depth.
LEMMA PenaltyGrows ==
  ASSUME NEW w \in Nat, NEW p \in Nat, NEW d \in Nat, NEW k \in Nat, k <= d
  PROVE  /\ (w * (d * p)) \div 1000 \in Nat
         /\ (w * k * p) \div 1000 \in Nat
         /\ (w * k * p) \div 1000 <= (w * (d * p)) \div 1000
<1>1. k * p \in Nat /\ d * p \in Nat /\ (d - k) * p \in Nat
  OBVIOUS
<1>2. d * p = k * p + (d - k) * p
  OBVIOUS
<1>3. ASSUME NEW x \in Nat, NEW y \in Nat PROVE w * (x + y) = w * x + w * y /\ w * y \in Nat /\ w * x \in Nat
  OBVIOUS
<1>4. w * k * p = w * (k * p)
  OBVIOUS
<1>5. w * (k * p) \in Nat /\ w * (d * p) \in Nat /\ w * (k * p) <= w * (d * p)
  BY <1>1, <1>2, <1>3
<1>6. ASSUME NEW x \in Nat, NEW y \in Nat, x <= y
      PROVE  x \div 1000 \in Nat /\ x \div 1000 <= y \div 1000
  BY <1>6
<1> QED
  BY <1>4, <1>5, <1>6

\* threshold asks for at least the penalty on what is thrown away.
LEMMA MoveGrows ==
  ASSUME NodeInv, NodeInv', NEW c, NEW kept, MovesTo(c, kept)
  PROVE  WorkGrown
<1> DEFINE depth == Len(blocks) - kept
           P == ReorgPenaltyPermille
<1>1. cumWork \in Nat /\ cumWork' = workOfChain(c) /\ cumWork' \in Nat
  BY DEF NodeInv, EngineInv, TypeOK, DerivedIsReplay, MovesTo
<1>2. workOfChain(c) > threshold(depth)
  BY DEF MovesTo
<1>3. P \in Nat /\ depth \in Nat
  BY ChainAssumption, LenProperties DEF MovesTo, NodeInv, ChainInv
<1>4. discarded \in Nat /\ discarded <= depth
  BY Discarded
<1>5. /\ (cumWork * (depth * P)) \div 1000 \in Nat
      /\ (cumWork * discarded * P) \div 1000 \in Nat
      /\ (cumWork * discarded * P) \div 1000 <= (cumWork * (depth * P)) \div 1000
  <2> HIDE DEF depth, P
  <2> QED
    BY <1>1, <1>3, <1>4, PenaltyGrows
<1>6. threshold(depth) = IF P > 0 /\ depth > 1
                         THEN cumWork + (cumWork * (depth * P)) \div 1000
                         ELSE cumWork
  BY DEF threshold
<1>7. P = 0 => (cumWork * discarded * P) \div 1000 = 0
  <2>1. ASSUME NEW x \in Nat PROVE (x * 0) \div 1000 = 0
    OBVIOUS
  <2>2. cumWork * discarded \in Nat
    BY <1>1, <1>4
  <2> QED
    BY <2>1, <2>2
<1>8. WorkGrown <=> (blocks' # blocks =>
         cumWork' > cumWork + IF discarded > 1 THEN (cumWork * discarded * P) \div 1000 ELSE 0)
  BY DEF WorkGrown
<1> HIDE DEF depth, P
<1> QED
  BY <1>1, <1>2, <1>3, <1>4, <1>5, <1>6, <1>7, <1>8

\* Every step that changes the chain pays for it.
LEMMA WorkStep == NodeInv /\ NodeInv' /\ [Next]_vars => WorkGrown
<1> SUFFICES ASSUME NodeInv, NodeInv', [Next]_vars PROVE WorkGrown
  OBVIOUS
<1>1. ASSUME NEW c, NEW kept, MovesTo(c, kept) PROVE WorkGrown
  BY <1>1, MoveGrows
<1>2. ASSUME UNCHANGED blocks PROVE WorkGrown
  BY <1>2 DEF WorkGrown
<1> QED
  BY <1>1, <1>2, Steps DEF ApplyCheckpoint

\* The chain changes only for one with more work, and for a reorg that throws
\* away two blocks or more only for one with the penalty on top.
THEOREM WorkGrowth == Spec => WorkOnlyGrows
<1>1. NodeInv /\ NodeInv' /\ [Next]_vars => [WorkGrown]_vars
  BY WorkStep
<1>2. Spec => [][WorkGrown]_vars
  BY <1>1, NodeInvariant, PTL DEF Spec
<1> QED
  BY <1>2 DEF WorkOnlyGrows, WorkGrown

-----------------------------------------------------------------------------
(***************************************************************************)
(* The engine implements the fork choice, step by step.                    *)
(***************************************************************************)

\* Both start at genesis with nothing final.
LEMMA InitRefines == Init => FC!Init
BY DEF Init, FC!Init, NoCheckpoints

\* A block or a reorg is a move of the abstract node.
LEMMA MoveRefines ==
  ASSUME NodeInv, NodeInv', NEW c, NEW kept, MovesTo(c, kept)
  PROVE  FC!Move(blocks')
<1>1. /\ blocks \in Seq(Block) /\ Len(blocks) \in Nat /\ Len(c) \in Nat
      /\ cumWork = workOfChain(blocks) /\ cumWork \in Nat
      /\ DOMAIN Checkpoints \subseteq Nat
  BY LenProperties DEF NodeInv, ChainInv, EngineInv, TypeOK, DerivedIsReplay, MovesTo
<1>2. /\ blocks' = c /\ UNCHANGED Checkpoints
      /\ kept \in 1 .. Len(blocks) /\ kept < Len(c)
      /\ \A n \in 1 .. kept : c[n] = blocks[n]
      /\ MaxReorgDepth > 0 => Len(blocks) - kept <= MaxReorgDepth
      /\ \A h \in DOMAIN Checkpoints : h < kept
      /\ workOfChain(c) > threshold(Len(blocks) - kept)
  BY DEF MovesTo
<1>3. ASSUME NEW h \in Nat, h < kept PROVE FC!Agree(c, blocks, h)
  BY <1>1, <1>2, <1>3 DEF FC!Agree
<1>4. FC!Linked(c)
  BY <1>2 DEF NodeInv, ChainInv, ChainLinked, FC!Linked
<1>5. workOfChain(c) > workOfChain(blocks)
  <2>1. workOfChain(c) \in Nat
    BY DerivedTypes DEF MovesTo
  <2>2. threshold(Len(blocks) - kept) \in Nat /\ threshold(Len(blocks) - kept) >= cumWork
    <3> DEFINE d == Len(blocks) - kept
    <3>1. d \in Nat /\ ReorgPenaltyPermille \in Nat
      BY <1>1, <1>2, ChainAssumption
    <3>2. (cumWork * (d * ReorgPenaltyPermille)) \div 1000 \in Nat
      <4> HIDE DEF d
      <4> QED
        BY <1>1, <3>1, PenaltyGrows
    <3> QED
      BY <1>1, <3>2 DEF threshold
  <2> QED
    BY <1>1, <1>2, <2>1, <2>2
<1>6. MaxReorgDepth > 0 /\ Len(blocks) > MaxReorgDepth
        => FC!Agree(c, blocks, Len(blocks) - MaxReorgDepth - 1)
  <2> SUFFICES ASSUME MaxReorgDepth > 0, Len(blocks) > MaxReorgDepth
               PROVE  FC!Agree(c, blocks, Len(blocks) - MaxReorgDepth - 1)
    OBVIOUS
  <2>1. MaxReorgDepth \in Nat
    BY ChainAssumption
  <2>2. /\ Len(blocks) - MaxReorgDepth - 1 \in Nat
        /\ Len(blocks) - MaxReorgDepth - 1 < kept
    BY <1>1, <1>2, <2>1
  <2> QED
    BY <1>3, <2>2
<1>7. \A h \in DOMAIN Checkpoints : FC!Agree(c, blocks, h)
  BY <1>1, <1>2, <1>3
<1> QED
  BY <1>2, <1>4, <1>5, <1>6, <1>7 DEF FC!Move

\* A checkpoint makes the block final that the node has.
LEMMA CheckpointRefines ==
  ASSUME NodeInv, NEW cp \in Signed, ApplyCheckpoint(cp, "ok")
  PROVE  \E h \in 1 .. Len(blocks) - 1 : FC!Finalise(h)
<1>1. /\ cp.height \in Nat \ {0} /\ cp.height < Len(blocks) /\ Len(blocks) \in Nat
      /\ blocks[cp.height + 1] = cp.hash
      /\ Checkpoints' = [h \in DOMAIN Checkpoints \cup {cp.height} |->
                           IF h = cp.height THEN cp.hash ELSE Checkpoints[h]]
      /\ blocks' = blocks
  BY ChainAssumption, LenProperties DEF ApplyCheckpoint, NodeInv, ChainInv
<1>2. \A h \in DOMAIN Checkpoints : Checkpoints[h] = blocks[h + 1]
  BY DEF NodeInv, ChainInv, CheckpointsMatchChain
<1>3. Checkpoints' = [h \in DOMAIN Checkpoints \cup {cp.height} |-> blocks[h + 1]]
  BY <1>1, <1>2
<1>4. cp.height \in 1 .. Len(blocks) - 1
  BY <1>1
<1> QED
  BY <1>1, <1>3, <1>4 DEF FC!Finalise

\* Every step of the engine is a step of the fork choice or changes nothing of it.
LEMMA NextRefines == NodeInv /\ NodeInv' /\ [Next]_vars => [FC!Next]_FC!vars
<1> SUFFICES ASSUME NodeInv, NodeInv', [Next]_vars PROVE [FC!Next]_FC!vars
  OBVIOUS
<1>1. ASSUME NEW c, NEW kept, MovesTo(c, kept) PROVE FC!Next
  BY <1>1, MoveRefines DEF FC!Next
<1>2. ASSUME NEW cp \in Signed, ApplyCheckpoint(cp, "ok") PROVE FC!Next
  BY <1>2, CheckpointRefines DEF FC!Next
<1>3. ASSUME UNCHANGED <<blocks, Checkpoints>> PROVE UNCHANGED FC!vars
  BY <1>3 DEF FC!vars
<1> QED
  BY <1>1, <1>2, <1>3, Steps

\* ARCHITECTURE.md 4.2 and 5: every behaviour of the engine is one of the
\* abstract fork choice.
THEOREM Refinement == Spec => ImplementsForkChoice
<1>1. Spec => FC!Init /\ [][FC!Next]_FC!vars
  BY InitRefines, NextRefines, NodeInvariant, PTL DEF Spec
<1> QED
  BY <1>1, PTL DEF ImplementsForkChoice, FC!Spec

-----------------------------------------------------------------------------
(***************************************************************************)
(* The block template.  What is proved of a body is that each transaction  *)
(* is valid after those before it; that none comes twice follows, as its   *)
(* nonce is used up by then.                                               *)
(***************************************************************************)

\* Among finitely many there is one of the greatest value.
LEMMA GreatestValue ==
  ASSUME NEW S, IsFiniteSet(S), S # {}, NEW f, \A x \in S : f[x] \in Nat
  PROVE  \E x \in S : \A y \in S : f[y] <= f[x]
<1> DEFINE P == {s \in SUBSET S : s # {} => \E x \in s : \A y \in s : f[y] <= f[x]}
<1>1. ASSUME NEW s \in SUBSET S, s # {}, \A x \in s : s \ {x} \in P PROVE s \in P
  <2>1. PICK a \in s : TRUE
    BY <1>1
  <2>2. CASE s \ {a} = {}
    <3>1. s = {a} /\ f[a] <= f[a]
      BY <2>1, <2>2
    <3> QED
      BY <3>1
  <2>3. CASE s \ {a} # {}
    <3>1. PICK x \in s \ {a} : \A y \in s \ {a} : f[y] <= f[x]
      BY <1>1, <2>1, <2>3
    <3>2. f[a] \in Nat /\ f[x] \in Nat /\ \A y \in s : f[y] \in Nat
      BY <2>1
    <3>3. CASE f[a] <= f[x]
      <4>1. \A y \in s : f[y] <= f[x]
        BY <3>1, <3>3
      <4> QED
        BY <4>1
    <3>4. CASE f[x] < f[a]
      <4>1. \A y \in s : f[y] <= f[a]
        BY <3>1, <3>2, <3>4
      <4> QED
        BY <2>1, <4>1
    <3> QED
      BY <3>2, <3>3, <3>4
  <2> QED
    BY <2>2, <2>3
<1>2. {} \in P
  OBVIOUS
<1> HIDE DEF P
<1>3. S \in P
  BY <1>1, <1>2, SetInduction
<1> QED
  BY <1>3 DEF P

\* The mempool is finite.
LEMMA MempoolIsFinite == Spec => []IsFiniteSet(mempool)
<1>1. Init => IsFiniteSet(mempool)
  BY FS_EmptySet DEF Init
<1>2. IsFiniteSet(mempool) /\ [Next]_vars => IsFiniteSet(mempool)'
  <2> SUFFICES ASSUME IsFiniteSet(mempool), [Next]_vars PROVE IsFiniteSet(mempool')
    OBVIOUS
  <2>1. ASSUME NEW pool, NEW st, pool \subseteq mempool PROVE IsFiniteSet(pruneMempool(pool, st))
    <3>1. pruneMempool(pool, st) \subseteq mempool
      BY <2>1 DEF pruneMempool
    <3> QED
      BY <3>1, FS_Subset
  <2>2. ASSUME NEW b, NEW how, AddBlock(b, how) PROVE IsFiniteSet(mempool')
    <3>1. mempool' = pruneMempool(mempool \ Range(b.txs), state')
      BY <2>2 DEF AddBlock, extend
    <3>2. PICK st : st = state'
      OBVIOUS
    <3>3. IsFiniteSet(pruneMempool(mempool \ Range(b.txs), st))
      BY <2>1
    <3> QED
      BY <3>1, <3>2, <3>3
  <2>3. ASSUME NEW start, NEW new, NEW how, TryAdoptChain(start, new, how)
        PROVE  IsFiniteSet(mempool')
    <3>1. mempool' = pruneMempool(mempool, state')
      BY <2>3 DEF TryAdoptChain, switchTo
    <3>2. PICK st : st = state'
      OBVIOUS
    <3>3. IsFiniteSet(pruneMempool(mempool, st))
      BY <2>1
    <3> QED
      BY <3>1, <3>2, <3>3
  <2>4. ASSUME NEW t, AddTx(t) PROVE IsFiniteSet(mempool')
    BY <2>4, FS_AddElement DEF AddTx
  <2>5. CASE Restart
    BY <2>5, FS_EmptySet DEF Restart, NewChain, memory
  <2>6. ASSUME UNCHANGED mempool PROVE IsFiniteSet(mempool')
    BY <2>6
  <2>7. CASE UNCHANGED vars
    BY <2>6, <2>7 DEF vars, memory
  <2>8. ASSUME NEW cp, NEW how, ApplyCheckpoint(cp, how) PROVE IsFiniteSet(mempool')
    BY <2>6, <2>8 DEF ApplyCheckpoint
  <2>9. CASE Tick
    BY <2>6, <2>9 DEF Tick, memory
  <2> QED
    BY <2>2, <2>3, <2>4, <2>5, <2>7, <2>8, <2>9 DEF Next, Method
<1> QED
  BY <1>1, <1>2, PTL DEF Spec

\* Some pending transaction has no other in front of it.
LEMMA ForemostIsPending ==
  ASSUME NEW pool \in SUBSET Tx, IsFiniteSet(pool), pool # {}
  PROVE  foremost(pool) \in pool
<1>1. \A t \in pool : t.nonce \in Nat /\ t.fee \in Nat /\ TxID(t) \in Nat
  BY ChainAssumption
<1>2. PICK n \in {t.nonce : t \in pool} : \A m \in {t.nonce : t \in pool} : n <= m
  <2>1. {t.nonce : t \in pool} \in SUBSET Nat /\ {t.nonce : t \in pool} # {}
    BY <1>1
  <2> QED
    BY <2>1, LeastNumber
<1> DEFINE Q == {t \in pool : t.nonce = n}
           fees == [t \in Q |-> t.fee]
<1>3. IsFiniteSet(Q) /\ Q # {} /\ \A t \in Q : fees[t] \in Nat /\ fees[t] = t.fee
  BY <1>1, <1>2, FS_Subset
<1>4. PICK x \in Q : \A y \in Q : fees[y] <= fees[x]
  <2> HIDE DEF Q, fees
  <2> QED
    BY <1>3, GreatestValue
<1> DEFINE R == {t \in Q : t.fee = x.fee}
           ids == {TxID(t) : t \in R}
<1>5. ids \in SUBSET Nat /\ ids # {}
  BY <1>1, <1>4
<1>6. PICK i \in ids : \A j \in ids : i <= j
  <2> HIDE DEF ids
  <2> QED
    BY <1>5, LeastNumber
<1>7. PICK t \in R : TxID(t) = i
  BY <1>6
<1>8. ASSUME NEW u \in pool PROVE ~ sortedBefore(u, t)
  <2>1. /\ t \in pool /\ t.nonce = n /\ t.fee = x.fee
        /\ {t.nonce, t.fee, TxID(t), u.nonce, u.fee, TxID(u)} \subseteq Nat
    BY <1>1, <1>7
  <2>2. n <= u.nonce
    BY <1>2
  <2>3. u.nonce = n => u.fee <= t.fee
    BY <1>3, <1>4, <2>1
  <2>4. u.nonce = n /\ u.fee = t.fee => TxID(t) <= TxID(u)
    BY <1>6, <1>7, <2>1
  <2> QED
    BY <2>1, <2>2, <2>3, <2>4 DEF sortedBefore
<1>9. t \in pool /\ \A u \in pool : ~ sortedBefore(u, t)
  BY <1>7, <1>8
<1> QED
  BY <1>9 DEF foremost

\* What is picked, step by step: what is left, and what the accounts are.
Pick == [left : SUBSET mempool, txs : Seq(Tx), st : Balances]

\* Considering one more transaction.
LEMMA ConsideredTyped ==
  ASSUME mempool \subseteq Tx, IsFiniteSet(mempool), NEW height, NEW p \in Pick, p.left # {}
  PROVE  /\ considered(p, height) \in Pick
         /\ foremost(p.left) \in mempool
         /\ IsFiniteSet(p.left)
         /\ Cardinality(considered(p, height).left) = Cardinality(p.left) - 1
         /\ Cardinality(p.left) \in Nat
<1> DEFINE t == foremost(p.left)
           left == p.left \ {t}
           yes == [left |-> left, txs |-> Append(p.txs, t), st |-> applyTx(p.st, t)]
           no == [left |-> left, txs |-> p.txs, st |-> p.st]
<1>1. p.left \in SUBSET mempool /\ p.txs \in Seq(Tx) /\ p.st \in Balances
  BY DEF Pick
<1>2. IsFiniteSet(p.left)
  BY <1>1, FS_Subset
<1>3. t \in p.left /\ t \in Tx
  BY <1>1, <1>2, ForemostIsPending
<1>4. Cardinality(left) = Cardinality(p.left) - 1 /\ Cardinality(p.left) \in Nat
  BY <1>2, <1>3, OneLess
<1>5. left \in SUBSET mempool
  BY <1>1
<1>6. Append(p.txs, t) \in Seq(Tx) /\ applyTx(p.st, t) \in Balances
  BY <1>1, <1>3, AppendProperties, ApplyTxType
<1>7. considered(p, height) = IF fits(p, t, height) THEN yes ELSE no
  BY DEF considered
<1> HIDE DEF left
<1>8. yes \in Pick /\ yes.left = left /\ no \in Pick /\ no.left = left
  BY <1>1, <1>5, <1>6 DEF Pick
<1> QED
  BY <1>1, <1>2, <1>3, <1>4, <1>7, <1>8

\* The picks follow each other as the definition says, and each considers one more.
LEMMA PicksFollow ==
  ASSUME mempool \subseteq Tx, IsFiniteSet(mempool), state \in Balances, NEW height
  PROVE  LET N == Cardinality(mempool)
         IN  /\ N \in Nat
             /\ picks(height)[0] = [left |-> mempool, txs |-> <<>>, st |-> state]
             /\ \A n \in 1 .. N : picks(height)[n] = considered(picks(height)[n - 1], height)
             /\ \A n \in 0 .. N : /\ picks(height)[n] \in Pick
                                  /\ Cardinality(picks(height)[n].left) = N - n
             /\ \A n \in 1 .. N : picks(height)[n - 1].left # {}
<1> DEFINE N == Cardinality(mempool)
           base == [left |-> mempool, txs |-> <<>>, st |-> state]
           next(p) == considered(p, height)
           Rec(f) == f = [n \in 0 .. N |-> IF n = 0 THEN base ELSE next(f[n - 1])]
           Step == [n \in 1 .. N |-> [p \in Pick |-> IF p.left = {} THEN p ELSE next(p)]]
           after == picks(height)
<1>1. N \in Nat /\ base \in Pick /\ base.left = mempool
  BY FS_CardinalityType, EmptySeq DEF Pick
<1>2. \A p \in Pick : p.left # {} => /\ next(p) \in Pick
                                     /\ Cardinality(next(p).left) = Cardinality(p.left) - 1
  BY ConsideredTyped
<1>3. after = CHOOSE f : Rec(f)
  BY DEF picks
<1>4. Cardinality({}) = 0
  BY FS_EmptySet
<1> HIDE DEF next
<1>5. /\ Step \in [1 .. N -> [Pick -> Pick]]
      /\ \A n \in 1 .. N : \A p \in Pick : p.left # {} => Step[n][p] = next(p)
  BY <1>2
<1>6. Cardinality(base.left) = N
  BY <1>1
<1> HIDE DEF N, Step, base, after
<1>7. PICK f : Iterates(f, Pick, N, base, Step)
  BY <1>1, <1>5, IterationExists
<1>8. \A n \in 0 .. N : Cardinality(f[n].left) = N - n
  <2> DEFINE S == {n \in 0 .. N : Cardinality(f[n].left) = N - n}
  <2>1. 0 \in S
    BY <1>1, <1>6, <1>7 DEF Iterates
  <2>2. ASSUME NEW n \in 0 .. N - 1, n \in S PROVE n + 1 \in S
    <3>1. n + 1 \in 1 .. N /\ (n + 1) - 1 = n /\ n + 1 \in 0 .. N /\ n \in 0 .. N
      BY <1>1
    <3>2. f[n] \in Pick /\ f[n + 1] = Step[n + 1][f[n]]
      BY <1>7, <3>1 DEF Iterates
    <3>3. Cardinality(f[n].left) = N - n /\ N - n # 0
      BY <1>1, <2>2
    <3>4. f[n].left # {}
      BY <1>4, <3>3
    <3>5. f[n + 1] = next(f[n])
      BY <1>5, <3>1, <3>2, <3>4
    <3>6. Cardinality(f[n + 1].left) = (N - n) - 1
      BY <1>2, <3>2, <3>3, <3>4, <3>5
    <3> QED
      BY <1>1, <3>1, <3>6
  <2> HIDE DEF S
  <2>3. 0 .. N \subseteq S
    BY <1>1, <2>1, <2>2, CountUp
  <2> QED
    BY <2>3 DEF S
<1>9. \A n \in 1 .. N : f[n - 1].left # {} /\ f[n - 1] \in Pick
  <2> SUFFICES ASSUME NEW n \in 1 .. N PROVE f[n - 1].left # {} /\ f[n - 1] \in Pick
    OBVIOUS
  <2>1. n - 1 \in 0 .. N /\ N - (n - 1) # 0
    BY <1>1
  <2>2. Cardinality(f[n - 1].left) = N - (n - 1)
    BY <1>8, <2>1
  <2> QED
    BY <1>4, <1>7, <2>1, <2>2 DEF Iterates
<1>10. \A n \in 1 .. N : f[n] = next(f[n - 1])
  BY <1>5, <1>7, <1>9 DEF Iterates
<1>11. Rec(f)
  BY <1>1, <1>7, <1>10 DEF Iterates
<1>12. Rec(after)
  <2> HIDE DEF Rec
  <2> QED
    BY <1>3, <1>11
<1>13. after[0] = base /\ \A n \in 1 .. N : after[n] = next(after[n - 1])
  BY <1>1, <1>12
<1>14. \A n \in 0 .. N : after[n] = f[n]
  <2>1. SameSteps(after, f, N)
    BY <1>7, <1>10, <1>13 DEF SameSteps, Iterates
  <2> QED
    BY <1>1, <2>1, SameAlong
<1>15. \A n \in 0 .. N : after[n] \in Pick /\ Cardinality(after[n].left) = N - n
  BY <1>7, <1>8, <1>14 DEF Iterates
<1>16. \A n \in 1 .. N : after[n - 1].left # {}
  <2> SUFFICES ASSUME NEW n \in 1 .. N PROVE after[n - 1].left # {}
    OBVIOUS
  <2>1. n - 1 \in 0 .. N
    BY <1>1
  <2> QED
    BY <1>9, <1>14, <2>1
<1> QED
  BY <1>1, <1>13, <1>15, <1>16 DEF N, base, next, after

\* The accounts after a body with one more transaction.
LEMMA AfterOneMore ==
  ASSUME NEW st \in Balances, NEW txs \in Seq(Tx), NEW t \in Tx
  PROVE  LET more == Append(txs, t)
         IN  /\ \A i \in 0 .. Len(txs) : afterTxs(st, more)[i] = afterTxs(st, txs)[i]
             /\ afterTxs(st, more)[Len(txs) + 1] = applyTx(afterTxs(st, txs)[Len(txs)], t)
<1> DEFINE more == Append(txs, t)
           N == Len(txs)
           f == afterTxs(st, more)
           g == afterTxs(st, txs)
<1>1. /\ N \in Nat /\ more \in Seq(Tx) /\ Len(more) = N + 1
      /\ more[N + 1] = t /\ \A i \in 1 .. N : more[i] = txs[i]
  BY AppendProperties, LenProperties
<1>2. f[0] = st /\ \A i \in 1 .. N + 1 : f[i] = applyTx(f[i - 1], more[i])
  BY <1>1, AfterTxs
<1>3. g[0] = st /\ \A i \in 1 .. N : g[i] = applyTx(g[i - 1], txs[i])
  BY AfterTxs
<1> HIDE DEF f, g, more, N
<1>4. SameSteps(f, g, N)
  BY <1>1, <1>2, <1>3 DEF SameSteps
<1>5. \A i \in 0 .. N : f[i] = g[i]
  BY <1>1, <1>4, SameAlong
<1>6. N + 1 \in 1 .. N + 1 /\ (N + 1) - 1 = N /\ N \in 0 .. N
  BY <1>1
<1>7. f[N + 1] = applyTx(g[N], t)
  BY <1>1, <1>2, <1>5, <1>6
<1> QED
  BY <1>5, <1>7 DEF f, g, more, N

\* A transaction uses one nonce of its sender.
LEMMA NonceUsed ==
  ASSUME NEW st \in Balances, NEW t \in Tx, NEW a \in Addr
  PROVE  /\ st[a].nonce \in Nat
         /\ applyTx(st, t)[a].nonce = IF a = t.from THEN st[a].nonce + 1 ELSE st[a].nonce
<1>1. t.from \in Addr /\ t.to \in Addr
  BY ChainAssumption
<1> DEFINE bal == Wrap(st[t.from].balance - Wrap(t.amount + t.fee))
           paid == [st EXCEPT ![t.from] = [balance |-> bal, nonce |-> @.nonce + 1]]
<1>2. st[a].nonce \in Nat /\ st[a] \in [balance : 0 .. Word - 1, nonce : Nat]
  BY DEF Balances
<1>3. DOMAIN st = Addr
  BY DEF Balances
<1>4. applyTx(st, t) = [paid EXCEPT ![t.to].balance = Wrap(@ + t.amount)]
  BY DEF applyTx, credit
<1> HIDE DEF bal
<1>5. paid[a] = IF a = t.from THEN [balance |-> bal, nonce |-> st[a].nonce + 1] ELSE st[a]
  BY <1>1, <1>3
<1>6. /\ DOMAIN paid = Addr
      /\ paid[a].nonce = IF a = t.from THEN st[a].nonce + 1 ELSE st[a].nonce
      /\ DOMAIN paid[a] = {"balance", "nonce"}
  BY <1>2, <1>3, <1>5
<1> HIDE DEF paid
<1>7. applyTx(st, t)[a].nonce = paid[a].nonce
  BY <1>1, <1>4, <1>6
<1> QED
  BY <1>2, <1>6, <1>7

\* The i-th transaction of a body is valid after those before it.
FollowsBody(txs, i, height) ==
  /\ txs[i].fee >= enforcedMinFee(blocks, height)
  /\ validateTxAgainstState(afterTxs(state, txs)[i - 1], txs[i], blocks, height)

GoodPick(p, height) ==
  /\ Len(p.txs) <= MaxBlockTxs - 1
  /\ p.st = afterTxs(state, p.txs)[Len(p.txs)]
  /\ \A i \in 1 .. Len(p.txs) : FollowsBody(p.txs, i, height)

\* Considering one more transaction leaves a valid body.
LEMMA ConsideredIsGood ==
  ASSUME mempool \subseteq Tx, IsFiniteSet(mempool), state \in Balances,
         NEW height, NEW p \in Pick, p.left # {}, GoodPick(p, height)
  PROVE  GoodPick(considered(p, height), height)
<1> DEFINE t == foremost(p.left)
           N == Len(p.txs)
           more == Append(p.txs, t)
           q == considered(p, height)
<1>1. t \in Tx /\ p.txs \in Seq(Tx) /\ N \in Nat
  BY ConsideredTyped, LenProperties DEF Pick
<1>2. CASE fits(p, t, height)
  <2>1. q.txs = more /\ q.st = applyTx(p.st, t)
    BY <1>2 DEF considered
  <2>2. /\ more \in Seq(Tx) /\ Len(more) = N + 1 /\ more[N + 1] = t
        /\ \A i \in 1 .. N : more[i] = p.txs[i]
    BY <1>1, AppendProperties
  <2>3. /\ \A i \in 0 .. N : afterTxs(state, more)[i] = afterTxs(state, p.txs)[i]
        /\ afterTxs(state, more)[N + 1] = applyTx(afterTxs(state, p.txs)[N], t)
    BY <1>1, AfterOneMore
  <2>4. p.st = afterTxs(state, p.txs)[N]
    BY DEF GoodPick
  <2> HIDE DEF more
  <2>5. Len(q.txs) <= MaxBlockTxs - 1
    <3>1. N < MaxBlockTxs - 1
      BY <1>2 DEF fits
    <3>2. Len(q.txs) = N + 1 /\ MaxBlockTxs \in Nat
      BY <2>1, <2>2, LedgerAssumption
    <3> HIDE DEF q, N, t
    <3> QED
      BY <1>1, <3>1, <3>2
  <2>6. q.st = afterTxs(state, q.txs)[Len(q.txs)]
    BY <2>1, <2>2, <2>3, <2>4
  <2>7. ASSUME NEW i \in 1 .. N + 1 PROVE FollowsBody(more, i, height)
    <3>1. CASE i = N + 1
      <4>1. i - 1 = N /\ N \in 0 .. N
        BY <1>1, <3>1
      <4>2. more[i] = t /\ afterTxs(state, more)[i - 1] = p.st
        BY <2>2, <2>3, <2>4, <3>1, <4>1
      <4>3. /\ t.fee >= enforcedMinFee(blocks, height)
            /\ validateTxAgainstState(p.st, t, blocks, height)
        BY <1>2 DEF fits
      <4> HIDE DEF t
      <4> QED
        BY <4>2, <4>3, Zenon DEF FollowsBody
    <3>2. CASE i # N + 1
      <4>1. i \in 1 .. N /\ i - 1 \in 0 .. N
        BY <1>1, <3>2
      <4>2. more[i] = p.txs[i] /\ afterTxs(state, more)[i - 1] = afterTxs(state, p.txs)[i - 1]
        BY <2>2, <2>3, <4>1
      <4>3. FollowsBody(p.txs, i, height)
        BY <4>1 DEF GoodPick
      <4> QED
        BY <4>2, <4>3, Zenon DEF FollowsBody
    <3> QED
      BY <3>1, <3>2
  <2> HIDE DEF q, N
  <2>8. \A i \in 1 .. Len(q.txs) : FollowsBody(q.txs, i, height)
    BY <2>1, <2>2, <2>7
  <2>9. GoodPick(q, height)
    BY <2>5, <2>6, <2>8 DEF GoodPick
  <2> QED
    BY <2>9 DEF q
<1>3. CASE ~ fits(p, t, height)
  <2>1. q.txs = p.txs /\ q.st = p.st
    BY <1>3 DEF considered
  <2> QED
    BY <2>1 DEF GoodPick
<1> QED
  BY <1>2, <1>3

\* So the body that is picked is valid.
LEMMA PickedIsGood ==
  ASSUME mempool \subseteq Tx, IsFiniteSet(mempool), state \in Balances, NEW height
  PROVE  /\ picked(height) \in Seq(Tx)
         /\ Len(picked(height)) <= MaxBlockTxs - 1
         /\ \A i \in 1 .. Len(picked(height)) : FollowsBody(picked(height), i, height)
<1> DEFINE N == Cardinality(mempool)
           f == picks(height)
           V == {p \in Pick : GoodPick(p, height)}
<1>1. /\ N \in Nat
      /\ f[0] = [left |-> mempool, txs |-> <<>>, st |-> state]
      /\ \A n \in 1 .. N : f[n] = considered(f[n - 1], height) /\ f[n - 1].left # {}
      /\ \A n \in 0 .. N : f[n] \in Pick
  BY PicksFollow
<1>2. f[0] \in V
  <2>1. f[0].txs = <<>> /\ f[0].st = state /\ Len(<<>>) = 0 /\ <<>> \in Seq(Tx) /\ f[0] \in Pick
    BY <1>1, EmptySeq
  <2>2. afterTxs(state, <<>>)[0] = state
    BY <2>1, AfterTxs
  <2> HIDE DEF f
  <2>3. Len(f[0].txs) = 0
    BY <2>1
  <2>4. Len(f[0].txs) <= MaxBlockTxs - 1
    BY <2>3, LedgerAssumption
  <2>5. f[0].st = afterTxs(state, f[0].txs)[Len(f[0].txs)]
    BY <2>1, <2>2
  <2>6. \A i \in 1 .. Len(f[0].txs) : FollowsBody(f[0].txs, i, height)
    BY <2>3
  <2> QED
    BY <2>1, <2>4, <2>5, <2>6 DEF GoodPick
<1>3. ASSUME NEW n \in 1 .. N, f[n - 1] \in V PROVE f[n] \in V
  <2>1. f[n] = considered(f[n - 1], height) /\ f[n - 1].left # {} /\ n \in 0 .. N
    BY <1>1
  <2>2. GoodPick(considered(f[n - 1], height), height)
    BY <1>3, <2>1, ConsideredIsGood
  <2> HIDE DEF f
  <2> QED
    BY <1>1, <2>1, <2>2
<1> HIDE DEF f, N, V
<1>4. StepsWithin(f, V, N)
  BY <1>2, <1>3 DEF StepsWithin
<1>5. f[N] \in V
  <2>1. \A n \in 0 .. N : f[n] \in V
    BY <1>1, <1>4, StaysAlong
  <2>2. N \in 0 .. N
    BY <1>1
  <2> QED
    BY <2>1, <2>2
<1>6. picked(height) = f[N].txs
  BY DEF picked, f, N
<1> QED
  BY <1>5, <1>6 DEF V, Pick, GoodPick

\* A body of which each transaction is valid has none twice.
LEMMA ValidBodyIsInjective ==
  ASSUME state \in Balances, NEW txs \in Seq(Tx), NEW height,
         \A i \in 1 .. Len(txs) : FollowsBody(txs, i, height)
  PROVE  IsInjective(txs)
<1> DEFINE N == Len(txs)
           f == afterTxs(state, txs)
<1>1. /\ N \in Nat /\ DOMAIN txs = 1 .. N /\ \A i \in 1 .. N : txs[i] \in Tx
      /\ \A i \in 0 .. N : f[i] \in Balances
      /\ \A i \in 1 .. N : f[i] = applyTx(f[i - 1], txs[i])
  BY AfterTxs, LenProperties, ElementOfSeq
<1>2. \A i \in 1 .. N : txs[i].nonce = f[i - 1][txs[i].from].nonce
  BY DEF FollowsBody, validateTxAgainstState
<1> HIDE DEF f, N
<1>3. ASSUME NEW i \in 1 .. N, NEW j \in 1 .. N, i < j, txs[i] = txs[j] PROVE FALSE
  <2> DEFINE a == txs[i].from
             used(n) == f[n][a].nonce
             S == {n \in 0 .. N : n >= i => used(n) > txs[i].nonce}
  <2>1. a \in Addr /\ txs[i].nonce \in Nat /\ txs[i].nonce = used(i - 1)
    BY <1>1, <1>2, ChainAssumption
  <2>2. \A n \in 1 .. N : used(n - 1) \in Nat /\ used(n) \in Nat /\ used(n) >= used(n - 1)
    <3> SUFFICES ASSUME NEW n \in 1 .. N
                 PROVE  used(n - 1) \in Nat /\ used(n) \in Nat /\ used(n) >= used(n - 1)
      OBVIOUS
    <3>1. f[n - 1] \in Balances /\ f[n] = applyTx(f[n - 1], txs[n]) /\ txs[n] \in Tx
      BY <1>1
    <3> HIDE DEF a
    <3>2. /\ f[n - 1][a].nonce \in Nat
          /\ applyTx(f[n - 1], txs[n])[a].nonce
               = IF a = txs[n].from THEN f[n - 1][a].nonce + 1 ELSE f[n - 1][a].nonce
      BY <2>1, <3>1, NonceUsed
    <3>3. PICK m \in Nat : m = f[n - 1][a].nonce
      BY <3>2
    <3>4. used(n) = m + 1 \/ used(n) = m
      BY <3>1, <3>2, <3>3
    <3>5. used(n - 1) = m
      BY <3>3
    <3> HIDE DEF used
    <3> QED
      BY <3>4, <3>5
  <2>3. used(i) = used(i - 1) + 1
    <3>1. f[i - 1] \in Balances /\ f[i] = applyTx(f[i - 1], txs[i]) /\ txs[i] \in Tx
      BY <1>1
    <3> QED
      BY <2>1, <3>1, NonceUsed
  <2> HIDE DEF a, used
  <2>4. 0 \in S
    BY <1>1
  <2>5. ASSUME NEW n \in 0 .. N - 1, n \in S PROVE n + 1 \in S
    <3>1. n + 1 \in 1 .. N /\ (n + 1) - 1 = n /\ n + 1 \in 0 .. N
      BY <1>1
    <3>2. used(n) \in Nat /\ used(n + 1) \in Nat /\ used(n + 1) >= used(n)
      BY <2>2, <3>1
    <3>3. CASE n + 1 < i
      BY <1>1, <3>1, <3>3
    <3>4. CASE n + 1 = i
      <4>1. used(n + 1) > txs[i].nonce
        BY <2>1, <2>3, <3>1, <3>4
      <4> QED
        BY <3>1, <4>1
    <3>5. CASE n + 1 > i
      <4>1. used(n) > txs[i].nonce
        BY <1>1, <2>5, <3>5
      <4>2. used(n + 1) > txs[i].nonce
        BY <2>1, <3>2, <4>1
      <4> QED
        BY <3>1, <4>2
    <3> QED
      BY <1>1, <3>1, <3>3, <3>4, <3>5
  <2>6. j - 1 \in S
    <3> HIDE DEF S
    <3>1. 0 .. N \subseteq S
      BY <1>1, <2>4, <2>5, CountUp
    <3> QED
      BY <1>1, <3>1
  <2>7. used(j - 1) > txs[i].nonce
    BY <1>1, <1>3, <2>6
  <2>8. txs[i].nonce = used(j - 1)
    BY <1>2, <1>3 DEF used, a
  <2> QED
    BY <2>1, <2>7, <2>8
<1>4. \A i, j \in 1 .. N : txs[i] = txs[j] => i = j
  <2> SUFFICES ASSUME NEW i \in 1 .. N, NEW j \in 1 .. N, txs[i] = txs[j], i # j PROVE FALSE
    OBVIOUS
  <2>1. CASE i < j
    BY <1>3, <2>1
  <2>2. CASE j < i
    BY <1>3, <2>2
  <2> QED
    BY <1>1, <2>1, <2>2
<1> QED
  BY <1>1, <1>4 DEF IsInjective

\* The median time of a chain is the time of one of its blocks.
LEMMA MedianTimeType ==
  ASSUME NEW c \in Seq(Block), c # <<>>
  PROVE  medianTime(c) \in Nat
<1> DEFINE n == IF Len(c) < MedianWindow THEN Len(c) ELSE MedianWindow
           recent == Len(c) - n + 1 .. Len(c)
           upTo(t) == Cardinality({i \in recent : c[i].time <= t})
           late == {t \in {c[i].time : i \in recent} : upTo(t) > n \div 2}
           times == [i \in recent |-> c[i].time]
<1>1. Len(c) \in Nat \ {0} /\ MedianWindow \in Nat \ {0}
  BY LenProperties, EmptySeq, DifficultyAssumption
<1>2. n \in Nat \ {0} /\ n <= Len(c)
  BY <1>1
<1>3. medianTime(c) = Min(late)
  BY DEF medianTime
<1> HIDE DEF n
<1>4. recent \subseteq 1 .. Len(c) /\ recent # {} /\ IsFiniteSet(recent) /\ Cardinality(recent) = n
  <2>1. Len(c) - n + 1 \in Int /\ Len(c) \in Int
    BY <1>1, <1>2
  <2>2. Len(c) \in recent /\ recent \subseteq 1 .. Len(c)
    BY <1>1, <1>2
  <2>3. IsFiniteSet(recent) /\ Cardinality(recent) = n
    BY <1>1, <1>2, <2>1, FS_Interval
  <2> QED
    BY <2>2, <2>3
<1>5. \A i \in recent : c[i].time \in Nat /\ times[i] = c[i].time
  <2>1. \A i \in 1 .. Len(c) : c[i] \in Block
    BY ElementOfSeq
  <2> QED
    BY <1>4, <2>1, ChainAssumption
<1> HIDE DEF recent, times
<1>6. PICK last \in recent : \A i \in recent : times[i] <= times[last]
  BY <1>4, <1>5, GreatestValue
<1>7. {i \in recent : c[i].time <= c[last].time} = recent
  BY <1>5, <1>6
<1>8. upTo(c[last].time) = n
  BY <1>4, <1>7
<1>9. n > n \div 2
  BY <1>2
<1>10. c[last].time \in late
  BY <1>8, <1>9
<1>11. late \in SUBSET Nat
  BY <1>5
<1>12. \E t \in late : \A u \in late : t <= u
  <2> HIDE DEF late
  <2> QED
    BY <1>10, <1>11, LeastNumber
<1> HIDE DEF late
<1>13. Min(late) \in late
  BY <1>12 DEF Min
<1> QED
  BY <1>3, <1>11, <1>13

\* For any mempool, chain and clock, and however the node got there: the block that
\* BuildTemplate makes passes validateBlock on the node that made it.
THEOREM TemplateSafety == Spec => []TemplateIsValid
<1>1. NodeInv /\ IsFiniteSet(mempool) => TemplateIsValid
  <2> SUFFICES ASSUME NodeInv, IsFiniteSet(mempool), NEW a \in Addr,
                      BuildTemplate(a).time <= now + MaxFutureDrift
               PROVE  validateBlock(blocks, state, BuildTemplate(a))
    BY DEF TemplateIsValid
  <2> DEFINE height == Len(blocks)
             median == medianTime(blocks)
             txs == picked(height)
             b == BuildTemplate(a)
             time == IF now <= median THEN median + 1 ELSE now
  <2>1. /\ blocks \in Seq(Block) /\ blocks # <<>> /\ state \in Balances
        /\ mempool \subseteq Tx /\ now \in Int
    BY ChainAssumption DEF NodeInv, EngineInv, TypeOK, Balances
  <2>2. height \in Nat \ {0}
    BY <2>1, LenProperties, EmptySeq
  <2>3. median \in Nat
    BY <2>1, MedianTimeType
  <2>4. /\ txs \in Seq(Tx) /\ Len(txs) <= MaxBlockTxs - 1 /\ Len(txs) \in Nat
        /\ \A i \in 1 .. Len(txs) : FollowsBody(txs, i, height)
    BY <2>1, PickedIsGood, LenProperties
  <2>5. IsInjective(txs)
    BY <2>1, <2>4, ValidBodyIsInjective
  <2>6. height \notin DOMAIN Checkpoints
    BY <2>2 DEF NodeInv, ChainInv, CheckpointsMatchChain
  <2> HIDE DEF height, median, txs
  <2>7. time > median
    BY <2>1, <2>3
  <2>8. /\ b.height = height /\ b.prev = blocks[Len(blocks)] /\ b.time = time
        /\ b.target = expectedTarget(blocks) /\ b.reward = CoinbaseAmount(height, txs)
        /\ b.txs = txs /\ b.seed = epochSeedFor(blocks, height)
    BY Zenon DEF BuildTemplate, tip, height, median, txs
  <2> HIDE DEF b, time
  <2>9. validBody(state, b.txs, blocks, b.height)
    BY <2>4, <2>5, <2>8, Zenon DEF validBody, FollowsBody
  <2>10. linksTo(blocks, b) /\ powOK(blocks, b)
    BY <2>8 DEF linksTo, powOK, height
  <2>11. Len(b.txs) + 1 <= MaxBlockTxs
    <3>1. MaxBlockTxs \in Nat
      BY LedgerAssumption
    <3>2. Len(b.txs) = Len(txs)
      BY <2>8
    <3> QED
      BY <2>4, <3>1, <3>2
  <2>12. b.time > medianTime(blocks) /\ b.time <= now + MaxFutureDrift
    BY <2>7, <2>8 DEF median, b
  <2>13. rulesOK(blocks, state, b)
    BY <2>6, <2>8, <2>9, <2>10, <2>11, <2>12 DEF rulesOK
  <2> QED
    BY <2>10, <2>13 DEF validateBlock, b
<1> QED
  BY <1>1, NodeInvariant, MempoolIsFinite, PTL
=============================================================================
