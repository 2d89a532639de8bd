------------------------------ MODULE ChainPow ------------------------------
(***************************************************************************)
(* How the engine really judges a proof of work (core/chain.go, vmFor and  *)
(* the end of validateBlock): a block it has verified before is not        *)
(* hashed again, and the VM of an epoch is built once and then taken from  *)
(* a cache whose key is the number of the epoch, not its seed.  Module     *)
(* Chain judges by the rules; this one adds the two caches to its state    *)
(* and their updates to its actions.                                       *)
(***************************************************************************)
EXTENDS Chain

VARIABLES
  verifiedPow,  \* the blocks whose proof of work was verified
  vmCache       \* epoch -> the seed its VM was built from

caches == <<verifiedPow, vmCache>>

NoVMs == [e \in {} |-> EpochSeed0]

\* The seed of the VM that vmFor returns for a block of height `height`, and
\* the cache it leaves: at most three epochs, the oldest go first.
vmSeed(vms, prefix, height) ==
  IF epochOf(height) \in DOMAIN vms THEN vms[epochOf(height)] ELSE epochSeedFor(prefix, height)

vmsAfter(vms, prefix, height) ==
  LET epoch == epochOf(height)
      known == DOMAIN vms \cup {epoch}
      kept  == IF Cardinality(known) > 3 THEN {e \in known : e + 2 >= epoch} ELSE known
  IN  IF epoch \in DOMAIN vms
      THEN vms
      ELSE [e \in kept |-> IF e = epoch THEN epochSeedFor(prefix, height) ELSE vms[e]]

\* The verdict on `b` after `prefix`, and the caches after it.
judge(known, vms, prefix, b) ==
  LET ok == b \in known \/ b.seed = vmSeed(vms, prefix, b.height)
  IN  [ok    |-> ok,
       known |-> IF ok THEN known \cup {b} ELSE known,
       vms   |-> IF b \in known THEN vms ELSE vmsAfter(vms, prefix, b.height)]

\* The rules and the proof of work of the blocks of `chain` above height
\* `from` - 1, one after the other up to the first that fails.
judgeFrom(from, chain) ==
  LET upTo(n) == SubSeq(chain, 1, n)
      after[n \in from .. Len(chain)] ==
        IF n = from
        THEN [ok |-> TRUE, known |-> verifiedPow, vms |-> vmCache]
        ELSE LET v == after[n - 1]
             IN  IF ~v.ok THEN v
                 ELSE IF rulesOK(upTo(n - 1), stateOf(upTo(n - 1)), chain[n])
                      THEN judge(v.known, v.vms, upTo(n - 1), chain[n])
                      ELSE [v EXCEPT !.ok = FALSE]
  IN  after[Len(chain)]

-----------------------------------------------------------------------------
PowInit == Init /\ verifiedPow = {Genesis} /\ vmCache = NoVMs

PowAddBlock(b) ==
  LET v == judge(verifiedPow, vmCache, blocks, b)
  IN  /\ running
      /\ b.prev = tip
      /\ rulesOK(blocks, state, b)
      /\ verifiedPow' = v.known
      /\ vmCache'     = v.vms
      /\ IF v.ok THEN extend(b, "ok") ELSE UNCHANGED vars

\* The caches change even if the candidate is refused; a reorg empties that of
\* the VMs.
PowTryAdoptChain(startHeight, newBlocks) ==
  LET chain == candidate(startHeight, newBlocks)
      v     == judgeFrom(startHeight, chain)
  IN  /\ running
      /\ mayFork(startHeight, newBlocks)
      /\ verifiedPow' = v.known
      /\ IF v.ok /\ workOfChain(chain) > threshold(Len(blocks) - startHeight)
         THEN switchTo(chain, "ok") /\ vmCache' = NoVMs
         ELSE vmCache' = v.vms /\ UNCHANGED vars

\* Blocks read from the file are taken as verified.
PowRestart ==
  /\ Restart
  /\ verifiedPow' = IF running' THEN Range(blocks') ELSE verifiedPow
  /\ vmCache' = NoVMs

PowNext ==
  \/ \E b \in Block : PowAddBlock(b)
  \/ \E new \in Batch : PowTryAdoptChain(new[1].height, new)
  \/ (\E t \in Tx : AddTx(t)) /\ UNCHANGED caches
  \/ (\E cp \in Signed : ApplyCheckpoint(cp, "ok")) /\ UNCHANGED caches
  \/ PowRestart
  \/ Tick /\ UNCHANGED caches

PowSpec == PowInit /\ [][PowNext]_<<vars, caches>>

-----------------------------------------------------------------------------
\* chain.go:345: the seed of a block is "taken from the supplied chain prefix".
\* Whatever was validated before, the verdict on a block that may extend our
\* chain or a prefix of it is the one its own prefix gives.
VerdictIsRule ==
  \A new \in Batch :
    LET h     == new[1].height
        chain == candidate(h, new)
    IN  h <= Len(blocks) /\ new[1].prev = blocks[h] =>
          \A n \in h .. Len(chain) - 1 :
            judge(verifiedPow, vmCache, SubSeq(chain, 1, n), chain[n + 1]).ok
              <=> powOK(SubSeq(chain, 1, n), chain[n + 1])
=============================================================================
