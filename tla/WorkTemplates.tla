---------------------------- MODULE WorkTemplates ----------------------------
(***************************************************************************)
(* How a node hands out mining work and takes it back: its cache of        *)
(* templates, getwork and submitwork, the stock miner that uses them, and  *)
(* the node's built-in miner.                                              *)
(*                                                                         *)
(* A chain is the sequence of its blocks' names after genesis, so a        *)
(* sequence stands for its tip.  More work is a longer chain here.  A      *)
(* template is what is hashed: the predecessor, the address that is paid,  *)
(* and a stamp for everything a rebuild would change (time, transactions). *)
(***************************************************************************)
EXTENDS Integers, Sequences, FiniteSets, SequencesExt

CONSTANTS
  Machine,      \* computers that run the stock miner
  Pool,         \* the pool's process, one more client of getwork
  Deployments,  \* which of them run, whether through the pool, which owners have further
                \* miners at the pool or the node, and (bounds of the model) which nonces
                \* are found, how many requests one machine has under way, how high the
                \* chain grows, how many disturbances there are: restarts, lost answers,
                \* refused branches, templates for further miners, time that passes
  addrOf,       \* the address a machine, the pool or the built-in miner is paid at
  Builtin,      \* the miner inside the node
  chains,       \* bound of the model: the tree of blocks
  Nonce,        \* nonces whose hash meets the pool's easier target ...
  Full,         \* ... and those of them whose hash meets the network's
  EpochLength,
  maxTemplates

ASSUME WorkAssumption ==
  /\ Full \subseteq Nonce
  /\ EpochLength \in Nat \ {0, 1}
  /\ \A c \in chains : c \in Seq(ToSet(c))
  /\ maxTemplates \in Nat \ {0}

VARIABLES
  running,    \* who runs: chosen once from Deployments
  tip,        \* the node's chain
  clock,
  templates,  \* n.templates: at most one for a predecessor and address
  voided,     \* history: templates of the present tip that the cache had to drop
  vmCache,    \* of the node's validation: epoch -> the seed its VM was made from
  fetches,    \* fetcher -> a getwork request on its way
  current,    \* machine -> the work its workLoop keeps for its threads
  thread,     \* machine -> its mining thread
  builtin,    \* mineWorker
  disturbances

nodeVars == <<running, tip, clock, templates, voided, vmCache, disturbances>>
minerVars == <<fetches, current, thread, builtin>>

NoTemplate == [addr |-> "none"]
NoWork == [tmpl |-> NoTemplate]
NoVM == [epoch |-> -1, seed |-> <<>>]
NoVMs == [e \in {} |-> <<>>]
Idle == [pc |-> "idle"]

\* A machine fetches in two goroutines, which may overlap; the pool in one at a time.
Fetcher == (Machine \X {"workLoop", "mineThread"}) \cup {<<Pool, "refreshWork">>}
who(f) == f[1]

\* Seed of the block after the chain: the last block of the epoch before names it.
epochAfter(chain) == (Len(chain) + 1) \div EpochLength
seedAfter(chain) ==
  IF epochAfter(chain) = 0 THEN <<>> ELSE SubSeq(chain, 1, epochAfter(chain) * EpochLength - 1)

-----------------------------------------------------------------------------
(***************************************************************************)
(* The node.                                                               *)
(***************************************************************************)

cached(prev, addr) == {t \in templates : t.prev = prev /\ t.addr = addr}

BuildTemplate(addr) == [prev |-> tip, addr |-> addr, stamp |-> clock]

\* What the cache may hold once t was built: older tips dropped, one victim at the cap.
stored(t) ==
  LET sameTip == {u \in templates : u.prev = t.prev}
      others  == {u \in sameTip : u.addr # t.addr}
  IN  IF others = sameTip /\ Cardinality(sameTip) >= maxTemplates
      THEN {(sameTip \ {victim}) \cup {t} : victim \in sameTip}
      ELSE {others \cup {t}}

inBounds == {c \in chains : Len(c) <= running.height}

\* The node's validation keeps its VMs by the epoch's number: the seed it judges
\* the block after the chain with, and the cache then, at most three epochs.
seedFor(chain) ==
  IF epochAfter(chain) \in DOMAIN vmCache THEN vmCache[epochAfter(chain)] ELSE seedAfter(chain)

vmsAfter(chain) ==
  LET epoch == epochAfter(chain)
      known == DOMAIN vmCache \cup {epoch}
      kept  == IF Cardinality(known) > 3 THEN {e \in known : e + 2 >= epoch} ELSE known
  IN  IF epoch \in DOMAIN vmCache THEN vmCache
      ELSE [e \in kept |-> IF e = epoch THEN seedAfter(chain) ELSE vmCache[e]]

\* A nonce found for what was hashed under a seed.
Found(hashed, seed) == [hashed |-> hashed, seed |-> seed]

\* AddBlock of a template with a nonce, whose hash gives the block any name.  Only
\* a block on the tip gets as far as its proof of work.
AddBlock(block, found) ==
  /\ IF block.prev = tip /\ found = Found(block, seedFor(tip))
     THEN \E c \in inBounds : c # <<>> /\ Front(c) = tip /\ tip' = c
     ELSE UNCHANGED tip
  /\ vmCache' = IF block.prev = tip THEN vmsAfter(tip) ELSE vmCache

\* submitwork: the nonce is right for the template in the cache if that is what was
\* hashed.
submitwork(found) ==
  LET known == cached(found.hashed.prev, found.hashed.addr)
  IN  \/ \E t \in known : AddBlock(t, found)
      \/ known = {} /\ UNCHANGED <<tip, vmCache>>

\* A block or a branch with more work comes from the network; the VMs go with a
\* batch that is adopted.  Blocks below its last may have been verified before.
Outside ==
  /\ \E c \in inBounds :
       /\ Len(c) > Len(tip)
       /\ seedFor(Front(c)) = seedAfter(Front(c))
       /\ tip' = c
       /\ \/ vmCache' = NoVMs
          \/ Front(c) = tip /\ vmCache' = vmsAfter(tip)
  /\ UNCHANGED <<running, clock, templates, voided, disturbances, minerVars>>

disturbed == /\ disturbances < running.disturbances
             /\ disturbances' = disturbances + 1

\* A branch whose work is not enough was judged before that was found, up to some block.
OutsideRefused ==
  /\ disturbed
  /\ \E c \in inBounds \ {<<>>} : vmCache' = vmsAfter(Front(c))
  /\ UNCHANGED <<running, tip, clock, templates, voided, minerVars>>

Tick ==
  /\ disturbed
  /\ clock' = clock + 1
  /\ UNCHANGED <<running, tip, templates, voided, vmCache, minerVars>>

-----------------------------------------------------------------------------
(***************************************************************************)
(* getwork: the tip is read, then the cache under its own lock, then the   *)
(* seed.  Between the three the tip may move.                              *)
(***************************************************************************)

fetching(f, r) == fetches' = [fetches EXCEPT ![f] = r]

\* Who asks the node itself.
asksNode(f) == who(f) = Pool \/ ~running.pooled

\* getTemplate forms the id before it takes the lock.
ReadTip(f) ==
  /\ asksNode(f)
  /\ fetches[f].pc = "asked"
  /\ fetching(f, [pc |-> "lookup", at |-> tip])
  /\ UNCHANGED <<nodeVars, current, thread, builtin>>

\* Seeded fault: a template whose time has passed is built again.
lookedUp_afresh(f) ==
  LET new == BuildTemplate(addrOf[who(f)])
  IN  {[tmpl |-> new, cache |-> ts] : ts \in stored(new)}

\* The template that is answered and the cache after it.
lookedUp(f) ==
  LET addr  == addrOf[who(f)]
      known == cached(fetches[f].at, addr)
      new   == BuildTemplate(addr)
  IN  IF known # {} THEN {[tmpl |-> t, cache |-> templates] : t \in known}
      ELSE {[tmpl |-> new, cache |-> ts] : ts \in stored(new)}

\* The template of the tip for the client's own address is dropped only by a request
\* that was overtaken by a block, those of others only at the cap.
droppedBy(f, cache) ==
  {t \in templates \ cache : t.prev = tip /\ (t.addr # addrOf[who(f)] \/ fetches[f].at # tip)}

ofTip(ts) == {t \in ts : t.prev = tip}

\* Seeded fault: the seed was read before the template.
getTemplate_afterSeed(f) ==
  /\ fetches[f].pc = "lookup"
  /\ \E r \in lookedUp(f) :
       /\ fetching(f, [pc |-> "answered",
                      work |-> [tmpl |-> r.tmpl, seed |-> seedAfter(fetches[f].at), tag |-> 0]])
       /\ templates' = r.cache
       /\ voided' = ofTip(voided) \cup droppedBy(f, r.cache)
  /\ UNCHANGED <<running, tip, clock, vmCache, disturbances, current, thread, builtin>>

getTemplate(f) ==
  /\ fetches[f].pc = "lookup"
  /\ \E r \in lookedUp(f) :
       /\ fetching(f, [pc |-> "seed", tmpl |-> r.tmpl])
       /\ templates' = r.cache
       /\ voided' = ofTip(voided) \cup droppedBy(f, r.cache)
  /\ UNCHANGED <<running, tip, clock, vmCache, disturbances, current, thread, builtin>>

EpochSeedForNext(f) ==
  /\ fetches[f].pc = "seed"
  /\ fetching(f, [pc |-> "answered", work |-> [tmpl |-> fetches[f].tmpl, seed |-> seedAfter(tip), tag |-> 0]])
  /\ UNCHANGED <<nodeVars, current, thread, builtin>>

\* A further miner's request builds a template for its address.  Time passes too:
\* the few nonces of the model may have been spent while a template was not there.
OthersGetwork ==
  /\ disturbed
  /\ clock' = clock + 1
  /\ \E addr \in running.others : \E ts \in stored(BuildTemplate(addr)) :
       /\ templates' = ts
       /\ voided' = ofTip(voided \cup (templates \ ts))
  /\ UNCHANGED <<running, tip, vmCache, minerVars>>

getwork(f) == ReadTip(f) \/ getTemplate(f) \/ EpochSeedForNext(f)

-----------------------------------------------------------------------------
(***************************************************************************)
(* The stock miner: a loop that fetches every few seconds, and a thread    *)
(* that fetches after every submit.                                        *)
(***************************************************************************)

mining(m) == m \in running.machines
solo(m) == mining(m) /\ ~running.pooled

\* Seeded fault: one work per tip.
replaces_newTipOnly(new, old) == old = NoWork \/ new.tmpl.prev # old.tmpl.prev

\* Seeded fault: the same work counts as new.
replaces_always(new, old) == TRUE

\* Work replaces the one at hand only if its id or its header is another.
replaces(new, old) == old = NoWork \/ new.tmpl # old.tmpl

mineAgain(m) == thread' = [thread EXCEPT ![m] = [pc |-> "mine"]]

mayAsk(m) == Cardinality({f \in Fetcher : who(f) = m /\ fetches[f] # Idle}) < running.requests

AskWork(m) ==
  /\ mining(m) /\ mayAsk(m)
  /\ fetches[<<m, "workLoop">>] = Idle
  /\ fetching(<<m, "workLoop">>, [pc |-> "asked"])
  /\ UNCHANGED <<nodeVars, current, thread, builtin>>

fetchWork(f) ==
  /\ fetches[f].pc = "answered"
  /\ who(f) \in Machine
  /\ LET new == fetches[f].work
     IN  current' = IF replaces(new, current[who(f)])
                    THEN [current EXCEPT ![who(f)] = new]
                    ELSE current
  /\ fetching(f, Idle)
  /\ IF f[2] = "mineThread" THEN mineAgain(f[1]) ELSE UNCHANGED thread
  /\ UNCHANGED <<nodeVars, builtin>>

\* A request or its answer is lost: what the miner has stays.
FetchLost(f) ==
  /\ disturbed
  /\ fetches[f].pc # "idle"
  /\ who(f) \in Machine
  /\ fetching(f, Idle)
  /\ IF f[2] = "mineThread" THEN mineAgain(f[1]) ELSE UNCHANGED thread
  /\ UNCHANGED <<running, tip, clock, templates, voided, vmCache, current, builtin>>

\* A nonce that meets the target of the work at hand, under the VM of the work's
\* seed.  It may be submitted late, which is also what a thread does that looks
\* for new work every 32 nonces only.
Solve(m, n) ==
  /\ thread[m].pc = "mine" /\ current[m] # NoWork
  /\ n \in running.nonces
  /\ thread' = [thread EXCEPT ![m] = [pc |-> "submit", work |-> current[m], nonce |-> n]]
  /\ UNCHANGED <<nodeVars, fetches, current, builtin>>

\* The node's answer to a submit makes no difference to the miner: it fetches next.
submitted(m) ==
  /\ thread' = [thread EXCEPT ![m] = [pc |-> "fetch"]]
  /\ fetching(<<m, "mineThread">>, [pc |-> "asked"])

solutionOf(m) == Found(thread[m].work.tmpl, thread[m].work.seed)

Submit(m) ==
  /\ solo(m) /\ mayAsk(m)
  /\ thread[m].pc = "submit"
  /\ submitwork(solutionOf(m))
  /\ submitted(m)
  /\ UNCHANGED <<running, clock, templates, voided, disturbances, current, builtin>>

mineThread(m) == Submit(m) \/ \E n \in Nonce : Solve(m, n)

-----------------------------------------------------------------------------
(***************************************************************************)
(* The built-in miner keeps its VM by the epoch's number.                  *)
(***************************************************************************)

\* Seeded fault: the VM is made once.
vmFor_once(vm, epoch, seed) == IF vm # NoVM THEN vm ELSE [epoch |-> epoch, seed |-> seed]

\* A VM is made anew when the epoch's number changes.
vmFor(vm, epoch, seed) == IF vm.epoch = epoch THEN vm ELSE [epoch |-> epoch, seed |-> seed]

WorkerTemplate ==
  /\ running.builtin
  /\ builtin.pc = "build"
  /\ builtin' = [builtin EXCEPT !.pc = "seed", !.tmpl = BuildTemplate(addrOf[Builtin])]
  /\ UNCHANGED <<nodeVars, fetches, current, thread>>

WorkerSeed ==
  /\ builtin.pc = "seed"
  /\ builtin' = [builtin EXCEPT !.pc = "mine", !.vm = vmFor(builtin.vm, epochAfter(tip), seedAfter(tip))]
  /\ UNCHANGED <<nodeVars, fetches, current, thread>>

WorkerFound ==
  /\ builtin.pc = "mine"
  /\ AddBlock(builtin.tmpl, Found(builtin.tmpl, builtin.vm.seed))
  /\ builtin' = [builtin EXCEPT !.pc = "build"]
  /\ UNCHANGED <<running, clock, templates, voided, disturbances, fetches, current, thread>>

\* The tip has moved, or the template is too old.
WorkerGivesUp ==
  /\ builtin.pc = "mine"
  /\ \/ builtin.tmpl.prev # tip
     \/ builtin.tmpl.stamp < clock
  /\ builtin' = [builtin EXCEPT !.pc = "build"]
  /\ UNCHANGED <<nodeVars, fetches, current, thread>>

mineWorker == WorkerTemplate \/ WorkerSeed \/ WorkerFound \/ WorkerGivesUp

-----------------------------------------------------------------------------
\* Templates and VMs are in memory only; requests under way fail.  A restart takes
\* time.
RestartNode ==
  /\ disturbed
  /\ clock' = clock + 1
  /\ templates' = {} /\ voided' = ofTip(voided \cup templates)
  /\ vmCache' = NoVMs
  /\ fetches' = [f \in Fetcher |-> IF fetches[f].pc = "answered" \/ ~asksNode(f)
                               THEN fetches[f] ELSE Idle]
  /\ thread' = [m \in Machine |-> IF thread[m].pc = "fetch" /\ fetches'[<<m, "mineThread">>] = Idle
                                  THEN [pc |-> "mine"] ELSE thread[m]]
  /\ builtin' = [pc |-> "build", tmpl |-> NoTemplate, vm |-> NoVM]
  /\ UNCHANGED <<running, tip, current>>

WorkInit ==
  /\ running \in Deployments
  /\ tip = <<>> /\ clock = 1 /\ disturbances = 0
  /\ templates = {} /\ voided = {} /\ vmCache = NoVMs
  /\ fetches = [f \in Fetcher |-> Idle]
  /\ current = [m \in Machine |-> NoWork]
  /\ thread = [m \in Machine |-> [pc |-> "mine"]]
  /\ builtin = [pc |-> "build", tmpl |-> NoTemplate, vm |-> NoVM]

WorkNext ==
  \/ Outside \/ OutsideRefused \/ OthersGetwork \/ Tick \/ RestartNode \/ mineWorker
  \/ \E f \in Fetcher : getwork(f) \/ fetchWork(f) \/ FetchLost(f)
  \/ \E m \in Machine : AskWork(m) \/ mineThread(m)
==============================================================================
