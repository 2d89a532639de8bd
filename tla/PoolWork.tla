------------------------------ MODULE PoolWork ------------------------------
(***************************************************************************)
(* The pool between its miners and the node: the work it keeps, the tags   *)
(* (extranonces) that bind a share to an address, and the judgement of     *)
(* shares.  What shares are worth is PoolPayout's subject.                 *)
(***************************************************************************)
EXTENDS WorkTemplates, Functions, TLC

VARIABLES
  curWork,    \* the node's work the pool hands out
  fresh,      \* it was fetched within the last two seconds
  poolVM,
  enAssigned, \* address -> its tag, in the order of appearance
  seen,       \* nonces submitted for curWork
  credited    \* history: how often a nonce was credited, for work on one tip

poolVars == <<curWork, fresh, poolVM, enAssigned, seen, credited>>
vars == <<nodeVars, minerVars, poolVars>>

poolFetch == <<Pool, "refreshWork">>
workMuFree == fetches[poolFetch] = Idle

NoCredit == [c \in {} |-> 0]

-----------------------------------------------------------------------------
(***************************************************************************)
(* Work.                                                                   *)
(***************************************************************************)

askers == {f \in Fetcher : running.pooled /\ who(f) \in Machine /\ fetches[f].pc = "asked"}

\* A miner asks and the pool's work is not fresh.
AskNode ==
  /\ askers # {} /\ workMuFree /\ ~fresh
  /\ fetching(poolFetch, [pc |-> "asked"])
  /\ UNCHANGED <<nodeVars, current, thread, builtin, poolVars>>

\* The same work keeps the nonces that were seen for it.
refreshWork ==
  /\ fetches[poolFetch].pc = "answered"
  /\ LET new == fetches[poolFetch].work
         another == replaces(new, curWork)
     IN  /\ curWork' = IF another THEN new ELSE curWork
         /\ seen' = IF another THEN {} ELSE seen
         /\ credited' = Restrict(credited, {c \in DOMAIN credited : c.tmpl.prev = new.tmpl.prev})
  /\ fresh' = TRUE
  /\ fetching(poolFetch, Idle)
  /\ UNCHANGED <<nodeVars, current, thread, builtin, poolVM, enAssigned>>

\* A refresh fails, and with it the request that made it.
RefreshFails ==
  /\ disturbed /\ ~workMuFree
  /\ \E f \in askers :
       /\ fetches' = [fetches EXCEPT ![f] = Idle, ![poolFetch] = Idle]
       /\ IF f[2] = "mineThread" THEN mineAgain(f[1]) ELSE UNCHANGED thread
  /\ UNCHANGED <<running, tip, clock, templates, voided, vmCache, current, builtin, poolVars>>

TwoSecondsPass ==
  /\ fresh
  /\ fresh' = FALSE
  /\ UNCHANGED <<nodeVars, minerVars, curWork, poolVM, enAssigned, seen, credited>>

\* A tag is given at the first request or submit of an address.
extranonces(addr) ==
  IF addr \in DOMAIN enAssigned THEN enAssigned
  ELSE enAssigned @@ (addr :> Cardinality(DOMAIN enAssigned) + 1)

getworkHandler(f) ==
  /\ f \in askers /\ workMuFree /\ fresh
  /\ LET addr == addrOf[who(f)]
     IN  /\ enAssigned' = extranonces(addr)
         /\ fetching(f, [pc |-> "answered",
                         work |-> [curWork EXCEPT !.tag = extranonces(addr)[addr]]])
  /\ UNCHANGED <<nodeVars, current, thread, builtin, curWork, fresh, poolVM, seen, credited>>

\* A further miner asks: all that it changes is the tags.
OthersAsk ==
  /\ \E addr \in running.others : enAssigned' = extranonces(addr)
  /\ UNCHANGED <<nodeVars, minerVars, curWork, fresh, poolVM, seen, credited>>

-----------------------------------------------------------------------------
(***************************************************************************)
(* Shares.                                                                 *)
(***************************************************************************)

nonceOf(m) == <<thread[m].work.tag, thread[m].nonce>>

credit(m) == [addr |-> addrOf[m], tmpl |-> curWork.tmpl, nonce |-> nonceOf(m)]
timesCredited(c) == IF c \in DOMAIN credited THEN credited[c] ELSE 0
creditedOnce(c) == [d \in DOMAIN credited \cup {c} |-> timesCredited(d) + (IF d = c THEN 1 ELSE 0)]

\* Seeded fault: the first VM serves for every epoch.
poolVMFor_first(work) == IF poolVM # NoVM THEN poolVM ELSE vmFor(poolVM, epochAfter(work.tmpl.prev), work.seed)

poolVMFor(work) == vmFor(poolVM, epochAfter(work.tmpl.prev), work.seed)

\* The pool hashes its own header, with the VM it has for the epoch's number.
goodShare(m) == solutionOf(m) = Found(curWork.tmpl, poolVMFor(curWork).seed)

isStale(m) == curWork = NoWork \/ curWork.tmpl.prev # thread[m].work.tmpl.prev

\* Tag, work, duplicate, hash: the first that fails ends it.
submitworkHandler(m) ==
  /\ mining(m) /\ running.pooled
  /\ thread[m].pc = "submit" /\ mayAsk(m) /\ workMuFree
  /\ enAssigned' = extranonces(addrOf[m])
  /\ LET bound  == thread[m].work.tag = extranonces(addrOf[m])[addrOf[m]]
         judged == bound /\ ~isStale(m) /\ nonceOf(m) \notin seen
         shared == judged /\ goodShare(m)
     IN  /\ seen' = IF judged THEN seen \cup {nonceOf(m)} ELSE seen
         /\ poolVM' = IF judged THEN poolVMFor(curWork) ELSE poolVM
         /\ credited' = IF shared THEN creditedOnce(credit(m)) ELSE credited
         /\ IF shared /\ thread[m].nonce \in Full
            THEN /\ thread' = [thread EXCEPT ![m] = [pc |-> "forward", found |-> solutionOf(m)]]
                 /\ UNCHANGED fetches
            ELSE submitted(m)
  /\ UNCHANGED <<nodeVars, current, builtin, curWork, fresh>>

\* The pool posts the block to the node; the miner hears of it in any case.
Forward(m) ==
  /\ thread[m].pc = "forward"
  /\ submitwork(thread[m].found)
  /\ submitted(m)
  /\ UNCHANGED <<running, clock, templates, voided, disturbances, current, builtin, poolVars>>

ForwardLost(m) ==
  /\ thread[m].pc = "forward" /\ disturbed
  /\ submitted(m)
  /\ UNCHANGED <<running, tip, clock, templates, voided, vmCache, current, builtin, poolVars>>

-----------------------------------------------------------------------------
\* Everything here is in the pool's memory; what its miners wait for fails.
RestartPool ==
  /\ running.pooled /\ disturbed
  /\ curWork' = NoWork /\ fresh' = FALSE /\ poolVM' = NoVM
  /\ enAssigned' = NoCredit /\ seen' = {} /\ credited' = NoCredit
  /\ fetches' = [f \in Fetcher |-> IF fetches[f].pc = "answered" /\ who(f) \in Machine THEN fetches[f] ELSE Idle]
  /\ thread' = [m \in Machine |->
                  IF \/ thread[m].pc = "forward"
                     \/ thread[m].pc = "fetch" /\ fetches'[<<m, "mineThread">>] = Idle
                  THEN [pc |-> "mine"] ELSE thread[m]]
  /\ UNCHANGED <<running, tip, clock, templates, voided, vmCache, current, builtin>>

PoolWorkInit ==
  /\ WorkInit
  /\ curWork = NoWork /\ fresh = FALSE /\ poolVM = NoVM
  /\ enAssigned = NoCredit /\ seen = {} /\ credited = NoCredit

poolStep ==
  \/ AskNode \/ refreshWork \/ TwoSecondsPass \/ OthersAsk
  \/ \E f \in Fetcher : getworkHandler(f)
  \/ \E m \in Machine : submitworkHandler(m) \/ Forward(m)

PoolWorkNext ==
  \/ WorkNext /\ UNCHANGED poolVars
  \/ poolStep \/ RefreshFails \/ RestartPool
  \/ \E m \in Machine : ForwardLost(m)

PoolWorkSpec == PoolWorkInit /\ [][PoolWorkNext]_vars

(***************************************************************************)
(* Goroutines and handlers go on, and a search ends: a nonce that meets    *)
(* the network's target is found again and again.  A handler that waits    *)
(* for workMu gets it.                                                     *)
(***************************************************************************)
MiningGoesOn ==
  /\ WF_vars(mineWorker /\ UNCHANGED poolVars)
  /\ \A m \in Machine :
       /\ WF_vars(AskWork(m) /\ UNCHANGED poolVars)
       /\ WF_vars(mineThread(m) /\ UNCHANGED poolVars)
       /\ \A n \in Full : SF_vars(Solve(m, n) /\ UNCHANGED poolVars)
       /\ SF_vars(submitworkHandler(m))
       /\ WF_vars(Forward(m))
  /\ \A f \in Fetcher :
       SF_vars(((getwork(f) \/ fetchWork(f)) /\ UNCHANGED poolVars) \/ getworkHandler(f))
  /\ WF_vars(AskNode \/ refreshWork)
  /\ WF_vars(TwoSecondsPass)

FairPoolWorkSpec == PoolWorkSpec /\ MiningGoesOn

-----------------------------------------------------------------------------
(***************************************************************************)
(* Properties.                                                             *)
(***************************************************************************)

\* Work for the node's present tip carries that tip's seed, although getwork
\* reads template and seed apart and nobody fetches a seed again for work it has.
SeedFitsWork ==
  \A w \in {curWork} \cup {current[m] : m \in Machine} :
    w # NoWork /\ w.tmpl.prev = tip => w.seed = seedAfter(tip)

\* getTemplate's comment: "Serve a STABLE template per tip", else the node throws
\* away "real work".  What the pool or a miner works on for the present tip is what
\* the node judges its nonces by, or the node had to drop it: by a restart, at the
\* cap, or for a request of the same address that a block had overtaken.
WorkIsServed ==
  \A w \in {curWork} \cup {current[m] : m \in Machine} :
    w # NoWork /\ w.tmpl.prev = tip => w.tmpl \in templates \cup voided

\* A nonce counts as one share, whoever finds it again and however often the
\* pool fetches its work anew.
SharesCountOnce == \A c \in DOMAIN credited : credited[c] = 1

AllMined == Len(tip) = running.height

\* The node's VM for the next block is that of another branch's epoch of the same
\* number: it refuses every good block until it restarts or changes branch.
NodeVMIsWrong == seedFor(tip) # seedAfter(tip)

\* Stock miners at a node extend its chain, whatever overlaps, moves or is lost,
\* unless the node's own VM is wrong.
SoloMinersMine == ~running.pooled /\ running.machines # {} => <>AllMined \/ <>[]NodeVMIsWrong

\* The pool's VM is that of another branch's epoch of the same number.
PoolVMIsWrong ==
  curWork # NoWork /\ poolVM.epoch = epochAfter(curWork.tmpl.prev) /\ poolVM.seed # curWork.seed

\* Every miner mines with a tag that was given to another after a restart.
TagsAreLost ==
  \A m \in running.machines :
    /\ current[m] # NoWork
    /\ current[m].tag # extranonces(addrOf[m])[addrOf[m]]

\* A pool stops finding blocks for three reasons only: the node's VM or its own
\* stays that of an abandoned branch, or its miners' tags stay those of before its
\* restart.
PoolMines ==
  running.pooled => <>AllMined \/ <>[]NodeVMIsWrong \/ <>[]PoolVMIsWrong \/ <>[]TagsAreLost

\* The built-in miner stops finding blocks only while its VM, or the node's, is
\* that of an abandoned branch.
BuiltinMines ==
  running.builtin =>
    \/ <>AllMined
    \/ <>[]NodeVMIsWrong
    \/ <>[](builtin.vm.epoch = epochAfter(tip) /\ builtin.vm.seed # seedAfter(tip))
==============================================================================
