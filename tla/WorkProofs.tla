----------------------------- MODULE WorkProofs -----------------------------
(***************************************************************************)
(* Theorems about the work that node, pool and miners hand to each other,  *)
(* for any tree of blocks, any clients and any overlap of requests.        *)
(***************************************************************************)
EXTENDS PoolWork, SequenceTheorems, TLAPS

-----------------------------------------------------------------------------
(***************************************************************************)
(* The inductive invariant.  The node's chain only grows and its clock     *)
(* only advances, so templates come in an order, and nobody who asks one   *)
(* question at a time gets an older one than before.                       *)
(***************************************************************************)

IsTemplate(t) ==
  /\ t = [prev |-> t.prev, addr |-> t.addr, stamp |-> t.stamp]
  /\ Len(t.prev) \in Nat /\ t.stamp \in Nat

\* The template may have been built by now: its chain is the node's or one that
\* the node has outgrown.
Past(t) ==
  /\ Len(t.prev) < Len(tip) \/ t.prev = tip
  /\ t.stamp <= clock

\* t was built before u, or with it.
Before(t, u) == Len(t.prev) < Len(u.prev) \/ (t.prev = u.prev /\ t.stamp <= u.stamp)

IsWork(w) ==
  /\ w = [tmpl |-> w.tmpl, seed |-> w.seed, tag |-> w.tag]
  /\ IsTemplate(w.tmpl)

\* What WorkIsServed says of one template.
Served(t) == t.prev = tip => t \in templates \cup voided

\* What SeedFitsWork and WorkIsServed say of one work, and that it is not of tomorrow.
Fits(w) == Past(w.tmpl) /\ Served(w.tmpl) /\ (w.tmpl.prev = tip => w.seed = seedAfter(tip))

\* The cache holds the templates of one tip, one for an address.
OneTip(ts) == \A t, u \in ts : t.prev = u.prev /\ (t.addr = u.addr => t = u)

NodeOK ==
  /\ Len(tip) \in Nat /\ clock \in Nat
  /\ \A t \in templates : IsTemplate(t) /\ Past(t)
  /\ OneTip(templates)

\* A request on its way.
FetchOK(r) ==
  /\ r.pc = "seed" => IsTemplate(r.tmpl) /\ Past(r.tmpl) /\ Served(r.tmpl)
  /\ r.pc = "answered" => IsWork(r.work) /\ Fits(r.work)

HeldOK(w) == w = NoWork \/ (IsWork(w) /\ Fits(w))

ClientsOK ==
  /\ DOMAIN fetches = Fetcher /\ \A f \in Fetcher : FetchOK(fetches[f])
  /\ DOMAIN current = Machine /\ \A m \in Machine : HeldOK(current[m])
  /\ HeldOK(curWork)
  /\ fresh => curWork # NoWork

\* The template that a request brings, if it has one yet.
carried(r) ==
  IF r.pc = "seed" THEN {r.tmpl} ELSE IF r.pc = "answered" THEN {r.work.tmpl} ELSE {}

\* The pool's work, the one it fetches and the one in the cache are in order.
Older(t) == t.addr = addrOf[Pool] /\ \A u \in templates : u.addr = addrOf[Pool] => Before(t, u)

PoolOrder ==
  /\ \A t \in carried(fetches[poolFetch]) : Older(t)
  /\ curWork # NoWork => /\ Older(curWork.tmpl)
                         /\ \A t \in carried(fetches[poolFetch]) : Before(curWork.tmpl, t)

\* What was credited is of the pool's work or of earlier one, and of the pool's
\* work the nonce is known.
Credits ==
  \A c \in DOMAIN credited :
    /\ credited[c] = 1
    /\ curWork # NoWork
    /\ IsTemplate(c.tmpl) /\ c.tmpl.addr = addrOf[Pool]
    /\ Before(c.tmpl, curWork.tmpl)
    /\ c.tmpl = curWork.tmpl => c.nonce \in seen

PoolWorkInv == NodeOK /\ ClientsOK /\ PoolOrder /\ Credits

\* Some work is not no work.
LEMMA WorkIsSome == ASSUME NEW w, IsWork(w) PROVE w # NoWork
<1>1. DOMAIN w = {"tmpl", "seed", "tag"}
  BY DEF IsWork
<1>2. DOMAIN NoWork = {"tmpl"}
  BY DEF NoWork
<1> QED
  BY <1>1, <1>2

-----------------------------------------------------------------------------
(***************************************************************************)
(* The order of templates.                                                 *)
(***************************************************************************)

\* Before is an order, and templates for one address that were built together
\* are the same.
LEMMA BeforeOrders ==
  ASSUME NEW t, NEW u, NEW v, IsTemplate(t), IsTemplate(u), IsTemplate(v)
  PROVE  /\ Before(t, t)
         /\ Before(t, u) /\ Before(u, v) => Before(t, v)
         /\ Before(t, u) /\ Before(u, t) /\ t.addr = u.addr => t = u
<1> USE DEF IsTemplate, Before
<1>1. Before(t, t)
  OBVIOUS
<1>2. Before(t, u) /\ Before(u, v) => Before(t, v)
  OBVIOUS
<1>3. ASSUME Before(t, u), Before(u, t), t.addr = u.addr PROVE t = u
  <2>1. t.prev = u.prev /\ t.stamp = u.stamp
    BY <1>3
  <2> QED
    BY <1>3, <2>1
<1> QED
  BY <1>1, <1>2, <1>3

\* What is built now comes after all that was built.
LEMMA BuiltNow ==
  ASSUME NodeOK, NEW addr
  PROVE  /\ IsTemplate(BuildTemplate(addr)) /\ Past(BuildTemplate(addr))
         /\ BuildTemplate(addr).addr = addr /\ BuildTemplate(addr).prev = tip
         /\ \A t : IsTemplate(t) /\ Past(t) => Before(t, BuildTemplate(addr))
<1>1. Len(tip) \in Nat /\ clock \in Nat
  BY DEF NodeOK
<1> QED
  BY <1>1 DEF IsTemplate, Past, Before, BuildTemplate

\* A template of the tip stays in the cache or was dropped from it.
Kept == \A t \in templates \cup voided : t.prev = tip' => t \in templates' \cup voided'

\* The node's chain stays or is outgrown; time goes on.
Onward ==
  /\ tip' = tip \/ Len(tip) < Len(tip')
  /\ Len(tip') \in Nat
  /\ clock' \in Nat /\ clock <= clock'
  /\ Kept

\* What was built stays built, and work stays right or is asked for no more.
LEMMA PastStays ==
  ASSUME NodeOK, Onward
  PROVE  /\ \A t : IsTemplate(t) /\ Past(t) => Past(t)'
         /\ \A r : FetchOK(r) => FetchOK(r)'
         /\ \A w : HeldOK(w) => HeldOK(w)'
<1>1. Len(tip) \in Nat /\ clock \in Nat
  BY DEF NodeOK
<1>2. ASSUME NEW t, IsTemplate(t), Past(t) PROVE Past(t)'
  BY <1>1, <1>2 DEF Onward, IsTemplate, Past
<1>3. ASSUME NEW t, IsTemplate(t), Past(t), t.prev = tip' PROVE t.prev = tip /\ tip' = tip
  BY <1>1, <1>3 DEF Onward, Past
<1>4. ASSUME NEW t, IsTemplate(t), Past(t), Served(t) PROVE Served(t)'
  BY <1>3, <1>4 DEF Onward, Kept, Served
<1>5. ASSUME NEW w, IsWork(w), Fits(w) PROVE Fits(w)'
  <2>1. Past(w.tmpl)' /\ Served(w.tmpl)'
    BY <1>2, <1>4, <1>5 DEF Fits, IsWork
  <2>2. ASSUME w.tmpl.prev = tip' PROVE w.seed = seedAfter(tip')
    BY <1>3, <1>5, <2>2 DEF Fits, IsWork
  <2> QED
    BY <2>1, <2>2 DEF Fits
<1>6. ASSUME NEW r, FetchOK(r) PROVE FetchOK(r)'
  BY <1>2, <1>4, <1>5, <1>6 DEF FetchOK
<1>7. ASSUME NEW w, HeldOK(w) PROVE HeldOK(w)'
  BY <1>5, <1>7 DEF HeldOK
<1> QED
  BY <1>2, <1>6, <1>7

\* A block on the chain.
Extended == \E c \in inBounds : c # <<>> /\ Front(c) = tip /\ tip' = c

\* A block that is handed in extends the chain or leaves it.
LEMMA HandedIn ==
  ASSUME NEW block, NEW found, AddBlock(block, found) \/ submitwork(found)
  PROVE  Extended \/ tip' = tip
<1>1. ASSUME NEW t, AddBlock(t, found) PROVE Extended \/ tip' = tip
  BY <1>1 DEF AddBlock, Extended
<1> QED
  BY <1>1 DEF submitwork

\* A block on the chain, or another chain with more work, makes it longer.
LEMMA ChainGrows ==
  ASSUME NodeOK, Extended \/ Outside
  PROVE  (tip' = tip \/ Len(tip) < Len(tip')) /\ Len(tip') \in Nat
<1>1. ASSUME NEW c \in chains PROVE Len(c) \in Nat /\ c \in Seq(ToSet(c))
  BY WorkAssumption, LenProperties
<1>2. CASE Extended
  <2>1. PICK c \in chains : c # <<>> /\ Front(c) = tip /\ tip' = c
    BY <1>2 DEF Extended, inBounds
  <2>2. c \in Seq(ToSet(c)) /\ Len(c) \in Nat \ {0}
    BY <1>1, <2>1, EmptySeq
  <2>3. Len(SubSeq(c, 1, Len(c) - 1)) = Len(c) - 1
    <3> DEFINE n == Len(c) - 1
    <3>1. 1 \in 1 .. Len(c) + 1 /\ n \in 1 - 1 .. Len(c) /\ n - 1 + 1 = n
      BY <2>2
    <3> HIDE DEF n
    <3>2. Len(SubSeq(c, 1, n)) = n
      BY <2>2, <3>1, SubSeqProperties
    <3> QED
      BY <3>2 DEF n
  <2> QED
    BY <2>1, <2>2, <2>3 DEF Front
<1>3. CASE Outside
  BY <1>1, <1>3 DEF Outside, inBounds
<1> QED
  BY <1>2, <1>3

-----------------------------------------------------------------------------
(***************************************************************************)
(* The cache.                                                              *)
(***************************************************************************)

\* Storing a template leaves the cache with templates of its tip, one for each
\* address, and with no other that is new.
LEMMA StoredIs ==
  ASSUME NodeOK, NEW t, NEW ts \in stored(t)
  PROVE  /\ t \in ts /\ ts \subseteq templates \cup {t}
         /\ OneTip(ts)
<1> DEFINE sameTip == {u \in templates : u.prev = t.prev}
           others == {u \in sameTip : u.addr # t.addr}
<1>1. \/ \E victim \in sameTip : ts = (sameTip \ {victim}) \cup {t} /\ others = sameTip
      \/ ts = others \cup {t}
  BY DEF stored
<1>2. t \in ts /\ ts \subseteq others \cup {t}
  BY <1>1
<1>3. \A u \in others : u \in templates /\ u.prev = t.prev /\ u.addr # t.addr
  OBVIOUS
<1> HIDE DEF sameTip, others
<1>4. \A u, v \in templates : u.addr = v.addr => u = v
  BY DEF NodeOK, OneTip
<1> QED
  BY <1>2, <1>3, <1>4 DEF OneTip

\* The cache gains a template that is built now.
LEMMA NodeStores ==
  ASSUME NodeOK, Onward, NEW addr, templates' \in stored(BuildTemplate(addr))
  PROVE  NodeOK' /\ templates' \subseteq templates \cup {BuildTemplate(addr)}
<1>1. PICK new : new = BuildTemplate(addr)
  OBVIOUS
<1>2. PICK ts : ts = templates'
  OBVIOUS
<1>3. ts \subseteq templates \cup {new} /\ OneTip(ts)
  BY <1>1, <1>2, StoredIs
<1>4. IsTemplate(new) /\ Past(new)
  BY <1>1, BuiltNow
<1>5. \A u \in ts : IsTemplate(u) /\ Past(u)
  BY <1>3, <1>4 DEF NodeOK
<1>6. \A u \in templates' : IsTemplate(u) /\ Past(u)'
  BY <1>2, <1>5, PastStays
<1>7. OneTip(templates)'
  BY <1>2, <1>3 DEF OneTip
<1> QED
  BY <1>1, <1>2, <1>3, <1>6, <1>7 DEF NodeOK, Onward

-----------------------------------------------------------------------------
(***************************************************************************)
(* Steps that hand no template to the pool.                                *)
(***************************************************************************)

\* The node moves on, or forgets what it had cached.
LEMMA NodeMoves ==
  ASSUME NodeOK, Onward, templates' = templates \/ templates' = {}
  PROVE  NodeOK'
<1>1. \A t \in templates' : t \in templates
  OBVIOUS
<1>2. \A t \in templates' : IsTemplate(t) /\ Past(t)'
  BY <1>1, PastStays DEF NodeOK
<1> QED
  BY <1>1, <1>2 DEF NodeOK, OneTip, Onward

\* What a request brings, if anything, is what it brought before, or it is not the
\* pool's.
Brings(f) ==
  \/ fetches'[f] = fetches[f]
  \/ fetches'[f].pc \notin {"seed", "answered"}
  \/ f # poolFetch /\ FetchOK(fetches[f])'

\* Requests of miners, and those of the pool that end or go on without a template.
LEMMA ClientsMove ==
  ASSUME PoolWorkInv, Onward,
         DOMAIN fetches' = Fetcher, \A f \in Fetcher : Brings(f),
         DOMAIN current' = Machine,
         \A m \in Machine : current'[m] = current[m] \/ (IsWork(current[m]) /\ Fits(current[m]))',
         curWork' \in {curWork, NoWork}, fresh' => curWork' # NoWork
  PROVE  ClientsOK'
<1>1. ASSUME NEW f \in Fetcher PROVE FetchOK(fetches[f])'
  <2>1. CASE fetches'[f] = fetches[f]
    <3>1. PICK r : r = fetches[f] /\ r = fetches'[f]
      BY <2>1
    <3>2. FetchOK(r)'
      BY <3>1, PastStays DEF PoolWorkInv, ClientsOK
    <3> QED
      BY <3>1, <3>2 DEF FetchOK
  <2>2. CASE fetches'[f].pc \notin {"seed", "answered"}
    BY <2>2 DEF FetchOK
  <2> QED
    BY <2>1, <2>2 DEF Brings
<1>2. ASSUME NEW w, HeldOK(w) PROVE HeldOK(w)'
  BY <1>2, PastStays DEF PoolWorkInv
<1>3. ASSUME NEW m \in Machine PROVE HeldOK(current[m])'
  BY <1>2 DEF PoolWorkInv, ClientsOK, HeldOK
<1>4. HeldOK(curWork)'
  BY <1>2 DEF PoolWorkInv, ClientsOK, HeldOK
<1> QED
  BY <1>1, <1>3, <1>4 DEF ClientsOK

\* The order stays if the cache gains nothing.
LEMMA OrderStays ==
  ASSUME PoolOrder, templates' \subseteq templates, Brings(poolFetch),
         curWork' \in {curWork, NoWork}
  PROVE  PoolOrder'
<1>1. carried(fetches'[poolFetch]) \subseteq carried(fetches[poolFetch])
  BY DEF Brings, carried
<1>2. \A t : Older(t) => Older(t)'
  BY DEF Older
<1>3. curWork' # NoWork => curWork' = curWork
  OBVIOUS
<1> QED
  BY <1>1, <1>2, <1>3 DEF PoolOrder

\* And if what it gains is built now.
LEMMA OrderOfBuilt ==
  ASSUME NodeOK, NEW t, IsTemplate(t), Past(t), Older(t),
         NEW addr, templates' \subseteq templates \cup {BuildTemplate(addr)}
  PROVE  Older(t)'
BY BuiltNow DEF Older

\* Nothing of the pool's changes.
LEMMA OrderOfOthers ==
  ASSUME PoolWorkInv, NEW addr, templates' \subseteq templates \cup {BuildTemplate(addr)},
         fetches'[poolFetch] = fetches[poolFetch], curWork' = curWork
  PROVE  PoolOrder'
<1>1. NodeOK /\ ClientsOK /\ PoolOrder
  BY DEF PoolWorkInv
<1>2. curWork # NoWork => IsTemplate(curWork.tmpl) /\ Past(curWork.tmpl) /\ Older(curWork.tmpl)
  BY <1>1 DEF ClientsOK, HeldOK, IsWork, Fits, PoolOrder
<1>3. ASSUME NEW u, IsTemplate(u), Past(u), Older(u) PROVE Older(u)'
  BY <1>1, <1>3, OrderOfBuilt
<1>4. ASSUME curWork # NoWork PROVE Older(curWork.tmpl)'
  <2>1. PICK k : k = curWork.tmpl /\ k = (curWork.tmpl)'
    OBVIOUS
  <2>2. Older(k)'
    BY <1>2, <1>3, <1>4, <2>1
  <2> QED
    BY <2>1, <2>2 DEF Older
<1>5. ASSUME NEW u \in carried(fetches[poolFetch]) PROVE Older(u)'
  <2>1. FetchOK(fetches[poolFetch])
    BY <1>1 DEF ClientsOK, Fetcher, poolFetch
  <2>2. IsTemplate(u) /\ Past(u)
    BY <1>5, <2>1 DEF carried, FetchOK, IsWork, Fits
  <2> QED
    BY <1>1, <1>3, <1>5, <2>2 DEF PoolOrder
<1> QED
  BY <1>1, <1>4, <1>5 DEF PoolOrder

\* All steps but those of the pool's request, the pool's work and its shares.
LEMMA OthersStep ==
  ASSUME PoolWorkInv, Onward, templates' = templates \/ templates' = {},
         DOMAIN fetches' = Fetcher, \A f \in Fetcher : Brings(f),
         DOMAIN current' = Machine,
         \A m \in Machine : current'[m] = current[m] \/ (IsWork(current[m]) /\ Fits(current[m]))',
         UNCHANGED <<curWork, seen, credited>>, fresh' => fresh
  PROVE  PoolWorkInv'
<1>1. NodeOK'
  BY NodeMoves DEF PoolWorkInv
<1>2. ClientsOK'
  BY ClientsMove DEF PoolWorkInv, ClientsOK
<1>3. PoolOrder'
  BY OrderStays DEF PoolWorkInv, Fetcher, poolFetch
<1>4. Credits'
  BY DEF PoolWorkInv, Credits
<1> QED
  BY <1>1, <1>2, <1>3, <1>4 DEF PoolWorkInv

\* One request changes and brings nothing, and no miner's work changes.
LEMMA OneRequest ==
  ASSUME PoolWorkInv, Onward, templates' = templates \/ templates' = {},
         NEW f \in Fetcher, NEW r, r.pc \notin {"seed", "answered"},
         fetches' = [fetches EXCEPT ![f] = r],
         UNCHANGED <<current, curWork, seen, credited>>, fresh' => fresh
  PROVE  PoolWorkInv'
<1>1. DOMAIN fetches = Fetcher /\ DOMAIN current = Machine
  BY DEF PoolWorkInv, ClientsOK
<1>2. DOMAIN fetches' = Fetcher /\ \A g \in Fetcher : Brings(g)
  BY <1>1 DEF Brings
<1> QED
  BY <1>1, <1>2, OthersStep

\* No request changes, and no work.
LEMMA NoRequest ==
  ASSUME PoolWorkInv, Onward, templates' = templates,
         UNCHANGED <<fetches, current, curWork, seen, credited>>, fresh' => fresh
  PROVE  PoolWorkInv'
<1>1. DOMAIN fetches' = Fetcher /\ DOMAIN current' = Machine
  BY DEF PoolWorkInv, ClientsOK
<1>2. \A g \in Fetcher : Brings(g)
  BY DEF Brings
<1> QED
  BY <1>1, <1>2, OthersStep

-----------------------------------------------------------------------------
(***************************************************************************)
(* The steps of node and miners.                                           *)
(***************************************************************************)

\* Nothing of the node moves.
LEMMA NodeStays == NodeOK /\ UNCHANGED <<tip, clock, templates, voided>> => Onward
BY DEF NodeOK, Onward, Kept

\* The chain may grow.
LEMMA ChainStep ==
  ASSUME NodeOK, Extended \/ Outside \/ tip' = tip, UNCHANGED <<clock, templates, voided>>
  PROVE  Onward
BY ChainGrows DEF NodeOK, Onward, Kept

\* Time goes on.
LEMMA ClockStep ==
  ASSUME NodeOK, tip' = tip, clock' = clock + 1, Kept
  PROVE  Onward
BY DEF NodeOK, Onward

\* Requests that fail with the node.
LEMMA RestartNodeWork ==
  ASSUME PoolWorkInv, RestartNode, UNCHANGED poolVars
  PROVE  PoolWorkInv'
<1>1. Onward /\ templates' = {} /\ UNCHANGED <<current, curWork, seen, credited, fresh>>
  <2>1. tip' = tip /\ clock' = clock + 1 /\ templates' = {} /\ voided' = ofTip(voided \cup templates)
    BY DEF RestartNode
  <2>2. Kept
    BY <2>1 DEF Kept, ofTip
  <2> QED
    BY <2>1, <2>2, ClockStep DEF PoolWorkInv, RestartNode, poolVars
<1>2. DOMAIN fetches' = Fetcher /\ DOMAIN current' = Machine
  BY <1>1 DEF PoolWorkInv, ClientsOK, RestartNode
<1>3. ASSUME NEW f \in Fetcher PROVE Brings(f)
  <2>1. fetches'[f] \in {fetches[f], Idle}
    BY DEF RestartNode
  <2> QED
    BY <2>1 DEF Brings, Idle
<1> QED
  BY <1>1, <1>2, <1>3, OthersStep

\* The built-in miner asks nobody.
LEMMA BuiltinWork ==
  ASSUME PoolWorkInv, mineWorker, UNCHANGED poolVars
  PROVE  PoolWorkInv'
<1>1. /\ Extended \/ tip' = tip
      /\ UNCHANGED <<clock, templates, voided, fetches, current>>
  <2>1. CASE WorkerFound
    BY <2>1, HandedIn DEF WorkerFound
  <2>2. CASE WorkerTemplate \/ WorkerSeed \/ WorkerGivesUp
    BY <2>2 DEF WorkerTemplate, WorkerSeed, WorkerGivesUp, nodeVars
  <2> QED
    BY <2>1, <2>2 DEF mineWorker
<1>2. Onward
  BY <1>1, ChainStep DEF PoolWorkInv
<1>3. UNCHANGED <<curWork, seen, credited, fresh>>
  BY DEF poolVars
<1> QED
  BY <1>1, <1>2, <1>3, NoRequest

\* The lookup in the cache, or a template that is built and stored.
LEMMA GetTemplateWork ==
  ASSUME PoolWorkInv, NEW f \in Fetcher, getTemplate(f), UNCHANGED poolVars
  PROVE  PoolWorkInv'
<1> DEFINE addr == addrOf[who(f)]
           new == BuildTemplate(addr)
<1>1. NodeOK /\ ClientsOK /\ PoolOrder /\ Credits
  BY DEF PoolWorkInv
<1>2. PICK t, ts :
        /\ \/ t \in cached(fetches[f].at, addr) /\ ts = templates
           \/ t = new /\ ts \in stored(new) /\ cached(fetches[f].at, addr) = {}
        /\ fetches' = [fetches EXCEPT ![f] = [pc |-> "seed", tmpl |-> t]]
        /\ templates' = ts
        /\ voided' = ofTip(voided) \cup droppedBy(f, ts)
  <2>1. PICK r \in lookedUp(f) : /\ fetches' = [fetches EXCEPT ![f] = [pc |-> "seed", tmpl |-> r.tmpl]]
                                 /\ templates' = r.cache
                                 /\ voided' = ofTip(voided) \cup droppedBy(f, r.cache)
    BY DEF getTemplate, fetching
  <2>2. \/ \E t \in cached(fetches[f].at, addr) : r = [tmpl |-> t, cache |-> templates]
        \/ cached(fetches[f].at, addr) = {} /\ \E ts \in stored(new) : r = [tmpl |-> new, cache |-> ts]
    BY DEF lookedUp
  <2> HIDE DEF addr, new
  <2>3. \/ r.tmpl \in cached(fetches[f].at, addr) /\ r.cache = templates
        \/ r.tmpl = new /\ r.cache \in stored(new) /\ cached(fetches[f].at, addr) = {}
    BY <2>2
  <2> QED
    BY <2>1, <2>3
<1>3. UNCHANGED <<tip, clock, current, curWork, fresh, seen, credited>>
  BY DEF getTemplate, poolVars
<1>4. Onward
  <2>1. ASSUME NEW u \in templates, u \notin ts, u.prev = tip
        PROVE  u.addr # addr \/ fetches[f].at # tip
    BY <1>2, <2>1 DEF cached
  <2>2. Kept
    <3> HIDE DEF addr
    <3>1. \A u \in templates : u \notin ts /\ u.prev = tip => u \in voided'
      <4>1. \A u \in templates \ ts :
              u.prev = tip /\ (u.addr # addr \/ fetches[f].at # tip) => u \in droppedBy(f, ts)
        BY DEF droppedBy, addr
      <4> QED
        BY <1>2, <2>1, <4>1
    <3> QED
      BY <1>2, <1>3, <3>1 DEF Kept, ofTip
  <2> QED
    BY <1>1, <1>3, <2>2 DEF NodeOK, Onward
<1>5. IsTemplate(new) /\ Past(new) /\ new.addr = addr
  BY <1>1, BuiltNow
<1>6. IsTemplate(t) /\ Past(t) /\ t.addr = addr /\ t \in ts
  <2>1. CASE t \in cached(fetches[f].at, addr) /\ ts = templates
    BY <1>1, <2>1 DEF cached, NodeOK
  <2>2. CASE t = new /\ ts \in stored(new)
    BY <1>1, <1>5, <2>2, StoredIs
  <2> QED
    BY <1>2, <2>1, <2>2
<1>7. NodeOK' /\ ts \subseteq templates \cup {new}
  <2>1. CASE ts = templates
    BY <1>1, <1>2, <1>4, <2>1, NodeMoves
  <2>2. CASE ts \in stored(new)
    BY <1>1, <1>2, <1>4, <2>2, NodeStores
  <2> QED
    BY <1>2, <2>1, <2>2
<1>8. fetches'[f] = [pc |-> "seed", tmpl |-> t] /\ \A g \in Fetcher : g # f => fetches'[g] = fetches[g]
  BY <1>1, <1>2 DEF ClientsOK
<1>9. ClientsOK'
  <2>1. FetchOK([pc |-> "seed", tmpl |-> t])'
    <3>1. Past(t)'
      BY <1>1, <1>4, <1>6, PastStays
    <3> QED
      BY <1>2, <1>6, <3>1 DEF FetchOK, Served
  <2>2. ASSUME NEW g \in Fetcher PROVE FetchOK(fetches[g])'
    <3>1. PICK r : r = fetches'[g]
      OBVIOUS
    <3>2. FetchOK(r)'
      <4>1. CASE g = f
        BY <1>8, <2>1, <3>1, <4>1
      <4>2. CASE g # f
        BY <1>1, <1>4, <1>8, <3>1, <4>2, PastStays DEF ClientsOK
      <4> QED
        BY <4>1, <4>2
    <3> QED
      BY <3>1, <3>2 DEF FetchOK
  <2>3. \A w : HeldOK(w) => HeldOK(w)'
    BY <1>1, <1>4, PastStays
  <2>4. DOMAIN fetches' = Fetcher
    BY <1>1, <1>2 DEF ClientsOK
  <2> QED
    BY <1>1, <1>3, <2>2, <2>3, <2>4 DEF ClientsOK, HeldOK
<1>10. PoolOrder'
  <2>1. ts \subseteq templates \cup {BuildTemplate(addr)}
    BY <1>7
  <2> HIDE DEF new, addr
  <2>2. CASE f = poolFetch
    <3>1. carried(fetches'[poolFetch]) = {t} /\ addr = addrOf[Pool]
      BY <1>8, <2>2 DEF carried, addr, poolFetch, who
    <3>2. \A u \in templates' : u.addr = addrOf[Pool] => u = t
      BY <1>2, <1>6, <1>7, <3>1 DEF NodeOK, OneTip
    <3>3. Older(t)'
      BY <1>6, <3>1, <3>2, BeforeOrders DEF Older
    <3>4. ASSUME curWork # NoWork PROVE Older(curWork.tmpl)' /\ Before(curWork.tmpl, t)
      <4>1. PICK k : k = curWork.tmpl /\ k = (curWork.tmpl)'
        BY <1>3
      <4>2. IsTemplate(k) /\ Past(k) /\ Older(k)
        BY <1>1, <3>4, <4>1 DEF ClientsOK, HeldOK, IsWork, Fits, PoolOrder
      <4>3. Older(k)'
        BY <1>1, <1>2, <2>1, <4>2, OrderOfBuilt
      <4> QED
        BY <1>2, <1>6, <3>1, <4>1, <4>3 DEF Older
    <3> QED
      BY <1>3, <3>1, <3>3, <3>4 DEF PoolOrder
  <2>3. CASE f # poolFetch
    <3>1. fetches'[poolFetch] = fetches[poolFetch]
      BY <1>8, <2>3 DEF Fetcher, poolFetch
    <3> QED
      BY <1>2, <1>3, <2>1, <3>1, OrderOfOthers
  <2> QED
    BY <2>2, <2>3
<1>11. Credits'
  BY <1>1, <1>3 DEF Credits
<1> QED
  BY <1>7, <1>9, <1>10, <1>11 DEF PoolWorkInv

\* A further miner's template enters the cache.
LEMMA OthersGetworkWork ==
  ASSUME PoolWorkInv, OthersGetwork, UNCHANGED poolVars
  PROVE  PoolWorkInv'
<1>1. PICK addr \in running.others :
        /\ templates' \in stored(BuildTemplate(addr))
        /\ voided' = ofTip(voided \cup (templates \ templates'))
  BY DEF OthersGetwork
<1>2. /\ tip' = tip /\ clock' = clock + 1
      /\ UNCHANGED <<fetches, current, curWork, fresh, seen, credited>>
  BY DEF OthersGetwork, minerVars, poolVars
<1>3. Onward
  <2>1. Kept
    BY <1>1, <1>2 DEF Kept, ofTip
  <2> QED
    BY <1>2, <2>1, ClockStep DEF PoolWorkInv
<1>4. NodeOK' /\ templates' \subseteq templates \cup {BuildTemplate(addr)}
  BY <1>1, <1>3, NodeStores DEF PoolWorkInv
<1>5. DOMAIN fetches' = Fetcher /\ DOMAIN current' = Machine /\ \A g \in Fetcher : Brings(g)
  BY <1>2 DEF PoolWorkInv, ClientsOK, Brings
<1>6. ClientsOK'
  BY <1>2, <1>3, <1>5, ClientsMove DEF PoolWorkInv, ClientsOK
<1>7. PoolOrder'
  BY <1>2, <1>4, OrderOfOthers
<1>8. Credits'
  BY <1>2 DEF PoolWorkInv, Credits
<1> QED
  BY <1>4, <1>6, <1>7, <1>8 DEF PoolWorkInv

\* The seed is that of the chain of this moment.
LEMMA EpochSeedWork ==
  ASSUME PoolWorkInv, NEW f \in Fetcher, EpochSeedForNext(f), UNCHANGED poolVars
  PROVE  PoolWorkInv'
<1> DEFINE w == [tmpl |-> fetches[f].tmpl, seed |-> seedAfter(tip), tag |-> 0]
           r == [pc |-> "answered", work |-> w]
<1>1. NodeOK /\ ClientsOK /\ PoolOrder /\ Credits
  BY DEF PoolWorkInv
<1>2. /\ fetches[f].pc = "seed" /\ fetches' = [fetches EXCEPT ![f] = r]
      /\ UNCHANGED <<tip, clock, templates, voided, current, curWork, fresh, seen, credited>>
  BY DEF EpochSeedForNext, fetching, nodeVars, poolVars
<1>3. IsTemplate(fetches[f].tmpl) /\ Past(fetches[f].tmpl) /\ Served(fetches[f].tmpl)
  BY <1>1, <1>2 DEF ClientsOK, FetchOK
<1>4. r.pc = "answered" /\ r.work = w /\ w.tmpl = fetches[f].tmpl /\ w.seed = seedAfter(tip)
      /\ IsWork(w)
  BY <1>3 DEF IsWork
<1> HIDE DEF w, r
<1>5. FetchOK(r)
  BY <1>3, <1>4 DEF FetchOK, Fits
<1>6. fetches'[f] = r /\ \A g \in Fetcher : g # f => fetches'[g] = fetches[g]
  BY <1>1, <1>2 DEF ClientsOK
<1>7. NodeOK'
  BY <1>1, <1>2 DEF NodeOK, OneTip, Past
<1>8. ClientsOK'
  <2>1. \A q : FetchOK(q) => FetchOK(q)'
    BY <1>2 DEF FetchOK, Fits, Past, Served
  <2>2. \A g \in Fetcher : FetchOK(fetches[g])'
    BY <1>1, <1>5, <1>6, <2>1 DEF ClientsOK
  <2>3. \A q : HeldOK(q) => HeldOK(q)'
    BY <1>2 DEF HeldOK, Fits, Past, Served
  <2> QED
    BY <1>1, <1>2, <2>2, <2>3 DEF ClientsOK
<1>9. PoolOrder'
  <2>1. carried(r) = carried(fetches[f])
    BY <1>2, <1>4 DEF carried
  <2>2. carried(fetches'[poolFetch]) = carried(fetches[poolFetch])
    BY <1>6, <2>1 DEF poolFetch, Fetcher
  <2> QED
    BY <1>1, <1>2, <2>2 DEF PoolOrder, Older
<1>10. Credits'
  BY <1>1, <1>2 DEF Credits
<1> QED
  BY <1>7, <1>8, <1>9, <1>10 DEF PoolWorkInv

\* A miner takes what it was sent, or keeps what it has.
LEMMA FetchWorkWork ==
  ASSUME PoolWorkInv, NEW f \in Fetcher, fetchWork(f), UNCHANGED poolVars
  PROVE  PoolWorkInv'
<1>1. NodeOK /\ ClientsOK
  BY DEF PoolWorkInv
<1>2. PICK new : new = fetches[f].work
  OBVIOUS
<1>3. /\ fetches[f].pc = "answered" /\ who(f) \in Machine
      /\ fetches' = [fetches EXCEPT ![f] = Idle]
      /\ current' \in {current, [current EXCEPT ![who(f)] = new]}
      /\ UNCHANGED <<tip, clock, templates, voided, curWork, fresh, seen, credited>>
  BY <1>2 DEF fetchWork, fetching, nodeVars, poolVars
<1>4. IsWork(new) /\ Fits(new)
  BY <1>1, <1>2, <1>3 DEF ClientsOK, FetchOK
<1>5. Onward
  BY <1>1, <1>3, NodeStays
<1>6. Fits(new)'
  BY <1>3, <1>4 DEF Fits, Past, Served
<1>7. DOMAIN fetches' = Fetcher /\ DOMAIN current' = Machine
  BY <1>1, <1>3 DEF ClientsOK
<1>8. \A g \in Fetcher : Brings(g)
  BY <1>1, <1>3 DEF Brings, ClientsOK, Idle
<1>9. ASSUME NEW m \in Machine
      PROVE  current'[m] = current[m] \/ (IsWork(current[m]) /\ Fits(current[m]))'
  <2>1. current'[m] = current[m] \/ current'[m] = new
    BY <1>1, <1>3 DEF ClientsOK
  <2>2. ASSUME current'[m] = new PROVE (IsWork(current[m]) /\ Fits(current[m]))'
    BY <1>4, <1>6, <2>2
  <2> QED
    BY <2>1, <2>2
<1> QED
  BY <1>3, <1>5, <1>7, <1>8, <1>9, OthersStep

\* A miner or the node starts, moves on or loses a request.
LEMMA RequestWork ==
  ASSUME PoolWorkInv, UNCHANGED poolVars, NEW f \in Fetcher, ReadTip(f) \/ FetchLost(f)
  PROVE  PoolWorkInv'
<1>1. PICK r \in {[pc |-> "lookup", at |-> tip], Idle} : fetches' = [fetches EXCEPT ![f] = r]
  BY DEF ReadTip, FetchLost, fetching
<1>2. r.pc \notin {"seed", "answered"}
  BY DEF Idle
<1>3. UNCHANGED <<tip, clock, templates, voided, current, curWork, fresh, seen, credited>>
  BY DEF ReadTip, FetchLost, nodeVars, poolVars
<1>4. Onward
  BY <1>3, NodeStays DEF PoolWorkInv
<1> QED
  BY <1>1, <1>2, <1>3, <1>4, OneRequest

\* A miner asks for work, submits a nonce or finds one.
LEMMA MinerWork ==
  ASSUME PoolWorkInv, UNCHANGED poolVars, NEW m \in Machine, AskWork(m) \/ mineThread(m)
  PROVE  PoolWorkInv'
<1>1. <<m, "workLoop">> \in Fetcher /\ <<m, "mineThread">> \in Fetcher
  BY DEF Fetcher
<1>2. CASE AskWork(m)
  <2>1. /\ fetches' = [fetches EXCEPT ![<<m, "workLoop">>] = [pc |-> "asked"]]
        /\ UNCHANGED <<tip, clock, templates, voided, current, curWork, fresh, seen, credited>>
    BY <1>2 DEF AskWork, fetching, nodeVars, poolVars
  <2>2. Onward
    BY <2>1, NodeStays DEF PoolWorkInv
  <2> QED
    BY <1>1, <2>1, <2>2, OneRequest
<1>3. CASE Submit(m)
  <2>1. /\ fetches' = [fetches EXCEPT ![<<m, "mineThread">>] = [pc |-> "asked"]]
        /\ UNCHANGED <<clock, templates, voided, current, curWork, fresh, seen, credited>>
        /\ Extended \/ tip' = tip
    BY <1>3, HandedIn DEF Submit, submitted, fetching, poolVars
  <2>2. Onward
    BY <2>1, ChainStep DEF PoolWorkInv
  <2> QED
    BY <1>1, <2>1, <2>2, OneRequest
<1>4. CASE \E n \in Nonce : Solve(m, n)
  <2>1. UNCHANGED <<tip, clock, templates, voided, fetches, current, curWork, fresh, seen, credited>>
    BY <1>4 DEF Solve, nodeVars, poolVars
  <2>2. Onward
    BY <2>1, NodeStays DEF PoolWorkInv
  <2> QED
    BY <2>1, <2>2, NoRequest
<1> QED
  BY <1>2, <1>3, <1>4 DEF mineThread

\* Every step of the node and its clients.
LEMMA WorkNextWork ==
  ASSUME PoolWorkInv, WorkNext, UNCHANGED poolVars
  PROVE  PoolWorkInv'
<1>1. CASE Outside \/ OutsideRefused \/ Tick
  <2>1. UNCHANGED <<templates, voided, fetches, current, curWork, fresh, seen, credited>>
    BY <1>1 DEF Outside, OutsideRefused, Tick, minerVars, poolVars
  <2>2. CASE Outside \/ OutsideRefused
    <3>1. clock' = clock /\ (Outside \/ tip' = tip)
      BY <2>2 DEF Outside, OutsideRefused
    <3>2. Onward
      BY <2>1, <3>1, ChainStep DEF PoolWorkInv
    <3> QED
      BY <2>1, <3>2, NoRequest
  <2>3. CASE Tick
    <3>1. tip' = tip /\ clock' = clock + 1
      BY <2>3 DEF Tick
    <3>2. Onward
      BY <2>1, <3>1, ClockStep DEF PoolWorkInv, Kept
    <3> QED
      BY <2>1, <3>2, NoRequest
  <2> QED
    BY <1>1, <2>2, <2>3
<1>2. CASE RestartNode
  BY <1>2, RestartNodeWork
<1>3. CASE mineWorker
  BY <1>3, BuiltinWork
<1>4. ASSUME NEW f \in Fetcher, getwork(f) \/ fetchWork(f) \/ FetchLost(f)
      PROVE  PoolWorkInv'
  BY <1>4, GetTemplateWork, EpochSeedWork, FetchWorkWork, RequestWork DEF getwork
<1>5. ASSUME NEW m \in Machine, AskWork(m) \/ mineThread(m)
      PROVE  PoolWorkInv'
  BY <1>5, MinerWork
<1>6. CASE OthersGetwork
  BY <1>6, OthersGetworkWork
<1> QED
  BY <1>1, <1>2, <1>3, <1>4, <1>5, <1>6 DEF WorkNext

-----------------------------------------------------------------------------
(***************************************************************************)
(* The steps of the pool.                                                  *)
(***************************************************************************)

\* The pool asks the node, or its answers to its miners' requests fail.
LEMMA PoolAsksWork ==
  ASSUME PoolWorkInv, AskNode \/ RefreshFails
  PROVE  PoolWorkInv'
<1>1. poolFetch \in Fetcher
  BY DEF poolFetch, Fetcher
<1>2. CASE AskNode
  <2>1. /\ fetches' = [fetches EXCEPT ![poolFetch] = [pc |-> "asked"]]
        /\ UNCHANGED <<tip, clock, templates, voided, current, curWork, fresh, seen, credited>>
    BY <1>2 DEF AskNode, fetching, nodeVars, poolVars
  <2>2. Onward
    BY <2>1, NodeStays DEF PoolWorkInv
  <2> QED
    BY <1>1, <2>1, <2>2, OneRequest
<1>3. CASE RefreshFails
  <2>1. PICK f \in askers : fetches' = [fetches EXCEPT ![f] = Idle, ![poolFetch] = Idle]
    BY <1>3 DEF RefreshFails
  <2>2. UNCHANGED <<tip, clock, templates, voided, current, curWork, fresh, seen, credited>>
    BY <1>3 DEF RefreshFails, poolVars
  <2>3. Onward
    BY <2>2, NodeStays DEF PoolWorkInv
  <2>4. DOMAIN fetches = Fetcher /\ DOMAIN current = Machine
    BY DEF PoolWorkInv, ClientsOK
  <2>5. \A g \in Fetcher : fetches'[g] \in {fetches[g], Idle}
    BY <2>1, <2>4
  <2>6. DOMAIN fetches' = Fetcher /\ \A g \in Fetcher : Brings(g)
    BY <2>1, <2>4, <2>5 DEF Brings, Idle
  <2> QED
    BY <2>2, <2>3, <2>4, <2>6, OthersStep
<1> QED
  BY <1>2, <1>3

\* Two seconds pass, or a further miner is given its tag.
LEMMA PoolWaitsWork ==
  ASSUME PoolWorkInv, TwoSecondsPass \/ OthersAsk
  PROVE  PoolWorkInv'
<1>1. /\ UNCHANGED <<tip, clock, templates, voided, fetches, current, curWork, seen, credited>>
      /\ fresh' => fresh
  BY DEF TwoSecondsPass, OthersAsk, nodeVars, minerVars
<1>2. Onward
  BY <1>1, NodeStays DEF PoolWorkInv
<1> QED
  BY <1>1, <1>2, NoRequest

\* The pool answers with the work it keeps and the miner's tag.
LEMMA PoolAnswersWork ==
  ASSUME PoolWorkInv, NEW f \in Fetcher, getworkHandler(f)
  PROVE  PoolWorkInv'
<1>1. NodeOK /\ ClientsOK
  BY DEF PoolWorkInv
<1>2. PICK tag : fetches' = [fetches EXCEPT ![f] = [pc |-> "answered", work |-> [curWork EXCEPT !.tag = tag]]]
  BY DEF getworkHandler, fetching
<1>3. /\ f \in askers /\ workMuFree /\ fresh
      /\ UNCHANGED <<tip, clock, templates, voided, current, curWork, fresh, seen, credited>>
  BY DEF getworkHandler, nodeVars
<1>4. f # poolFetch
  <2>1. fetches[f].pc = "asked"
    BY <1>3 DEF askers
  <2> QED
    BY <1>3, <2>1 DEF workMuFree, Idle
<1>5. PICK w : w = [curWork EXCEPT !.tag = tag]
  OBVIOUS
<1>6. IsWork(curWork) /\ Fits(curWork)
  BY <1>1, <1>3 DEF ClientsOK, HeldOK
<1>7. IsWork(w) /\ Fits(w)
  <2>1. w.tmpl = curWork.tmpl /\ w.seed = curWork.seed /\ w = [tmpl |-> w.tmpl, seed |-> w.seed, tag |-> w.tag]
    BY <1>5, <1>6 DEF IsWork
  <2> QED
    BY <1>6, <2>1 DEF IsWork, Fits
<1>8. Fits(w)'
  BY <1>3, <1>7 DEF Fits, Past, Served
<1>9. /\ DOMAIN fetches' = Fetcher /\ DOMAIN current' = Machine
      /\ fetches'[f] = [pc |-> "answered", work |-> w]
      /\ \A g \in Fetcher : g # f => fetches'[g] = fetches[g]
  BY <1>1, <1>2, <1>3, <1>5 DEF ClientsOK
<1>10. \A g \in Fetcher : Brings(g)
  <2>1. FetchOK(fetches[f])'
    BY <1>7, <1>8, <1>9 DEF FetchOK
  <2> QED
    BY <1>4, <1>9, <2>1 DEF Brings
<1>11. Onward
  BY <1>1, <1>3, NodeStays
<1> QED
  BY <1>3, <1>9, <1>10, <1>11, OthersStep

\* A block of the pool's reaches the node, or is lost on the way.
LEMMA PoolForwardsWork ==
  ASSUME PoolWorkInv, NEW m \in Machine, Forward(m) \/ ForwardLost(m)
  PROVE  PoolWorkInv'
<1>1. <<m, "mineThread">> \in Fetcher
  BY DEF Fetcher
<1>2. /\ fetches' = [fetches EXCEPT ![<<m, "mineThread">>] = [pc |-> "asked"]]
      /\ UNCHANGED <<clock, templates, voided, current, curWork, fresh, seen, credited>>
      /\ Extended \/ tip' = tip
  BY HandedIn DEF Forward, ForwardLost, submitted, fetching, poolVars
<1>3. Onward
  BY <1>2, ChainStep DEF PoolWorkInv
<1> QED
  BY <1>1, <1>2, <1>3, OneRequest

\* The pool starts again with nothing.
LEMMA RestartPoolWork ==
  ASSUME PoolWorkInv, RestartPool
  PROVE  PoolWorkInv'
<1>1. /\ UNCHANGED <<tip, clock, templates, voided, current>>
      /\ curWork' = NoWork /\ fresh' = FALSE /\ credited' = NoCredit
  BY DEF RestartPool
<1>2. NodeOK /\ DOMAIN current = Machine
  BY DEF PoolWorkInv, ClientsOK
<1>3. Onward
  BY <1>1, <1>2, NodeStays
<1>4. DOMAIN fetches' = Fetcher /\ \A f \in Fetcher : fetches'[f] \in {fetches[f], Idle}
  BY DEF RestartPool
<1>5. \A f \in Fetcher : Brings(f)
  BY <1>4 DEF Brings, Idle
<1>6. NodeOK'
  BY <1>1, <1>2, <1>3, NodeMoves
<1>7. ClientsOK'
  BY <1>1, <1>2, <1>3, <1>4, <1>5, ClientsMove
<1>8. PoolOrder'
  BY <1>1, <1>5, OrderStays DEF PoolWorkInv, Fetcher, poolFetch
<1>9. Credits'
  BY <1>1 DEF Credits, NoCredit
<1> QED
  BY <1>6, <1>7, <1>8, <1>9 DEF PoolWorkInv

\* The pool takes what the node answered.  It is no older than what the pool has, so
\* a nonce that was credited for it is one that was seen for it.
LEMMA RefreshWorkWork ==
  ASSUME PoolWorkInv, refreshWork
  PROVE  PoolWorkInv'
<1>1. NodeOK /\ ClientsOK /\ PoolOrder /\ Credits /\ poolFetch \in Fetcher
  BY DEF PoolWorkInv, poolFetch, Fetcher
<1>2. PICK new : new = fetches[poolFetch].work
  OBVIOUS
<1>3. /\ fetches[poolFetch].pc = "answered"
      /\ curWork' = IF replaces(new, curWork) THEN new ELSE curWork
      /\ seen' = IF replaces(new, curWork) THEN {} ELSE seen
      /\ credited' = Restrict(credited, {c \in DOMAIN credited : c.tmpl.prev = new.tmpl.prev})
      /\ fetches' = [fetches EXCEPT ![poolFetch] = Idle]
      /\ UNCHANGED <<tip, clock, templates, voided, current>>
  BY <1>2 DEF refreshWork, fetching, nodeVars
<1>4. IsWork(new) /\ Fits(new)
  BY <1>1, <1>2, <1>3 DEF ClientsOK, FetchOK
<1>5. /\ Older(new.tmpl)
      /\ curWork # NoWork => Older(curWork.tmpl) /\ Before(curWork.tmpl, new.tmpl)
  BY <1>1, <1>2, <1>3 DEF PoolOrder, carried
<1>6. PICK work : work = curWork'
  OBVIOUS
<1>7. /\ IsWork(work) /\ Fits(work) /\ work # NoWork /\ work.tmpl = new.tmpl
      /\ replaces(new, curWork) \/ (curWork # NoWork /\ seen' = seen)
  <2>1. CASE replaces(new, curWork)
    BY <1>3, <1>4, <1>6, <2>1, WorkIsSome
  <2>2. CASE ~replaces(new, curWork)
    <3>1. curWork # NoWork /\ new.tmpl = curWork.tmpl
      BY <2>2 DEF replaces
    <3>2. work = curWork /\ IsWork(curWork) /\ Fits(curWork)
      BY <1>1, <1>3, <1>6, <2>2, <3>1 DEF ClientsOK, HeldOK
    <3> QED
      BY <1>3, <2>2, <3>1, <3>2
  <2> QED
    BY <2>1, <2>2
<1>8. NodeOK'
  BY <1>1, <1>3 DEF NodeOK, OneTip, Past
<1>9. ClientsOK'
  <2>1. \A q : Fits(q) => Fits(q)'
    BY <1>3 DEF Fits, Past, Served
  <2>2. \A q : FetchOK(q) => FetchOK(q)'
    BY <1>3 DEF FetchOK, Fits, Past, Served
  <2>3. \A g \in Fetcher : FetchOK(fetches[g])'
    BY <1>1, <1>3, <2>2 DEF ClientsOK, FetchOK, Idle
  <2>4. \A m \in Machine : HeldOK(current[m])'
    BY <1>1, <1>3, <2>1 DEF ClientsOK, HeldOK
  <2>5. HeldOK(work)' /\ work # NoWork
    BY <1>7, <2>1 DEF HeldOK
  <2>6. HeldOK(curWork)' /\ curWork' # NoWork
    BY <1>6, <2>5 DEF HeldOK
  <2> QED
    BY <1>1, <1>3, <2>3, <2>4, <2>6 DEF ClientsOK
<1>10. PoolOrder'
  <2>1. carried(fetches'[poolFetch]) = {}
    BY <1>1, <1>3 DEF ClientsOK, carried, Idle
  <2>2. Older(work.tmpl)'
    BY <1>3, <1>5, <1>7 DEF Older
  <2> QED
    BY <1>6, <2>1, <2>2 DEF PoolOrder, Older
<1>11. Credits'
  <2>1. DOMAIN credited' \subseteq DOMAIN credited /\ \A c \in DOMAIN credited' : credited'[c] = credited[c]
    BY <1>3 DEF Restrict
  <2>2. ASSUME NEW c \in DOMAIN credited'
        PROVE  /\ credited'[c] = 1 /\ work # NoWork
               /\ IsTemplate(c.tmpl) /\ c.tmpl.addr = addrOf[Pool]
               /\ Before(c.tmpl, work.tmpl)
               /\ c.tmpl = work.tmpl => c.nonce \in seen'
    <3>1. /\ credited[c] = 1 /\ curWork # NoWork
          /\ IsTemplate(c.tmpl) /\ c.tmpl.addr = addrOf[Pool]
          /\ Before(c.tmpl, curWork.tmpl)
          /\ c.tmpl = curWork.tmpl => c.nonce \in seen
      BY <1>1, <2>1 DEF Credits
    <3>2. IsTemplate(curWork.tmpl) /\ IsTemplate(new.tmpl)
      BY <1>1, <1>4, <3>1 DEF ClientsOK, HeldOK, IsWork
    <3>3. Before(c.tmpl, new.tmpl)
      BY <1>5, <3>1, <3>2, BeforeOrders
    <3>4. ASSUME c.tmpl = new.tmpl PROVE c.tmpl = curWork.tmpl
      <4>1. Before(curWork.tmpl, c.tmpl) /\ curWork.tmpl.addr = c.tmpl.addr
        BY <1>5, <3>1, <3>4 DEF Older
      <4> QED
        BY <3>1, <3>2, <4>1, BeforeOrders
    <3>5. ASSUME c.tmpl = new.tmpl PROVE c.nonce \in seen'
      <4>1. ~replaces(new, curWork)
        BY <3>1, <3>4, <3>5 DEF replaces
      <4> QED
        BY <1>7, <3>1, <3>4, <3>5, <4>1
    <3> QED
      BY <1>7, <2>1, <2>2, <3>1, <3>3, <3>5
  <2> QED
    BY <1>6, <2>2 DEF Credits
<1> QED
  BY <1>8, <1>9, <1>10, <1>11 DEF PoolWorkInv

\* A share is credited only if its nonce was not seen for the pool's work.
LEMMA ShareWork ==
  ASSUME PoolWorkInv, NEW m \in Machine, submitworkHandler(m)
  PROVE  PoolWorkInv'
<1>1. NodeOK /\ ClientsOK /\ PoolOrder /\ Credits /\ <<m, "mineThread">> \in Fetcher
  BY DEF PoolWorkInv, Fetcher
<1>2. /\ UNCHANGED <<tip, clock, templates, voided, current, curWork, fresh>>
      /\ fetches' \in {fetches, [fetches EXCEPT ![<<m, "mineThread">>] = [pc |-> "asked"]]}
      /\ seen \subseteq seen'
      /\ \/ credited' = credited
         \/ /\ curWork # NoWork /\ nonceOf(m) \notin seen /\ nonceOf(m) \in seen'
            /\ credited' = creditedOnce(credit(m))
  BY DEF submitworkHandler, isStale, submitted, fetching, nodeVars
<1>3. Onward
  BY <1>1, <1>2, NodeStays
<1>4. /\ DOMAIN fetches' = Fetcher /\ DOMAIN current' = Machine
      /\ \A f \in Fetcher : Brings(f)
  BY <1>1, <1>2 DEF ClientsOK, Brings
<1>5. NodeOK'
  BY <1>1, <1>2, <1>3, NodeMoves
<1>6. ClientsOK'
  BY <1>1, <1>2, <1>3, <1>4, ClientsMove DEF ClientsOK
<1>7. PoolOrder'
  BY <1>1, <1>2, <1>4, OrderStays DEF Fetcher, poolFetch
<1>8. Credits'
  <2>1. CASE credited' = credited
    BY <1>1, <1>2, <2>1 DEF Credits
  <2>2. CASE /\ curWork # NoWork /\ nonceOf(m) \notin seen /\ nonceOf(m) \in seen'
             /\ credited' = creditedOnce(credit(m))
    <3>1. PICK share : share = credit(m)
      OBVIOUS
    <3>2. share.tmpl = curWork.tmpl /\ share.nonce = nonceOf(m)
      BY <3>1 DEF credit
    <3>3. share \notin DOMAIN credited
      BY <1>1, <2>2, <3>2 DEF Credits
    <3>4. /\ DOMAIN credited' = {share} \cup DOMAIN credited
          /\ credited'[share] = 0 + 1
          /\ \A c \in DOMAIN credited : credited'[c] = credited[c]
      BY <1>1, <2>2, <3>1, <3>3 DEF timesCredited, creditedOnce, Credits
    <3>5. /\ IsTemplate(curWork.tmpl) /\ curWork.tmpl.addr = addrOf[Pool]
          /\ Before(curWork.tmpl, curWork.tmpl)
      <4>1. IsTemplate(curWork.tmpl)
        BY <1>1, <2>2 DEF ClientsOK, HeldOK, IsWork
      <4> QED
        BY <1>1, <2>2, <4>1, BeforeOrders DEF PoolOrder, Older
    <3>6. ASSUME NEW c \in DOMAIN credited'
          PROVE  /\ credited'[c] = 1 /\ curWork # NoWork
                 /\ IsTemplate(c.tmpl) /\ c.tmpl.addr = addrOf[Pool]
                 /\ Before(c.tmpl, curWork.tmpl)
                 /\ c.tmpl = curWork.tmpl => c.nonce \in seen'
      <4>1. CASE c = share
        BY <2>2, <3>2, <3>4, <3>5, <4>1
      <4>2. CASE c \in DOMAIN credited
        BY <1>1, <1>2, <3>4, <4>2 DEF Credits
      <4> QED
        BY <3>4, <3>6, <4>1, <4>2
    <3> QED
      BY <1>2, <3>6 DEF Credits
  <2> QED
    BY <1>2, <2>1, <2>2
<1> QED
  BY <1>5, <1>6, <1>7, <1>8 DEF PoolWorkInv

-----------------------------------------------------------------------------
(***************************************************************************)
(* The theorems.                                                           *)
(***************************************************************************)

\* Nothing has been handed out at the start.
LEMMA PoolWorkInitInv == PoolWorkInit => PoolWorkInv
<1> SUFFICES ASSUME PoolWorkInit PROVE PoolWorkInv
  OBVIOUS
<1> USE DEF PoolWorkInit, WorkInit
<1>1. NodeOK
  <2>1. Len(tip) \in Nat /\ clock \in Nat
    BY EmptySeq
  <2> QED
    BY <2>1 DEF NodeOK, OneTip
<1>2. ClientsOK
  BY DEF ClientsOK, FetchOK, HeldOK, Idle
<1>3. PoolOrder
  BY DEF PoolOrder, carried, Idle, Fetcher, poolFetch
<1>4. Credits
  BY DEF Credits, NoCredit
<1> QED
  BY <1>1, <1>2, <1>3, <1>4 DEF PoolWorkInv

\* Every step keeps the templates in order.
LEMMA PoolWorkStep == PoolWorkInv /\ [PoolWorkNext]_vars => PoolWorkInv'
<1> SUFFICES ASSUME PoolWorkInv, [PoolWorkNext]_vars PROVE PoolWorkInv'
  OBVIOUS
<1>1. CASE WorkNext /\ UNCHANGED poolVars
  BY <1>1, WorkNextWork
<1>2. CASE poolStep
  <2>1. ASSUME NEW f \in Fetcher, getworkHandler(f) PROVE PoolWorkInv'
    BY <2>1, PoolAnswersWork
  <2>2. ASSUME NEW m \in Machine, submitworkHandler(m) PROVE PoolWorkInv'
    BY <2>2, ShareWork
  <2>3. ASSUME NEW m \in Machine, Forward(m) PROVE PoolWorkInv'
    BY <2>3, PoolForwardsWork
  <2> QED
    BY <1>2, <2>1, <2>2, <2>3, PoolAsksWork, RefreshWorkWork, PoolWaitsWork DEF poolStep
<1>3. CASE RefreshFails
  BY <1>3, PoolAsksWork
<1>4. CASE RestartPool
  BY <1>4, RestartPoolWork
<1>5. ASSUME NEW m \in Machine, ForwardLost(m) PROVE PoolWorkInv'
  BY <1>5, PoolForwardsWork
<1>6. CASE UNCHANGED vars
  <2>1. /\ UNCHANGED <<tip, clock, templates, voided, fetches, current, curWork, fresh, seen, credited>>
    BY <1>6 DEF vars, nodeVars, minerVars, poolVars
  <2>2. Onward
    BY <2>1, NodeStays DEF PoolWorkInv
  <2> QED
    BY <2>1, <2>2, NoRequest
<1> QED
  BY <1>1, <1>2, <1>3, <1>4, <1>5, <1>6 DEF PoolWorkNext

\* For any clients, however their requests overlap, fail or outlive a restart of
\* the node or the pool: templates stay in the order they were built in.
THEOREM PoolWorkInvariant == PoolWorkSpec => []PoolWorkInv
BY PoolWorkInitInv, PoolWorkStep, PTL DEF PoolWorkSpec

\* getTemplate, "Serve a STABLE template per tip": whatever a miner or the pool
\* works on for the node's present tip is in the cache that its nonces are judged by,
\* or the cache lost it to a restart, to its cap or to a request that was overtaken.
THEOREM ServedSafety == PoolWorkSpec => []WorkIsServed
<1>1. ASSUME PoolWorkInv PROVE WorkIsServed
  <2>1. \A m \in Machine : HeldOK(current[m])
    BY <1>1 DEF PoolWorkInv, ClientsOK
  <2>2. HeldOK(curWork)
    BY <1>1 DEF PoolWorkInv, ClientsOK
  <2>3. \A w : HeldOK(w) /\ w # NoWork /\ w.tmpl.prev = tip => w.tmpl \in templates \cup voided
    BY DEF HeldOK, Fits, Served
  <2> QED
    BY <2>1, <2>2, <2>3 DEF WorkIsServed
<1> QED
  BY <1>1, PoolWorkInvariant, PTL

\* getwork reads template and seed apart, and yet no miner and no pool ever holds
\* work for the node's present tip that is to be hashed under another epoch's seed.
THEOREM SeedSafety == PoolWorkSpec => []SeedFitsWork
<1>1. ASSUME PoolWorkInv PROVE SeedFitsWork
  <2>1. \A m \in Machine : HeldOK(current[m])
    BY <1>1 DEF PoolWorkInv, ClientsOK
  <2>2. HeldOK(curWork)
    BY <1>1 DEF PoolWorkInv, ClientsOK
  <2>3. \A w : HeldOK(w) /\ w # NoWork /\ w.tmpl.prev = tip => w.seed = seedAfter(tip)
    BY DEF HeldOK, Fits
  <2> QED
    BY <2>1, <2>2, <2>3 DEF SeedFitsWork
<1> QED
  BY <1>1, PoolWorkInvariant, PTL

\* submitworkHandler: a nonce found for work on a tip is one share, though the
\* pool forgets the nonces it has seen with every new work.
THEOREM ShareSafety == PoolWorkSpec => []SharesCountOnce
<1>1. PoolWorkInv => SharesCountOnce
  BY DEF PoolWorkInv, Credits, SharesCountOnce
<1> QED
  BY <1>1, PoolWorkInvariant, PTL
=============================================================================
