------------------------------- MODULE NeuroVM -------------------------------
(***************************************************************************)
(* The machine that hashes a header: it fills its scratchpad and makes a   *)
(* program from the header, and runs the program a number of times.  A     *)
(* miner's thread uses one machine for all its hashes.                     *)
(*                                                                         *)
(* Words are narrow here and every mixing of two words is addition; of     *)
(* each class of operations there is one: registers only, a read and a     *)
(* write of the scratchpad, the conditional branch.                        *)
(***************************************************************************)
EXTENDS Integers, FiniteSets, Functions

CONSTANTS
  Header,        \* numbers: all that is expanded from a header starts from its number
  ProgSize,      \* instructions of a program
  Expansions,    \* the programs headers may be expanded to
  Loops,
  maxTaken,      \* how often one branch is taken in a loop
  wordSize,      \* words are 0 .. wordSize-1
  scratchWords,
  branchMask,    \* a branch is taken when its value is a multiple of this
  usesDataset    \* headers of blocks at or above DatasetHeight

Register == {0, 1}

\* The addresses of a program, and what may stand there.
Places == 0 .. ProgSize - 1
Instructions ==
  [op : {"IADD", "LOAD", "STORE", "CBRANCH"}, d : Register, s : Register, imm : Nat]

ASSUME VMAssumption ==
  /\ Header \subseteq Nat /\ usesDataset \subseteq Header
  /\ ProgSize \in Nat /\ Loops \in Nat /\ maxTaken \in Nat
  /\ branchMask \in Nat \ {0} /\ wordSize \in Nat \ {0} /\ scratchWords \in Nat \ {0}
  /\ Register \subseteq 0 .. scratchWords - 1
  /\ \A p \in Expansions : p \in [Header -> [Places -> Instructions]]

VARIABLES
  programOf,   \* header -> its program, chosen once
  vm,          \* the buffers that are kept from hash to hash
  hash,        \* the hash under way
  steps,       \* history: instructions since the loop began
  digests      \* history: header -> every result it had

vmVars == <<programOf, vm, hash, steps, digests>>

word(x) == x % wordSize

fillScratch(h) == [a \in 0..(scratchWords - 1) |-> word(h + a)]
datasetWord(a) == word(a * a)
NoTaken(prog) == [i \in DOMAIN prog |-> 0]

NewVM ==
  [prog    |-> [i \in {} |-> 0],
   scratch |-> [a \in 0..(scratchWords - 1) |-> 0],
   taken   |-> [i \in {} |-> 0]]

Idle == [at |-> "idle"]

address(x) == x % scratchWords
mixed(f, i, x) == [f EXCEPT ![i] = word(@ + x)]

-----------------------------------------------------------------------------
\* Seeded fault: the scratchpad is not filled again.
expanded_scratchKept(h) == [vm EXCEPT !.prog = programOf[h]]

\* The buffers at the start of a hash.
expanded(h) == [vm EXCEPT !.prog = programOf[h], !.scratch = fillScratch(h)]

Hash(h) ==
  /\ hash = Idle
  /\ vm' = expanded(h)
  /\ hash' = [at |-> "loop", header |-> h, loop |-> 0, pc |-> 0,
              r |-> [i \in Register |-> word(h + fillScratch(h)[i])]]
  /\ steps' = 0
  /\ UNCHANGED <<programOf, digests>>

BeginLoop ==
  /\ hash.at = "loop" /\ hash.loop < Loops
  /\ vm' = [vm EXCEPT !.taken = NoTaken(vm.prog)]
  /\ hash' = [hash EXCEPT !.at = "run", !.pc = 0]
  /\ steps' = 0
  /\ UNCHANGED <<programOf, digests>>

back(ins) == (ins.imm % 31) + 1

\* Seeded fault: nothing bounds a branch.
branches_unbounded(ins) == ins.op = "CBRANCH" /\ word(hash.r[ins.d] + ins.imm) % branchMask = 0

branches(ins) ==
  /\ ins.op = "CBRANCH"
  /\ word(hash.r[ins.d] + ins.imm) % branchMask = 0
  /\ vm.taken[hash.pc] < maxTaken

registersAfter(ins) ==
  CASE ins.op = "IADD" -> mixed(hash.r, ins.d, hash.r[ins.s] + ins.imm)
    [] ins.op = "LOAD" -> mixed(hash.r, ins.d, vm.scratch[address(hash.r[ins.s] + ins.imm)])
    [] OTHER           -> hash.r

scratchAfter(ins) ==
  IF ins.op = "STORE"
  THEN mixed(vm.scratch, address(hash.r[ins.d] + ins.imm), hash.r[ins.s] + hash.loop)
  ELSE vm.scratch

Instruction ==
  /\ hash.at = "run" /\ hash.pc \in DOMAIN vm.prog
  /\ LET ins == vm.prog[hash.pc]
     IN  IF branches(ins)
         THEN /\ hash' = [hash EXCEPT !.pc = IF @ > back(ins) THEN @ - back(ins) ELSE 0]
              /\ vm' = [vm EXCEPT !.taken[hash.pc] = @ + 1]
         ELSE /\ hash' = [hash EXCEPT !.pc = @ + 1, !.r = registersAfter(ins)]
              /\ vm' = [vm EXCEPT !.scratch = scratchAfter(ins)]
  /\ steps' = steps + 1
  /\ UNCHANGED <<programOf, digests>>

\* A read of the dataset at an address the registers give, and the registers back
\* into the scratchpad.
EndLoop ==
  /\ hash.at = "run" /\ hash.pc \notin DOMAIN vm.prog
  /\ LET r    == IF hash.header \in usesDataset
                 THEN mixed(hash.r, 0, datasetWord(hash.r[1]))
                 ELSE hash.r
         base == address(r[0] + hash.loop)
     IN  /\ hash' = [hash EXCEPT !.at = "loop", !.loop = @ + 1, !.r = r]
         /\ vm' = [vm EXCEPT !.scratch = mixed(mixed(@, base, r[0]), address(base + 1), r[1])]
  /\ UNCHANGED <<programOf, steps, digests>>

\* The digest covers the registers and the whole scratchpad.
Finish ==
  /\ hash.at = "loop" /\ hash.loop = Loops
  /\ digests' = [digests EXCEPT ![hash.header] = @ \cup {<<hash.r, vm.scratch>>}]
  /\ hash' = Idle
  /\ UNCHANGED <<programOf, vm, steps>>

VMInit ==
  /\ programOf \in Expansions
  /\ vm = NewVM /\ hash = Idle /\ steps = 0
  /\ digests = [h \in Header |-> {}]

VMStep == BeginLoop \/ Instruction \/ EndLoop \/ Finish
VMNext == VMStep \/ \E h \in Header : Hash(h)

VMSpec == VMInit /\ [][VMNext]_vmVars

-----------------------------------------------------------------------------
\* A header has one hash, whatever the machine hashed before: nothing of an earlier
\* hash is left in the buffers that are used again.
OneDigest == \A h \in Header : Cardinality(digests[h]) <= 1

\* The instructions that are run again when each branch was taken so many times: what
\* lies between its target and itself, and itself.
repeated(prog, times) ==
  SumFunctionOnSet([i \in DOMAIN prog |-> times[i] * (back(prog[i]) + 1)],
                   {i \in DOMAIN prog : prog[i].op = "CBRANCH"})

\* A loop halts, and its work is bounded whatever the program and the data: each
\* branch repeats its instructions at most maxTaken times.
WorkIsBounded ==
  hash.at = "run" =>
    steps <= ProgSize + repeated(vm.prog, [i \in DOMAIN vm.prog |-> maxTaken])
==============================================================================
