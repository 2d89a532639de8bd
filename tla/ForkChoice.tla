----------------------------- MODULE ForkChoice -----------------------------
(***************************************************************************)
(* What a node promises about the chain it follows (ARCHITECTURE.md, 4.2   *)
(* and 5), without saying how: it starts at genesis, moves only to a       *)
(* linked chain with more work, throws away at most MaxReorg blocks at a   *)
(* time, and never leaves a chain whose block it was told is final.        *)
(* Module Chain implements it: `chain` is Chain's blocks, `final` its      *)
(* Checkpoints.  A restart, a pending transaction and the clock are        *)
(* stuttering steps.                                                       *)
(***************************************************************************)
EXTENDS Integers, Sequences

CONSTANTS
  FirstBlock,   \* where every chain starts
  MaxReorg,     \* the most blocks a step may throw away, 0 for no limit
  Work(_)       \* the work of a chain

VARIABLES
  chain,        \* the blocks the node follows, the block of height h at h + 1
  final         \* height -> the block that is final there

vars == <<chain, final>>

Linked(c) ==
  /\ c # <<>> /\ c[1] = FirstBlock
  /\ \A n \in 1 .. Len(c) - 1 : c[n + 1].prev = c[n] /\ c[n + 1].height = n

\* `c` has the block of height h that `d` has, and so all below it.
Agree(c, d, h) == h < Len(c) /\ h < Len(d) /\ c[h + 1] = d[h + 1]

Init == chain = <<FirstBlock>> /\ final = [h \in {} |-> FirstBlock]

Move(c) ==
  /\ Linked(c)
  /\ Work(c) > Work(chain)
  /\ MaxReorg > 0 /\ Len(chain) > MaxReorg => Agree(c, chain, Len(chain) - MaxReorg - 1)
  /\ \A h \in DOMAIN final : Agree(c, chain, h)
  /\ chain' = c
  /\ UNCHANGED final

Finalise(h) ==
  /\ h \in 1 .. Len(chain) - 1
  /\ final' = [i \in DOMAIN final \cup {h} |-> chain[i + 1]]
  /\ UNCHANGED chain

Next == Move(chain') \/ \E h \in 1 .. Len(chain) - 1 : Finalise(h)

Spec == Init /\ [][Next]_vars
=============================================================================
