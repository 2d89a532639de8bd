---------------------------- MODULE MCCheckpoints ---------------------------
(***************************************************************************)
(* Checkpoints with the authority's node, a node with a rival chain and a  *)
(* third one, which hears of both.                                         *)
(***************************************************************************)
EXTENDS Checkpoints

CONSTANTS auth, rival, other, NoBlock, NoMiner

MCFirstBlock == [height |-> 0, prev |-> NoBlock, work |-> 1, miner |-> NoMiner]

\* The chain `c` and on top of it blocks with the works `ws` mined by n.
grown(c, n, ws) ==
  FoldLeft(LAMBDA d, w : Append(d, [height |-> Len(d), prev |-> Last(d), work |-> w, miner |-> n]),
           c, ws)

genesis == <<MCFirstBlock>>

\* A new node between the authority's and one with a heavier chain.
NewcomerLoaded == {(auth :> grown(genesis, auth, <<1, 1>>))
                     @@ (other :> genesis)
                     @@ (rival :> grown(genesis, rival, <<1, 1, 1>>))}

\* The authority's node and another share a chain that a third outdoes: with one
\* heavy block, or with as many blocks or more, which come in two downloads.
OutdoneLoaded ==
  LET old == grown(genesis, auth, <<1, 1, 1>>)
  IN  {(auth :> old) @@ (other :> old) @@ (rival :> grown(genesis, rival, ws)) :
         ws \in {<<4>>, <<3, 1, 1>>, <<3, 1, 1, 1>>}}

MCNode == {auth, rival, other}

NewcomerSession == {[node |-> other, kind |-> "loop"]}

OutdoneSession == {[node |-> auth, kind |-> "loop"], [node |-> other, kind |-> "loop"]}
=============================================================================
