----------------------------- MODULE MCPeerSync -----------------------------
(***************************************************************************)
(* PeerSync with two nodes that share the first block after genesis and    *)
(* then part: level, one behind, on a shorter chain with more work, on a   *)
(* fork as deep as the cap allows, behind a download in several parts.     *)
(***************************************************************************)
EXTENDS PeerSync

CONSTANTS n1, n2, NoBlock, NoMiner

MCFirstBlock == [height |-> 0, prev |-> NoBlock, work |-> 1, miner |-> NoMiner]

\* The chain `c` and on top of it blocks with the works `ws` mined by n.
grown(c, n, ws) ==
  FoldLeft(LAMBDA d, w : Append(d, [height |-> Len(d), prev |-> Last(d), work |-> w, miner |-> n]),
           c, ws)

shared == grown(<<MCFirstBlock>>, NoMiner, <<1>>)

starts(ws1, ws2) == (n1 :> grown(shared, n1, ws1)) @@ (n2 :> grown(shared, n2, ws2))

MCLoaded == {starts(<<>>, <<>>),
             starts(<<1, 1>>, <<3>>),
             starts(<<>>, <<1, 1, 1>>)}

MCNode == {n1, n2}

MCSession == {[node |-> n, kind |-> "loop"] : n \in MCNode} \cup {[node |-> n1, kind |-> "gossip"]}
=============================================================================
