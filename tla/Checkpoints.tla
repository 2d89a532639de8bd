----------------------------- MODULE Checkpoints ----------------------------
(***************************************************************************)
(* The authority's checkpoints on their way through the network: the       *)
(* signing tool (cmd/cereblix-checkpoint), the handler it posts to and     *)
(* fetchCheckpoint (node/node.go), on top of nodes that sync.  Only the    *)
(* authority can sign, so every checkpoint in play is one it signed.       *)
(***************************************************************************)
EXTENDS PeerSync

CONSTANTS
  Authority,  \* the node the signing tool talks to
  Back        \* how far behind the tip it signs, 20 by default

ASSUME CheckpointsAssumption == Authority \in Node /\ Back \in Nat

VARIABLES
  signer,   \* what the signing tool does next
  served,   \* node -> the checkpoint it serves, in memory only
  heard,    \* history: node -> the checkpoints it verified
  refused   \* history: what was posted to the authority's node and is not its own

finality == <<signer, served, heard, refused>>

NoCheckpoint == [height |-> 0]

\* Height and block are two questions to a node that moves on in between.
ReadStatus ==
  /\ signer.pc = "idle"
  /\ Height(Authority) > Back
  /\ signer' = [pc |-> "read", height |-> Height(Authority) - Back]
  /\ UNCHANGED <<vars, served, heard, refused>>

ReadBlock ==
  /\ signer.pc = "read"
  /\ signer' = IF signer.height <= Height(Authority)
               THEN [pc |-> "post",
                     cp |-> [height |-> signer.height, hash |-> BlockAt(Authority, signer.height)]]
               ELSE Idle
  /\ UNCHANGED <<vars, served, heard, refused>>

serve(n, cp) == IF cp.height >= served[n].height THEN [served EXCEPT ![n] = cp] ELSE served

hear(n, cp) == heard' = [heard EXCEPT ![n] = @ \cup {cp}]

\* The handler serves the checkpoint whether the engine took it or not.
Post ==
  /\ signer.pc = "post"
  /\ ApplyCheckpoint(Authority, signer.cp)
  /\ served' = serve(Authority, signer.cp)
  /\ hear(Authority, signer.cp)
  /\ refused' = IF matches(Authority, signer.cp) THEN refused ELSE refused \cup {signer.cp}
  /\ signer' = Idle
  /\ UNCHANGED network

\* The loop of node n asks p between two sessions.
AskCheckpoint(n, p) ==
  LET loop == [node |-> n, kind |-> "loop"]
  IN  /\ loop \in Session /\ session[loop] = Idle
      /\ p # n /\ served[p] # NoCheckpoint
      /\ become(loop, [pc |-> "checkpoint", peer |-> p, cp |-> served[p]])
      /\ UNCHANGED <<engines, gossip, disturbances, finality>>

\* The answer is there and verified; n may be on another chain by now.
fetchCheckpoint(n) ==
  LET loop == [node |-> n, kind |-> "loop"]
      cp   == session[loop].cp
  IN  /\ loop \in Session /\ session[loop].pc = "checkpoint"
      /\ ApplyCheckpoint(n, cp)
      /\ served' = IF matches(n, cp) THEN serve(n, cp) ELSE served
      /\ hear(n, cp)
      /\ refused' = IF n = Authority /\ matches(n, cp) THEN refused \ {cp} ELSE refused
      /\ become(loop, Idle)
      /\ UNCHANGED <<gossip, disturbances, signer>>

RestartNode(n) ==
  /\ Restart(n, Len(blocks[n]))
  /\ served' = [served EXCEPT ![n] = NoCheckpoint]
  /\ UNCHANGED <<signer, heard, refused>>

CheckpointsInit ==
  /\ Init
  /\ signer = Idle
  /\ served = [n \in Node |-> NoCheckpoint]
  /\ heard = [n \in Node |-> {}]
  /\ refused = {}

CheckpointsNext ==
  \/ Traffic /\ UNCHANGED finality
  \/ ReadStatus \/ ReadBlock \/ Post
  \/ \E n \in Node : fetchCheckpoint(n) \/ \E p \in Node : AskCheckpoint(n, p)
  \/ \E n \in Node : RestartNode(n)

CheckpointsSpec ==
  /\ CheckpointsInit /\ [][CheckpointsNext]_<<vars, finality>>
  /\ Fairness /\ \A n \in Node : WF_<<vars, finality>>(fetchCheckpoint(n))

-----------------------------------------------------------------------------
\* The authority's node refused the block b of height h, yet serves it.
disowned(h, b) == \E cp \in refused : cp.height = h /\ cp.hash = b

\* What is final for two nodes lies on one chain: below a node's own checkpoint
\* stands every block that is final for another, however chains and questions
\* cross.  The one way to a split is a checkpoint that the authority's own node did
\* not take, for it had moved to another chain since the tool read the block.
FinalAgreement ==
  \A n, p \in Node : \A h \in DOMAIN Checkpoints[n], k \in DOMAIN Checkpoints[p] :
    h <= k => \/ h <= Height(p) /\ BlockAt(p, h) = Checkpoints[n][h]
              \/ disowned(h, Checkpoints[n][h])
              \/ disowned(k, Checkpoints[p][k])

\* checkpoint.go:10-13: nodes trust the authority's key, "so they automatically
\* follow the authority's chain even against a higher-hashrate fork".  No node is
\* on a chain with another block where a checkpoint stands that it has verified.
FollowsAuthority ==
  \A n \in Node : \A cp \in heard[n] : cp.height <= Height(n) => matches(n, cp)
=============================================================================
