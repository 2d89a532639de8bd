------------------------------- MODULE MCWork -------------------------------
(***************************************************************************)
(* PoolWork in four deployments.                                           *)
(***************************************************************************)
EXTENDS PoolWork

MCAddrOf == [ai \in Machine \cup {Pool, Builtin} |->
               IF ai \in Machine THEN "alice" ELSE ai]

\* Two branches from genesis, so that they part before the first epoch ends; the
\* second comes from the network, two blocks at once.
MCChains == {<<>>, <<1>>, <<1, 1>>, <<1, 1, 1>>, <<2, 1>>, <<2, 1, 1>>}

\* A stock miner at its node; the built-in miner; the pool with a reorganisation over
\* the epoch's end; the pool with restarts, lost answers and a second owner.
Solo == [machines |-> {"laptop"}, pooled |-> FALSE, builtin |-> FALSE, others |-> {"bob"},
         nonces |-> {2}, requests |-> 2, height |-> 2, disturbances |-> 1]
BuiltIn == [Solo EXCEPT !.machines = {}, !.builtin = TRUE, !.height = 3]
Pooled == [Solo EXCEPT !.pooled = TRUE, !.requests = 1, !.others = {}]

MCDeployments ==
  { Solo,
    BuiltIn,
    [Pooled EXCEPT !.height = 3, !.nonces = {1, 2}, !.disturbances = 0],
    [Pooled EXCEPT !.height = 1, !.nonces = Full, !.others = {"bob"}] }
=============================================================================
