------------------------------- MODULE MCPool -------------------------------
(***************************************************************************)
(* PoolPayout with a miner that is owed something at the start, and the    *)
(* wallet as the second one.                                               *)
(***************************************************************************)
EXTENDS PoolPayout

CONSTANTS pool, m, wallet, other

MCOwedAtStart == (m :> 3) @@ (wallet :> 0)
=============================================================================
