------------------------------ MODULE MCFaucet ------------------------------
(***************************************************************************)
(* Faucet with a visitor that claims for two addresses, and a claim for    *)
(* one of them from elsewhere.                                             *)
(***************************************************************************)
EXTENDS Faucet

CONSTANTS tap, c1, c2, c3, a1, a2, home, office, k1, k2, k3, other

MCClaimant == (c1 :> [addr |-> a1, ip |-> home])
                @@ (c2 :> [addr |-> a2, ip |-> home])
                @@ (c3 :> [addr |-> a1, ip |-> office])
=============================================================================
