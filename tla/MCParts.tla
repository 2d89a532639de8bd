------------------------------- MODULE MCParts -------------------------------
(***************************************************************************)
(* Three parts that share no state with each other: the node's rate        *)
(* limiter, the wallet's key store and the hashing machine.  A behaviour   *)
(* is one of one of them, so the states add up and do not multiply.        *)
(***************************************************************************)
EXTENDS RateLimiter, WalletStore, NeuroVM, TLC

VARIABLE part

partsVars == <<part, limiterVars, walletVars, vmVars>>

\* "imported" is what an import without a label is called; numbers that clash with it.
MCLabel == {<<"imported">>, <<"imported", 3>>}

ins(op, d, imm) == [op |-> op, d |-> d, s |-> 1 - d, imm |-> imm]

MCInstructions ==
  {ins("IADD", 0, 1), ins("LOAD", 1, 0), ins("STORE", 0, 1),
   ins("CBRANCH", 0, 0), ins("CBRANCH", 1, 1), ins("CBRANCH", 0, 2)}

\* Header 2 leaves something behind in every buffer.
MCScrambling ==
  (0 :> ins("LOAD", 0, 1)) @@ (1 :> ins("STORE", 1, 0)) @@ (2 :> ins("CBRANCH", 1, 1))

\* Header 1 has every program of three instructions.
MCExpansions == {(1 :> p) @@ (2 :> MCScrambling) : p \in [0..2 -> MCInstructions]}

PartsInit ==
  /\ part \in {"limiter", "wallet", "vm"}
  /\ LimiterInit /\ WalletInit /\ VMInit
  /\ part # "vm" => programOf = CHOOSE p \in MCExpansions : TRUE

PartsNext ==
  /\ UNCHANGED part
  /\ \/ part = "limiter" /\ LimiterNext /\ UNCHANGED <<walletVars, vmVars>>
     \/ part = "wallet" /\ WalletNext /\ UNCHANGED <<limiterVars, vmVars>>
     \/ part = "vm" /\ VMNext /\ UNCHANGED <<limiterVars, walletVars>>

PartsSpec == PartsInit /\ [][PartsNext]_partsVars
==============================================================================
