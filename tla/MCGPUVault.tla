----------------------------- MODULE MCGPUVault -----------------------------
(* An instance of GPUVault for TLC: two wallets that share one session key, *)
(* a provider, and amounts of ten tokens, so that a fee of 5 % is rounded.  *)
EXTENDS GPUVault, TLC

CONSTANTS w1, w2, k, p

MCPayee == {p, Vault}
MCPurse == (w1 :> 20) @@ (w2 :> 0) @@ (k :> 0) @@ (p :> 0)
=============================================================================
