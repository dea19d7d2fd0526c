-------------------------------- MODULE Sums --------------------------------
(* Sums over finite sets: of GPUs over the models of a machine or over the  *)
(* jobs that hold them (types.go), of deposits over wallets (GPUVault.sol). *)
EXTENDS Integers, FiniteSets

\* The sum of f over S, as the number of units the members of S hold.
Total(f, S) == Cardinality(UNION {{x} \X (1 .. f[x]) : x \in S})
=============================================================================
