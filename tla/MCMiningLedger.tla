--------------------------- MODULE MCMiningLedger ---------------------------
(* Instances of MiningLedger for TLC: machines of two or three GPUs, one or *)
(* two one-GPU rentals, mining requests of one or two GPUs.                 *)
EXTENDS MiningLedger, TLC

CONSTANTS p1, j1, j2, model

MCGPUType == {model, DefaultType}

Agent(gpus) ==
  [kind |-> "agent", model |-> model,
   gpus |-> [t \in MCGPUType |-> IF t = model THEN gpus ELSE 0],
   sharedGPU |-> gpus, size |-> [s \in Scalar |-> 5],
   share |-> [s \in Scalar |-> 4], reserve |-> 0]

\* An SDK host that mines with one GPU from its registration on.
Miner(gpus) == [Agent(gpus) EXCEPT !.kind = "sdk", !.reserve = 1]

TwoGPUAgent == (p1 :> Agent(2))
ThreeGPUMiner == (p1 :> Miner(3))

AllAtP1 == [j \in Job |-> p1]
OneGPU == [j \in Job |-> ("gpu" :> 1) @@ ("cpu" :> 1) @@ ("mem" :> 1)]

MCHandlerDefault == [s \in Scalar |-> 2]
MCPodDefault == [s \in Scalar |-> 1]
MCMinerSize == [s \in Scalar |-> 1]

\* The bounds of a run: the events it names, and none of the others.
Limits(f) == [e \in Event |-> IF e \in DOMAIN f THEN f[e] ELSE 0]

MiningBound ==
  Limits([startMining |-> 1, resizeMining |-> 1, stopMining |-> 1,
          minerEnds |-> 1, apiFails |-> 1, crash |-> 1, register |-> 1])

\* The bounds of the run that refutes a statement of the repository.
ResetBound == Limits([startMining |-> 1])
=============================================================================
