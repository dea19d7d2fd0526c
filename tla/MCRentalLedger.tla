--------------------------- MODULE MCRentalLedger ---------------------------
(* Instances of RentalLedger for TLC.  One machine has two GPUs, 4 cores    *)
(* and 4 units of memory (a unit is 8 GiB), of which it shares three        *)
(* quarters; the defaults are the code's 4/2 cores and 16/8 GiB, halved.    *)
EXTENDS RentalLedger, TLC

CONSTANTS p1, j1, j2, j3, j4, model

MCGPUType == {model, DefaultType}

Agent == [kind |-> "agent", model |-> model,
          gpus |-> [t \in MCGPUType |-> IF t = model THEN 2 ELSE 0],
          sharedGPU |-> 2, size |-> [s \in Scalar |-> 5],
          share |-> [s \in Scalar |-> 4], reserve |-> 0]
SDK == [Agent EXCEPT !.kind = "sdk"]

OneAgent == (p1 :> Agent)
OneSDK == (p1 :> SDK)

Wants(gpu, cpu, mem) == ("gpu" :> gpu) @@ ("cpu" :> cpu) @@ ("mem" :> mem)

AllAtP1 == [j \in Job |-> p1]
\* j2 names neither a provider nor a GPU type.
OneAndNone == [j \in Job |-> IF j = j2 THEN NoProvider ELSE p1]

\* j2 leaves its CPU and memory fields empty.
OneAndTwo == (j1 :> Wants(1, 1, 1)) @@ (j2 :> Wants(2, 0, 0))
\* j1 and j2 take the machine; after either, j3 is short of CPU and j4 of
\* memory only.
Crowd == (j1 :> Wants(1, 1, 1)) @@ (j2 :> Wants(1, 1, 1))
           @@ (j3 :> Wants(1, 4, 1)) @@ (j4 :> Wants(1, 1, 4))
\* Two jobs that need the whole machine each.
Rivals == (j1 :> Wants(2, 1, 1)) @@ (j2 :> Wants(2, 1, 1))

MCHandlerDefault == [s \in Scalar |-> 2]
MCPodDefault == [s \in Scalar |-> 1]

\* The bounds of a run: the events it names, and none of the others.
Limits(f) == [e \in Event |-> IF e \in DOMAIN f THEN f[e] ELSE 0]

StormBound ==
  Limits([register |-> 1, crash |-> 1, recoveryFails |-> 1, drop |-> 1,
          end |-> 1, delete |-> 1, resweep |-> 1, serviceFails |-> 1,
          saveFails |-> 1, apiFails |-> 1])
RestartBound ==
  Limits([crash |-> 2, podFails |-> 1, drop |-> 1])
SweepBound ==
  Limits([crash |-> 1, drop |-> 1, end |-> 1, expire |-> 1, apiFails |-> 1,
          resweep |-> 1])

\* The bounds of the runs that refute a statement of the repository.
EndBound == Limits([end |-> 1])
RegisterBound == Limits([register |-> 1])
=============================================================================
