---------------------------- MODULE MiningLedger ----------------------------
(***************************************************************************)
(* Mining, the filler workload, over the same ledger as the rentals:       *)
(* orchestrator_mining.go with mining_manager.go below it and              *)
(* mining_handler.go above.  Extends RentalLedger with the mining pod of   *)
(* each provider, the goroutines that deploy or resize it, and the monitor *)
(* that reconciles the ledger with it.                                     *)
(***************************************************************************)
EXTENDS RentalLedger

CONSTANTS
  MiningAsk,  \* the GPU counts a mining request may name
  MinerSize   \* [Scalar -> Nat]: CPU and memory of a mining pod

ASSUME MiningAssumption ==
  /\ MiningAsk \subseteq Nat \ {0}
  /\ MinerSize \in [Scalar -> Nat]

VARIABLES
  miner,      \* the mining pod of a provider: none, running, dying or ended
  deploying,  \* providers whose registration is about to start mining
  resizing    \* providers with an UpdateMiningPodGPU goroutine under way

mining == <<miner, deploying, resizing>>
allVars == <<vars, mining>>

\* Everything of the renting side but the ledger and the bounds.
rest == <<up, stored, known, creating, deleting, kubernetes, watch, sweep,
          ghosts>>

Mines(p) == up /\ p \in known
SetMiner(p, s) == miner' = [miner EXCEPT ![p] = s]

-----------------------------------------------------------------------------
(* Deploying and stopping *)

\* DeployMiningForProvider.  The lazy initialisation and the reset of an
\* empty pool stay when the request is then refused or the pod not created;
\* a pod that exists already counts as created.
DeployMining(p, n, refused) ==
  \E t \in MiningTypes(ledger[p], Machine[p]) :
    LET c == PrepareMining(ledger[p], Machine[p], t)
    IN IF c.availGPU[t] >= n /\ ~ refused
       THEN /\ ledger' = [ledger EXCEPT ![p] = Deploy(c, t, n, MinerSize)]
            /\ miner' = [miner EXCEPT ![p] = IF @ = "none" THEN "running" ELSE @]
       ELSE /\ ledger' = [ledger EXCEPT ![p] = c]
            /\ UNCHANGED miner

Refusal(refused) == IF refused THEN {"apiFails"} ELSE {}

\* POST /mining/start.
StartMining(p) ==
  /\ Mines(p)
  /\ \E n \in MiningAsk, refused \in BOOLEAN :
       /\ SpendAll({"startMining"} \cup Refusal(refused))
       /\ DeployMining(p, n, refused)
  /\ UNCHANGED <<rest, deploying, resizing>>

\* The goroutine of handleRegistration, some time after the registration.
DeployRegistered(p) ==
  /\ up
  /\ p \in deploying
  /\ deploying' = deploying \ {p}
  /\ \E refused \in BOOLEAN :
       /\ SpendAll(Refusal(refused))
       /\ IF p \in known THEN DeployMining(p, Machine[p].reserve, refused)
          ELSE UNCHANGED <<ledger, miner>>
  /\ UNCHANGED <<rest, resizing>>

\* POST /mining/stop: pod first, and on an error nothing else.
StopMining(p) ==
  /\ Mines(p)
  /\ Spend("stopMining")
  /\ miner' = [miner EXCEPT ![p] = IF @ = "running" THEN "dying"
                                   ELSE IF @ = "ended" THEN "none" ELSE @]
  /\ ledger' = [ledger EXCEPT
                  ![p] = [ReturnMining(@) EXCEPT !.miningPod = FALSE]]
  /\ UNCHANGED <<rest, deploying, resizing>>

-----------------------------------------------------------------------------
(* Resizing *)

\* Mutants: no check of what is on offer, or of what is mining.
AllocateUnchecked(p) ==
  /\ Mines(p)
  /\ Spend("resizeMining")
  /\ \E t \in GPUType, n \in MiningAsk :
       ledger' = [ledger EXCEPT ![p] = AllocateMining(@, t, n)]
  /\ resizing' = resizing \cup {p}
  /\ UNCHANGED <<rest, miner, deploying>>

ReleaseUnchecked(p) ==
  /\ Mines(p)
  /\ Spend("resizeMining")
  /\ \E t \in GPUType, n \in MiningAsk :
       ledger' = [ledger EXCEPT ![p] = ReleaseMining(@, t, n)]
  /\ resizing' = resizing \cup {p}
  /\ UNCHANGED <<rest, miner, deploying>>

\* AllocateMiningGPU and ReleaseMiningGPU: the ledger at once, under the type
\* the request names or "default"; the pod later, in a goroutine.
AllocateMiningGPU(p) ==
  /\ Mines(p)
  /\ Spend("resizeMining")
  /\ \E t \in GPUType, n \in MiningAsk :
       /\ ledger[p].availGPU[t] >= n
       /\ ledger' = [ledger EXCEPT ![p] = AllocateMining(@, t, n)]
  /\ resizing' = resizing \cup {p}
  /\ UNCHANGED <<rest, miner, deploying>>

ReleaseMiningGPU(p) ==
  /\ Mines(p)
  /\ Spend("resizeMining")
  /\ \E t \in GPUType, n \in MiningAsk :
       /\ ledger[p].miningGPU[t] >= n
       /\ ledger' = [ledger EXCEPT ![p] = ReleaseMining(@, t, n)]
  /\ resizing' = resizing \cup {p}
  /\ UNCHANGED <<rest, miner, deploying>>

\* UpdateMiningPodGPU deletes the pod and creates it at once under the same
\* name.  A running pod is still there then, so the creation is refused.  The
\* goroutine holds the context of an HTTP request that has been answered, so
\* it may also be cancelled before the deletion or before the creation.
ResizeMiner(p) ==
  /\ up
  /\ p \in resizing
  /\ resizing' = resizing \ {p}
  /\ \/ UNCHANGED miner
     \/ miner[p] = "running" /\ SetMiner(p, "dying")
     \/ miner[p] \in {"none", "ended"} /\ SetMiner(p, "running")
     \/ miner[p] = "ended" /\ SetMiner(p, "none")
  /\ UNCHANGED <<rest, ledger, spent, deploying>>

-----------------------------------------------------------------------------
(* Kubernetes and the monitor *)

MinerEnds(p) ==
  /\ miner[p] = "running"
  /\ Spend("minerEnds")
  /\ SetMiner(p, "ended")
  /\ UNCHANGED <<rest, ledger, deploying, resizing>>

MinerRemoved(p) ==
  /\ miner[p] = "dying"
  /\ SetMiner(p, "none")
  /\ UNCHANGED <<rest, ledger, spent, deploying, resizing>>

\* The statuses "failed" and "stopped" of GetMiningPodStatus.
Stopped(p) == miner[p] \in {"none", "ended"}
Reclaimable(p) ==
  p \in known /\ ledger[p].miningPod /\ Stopped(p)
    /\ MiningGPUCount(ledger[p]) > 0

\* Mutant: a pod that is gone is taken for a pod whose status is unknown.
SyncEndedOnly ==
  /\ up
  /\ ledger' = [p \in Provider |->
                  IF Reclaimable(p) /\ miner[p] = "ended"
                  THEN ReturnMining(ledger[p]) ELSE ledger[p]]
  /\ UNCHANGED <<rest, mining, spent>>

\* syncMiningPodStates: one pass under the lock over the providers that have
\* a pod name; those whose status cannot be read are left for the next pass.
SyncMining ==
  /\ up
  /\ \E unread \in SUBSET {p \in Provider : Reclaimable(p)} :
       /\ SpendIf(unread # {}, "apiFails")
       /\ ledger' = [p \in Provider |->
                       IF Reclaimable(p) /\ p \notin unread
                       THEN ReturnMining(ledger[p]) ELSE ledger[p]]
  /\ UNCHANGED <<rest, mining>>

-----------------------------------------------------------------------------
(* The renting side, with what its steps do here *)

RegisterProvider(p) ==
  /\ Register(p)
  /\ deploying' = IF Machine[p].reserve > 0 THEN deploying \cup {p}
                  ELSE deploying
  /\ UNCHANGED <<miner, resizing>>

CrashAll ==
  /\ Crash
  /\ deploying' = {} /\ resizing' = {}
  /\ UNCHANGED miner

\* RecoverMiningStates: only the pod's name comes back, for any pod there is.
\* A provider whose pod cannot be looked up is passed over for good.
Boot ==
  /\ \E found \in SUBSET {p \in Provider : miner[p] # "none"} : BootWith(found)
  /\ UNCHANGED mining

RentalStep ==
  \/ \E j \in Job : CheckRequest(j) \/ DeleteLookup(j)
  \/ \E j \in Job : CreateStep(j) \/ DeleteStep(j)
  \/ \E j \in Job : PodEnds(j) \/ PodExpires(j) \/ PodRemoved(j)
  \/ WatchStep \/ WatchDrops \/ SweepStep

MiningInit ==
  /\ Init
  /\ miner = [p \in Provider |-> "none"]
  /\ deploying = {} /\ resizing = {}

MiningStep(p) ==
  StartMining(p) \/ DeployRegistered(p) \/ StopMining(p)
    \/ AllocateMiningGPU(p) \/ ReleaseMiningGPU(p) \/ ResizeMiner(p)
    \/ MinerEnds(p) \/ MinerRemoved(p)

MiningNext ==
  \/ \E p \in Provider : RegisterProvider(p) \/ MiningStep(p)
  \/ SyncMining
  \/ RentalStep /\ UNCHANGED mining
  \/ CrashAll \/ Boot

MiningSpec == MiningInit /\ [][MiningNext]_allVars

\* The monitor ticks while the process runs; goroutines finish; Kubernetes
\* removes what it was told to delete; the process is restarted.
MiningFairSpec ==
  /\ MiningSpec
  /\ WF_allVars(SyncMining) /\ WF_allVars(Boot)
  /\ \A p \in Provider : /\ WF_allVars(ResizeMiner(p))
                         /\ WF_allVars(DeployRegistered(p))
                         /\ WF_allVars(MinerRemoved(p))

-----------------------------------------------------------------------------
(* Properties *)

MiningTypeOK ==
  /\ TypeOK
  /\ miner \in [Provider -> {"none", "running", "dying", "ended"}]
  /\ deploying \subseteq Provider /\ resizing \subseteq Provider

\* Same process, same registration: the steps in which a ledger is continued.
Continued(p) ==
  /\ p \in known /\ p \in known'
  /\ spent'["register"] = spent["register"]

\* Rental demand wins: GPUs that go to mining come out of what was on offer to
\* renters, never out of what is rented.  DeployMiningForProvider breaks this
\* in two states and no others, and then takes no more than the machine has:
\* a pool that reads exactly zero it takes for "not initialised", and a pool
\* without a map it fills with the whole machine, whatever the owner shares.
MiningTakesFreeGPUs ==
  [][\A p \in Provider, t \in GPUType :
       Continued(p) =>
         LET c == ledger[p]
             taken == ledger'[p].miningGPU[t] - c.miningGPU[t]
             free == Offered(c, Machine[p], t)
         IN taken > 0 => \/ taken <= free
                         \/ /\ free = 0 \/ c.availNil
                            /\ taken <= SpecTotal(Machine[p])]_allVars

\* StartMining and DeployRegistered.
Deploys == spent'["startMining"] # spent["startMining"] \/ deploying' # deploying

\* What mining gives up is on offer again, all of it and at once, whoever
\* takes it back -- release, stop or the monitor.  (A deployment overwrites
\* the mining column: it is left out here.)
MiningGivesBackItsGPUs ==
  [][\A p \in Provider, t \in GPUType :
       Continued(p) /\ ~ Deploys =>
         LET given == ledger[p].miningGPU[t] - ledger'[p].miningGPU[t]
         IN given > 0 =>
              Offered(ledger'[p], Machine[p], t)
                = Offered(ledger[p], Machine[p], t) + given]_allVars

\* A mining pod that fails or disappears returns its GPUs to the pool.
DeadMinersAreReclaimed ==
  \A p \in Provider : Reclaimable(p) ~> ~ Reclaimable(p)

\* The GPUs of the rented pods and of the mining column fit the machine.
MiningNeverDisplaces ==
  \A p \in known :
    Held(p)["gpu"] + MiningGPUCount(ledger[p]) <= SpecTotal(Machine[p])
=============================================================================
