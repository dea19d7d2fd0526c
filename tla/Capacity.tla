------------------------------ MODULE Capacity ------------------------------
(***************************************************************************)
(* The per-provider resource ledger, provider.ProviderCapacity, and the    *)
(* pure part of every operation on it.  Each operator below takes the      *)
(* ledger of one provider and returns the ledger the Go function leaves    *)
(* behind, with every lazy initialisation and compensation it performs;    *)
(* the modules that hold the state call them under the providers lock.     *)
(*                                                                         *)
(* The code keeps the GPU columns in Go maps that may be nil.  A column is *)
(* a function of the GPU type here (a missing key reads 0), and the two    *)
(* columns whose nil-ness the code branches on carry a flag.               *)
(***************************************************************************)
EXTENDS Sums

CONSTANTS
  GPUType,      \* GPU model names, the keys of the ledger's maps
  DefaultType   \* the literal "default" that some call sites use as a key

ASSUME GPUTypeAssumption == IsFiniteSet(GPUType) /\ DefaultType \in GPUType

Scalar == {"cpu", "mem"}
NoScalar == [s \in Scalar |-> 0]
NoGPU == [t \in GPUType |-> 0]

NonNeg(n) == IF n < 0 THEN 0 ELSE n

(***************************************************************************)
(* A machine as its agent describes it: the GPUs it lists per model, the   *)
(* model it lists first, its CPU and memory ("size"), the part its owner   *)
(* shares, and the GPUs the SDK sets aside for mining.                     *)
(***************************************************************************)
Machines ==
  [kind : {"sdk", "agent"}, model : GPUType, gpus : [GPUType -> Nat],
   sharedGPU : Nat, size : [Scalar -> Nat], share : [Scalar -> Nat],
   reserve : Nat]

SpecTotal(m) == Total(m.gpus, GPUType)

\* The ledger of one provider.  No GPU column is ever negative; CPU and
\* memory are not checked on every path, so what is available of them can be.
Capacities ==
  [gpuCount : Nat, share : [Scalar -> Nat],
   totalGPU : [GPUType -> Nat],
   availGPU : [GPUType -> Nat], availNil : BOOLEAN,
   inUseGPU : [GPUType -> Nat], inUseNil : BOOLEAN,
   miningGPU : [GPUType -> Nat],
   total : [Scalar -> Nat], avail : [Scalar -> Int],
   inUse : [Scalar -> Nat], mining : [Scalar -> Nat],
   miningPod : BOOLEAN]

\* What a row of the providers table brings back: the three shared_* columns
\* survive, every map comes back nil and every newer counter zero.
Reloaded(m) ==
  [gpuCount |-> IF m.kind = "sdk" THEN SpecTotal(m) ELSE m.sharedGPU,
   share |-> m.share, totalGPU |-> NoGPU,
   availGPU |-> NoGPU, availNil |-> TRUE,
   inUseGPU |-> NoGPU, inUseNil |-> TRUE, miningGPU |-> NoGPU,
   total |-> NoScalar, avail |-> NoScalar,
   inUse |-> NoScalar, mining |-> NoScalar, miningPod |-> FALSE]

\* What a registration message brings: the agent fills the legacy fields
\* only, the SDK also the per-type maps, less its mining reserve.
Fresh(m) ==
  IF m.kind = "agent" THEN Reloaded(m)
  ELSE [Reloaded(m) EXCEPT
          !.totalGPU = m.gpus,
          !.availGPU = [t \in GPUType |-> NonNeg(m.gpus[t] - m.reserve)],
          !.availNil = FALSE,
          !.total = m.size,
          !.avail = m.share]

-----------------------------------------------------------------------------
(* Renting *)

\* The maps AllocateResources makes when it finds them nil.
InitMaps(c, m, t) ==
  [c EXCEPT
     !.availGPU[t] = IF ~ c.availNil THEN @
                     ELSE IF c.gpuCount > 0 THEN c.gpuCount ELSE SpecTotal(m),
     !.availNil = FALSE,
     !.inUseNil = FALSE]

\* The total and the available amount of a scalar, when they read zero.
InitScalar(c, m, s) ==
  LET total == IF c.total[s] # 0 THEN c.total[s]
               ELSE IF c.share[s] > 0 THEN c.share[s] ELSE m.size[s]
  IN [c EXCEPT
        !.total[s] = total,
        !.avail[s] = IF @ = 0 /\ total > 0
                     THEN total - c.inUse[s] - c.mining[s] ELSE @]

\* Mutant: a compensation forgets what is in use.
UndoForgetsInUse(c, t, n) ==
  [c EXCEPT !.availGPU[t] = @ - n, !.inUseGPU[t] = IF n < 0 THEN @ ELSE @ + n]

\* A debit moves n from available to in use; a compensation moves -n.
MoveGPU(c, t, n) ==
  [c EXCEPT !.availGPU[t] = @ - n, !.inUseGPU[t] = @ + n]

MoveScalar(c, s, n) == [c EXCEPT !.avail[s] = @ - n, !.inUse[s] = @ + n]

(***************************************************************************)
(* AllocateResources: GPU, then CPU, then memory, each checked and         *)
(* debited in turn; a shortage undoes the debits made so far but keeps     *)
(* the initialisations.  A resource that is asked for with 0 is skipped.   *)
(***************************************************************************)
Allocate(c, m, t, a) ==
  LET c0 == InitMaps(c, m, t)
      c1 == IF a.gpu > 0 THEN MoveGPU(c0, t, a.gpu) ELSE c0
      c2 == IF a.cpu > 0 THEN InitScalar(c1, m, "cpu") ELSE c1
      c3 == IF a.cpu > 0 THEN MoveScalar(c2, "cpu", a.cpu) ELSE c2
      c4 == IF a.mem > 0 THEN InitScalar(c3, m, "mem") ELSE c3
      c5 == IF a.mem > 0 THEN MoveScalar(c4, "mem", a.mem) ELSE c4
      shortGPU == a.gpu > 0 /\ c0.availGPU[t] < a.gpu
      shortCPU == a.cpu > 0 /\ c2.avail["cpu"] < a.cpu
      shortMem == a.mem > 0 /\ c4.avail["mem"] < a.mem
  IN CASE shortGPU -> [ok |-> FALSE, cap |-> c0]
       [] ~ shortGPU /\ shortCPU ->
            [ok |-> FALSE, cap |-> MoveGPU(c2, t, -a.gpu)]
       [] ~ shortGPU /\ ~ shortCPU /\ shortMem ->
            [ok |-> FALSE,
             cap |-> MoveScalar(MoveGPU(c4, t, -a.gpu), "cpu", -a.cpu)]
       [] OTHER -> [ok |-> TRUE, cap |-> c5]

\* Mutant: what is in use is not clamped at zero.
ReleaseUnclamped(c, t, a) ==
  [c EXCEPT !.availGPU[t] = @ + a.gpu, !.inUseGPU[t] = @ - a.gpu]

\* releaseJobResources: credit unconditionally, clamp only the in-use side.
Release(c, t, a) ==
  [c EXCEPT
     !.availGPU[t] = @ + a.gpu,
     !.availNil = FALSE,
     !.inUseGPU[t] = IF c.inUseNil THEN @ ELSE NonNeg(@ - a.gpu),
     !.avail = [s \in Scalar |-> @[s] + a[s]],
     !.inUse = [s \in Scalar |-> NonNeg(@[s] - a[s])]]

\* Mutant: the recovery notes what is in use and leaves it on offer.
RecoverInUseOnly(c, m, used) == [c EXCEPT !.inUseGPU[m.model] = used.gpu]

\* RecoverJobAllocations for a provider whose running pods hold "used".
Recover(c, m, used) ==
  LET t == m.model
      total == IF c.totalGPU[t] # 0 THEN c.totalGPU[t] ELSE SpecTotal(m)
  IN [c EXCEPT
        !.inUseGPU[t] = used.gpu,
        !.inUseNil = FALSE,
        !.availGPU[t] = NonNeg(total - used.gpu - c.miningGPU[t]),
        !.availNil = FALSE,
        !.inUse = [s \in Scalar |-> used[s]],
        !.avail = [s \in Scalar |->
                     IF c.total[s] > 0 THEN c.total[s] - used[s] - c.mining[s]
                     ELSE @[s]]]

-----------------------------------------------------------------------------
(* Mining *)

\* The GPU types DeployMiningForProvider may pick: any key of TotalGPUs (Go
\* iterates a map in random order), else the first model of the machine.
MiningTypes(c, m) ==
  LET keys == {t \in GPUType : c.totalGPU[t] > 0}
  IN IF keys = {} THEN {m.model} ELSE keys

\* What it does to the available column before it looks at the request: a
\* nil map is filled from the totals, and a zero entry is reset to Spec's.
PrepareMining(c, m, t) ==
  LET filled == IF ~ c.availNil THEN c.availGPU
                ELSE IF c.totalGPU # NoGPU THEN c.totalGPU
                ELSE [c.availGPU EXCEPT ![t] = SpecTotal(m)]
  IN [c EXCEPT
        !.availGPU = IF filled[t] = 0 THEN [filled EXCEPT ![t] = SpecTotal(m)]
                     ELSE filled,
        !.availNil = FALSE]

\* Its bookkeeping once the pod exists: the mining column is overwritten.
Deploy(c, t, n, size) ==
  [c EXCEPT !.miningGPU[t] = n, !.availGPU[t] = @ - n,
            !.mining = size, !.miningPod = TRUE]

AllocateMining(c, t, n) ==
  [c EXCEPT !.availGPU[t] = @ - n, !.availNil = FALSE, !.miningGPU[t] = @ + n]

ReleaseMining(c, t, n) ==
  [c EXCEPT !.availGPU[t] = @ + n, !.availNil = FALSE, !.miningGPU[t] = @ - n]

\* Mutant: the mining column is cleared and nothing given back.
ReturnNothing(c) == [c EXCEPT !.miningGPU = NoGPU, !.mining = NoScalar]

\* Mining GPUs back to the pool: what StopMiningForProvider and
\* syncMiningPodStates have in common.
ReturnMining(c) ==
  [c EXCEPT
     !.availGPU = [t \in GPUType |-> @[t] + c.miningGPU[t]],
     !.miningGPU = NoGPU,
     !.mining = NoScalar]

-----------------------------------------------------------------------------
(* Reading *)

MiningGPUCount(c) == Total(c.miningGPU, GPUType)

AvailableGPUCount(c) ==
  LET n == Total(c.availGPU, GPUType)
  IN IF n = 0 /\ c.gpuCount > 0
     THEN c.gpuCount - Total(c.inUseGPU, GPUType) ELSE n

\* GetAvailableCPUCores and GetAvailableMemoryMB.
GetAvailable(c, s) ==
  IF c.avail[s] > 0 THEN c.avail[s]
  ELSE IF c.share[s] > 0 THEN c.share[s] - c.inUse[s] ELSE 0

\* What the next rental finds in the available column: a nil map counts as
\* the machine's GPUs, since AllocateResources will fill it so.
Offered(c, m, t) ==
  IF c.availNil /\ t = m.model
  THEN IF c.gpuCount > 0 THEN c.gpuCount ELSE SpecTotal(m)
  ELSE c.availGPU[t]

Accounted(c, m, t) == Offered(c, m, t) + c.inUseGPU[t] + c.miningGPU[t]
=============================================================================
