---------------------------- MODULE LedgerProofs ----------------------------
(***************************************************************************)
(* Theorems about RentalLedger and MiningLedger, for any providers, jobs,  *)
(* machines, requests, bounds and interleaving of the handlers, the        *)
(* workers, the mining side, crashes and Kubernetes, and the facts about   *)
(* the operators of Capacity they rest on.                                 *)
(*                                                                         *)
(* In order: what the operators of Capacity return.  The rentals: type     *)
(* correctness; ChargesTraceable; InUseOwed; RefusalIsFree; what a step    *)
(* may do to the history and the ledger; NothingForgotten;                 *)
(* FailuresAreRolledBack; NoGPUIsBookedTwice; TotalConserved;              *)
(* RentingIsLeasing.  The mining: what its operations do to a ledger       *)
(* entry; MiningTypeCorrect; MiningGivesBack; MiningTakes;                 *)
(* RentalsKeepTheirBooks.                                                  *)
(***************************************************************************)
EXTENDS MiningLedger, SumsProofs

-----------------------------------------------------------------------------
(* Capacity: the type of a ledger *)

\* A request or a pod: how much of each resource.
Amounts == [{"gpu", "cpu", "mem"} -> Nat]

LEMMA SpecTotalType ==
  ASSUME NEW m \in Machines
  PROVE  SpecTotal(m) \in Nat
BY GPUTypeAssumption, TotalType DEF SpecTotal, Machines

LEMMA ReloadedType ==
  ASSUME NEW m \in Machines
  PROVE  /\ Reloaded(m) \in Capacities
         /\ Reloaded(m).inUseGPU = NoGPU
BY SpecTotalType DEF Reloaded, Capacities, Machines, NoGPU, NoScalar

LEMMA FreshType ==
  ASSUME NEW m \in Machines
  PROVE  /\ Fresh(m) \in Capacities
         /\ Fresh(m).inUseGPU = NoGPU
<1>1. CASE m.kind = "agent"
  BY <1>1, ReloadedType DEF Fresh
<1>2. CASE m.kind # "agent"
  <2> DEFINE c == Reloaded(m)
             a == [t \in GPUType |-> NonNeg(m.gpus[t] - m.reserve)]
  <2>1. c \in Capacities /\ c.inUseGPU = NoGPU
    BY ReloadedType
  <2>2. a \in [GPUType -> Nat]
    BY DEF Machines, NonNeg
  <2>3. /\ m.gpus \in [GPUType -> Nat]
        /\ m.size \in [Scalar -> Nat]
        /\ m.share \in [Scalar -> Int]
    BY DEF Machines
  <2>4. Fresh(m) = [c EXCEPT !.totalGPU = m.gpus, !.availGPU = a,
                             !.availNil = FALSE, !.total = m.size,
                             !.avail = m.share]
    BY <1>2 DEF Fresh
  <2> HIDE DEF c, a
  <2> QED
    BY <2>1, <2>2, <2>3, <2>4 DEF Capacities
<1> QED
  BY <1>1, <1>2

LEMMA InitMapsType ==
  ASSUME NEW c \in Capacities, NEW m \in Machines, NEW t \in GPUType
  PROVE  /\ InitMaps(c, m, t) \in Capacities
         /\ InitMaps(c, m, t).inUseGPU = c.inUseGPU
         /\ ~ InitMaps(c, m, t).inUseNil
         /\ ~ InitMaps(c, m, t).availNil
         /\ InitMaps(c, m, t).inUse = c.inUse
         /\ InitMaps(c, m, t).miningGPU = c.miningGPU
<1> DEFINE n == IF ~ c.availNil THEN c.availGPU[t]
                ELSE IF c.gpuCount > 0 THEN c.gpuCount ELSE SpecTotal(m)
           a == [c.availGPU EXCEPT ![t] = n]
<1>1. n \in Nat
  BY SpecTotalType DEF Capacities
<1>2. a \in [GPUType -> Nat]
  BY <1>1 DEF Capacities
<1>3. InitMaps(c, m, t)
        = [c EXCEPT !.availGPU = a, !.availNil = FALSE, !.inUseNil = FALSE]
  BY DEF InitMaps
<1> HIDE DEF a
<1> QED
  BY <1>2, <1>3 DEF Capacities

LEMMA InitScalarType ==
  ASSUME NEW c \in Capacities, NEW m \in Machines, NEW s \in Scalar
  PROVE  /\ InitScalar(c, m, s) \in Capacities
         /\ InitScalar(c, m, s).availGPU = c.availGPU
         /\ InitScalar(c, m, s).inUseGPU = c.inUseGPU
         /\ InitScalar(c, m, s).inUse = c.inUse
         /\ InitScalar(c, m, s).inUseNil = c.inUseNil
         /\ InitScalar(c, m, s).availNil = c.availNil
         /\ InitScalar(c, m, s).miningGPU = c.miningGPU
<1> DEFINE n == IF c.total[s] # 0 THEN c.total[s]
                ELSE IF c.share[s] > 0 THEN c.share[s] ELSE m.size[s]
           k == IF c.avail[s] = 0 /\ n > 0 THEN n - c.inUse[s] - c.mining[s]
                ELSE c.avail[s]
           total == [c.total EXCEPT ![s] = n]
           avail == [c.avail EXCEPT ![s] = k]
<1>1. n \in Nat
  BY DEF Capacities, Machines
<1>2. k \in Int
  BY <1>1 DEF Capacities
<1>3. total \in [Scalar -> Nat] /\ avail \in [Scalar -> Int]
  BY <1>1, <1>2 DEF Capacities
<1>4. InitScalar(c, m, s) = [c EXCEPT !.total = total, !.avail = avail]
  BY DEF InitScalar
<1> HIDE DEF total, avail
<1> QED
  BY <1>3, <1>4 DEF Capacities

LEMMA MoveGPUType ==
  ASSUME NEW c \in Capacities, NEW t \in GPUType, NEW n \in Int,
         c.availGPU[t] - n >= 0, c.inUseGPU[t] + n >= 0
  PROVE  /\ MoveGPU(c, t, n) \in Capacities
         /\ MoveGPU(c, t, n).availGPU = [c.availGPU EXCEPT ![t] = @ - n]
         /\ MoveGPU(c, t, n).inUseGPU = [c.inUseGPU EXCEPT ![t] = @ + n]
         /\ MoveGPU(c, t, n).inUse = c.inUse
         /\ MoveGPU(c, t, n).inUseNil = c.inUseNil
         /\ MoveGPU(c, t, n).availNil = c.availNil
         /\ MoveGPU(c, t, n).miningGPU = c.miningGPU
<1> DEFINE avail == [c.availGPU EXCEPT ![t] = @ - n]
           inUse == [c.inUseGPU EXCEPT ![t] = @ + n]
<1>1. avail \in [GPUType -> Nat] /\ inUse \in [GPUType -> Nat]
  BY DEF Capacities
<1>2. MoveGPU(c, t, n) = [c EXCEPT !.availGPU = avail, !.inUseGPU = inUse]
  BY DEF MoveGPU
<1>3. /\ avail = [c.availGPU EXCEPT ![t] = @ - n]
      /\ inUse = [c.inUseGPU EXCEPT ![t] = @ + n]
  OBVIOUS
<1> HIDE DEF avail, inUse
<1>4. /\ MoveGPU(c, t, n) \in Capacities
      /\ MoveGPU(c, t, n).availGPU = avail
      /\ MoveGPU(c, t, n).inUseGPU = inUse
      /\ MoveGPU(c, t, n).inUse = c.inUse
      /\ MoveGPU(c, t, n).inUseNil = c.inUseNil
      /\ MoveGPU(c, t, n).availNil = c.availNil
      /\ MoveGPU(c, t, n).miningGPU = c.miningGPU
  BY <1>1, <1>2 DEF Capacities
<1> QED
  BY <1>3, <1>4

LEMMA MoveScalarType ==
  ASSUME NEW c \in Capacities, NEW s \in Scalar, NEW n \in Int,
         c.inUse[s] + n >= 0
  PROVE  /\ MoveScalar(c, s, n) \in Capacities
         /\ MoveScalar(c, s, n).availGPU = c.availGPU
         /\ MoveScalar(c, s, n).inUseGPU = c.inUseGPU
         /\ MoveScalar(c, s, n).inUse = [c.inUse EXCEPT ![s] = @ + n]
         /\ MoveScalar(c, s, n).inUseNil = c.inUseNil
         /\ MoveScalar(c, s, n).availNil = c.availNil
         /\ MoveScalar(c, s, n).miningGPU = c.miningGPU
<1> DEFINE avail == [c.avail EXCEPT ![s] = @ - n]
           inUse == [c.inUse EXCEPT ![s] = @ + n]
<1>1. avail \in [Scalar -> Int] /\ inUse \in [Scalar -> Nat]
  BY DEF Capacities
<1>2. MoveScalar(c, s, n) = [c EXCEPT !.avail = avail, !.inUse = inUse]
  BY DEF MoveScalar
<1> HIDE DEF avail
<1> QED
  BY <1>1, <1>2 DEF Capacities

-----------------------------------------------------------------------------
(* The columns of AllocateResources and releaseJobResources *)

\* A debit of AllocateResources is made in full or not at all: if it is
\* refused, for want of GPUs, CPU or memory, what is in use is as before and
\* the GPU column is as the lazy initialisation left it.
LEMMA AllocateColumns ==
  ASSUME NEW c \in Capacities, NEW m \in Machines, NEW t \in GPUType,
         NEW a \in Amounts
  PROVE  LET r == Allocate(c, m, t, a)
         IN /\ r.ok \in BOOLEAN
            /\ r.cap \in Capacities
            /\ ~ r.cap.inUseNil /\ ~ r.cap.availNil
            /\ r.cap.miningGPU = c.miningGPU
            /\ r.ok => /\ r.cap.inUseGPU = [c.inUseGPU EXCEPT ![t] = @ + a.gpu]
                       /\ r.cap.availGPU
                            = [InitMaps(c, m, t).availGPU EXCEPT ![t] = @ - a.gpu]
            /\ ~ r.ok => /\ r.cap.inUseGPU = c.inUseGPU
                         /\ r.cap.inUse = c.inUse
                         /\ r.cap.availGPU = InitMaps(c, m, t).availGPU
<1> DEFINE c0 == InitMaps(c, m, t)
           c1 == IF a.gpu > 0 THEN MoveGPU(c0, t, a.gpu) ELSE c0
           c2 == IF a.cpu > 0 THEN InitScalar(c1, m, "cpu") ELSE c1
           c3 == IF a.cpu > 0 THEN MoveScalar(c2, "cpu", a.cpu) ELSE c2
           c4 == IF a.mem > 0 THEN InitScalar(c3, m, "mem") ELSE c3
           c5 == IF a.mem > 0 THEN MoveScalar(c4, "mem", a.mem) ELSE c4
           shortGPU == a.gpu > 0 /\ c0.availGPU[t] < a.gpu
           shortCPU == a.cpu > 0 /\ c2.avail["cpu"] < a.cpu
           shortMem == a.mem > 0 /\ c4.avail["mem"] < a.mem
           undo == MoveGPU(c4, t, -a.gpu)
<1>1. a.gpu \in Nat /\ a.cpu \in Nat /\ a.mem \in Nat
  BY DEF Amounts
<1>2. /\ c0 \in Capacities
      /\ c0.inUseGPU = c.inUseGPU
      /\ c0.inUse = c.inUse
      /\ ~ c0.inUseNil /\ ~ c0.availNil
      /\ c0.miningGPU = c.miningGPU
  BY InitMapsType
<1>3. /\ c0.availGPU[t] \in Nat
      /\ c0.inUseGPU[t] \in Nat
      /\ c0.availGPU \in [GPUType -> Nat]
      /\ c0.inUseGPU \in [GPUType -> Nat]
  BY <1>2 DEF Capacities
<1>4. CASE shortGPU
  BY <1>2, <1>4 DEF Allocate
<1>5. CASE ~ shortGPU
  <2>1. c0.availGPU[t] - a.gpu >= 0 /\ c0.inUseGPU[t] + a.gpu >= 0
    BY <1>1, <1>3, <1>5
  <2>2. /\ c1 \in Capacities
        /\ c1.availGPU = [c0.availGPU EXCEPT ![t] = @ - a.gpu]
        /\ c1.inUseGPU = [c0.inUseGPU EXCEPT ![t] = @ + a.gpu]
        /\ c1.inUse = c.inUse
        /\ ~ c1.inUseNil /\ ~ c1.availNil
        /\ c1.miningGPU = c.miningGPU
    <3>1. CASE a.gpu > 0
      BY <1>1, <1>2, <2>1, <3>1, MoveGPUType
    <3>2. CASE ~ a.gpu > 0
      BY <1>1, <1>2, <1>3, <3>2
    <3> QED
      BY <3>1, <3>2
  <2>3. /\ c2 \in Capacities
        /\ c2.availGPU = c1.availGPU
        /\ c2.inUseGPU = c1.inUseGPU
        /\ c2.inUse = c.inUse
        /\ ~ c2.inUseNil /\ ~ c2.availNil
        /\ c2.miningGPU = c.miningGPU
    <3> HIDE DEF c1
    <3> QED
      BY <2>2, InitScalarType DEF Scalar
  <2>4. ASSUME NEW k \in Capacities,
               k.availGPU = c1.availGPU, k.inUseGPU = c1.inUseGPU,
               ~ k.inUseNil, ~ k.availNil, k.miningGPU = c.miningGPU
        PROVE  /\ MoveGPU(k, t, -a.gpu) \in Capacities
               /\ MoveGPU(k, t, -a.gpu).availGPU = c0.availGPU
               /\ MoveGPU(k, t, -a.gpu).inUseGPU = c.inUseGPU
               /\ MoveGPU(k, t, -a.gpu).inUse = k.inUse
               /\ ~ MoveGPU(k, t, -a.gpu).inUseNil
               /\ ~ MoveGPU(k, t, -a.gpu).availNil
               /\ MoveGPU(k, t, -a.gpu).miningGPU = c.miningGPU
    <3> HIDE DEF c0, c1
    <3>1. /\ k.availGPU[t] - (-a.gpu) = c0.availGPU[t]
          /\ k.inUseGPU[t] + (-a.gpu) = c0.inUseGPU[t]
          /\ -a.gpu \in Int
      BY <1>1, <1>3, <2>2, <2>4
    <3>2. /\ k.availGPU[t] - (-a.gpu) >= 0
          /\ k.inUseGPU[t] + (-a.gpu) >= 0
      BY <1>3, <3>1
    <3>3. /\ MoveGPU(k, t, -a.gpu) \in Capacities
          /\ MoveGPU(k, t, -a.gpu).availGPU
               = [k.availGPU EXCEPT ![t] = @ - (-a.gpu)]
          /\ MoveGPU(k, t, -a.gpu).inUseGPU
               = [k.inUseGPU EXCEPT ![t] = @ + (-a.gpu)]
          /\ MoveGPU(k, t, -a.gpu).inUse = k.inUse
          /\ ~ MoveGPU(k, t, -a.gpu).inUseNil
          /\ ~ MoveGPU(k, t, -a.gpu).availNil
          /\ MoveGPU(k, t, -a.gpu).miningGPU = c.miningGPU
      BY <3>1, <3>2, <2>4, MoveGPUType
    <3> QED
      BY <1>2, <1>3, <2>2, <2>4, <3>1, <3>3
  <2>5. CASE shortCPU
    <3>1. Allocate(c, m, t, a) = [ok |-> FALSE, cap |-> MoveGPU(c2, t, -a.gpu)]
      BY <1>5, <2>5 DEF Allocate
    <3> HIDE DEF c0, c1, c2
    <3> QED
      BY <2>3, <2>4, <3>1 DEF c0
  <2>6. CASE ~ shortCPU
    <3>1. /\ c3 \in Capacities
          /\ c3.availGPU = c1.availGPU
          /\ c3.inUseGPU = c1.inUseGPU
          /\ c3.inUse = [c.inUse EXCEPT !["cpu"] = @ + a.cpu]
          /\ ~ c3.inUseNil /\ ~ c3.availNil
          /\ c3.miningGPU = c.miningGPU
      <4> HIDE DEF c1, c2
      <4>1. c2.inUse["cpu"] \in Nat /\ c.inUse["cpu"] \in Nat
            /\ c.inUse \in [Scalar -> Nat]
        BY <2>3 DEF Capacities, Scalar
      <4>2. CASE a.cpu > 0
        BY <1>1, <2>3, <4>1, <4>2, MoveScalarType DEF Scalar
      <4>3. CASE ~ a.cpu > 0
        BY <1>1, <2>3, <4>1, <4>3
      <4> QED
        BY <4>2, <4>3
    <3>2. /\ c4 \in Capacities
          /\ c4.availGPU = c1.availGPU
          /\ c4.inUseGPU = c1.inUseGPU
          /\ c4.inUse = c3.inUse
          /\ ~ c4.inUseNil /\ ~ c4.availNil
          /\ c4.miningGPU = c.miningGPU
      <4> HIDE DEF c1, c3
      <4> QED
        BY <3>1, InitScalarType DEF Scalar
    <3>3. CASE shortMem
      <4>1. Allocate(c, m, t, a)
              = [ok |-> FALSE, cap |-> MoveScalar(undo, "cpu", -a.cpu)]
        BY <1>5, <2>6, <3>3 DEF Allocate
      <4> HIDE DEF c0, c1, c2, c3, c4
      <4>2. /\ undo \in Capacities
            /\ undo.availGPU = c0.availGPU
            /\ undo.inUseGPU = c.inUseGPU
            /\ undo.inUse = [c.inUse EXCEPT !["cpu"] = @ + a.cpu]
            /\ ~ undo.inUseNil /\ ~ undo.availNil
            /\ undo.miningGPU = c.miningGPU
        BY <2>4, <3>1, <3>2
      <4> HIDE DEF undo
      <4>3. /\ c.inUse \in [Scalar -> Nat]
            /\ "cpu" \in Scalar
            /\ -a.cpu \in Int
            /\ undo.inUse["cpu"] + (-a.cpu) = c.inUse["cpu"]
        BY <1>1, <4>2 DEF Capacities, Scalar
      <4>4. undo.inUse["cpu"] + (-a.cpu) >= 0
        BY <4>3
      <4>5. /\ MoveScalar(undo, "cpu", -a.cpu) \in Capacities
            /\ MoveScalar(undo, "cpu", -a.cpu).availGPU = undo.availGPU
            /\ MoveScalar(undo, "cpu", -a.cpu).inUseGPU = undo.inUseGPU
            /\ MoveScalar(undo, "cpu", -a.cpu).inUse
                 = [undo.inUse EXCEPT !["cpu"] = @ + (-a.cpu)]
            /\ ~ MoveScalar(undo, "cpu", -a.cpu).inUseNil
            /\ ~ MoveScalar(undo, "cpu", -a.cpu).availNil
            /\ MoveScalar(undo, "cpu", -a.cpu).miningGPU = undo.miningGPU
        BY <4>2, <4>3, <4>4, MoveScalarType
      <4>6. MoveScalar(undo, "cpu", -a.cpu).inUse = c.inUse
        BY <4>2, <4>3, <4>5
      <4> QED
        BY <4>1, <4>2, <4>5, <4>6 DEF c0
    <3>4. CASE ~ shortMem
      <4>1. Allocate(c, m, t, a) = [ok |-> TRUE, cap |-> c5]
        BY <1>5, <2>6, <3>4 DEF Allocate
      <4>2. /\ c5 \in Capacities
            /\ c5.inUseGPU = c1.inUseGPU
            /\ c5.availGPU = c1.availGPU
            /\ ~ c5.inUseNil /\ ~ c5.availNil
            /\ c5.miningGPU = c.miningGPU
        <5> HIDE DEF c1, c4
        <5>1. c4.inUse["mem"] \in Nat
          BY <3>2 DEF Capacities, Scalar
        <5>2. CASE a.mem > 0
          <6>1. a.mem \in Int /\ c4.inUse["mem"] + a.mem >= 0
            BY <1>1, <5>1
          <6>2. /\ MoveScalar(c4, "mem", a.mem) \in Capacities
                /\ MoveScalar(c4, "mem", a.mem).inUseGPU = c4.inUseGPU
                /\ MoveScalar(c4, "mem", a.mem).availGPU = c4.availGPU
                /\ MoveScalar(c4, "mem", a.mem).inUseNil = c4.inUseNil
                /\ MoveScalar(c4, "mem", a.mem).availNil = c4.availNil
                /\ MoveScalar(c4, "mem", a.mem).miningGPU = c4.miningGPU
            BY <3>2, <6>1, MoveScalarType DEF Scalar
          <6> QED
            BY <3>2, <5>2, <6>2
        <5>3. CASE ~ a.mem > 0
          BY <3>2, <5>3
        <5> QED
          BY <5>2, <5>3
      <4> HIDE DEF c0, c1, c5
      <4> QED
        BY <1>2, <2>2, <4>1, <4>2 DEF c0
    <3> QED
      BY <3>3, <3>4
  <2> QED
    BY <2>5, <2>6
<1> QED
  BY <1>4, <1>5

\* releaseJobResources never drives a GPU column or an in-use counter below
\* zero, whatever it is asked to give back and however often.
LEMMA ReleaseColumns ==
  ASSUME NEW c \in Capacities, NEW t \in GPUType, NEW a \in Amounts
  PROVE  /\ Release(c, t, a) \in Capacities
         /\ Release(c, t, a).inUseNil = c.inUseNil
         /\ Release(c, t, a).inUseGPU
              = [c.inUseGPU EXCEPT ![t] = IF c.inUseNil THEN @
                                          ELSE NonNeg(@ - a.gpu)]
         /\ Release(c, t, a).availGPU = [c.availGPU EXCEPT ![t] = @ + a.gpu]
         /\ ~ Release(c, t, a).availNil
         /\ Release(c, t, a).miningGPU = c.miningGPU
<1> DEFINE availGPU == [c.availGPU EXCEPT ![t] = @ + a.gpu]
           inUseGPU == [c.inUseGPU EXCEPT ![t] = IF c.inUseNil THEN @
                                                ELSE NonNeg(@ - a.gpu)]
           avail == [s \in Scalar |-> c.avail[s] + a[s]]
           inUse == [s \in Scalar |-> NonNeg(c.inUse[s] - a[s])]
<1>1. a.gpu \in Nat /\ \A s \in Scalar : a[s] \in Nat
  BY DEF Amounts, Scalar
<1>2. /\ availGPU \in [GPUType -> Nat]
      /\ inUseGPU \in [GPUType -> Nat]
  BY <1>1 DEF Capacities, NonNeg
<1>3. /\ avail \in [Scalar -> Int]
      /\ inUse \in [Scalar -> Nat]
  BY <1>1 DEF Capacities, NonNeg
<1>4. Release(c, t, a) = [c EXCEPT !.availGPU = availGPU, !.availNil = FALSE,
                                   !.inUseGPU = inUseGPU, !.avail = avail,
                                   !.inUse = inUse]
  BY DEF Release
<1> HIDE DEF avail, inUse
<1> QED
  BY <1>2, <1>3, <1>4 DEF Capacities

LEMMA RecoverColumns ==
  ASSUME NEW c \in Capacities, NEW m \in Machines, NEW u \in Amounts
  PROVE  /\ Recover(c, m, u) \in Capacities
         /\ ~ Recover(c, m, u).inUseNil
         /\ Recover(c, m, u).inUseGPU = [c.inUseGPU EXCEPT ![m.model] = u.gpu]
         /\ Recover(c, m, u).availGPU
              = [c.availGPU EXCEPT ![m.model] =
                   NonNeg((IF c.totalGPU[m.model] # 0 THEN c.totalGPU[m.model]
                           ELSE SpecTotal(m)) - u.gpu - c.miningGPU[m.model])]
         /\ ~ Recover(c, m, u).availNil
         /\ Recover(c, m, u).miningGPU = c.miningGPU
<1> DEFINE t == m.model
           total == IF c.totalGPU[t] # 0 THEN c.totalGPU[t] ELSE SpecTotal(m)
           n == NonNeg(total - u.gpu - c.miningGPU[t])
           inUseGPU == [c.inUseGPU EXCEPT ![t] = u.gpu]
           availGPU == [c.availGPU EXCEPT ![t] = n]
           inUse == [s \in Scalar |-> u[s]]
           avail == [s \in Scalar |->
                       IF c.total[s] > 0 THEN c.total[s] - u[s] - c.mining[s]
                       ELSE c.avail[s]]
<1>1. /\ u.gpu \in Nat
      /\ \A s \in Scalar : u[s] \in Nat
      /\ t \in GPUType
  BY DEF Amounts, Scalar, Machines
<1>2. total \in Nat
  BY <1>1, SpecTotalType DEF Capacities
<1>3. n \in Nat
  BY <1>1, <1>2 DEF Capacities, NonNeg
<1>4. /\ inUseGPU \in [GPUType -> Nat]
      /\ availGPU \in [GPUType -> Nat]
  BY <1>1, <1>3 DEF Capacities
<1>5. /\ inUse \in [Scalar -> Nat]
      /\ avail \in [Scalar -> Int]
  BY <1>1 DEF Capacities
<1>6. Recover(c, m, u) = [c EXCEPT !.inUseGPU = inUseGPU, !.inUseNil = FALSE,
                                   !.availGPU = availGPU, !.availNil = FALSE,
                                   !.inUse = inUse, !.avail = avail]
  BY DEF Recover
<1> HIDE DEF inUse, avail
<1> QED
  BY <1>4, <1>5, <1>6 DEF Capacities

-----------------------------------------------------------------------------
(* Constants *)

LEMMA ConstantTypes ==
  /\ \A p \in Provider : Machine[p] \in Machines /\ Model(p) \in GPUType
  /\ \A j \in Job : Placed(j) => Place[j] \in Provider
  /\ \A j \in Job : Place[j] \in Provider => Placed(j)
BY RentalAssumption DEF Model, Placed, Machines

\* Every path but DeleteJob gives back as many GPUs as were charged: the
\* handler and the pod both read an empty GPU count as one.
LEMMA AmountTypes ==
  ASSUME NEW j \in Job
  PROVE  /\ Charge(j) \in Amounts
         /\ PodSize(j) \in Amounts
         /\ Charge(j)["gpu"] = PodSize(j)["gpu"]
<1>1. Resource = {"gpu", "cpu", "mem"} /\ Scalar = {"cpu", "mem"}
  BY DEF Resource, Scalar
<1>2. \A r \in Resource : Ask[j][r] \in Nat
  BY RentalAssumption
<1>3. \A s \in Scalar : HandlerDefault[s] \in Nat /\ PodDefault[s] \in Nat
  BY RentalAssumption
<1>4. \A r \in Resource :
        /\ OrElse(Ask[j][r], IF r = "gpu" THEN 1 ELSE HandlerDefault[r]) \in Nat
        /\ OrElse(Ask[j][r], IF r = "gpu" THEN 1 ELSE PodDefault[r]) \in Nat
  BY <1>1, <1>2, <1>3 DEF OrElse
<1> QED
  BY <1>1, <1>4 DEF Charge, PodSize, Amounts

LEMMA CountedFinite ==
  ASSUME NEW S \in SUBSET Job
  PROVE  IsFiniteSet(S)
BY RentalAssumption, FS_Subset

LEMMA HeldType ==
  ASSUME NEW p \in Provider
  PROVE  Held(p) \in Amounts
<1>1. Resource = {"gpu", "cpu", "mem"}
  BY DEF Resource, Scalar
<1>2. Counted(p) \in SUBSET Job
  BY DEF Counted
<1>3. ASSUME NEW r \in Resource
      PROVE  Total([j \in Job |-> PodSize(j)[r]], Counted(p)) \in Nat
  <2>1. \A j \in Counted(p) : [k \in Job |-> PodSize(k)[r]][j] \in Nat
    BY <1>1, <1>2, AmountTypes DEF Amounts
  <2> QED
    BY <1>2, <2>1, CountedFinite, TotalType
<1> QED
  BY <1>1, <1>3 DEF Held, Amounts

-----------------------------------------------------------------------------
(* Type correctness *)

LEMMA CreditType ==
  ASSUME TypeOK, NEW p \in Provider, NEW t \in GPUType, NEW a \in Amounts,
         Credit(p, t, a)
  PROVE  ledger' \in [Provider -> Capacities]
<1>1. ledger \in [Provider -> Capacities]
  BY DEF TypeOK
<1>2. Release(ledger[p], t, a) \in Capacities
  BY <1>1, ReleaseColumns
<1> QED
  BY <1>1, <1>2 DEF Credit

LEMMA CreditPodType ==
  ASSUME TypeOK, NEW j \in Job, CreditPod(j)
  PROVE  ledger' \in [Provider -> Capacities] /\ owed' \subseteq Job
<1>1. CASE Placed(j)
  <2>1. Credit(Place[j], Model(Place[j]), PodSize(j))
    BY <1>1 DEF CreditPod
  <2>2. Place[j] \in Provider /\ Model(Place[j]) \in GPUType
    BY <1>1, ConstantTypes
  <2> QED
    BY <2>1, <2>2, AmountTypes, CreditType DEF CreditPod, TypeOK
<1>2. CASE ~ Placed(j)
  BY <1>2 DEF CreditPod, TypeOK
<1> QED
  BY <1>1, <1>2

LEMMA NoticeType ==
  ASSUME TypeOK, NEW j \in Job, NEW kind \in {"MODIFIED", "DELETED"},
         Notice(kind, j)
  PROVE  /\ events' \in Seq([kind : {"MODIFIED", "DELETED"}, job : Job])
         /\ missed' \subseteq Job
<1> DEFINE S == [kind : {"MODIFIED", "DELETED"}, job : Job]
           e == [kind |-> kind, job |-> j]
<1>1. e \in S
  OBVIOUS
<1>2. events \in Seq(S) /\ missed \subseteq Job
  BY DEF TypeOK
<1>3. /\ events' = IF watching THEN Append(events, e) ELSE events
      /\ missed' \subseteq missed \cup {j}
  BY DEF Notice
<1> HIDE DEF S, e
<1>4. events' \in Seq(S)
  BY <1>1, <1>2, <1>3
<1> QED
  BY <1>2, <1>3, <1>4 DEF S

LEMMA DeletePodType ==
  ASSUME TypeOK, NEW j \in Job, DeletePod(j)
  PROVE  /\ pod' \in [Job -> {"none", "running", "ended"}]
         /\ doomed' \subseteq Job /\ expired' \subseteq Job
         /\ events' \in Seq([kind : {"MODIFIED", "DELETED"}, job : Job])
         /\ missed' \subseteq Job
<1>1. CASE pod[j] = "ended"
  BY <1>1, NoticeType DEF DeletePod, TypeOK
<1>2. CASE pod[j] # "ended"
  BY <1>2 DEF DeletePod, TypeOK
<1> QED
  BY <1>1, <1>2

LEMMA SpendType ==
  ASSUME TypeOK, NEW E, SpendAll(E)
  PROVE  spent' \in [Event -> Nat]
BY DEF SpendAll, TypeOK

LEMMA InitType ==
  ASSUME Init
  PROVE  TypeOK
<1>1. \A p \in Provider : Reloaded(Machine[p]) \in Capacities
  BY ConstantTypes, ReloadedType
<1>2. <<>> \in Seq([kind : {"MODIFIED", "DELETED"}, job : Job])
  OBVIOUS
<1>3. /\ ledger \in [Provider -> Capacities]
      /\ events \in Seq([kind : {"MODIFIED", "DELETED"}, job : Job])
  BY <1>1, <1>2 DEF Init
<1>4. /\ creating \in [Job -> Stage]
      /\ deleting \in [Job -> {"idle", "priced", "unpriced", "erased"}]
      /\ pod \in [Job -> {"none", "running", "ended"}]
      /\ spent \in [Event -> Nat]
  BY DEF Init, Stage
<1> QED
  BY <1>3, <1>4 DEF Init, TypeOK

LEMMA RegisterType ==
  ASSUME TypeOK, NEW p \in Provider, Register(p)
  PROVE  TypeOK'
<1>1. ledger' \in [Provider -> Capacities]
  BY ConstantTypes, FreshType DEF Register, TypeOK
<1>2. spent' \in [Event -> Nat]
  BY SpendType DEF Register, Spend, SpendIf
<1>3. stored' \subseteq Provider /\ known' \subseteq Provider /\ owed' \subseteq Job
  BY DEF Register, TypeOK
<1> QED
  BY <1>1, <1>2, <1>3
  DEF Register, TypeOK, kubernetes, watch, sweep

LEMMA CheckRequestType ==
  ASSUME TypeOK, NEW j \in Job, CheckRequest(j)
  PROVE  TypeOK'
<1>1. creating' \in [Job -> Stage]
  BY DEF CheckRequest, GoTo, TypeOK, Stage
<1> QED
  BY <1>1 DEF CheckRequest, TypeOK, providers, kubernetes, watch, sweep, ghosts

LEMMA DebitType ==
  ASSUME TypeOK, NEW j \in Job, Debit(j)
  PROVE  TypeOK'
<1> DEFINE p == Place[j]
           r == Allocate(ledger[p], Machine[p], Model(p), Charge(j))
<1>1. creating' \in [Job -> Stage] /\ owed' \subseteq Job
  <2>1. \E to \in {"accepted", "failed"} : GoTo(j, to)
    BY DEF Debit
  <2>2. owed' \subseteq owed \cup {j}
    BY DEF Debit
  <2> QED
    BY <2>1, <2>2 DEF GoTo, TypeOK, Stage
<1>2. CASE p \in known
  <2>1. /\ p \in Provider
        /\ ledger \in [Provider -> Capacities]
        /\ ledger[p] \in Capacities
    BY <1>2 DEF TypeOK
  <2>2. r.cap \in Capacities
    BY <2>1, ConstantTypes, AmountTypes, AllocateColumns
  <2>3. ledger' = [ledger EXCEPT ![p] = r.cap]
    BY <1>2 DEF Debit
  <2>4. ledger' \in [Provider -> Capacities]
    BY <2>1, <2>2, <2>3
  <2> QED
    BY <1>1, <2>4 DEF Debit, TypeOK, kubernetes, watch, sweep
<1>3. CASE p \notin known
  BY <1>1, <1>3 DEF Debit, TypeOK, kubernetes, watch, sweep
<1> QED
  BY <1>2, <1>3

LEMMA CreatePodType ==
  ASSUME TypeOK, NEW j \in Job, CreatePod(j)
  PROVE  TypeOK'
<1>1. creating' \in [Job -> Stage]
  BY DEF CreatePod, GoTo, TypeOK, Stage
<1>2. spent' \in [Event -> Nat]
  BY SpendType DEF CreatePod, Spend, TypeOK
<1>3. pod' \in [Job -> {"none", "running", "ended"}]
  BY DEF CreatePod, TypeOK
<1> QED
  BY <1>1, <1>2, <1>3 DEF CreatePod, TypeOK, providers, watch, sweep, ghosts

LEMMA CreateServiceType ==
  ASSUME TypeOK, NEW j \in Job, CreateService(j)
  PROVE  TypeOK'
<1>1. creating' \in [Job -> Stage] /\ services' \subseteq Job
  BY DEF CreateService, GoTo, TypeOK, Stage
<1>2. spent' \in [Event -> Nat]
  BY SpendType DEF CreateService, Spend, TypeOK
<1> QED
  BY <1>1, <1>2 DEF CreateService, TypeOK, providers, watch, sweep, ghosts

\* The outcome of a deletion request, made or refused by the API server.
LEMMA DeletionType ==
  ASSUME TypeOK, NEW j \in Job,
         \/ DeletePod(j)
         \/ UNCHANGED <<pod, doomed, expired, events, missed>>
  PROVE  /\ pod' \in [Job -> {"none", "running", "ended"}]
         /\ doomed' \subseteq Job /\ expired' \subseteq Job
         /\ events' \in Seq([kind : {"MODIFIED", "DELETED"}, job : Job])
         /\ missed' \subseteq Job
<1>1. CASE DeletePod(j)
  BY <1>1, DeletePodType
<1>2. CASE UNCHANGED <<pod, doomed, expired, events, missed>>
  BY <1>2 DEF TypeOK
<1> QED
  BY <1>1, <1>2

LEMMA UndoPodType ==
  ASSUME TypeOK, NEW j \in Job, UndoPod(j)
  PROVE  TypeOK'
<1>1. creating' \in [Job -> Stage]
  BY DEF UndoPod, GoTo, TypeOK, Stage
<1>2. spent' \in [Event -> Nat]
  BY SpendType DEF UndoPod, Spend, TypeOK
<1>3. \/ DeletePod(j)
      \/ UNCHANGED <<pod, doomed, expired, events, missed>>
  BY DEF UndoPod
<1> QED
  BY <1>1, <1>2, <1>3, DeletionType
  DEF UndoPod, TypeOK, providers, sweep

LEMMA RollbackType ==
  ASSUME TypeOK, NEW j \in Job, Rollback(j)
  PROVE  TypeOK'
<1>1. creating' \in [Job -> Stage] /\ owed' \subseteq Job
  BY DEF Rollback, GoTo, TypeOK, Stage
<1>2. ledger' \in [Provider -> Capacities]
  <2>1. CASE Placed(j)
    BY <2>1, ConstantTypes, AmountTypes, CreditType DEF Rollback
  <2>2. CASE ~ Placed(j)
    BY <2>2 DEF Rollback, TypeOK
  <2> QED
    BY <2>1, <2>2
<1> QED
  BY <1>1, <1>2 DEF Rollback, TypeOK, kubernetes, watch, sweep

LEMMA DeleteLookupType ==
  ASSUME TypeOK, NEW j \in Job, DeleteLookup(j)
  PROVE  TypeOK'
<1>1. deleting' \in [Job -> {"idle", "priced", "unpriced", "erased"}]
  BY DEF DeleteLookup, TypeOK
<1>2. spent' \in [Event -> Nat]
  BY SpendType DEF DeleteLookup, Spend
<1> QED
  BY <1>1, <1>2
  DEF DeleteLookup, TypeOK, providers, kubernetes, watch, sweep, ghosts

LEMMA DeleteEraseType ==
  ASSUME TypeOK, NEW j \in Job, DeleteErase(j)
  PROVE  TypeOK'
<1>1. deleting' \in [Job -> {"idle", "priced", "unpriced", "erased"}]
  BY DEF DeleteErase, TypeOK
<1>2. spent' \in [Event -> Nat]
  BY SpendType DEF DeleteErase, SpendIf, TypeOK
<1>3. \/ DeletePod(j)
      \/ UNCHANGED <<pod, doomed, expired, events, missed>>
  BY DEF DeleteErase
<1>4. services' \subseteq Job
  BY DEF DeleteErase, TypeOK
<1> QED
  BY <1>1, <1>2, <1>3, <1>4, DeletionType
  DEF DeleteErase, TypeOK, providers, sweep

LEMMA PricedIsPlaced ==
  ASSUME NEW j \in Job, Place[j] \in known, TypeOK
  PROVE  Place[j] \in Provider
BY DEF TypeOK

LEMMA DeleteCreditType ==
  ASSUME TypeOK, NEW j \in Job, DeleteCredit(j)
  PROVE  TypeOK'
<1>1. deleting' \in [Job -> {"idle", "priced", "unpriced", "erased"}]
  BY DEF DeleteCredit, TypeOK
<1>2. ledger' \in [Provider -> Capacities]
  <2>1. CASE Place[j] \in known
    BY <2>1, PricedIsPlaced, AmountTypes, GPUTypeAssumption, CreditType
    DEF DeleteCredit
  <2>2. CASE Place[j] \notin known
    BY <2>2 DEF DeleteCredit, Credit, TypeOK
  <2> QED
    BY <2>1, <2>2
<1>3. owed' \subseteq Job
  BY DEF DeleteCredit, TypeOK
<1> QED
  BY <1>1, <1>2, <1>3 DEF DeleteCredit, TypeOK, kubernetes, watch, sweep

LEMMA PodEndsType ==
  ASSUME TypeOK, NEW j \in Job, PodEnds(j)
  PROVE  TypeOK'
<1>1. pod' \in [Job -> {"none", "running", "ended"}]
  BY DEF PodEnds, TypeOK
<1>2. spent' \in [Event -> Nat]
  BY SpendType DEF PodEnds, Spend
<1>3. /\ events' \in Seq([kind : {"MODIFIED", "DELETED"}, job : Job])
      /\ missed' \subseteq Job
  BY NoticeType DEF PodEnds
<1> QED
  BY <1>1, <1>2, <1>3 DEF PodEnds, TypeOK, providers, sweep

LEMMA PodExpiresType ==
  ASSUME TypeOK, NEW j \in Job, PodExpires(j)
  PROVE  TypeOK'
<1>1. spent' \in [Event -> Nat]
  BY SpendType DEF PodExpires, Spend
<1> QED
  BY <1>1 DEF PodExpires, TypeOK, providers, watch, sweep, ghosts

LEMMA PodRemovedType ==
  ASSUME TypeOK, NEW j \in Job, PodRemoved(j)
  PROVE  TypeOK'
<1>1. pod' \in [Job -> {"none", "running", "ended"}]
  BY DEF PodRemoved, TypeOK
<1>2. /\ events' \in Seq([kind : {"MODIFIED", "DELETED"}, job : Job])
      /\ missed' \subseteq Job
  BY NoticeType DEF PodRemoved
<1> QED
  BY <1>1, <1>2 DEF PodRemoved, TypeOK, providers, sweep

LEMMA HandleEventType ==
  ASSUME TypeOK, HandleEvent
  PROVE  TypeOK'
<1> DEFINE S == [kind : {"MODIFIED", "DELETED"}, job : Job]
<1>1. events \in Seq(S) /\ events # <<>> /\ events' = Tail(events)
  BY DEF HandleEvent, TypeOK
<1>2. Head(events).job \in Job
  <2> HIDE DEF S
  <2>1. Head(events) \in S
    BY <1>1
  <2> QED
    BY <2>1 DEF S
<1>3. ledger' \in [Provider -> Capacities] /\ owed' \subseteq Job
  BY <1>2, CreditPodType DEF HandleEvent
<1>4. events' \in Seq(S)
  <2> HIDE DEF S
  <2> QED
    BY <1>1
<1> QED
  BY <1>3, <1>4 DEF HandleEvent, TypeOK, kubernetes, sweep

LEMMA WatchDropsType ==
  ASSUME TypeOK, WatchDrops
  PROVE  TypeOK'
<1>1. spent' \in [Event -> Nat]
  BY SpendType DEF WatchDrops, Spend
<1> QED
  BY <1>1 DEF WatchDrops, TypeOK, providers, kubernetes, sweep, ghosts

LEMMA WatchStartsType ==
  ASSUME TypeOK, WatchStarts
  PROVE  TypeOK'
BY DEF WatchStarts, TypeOK, providers, kubernetes, sweep, ghosts

LEMMA SweepListType ==
  ASSUME TypeOK, SweepList
  PROVE  TypeOK'
<1>1. spent' \in [Event -> Nat]
  BY SpendType DEF SweepList, SpendIf
<1>2. sweepTodo' \subseteq Job
  BY DEF SweepList, Sweepable
<1> QED
  BY <1>1, <1>2 DEF SweepList, TypeOK, providers, kubernetes, watch, ghosts

LEMMA SweepCreditType ==
  ASSUME TypeOK, NEW j \in Job, SweepCredit(j)
  PROVE  TypeOK'
<1>1. ledger' \in [Provider -> Capacities] /\ owed' \subseteq Job
  BY CreditPodType DEF SweepCredit
<1> QED
  BY <1>1 DEF SweepCredit, TypeOK, kubernetes, watch

LEMMA SweepDeleteType ==
  ASSUME TypeOK, SweepDelete
  PROVE  TypeOK'
<1>1. sweepCur \in Job
  BY DEF SweepDelete, TypeOK
<1>2. spent' \in [Event -> Nat]
  BY SpendType DEF SweepDelete, Spend, TypeOK
<1>3. \/ DeletePod(sweepCur)
      \/ UNCHANGED <<pod, doomed, expired, events, missed>>
  BY DEF SweepDelete
<1> QED
  BY <1>1, <1>2, <1>3, DeletionType
  DEF SweepDelete, TypeOK, providers, sweep

LEMMA CrashType ==
  ASSUME TypeOK, Crash
  PROVE  TypeOK'
<1>1. ledger' \in [Provider -> Capacities]
  BY ConstantTypes, ReloadedType DEF Crash
<1>2. spent' \in [Event -> Nat]
  BY SpendType DEF Crash, Spend
<1>3. /\ creating' \in [Job -> Stage]
      /\ deleting' \in [Job -> {"idle", "priced", "unpriced", "erased"}]
  BY DEF Crash, TypeOK, Stage
<1>4. events' \in Seq([kind : {"MODIFIED", "DELETED"}, job : Job])
  BY DEF Crash
<1> QED
  BY <1>1, <1>2, <1>3, <1>4 DEF Crash, TypeOK, kubernetes

\* What the boot leaves in the ledger of a provider.
LEMMA BootLedger ==
  ASSUME NEW p \in Provider, NEW b \in BOOLEAN
  PROVE  LET c == [Reloaded(Machine[p]) EXCEPT !.miningPod = b]
         IN /\ c \in Capacities
            /\ c.inUseGPU = NoGPU
            /\ Recover(c, Machine[p], Held(p)) \in Capacities
            /\ ~ Recover(c, Machine[p], Held(p)).inUseNil
            /\ Recover(c, Machine[p], Held(p)).inUseGPU
                 = [NoGPU EXCEPT ![Model(p)] = Held(p).gpu]
<1> DEFINE c == [Reloaded(Machine[p]) EXCEPT !.miningPod = b]
<1>1. /\ Reloaded(Machine[p]) \in Capacities
      /\ Reloaded(Machine[p]).inUseGPU = NoGPU
  BY ConstantTypes, ReloadedType
<1>2. c \in Capacities /\ c.inUseGPU = NoGPU
  BY <1>1 DEF Capacities
<1> HIDE DEF c
<1>3. Machine[p] \in Machines /\ Held(p) \in Amounts
  BY ConstantTypes, HeldType
<1>4. /\ Recover(c, Machine[p], Held(p)) \in Capacities
      /\ ~ Recover(c, Machine[p], Held(p)).inUseNil
      /\ Recover(c, Machine[p], Held(p)).inUseGPU
           = [c.inUseGPU EXCEPT ![Machine[p].model] = Held(p).gpu]
  BY <1>2, <1>3, RecoverColumns
<1> QED
  BY <1>2, <1>4 DEF Model, c

LEMMA BootType ==
  ASSUME TypeOK, NEW miners, BootWith(miners)
  PROVE  TypeOK'
<1>1. PICK loaded \in BOOLEAN, listed \in BOOLEAN :
        /\ SpendIf(~ (loaded /\ listed), "recoveryFails")
        /\ known' = IF loaded THEN stored ELSE {}
        /\ owed' = {j \in Job : listed /\ \E p \in known' : j \in Counted(p)}
        /\ ledger' = [p \in Provider |->
             LET c == [Reloaded(Machine[p]) EXCEPT
                         !.miningPod = p \in known' /\ p \in miners]
             IN IF p \in known' /\ listed /\ Counted(p) # {}
                THEN Recover(c, Machine[p], Held(p)) ELSE c]
  BY DEF BootWith
<1>2. ASSUME NEW p \in Provider
      PROVE  ledger'[p] \in Capacities
  <2> DEFINE b == p \in known' /\ p \in miners
             c == [Reloaded(Machine[p]) EXCEPT !.miningPod = b]
  <2>1. c \in Capacities /\ Recover(c, Machine[p], Held(p)) \in Capacities
    BY BootLedger
  <2>2. \/ ledger'[p] = c
        \/ ledger'[p] = Recover(c, Machine[p], Held(p))
    BY <1>1
  <2> HIDE DEF c
  <2> QED
    BY <2>1, <2>2
<1>3. ledger' \in [Provider -> Capacities]
  BY <1>1, <1>2
<1>4. spent' \in [Event -> Nat]
  BY <1>1, SpendType DEF SpendIf
<1>5. known' \subseteq Provider /\ owed' \subseteq Job
  BY <1>1 DEF TypeOK
<1> QED
  BY <1>3, <1>4, <1>5 DEF BootWith, TypeOK, kubernetes, watch, sweep

LEMMA NextType ==
  ASSUME TypeOK, [Next]_vars
  PROVE  TypeOK'
<1>1. CASE \E p \in Provider : Register(p)
  BY <1>1, RegisterType
<1>2. CASE \E j \in Job : CheckRequest(j) \/ DeleteLookup(j)
  BY <1>2, CheckRequestType, DeleteLookupType
<1>3. CASE \E j \in Job : CreateStep(j)
  BY <1>3, DebitType, CreatePodType, CreateServiceType, UndoPodType,
     RollbackType
  DEF CreateStep
<1>4. CASE \E j \in Job : DeleteStep(j)
  BY <1>4, DeleteEraseType, DeleteCreditType DEF DeleteStep
<1>5. CASE \E j \in Job : PodEnds(j) \/ PodExpires(j) \/ PodRemoved(j)
  BY <1>5, PodEndsType, PodExpiresType, PodRemovedType
<1>6. CASE WatchStep \/ WatchDrops
  BY <1>6, HandleEventType, WatchStartsType, WatchDropsType DEF WatchStep
<1>7. CASE SweepStep
  BY <1>7, SweepListType, SweepCreditType, SweepDeleteType DEF SweepStep
<1>8. CASE Crash \/ BootWith({})
  BY <1>8, CrashType, BootType
<1>9. CASE UNCHANGED vars
  BY <1>9 DEF TypeOK, vars, providers, kubernetes, watch, sweep, ghosts
<1> QED
  BY <1>1, <1>2, <1>3, <1>4, <1>5, <1>6, <1>7, <1>8, <1>9 DEF Next

\* In every reachable state every variable has its type.  What is not plain:
\* no interleaving of debits, rollbacks, repeated credits, recoveries and
\* registrations drives a GPU column or an in-use counter below zero.
THEOREM TypeCorrect == Spec => []TypeOK
<1>1. Init => TypeOK
  BY InitType
<1>2. TypeOK /\ [Next]_vars => TypeOK'
  BY NextType
<1> QED
  BY <1>1, <1>2, PTL DEF Spec

-----------------------------------------------------------------------------
(* Every charge can be traced *)

\* A pod that goes leaves its last event in the channel, or is missed.
LEMMA NoticeTraces ==
  ASSUME TypeOK, ChargesAreTraceable, NEW j \in Job,
         NEW kind \in {"MODIFIED", "DELETED"}, Notice(kind, j),
         UNCHANGED owed,
         \A k \in Job \ {j} : creating'[k] = creating[k],
         \A k \in Job \ {j} : pod[k] # "none" => pod'[k] # "none",
         pod'[j] = "none" => kind = "DELETED"
  PROVE  ChargesAreTraceable'
<1> DEFINE S == [kind : {"MODIFIED", "DELETED"}, job : Job]
           e == [kind |-> kind, job |-> j]
<1>1. events \in Seq(S) /\ e \in S /\ e.job = j
  BY DEF TypeOK
<1>2. /\ events' = IF watching THEN Append(events, e) ELSE events
      /\ missed \subseteq missed'
      /\ ~ watching /\ kind = "DELETED" => j \in missed'
  BY DEF Notice
<1> HIDE DEF e
<1>3. /\ Len(events) \in Nat /\ Len(events) <= Len(events')
      /\ \A i \in 1 .. Len(events) : events'[i] = events[i]
      /\ watching => /\ Len(events') = Len(events) + 1
                     /\ events'[Len(events')] = e
  <2> HIDE DEF S
  <2>1. CASE watching
    BY <1>1, <1>2, <2>1
  <2>2. CASE ~ watching
    BY <1>1, <1>2, <2>2
  <2> QED
    BY <2>1, <2>2
<1>4. ASSUME NEW i \in 1 .. Len(events)
      PROVE  i \in 1 .. Len(events') /\ events'[i] = events[i]
  BY <1>1, <1>2, <1>3, <1>4
<1>5. watching => \E i \in 1 .. Len(events') : events'[i].job = j
  <2> SUFFICES ASSUME watching
               PROVE  \E i \in 1 .. Len(events') : events'[i].job = j
    OBVIOUS
  <2>1. Len(events') \in 1 .. Len(events')
    BY <1>3
  <2> QED
    BY <1>1, <1>3, <2>1
<1>6. SUFFICES ASSUME NEW k \in owed', k \notin Malformed,
                      pod'[k] = "none",
                      creating'[k] \notin {"accepted", "undo"},
                      k \notin missed'
               PROVE  \E i \in 1 .. Len(events') : events'[i].job = k
  BY DEF ChargesAreTraceable
<1>7. k \in owed /\ k \in Job
  BY DEF TypeOK
<1>8. CASE k = j
  BY <1>2, <1>5, <1>6, <1>8
<1>9. CASE k # j
  <2>1. pod[k] = "none" /\ k \notin missed
    BY <1>2, <1>6, <1>7, <1>9
  <2>2. PICK i \in 1 .. Len(events) : events[i].job = k
    BY <1>6, <1>7, <1>9, <2>1 DEF ChargesAreTraceable
  <2> QED
    BY <1>4, <2>2
<1> QED
  BY <1>8, <1>9

LEMMA DeletionTraces ==
  ASSUME TypeOK, ChargesAreTraceable, NEW j \in Job,
         \/ DeletePod(j)
         \/ UNCHANGED <<pod, doomed, expired, events, missed>>,
         UNCHANGED owed,
         \A k \in Job \ {j} : creating'[k] = creating[k],
         creating'[j] \in {creating[j], "undo"}
  PROVE  ChargesAreTraceable'
<1>1. CASE DeletePod(j) /\ pod[j] = "ended"
  <2>1. Notice("DELETED", j) /\ pod' = [pod EXCEPT ![j] = "none"]
    BY <1>1 DEF DeletePod
  <2>2. \A k \in Job \ {j} : pod[k] # "none" => pod'[k] # "none"
    BY <2>1 DEF TypeOK
  <2> QED
    BY <2>1, <2>2, NoticeTraces
<1>2. CASE ~ (DeletePod(j) /\ pod[j] = "ended")
  <2>1. UNCHANGED <<pod, events, missed>>
    BY <1>2 DEF DeletePod
  <2> QED
    BY <2>1 DEF ChargesAreTraceable, TypeOK
<1> QED
  BY <1>1, <1>2

\* Steps that leave the pods, the channel and the missed pods alone.
LEMMA QuietTraces ==
  ASSUME TypeOK, ChargesAreTraceable, UNCHANGED <<pod, events, missed>>,
         \A k \in owed' : \/ creating'[k] \in {"accepted", "undo"}
                          \/ k \in owed /\ creating'[k] = creating[k]
                          \/ k \in Malformed
  PROVE  ChargesAreTraceable'
BY DEF ChargesAreTraceable

LEMMA CreateTraces ==
  ASSUME TypeOK, ChargesAreTraceable, NEW j \in Job,
         CheckRequest(j) \/ CreateStep(j)
  PROVE  ChargesAreTraceable'
<1>1. CASE CheckRequest(j)
  <2>1. PICK to \in Stage : GoTo(j, to) /\ creating[j] = "new"
    BY <1>1 DEF CheckRequest, At, Stage
  <2>2. UNCHANGED <<pod, events, missed, owed>>
    BY <1>1 DEF CheckRequest, kubernetes, watch, ghosts
  <2>3. \A k \in owed : creating'[k] = creating[k] \/ k = j
    BY <2>1 DEF GoTo, TypeOK
  <2> QED
    BY <2>1, <2>2, <2>3 DEF ChargesAreTraceable, TypeOK
<1>2. CASE Debit(j)
  <2>1. PICK to \in Stage : GoTo(j, to) /\ creating[j] = "checked"
    BY <1>2 DEF Debit, At, Stage
  <2>2. UNCHANGED <<pod, events, missed>>
    BY <1>2 DEF Debit, kubernetes, watch
  <2>3. \/ owed' = owed
        \/ owed' = owed \cup {j} /\ creating'[j] = "accepted"
    BY <1>2 DEF Debit, GoTo, TypeOK
  <2>4. \A k \in Job : creating'[k] = creating[k] \/ k = j
    BY <2>1 DEF GoTo, TypeOK
  <2> QED
    BY <2>1, <2>2, <2>3, <2>4 DEF ChargesAreTraceable, TypeOK
<1>3. CASE CreatePod(j)
  <2>1. UNCHANGED <<events, missed, owed>>
    BY <1>3 DEF CreatePod, watch, ghosts
  <2>2. \A k \in Job \ {j} : creating'[k] = creating[k] /\ pod'[k] = pod[k]
    BY <1>3 DEF CreatePod, GoTo, TypeOK
  <2>3. \/ j \in Malformed
        \/ pod'[j] # "none"
        \/ creating'[j] = "undo"
    BY <1>3 DEF CreatePod, GoTo, TypeOK
  <2> QED
    BY <2>1, <2>2, <2>3 DEF ChargesAreTraceable, TypeOK
<1>4. CASE CreateService(j)
  <2>1. UNCHANGED <<pod, events, missed, owed>>
    BY <1>4 DEF CreateService, watch, ghosts
  <2>2. \A k \in Job \ {j} : creating'[k] = creating[k]
    BY <1>4 DEF CreateService, GoTo, TypeOK
  <2>3. creating[j] = "podMade"
    BY <1>4 DEF CreateService, At
  <2> QED
    BY <2>1, <2>2, <2>3 DEF ChargesAreTraceable, TypeOK
<1>5. CASE UndoPod(j)
  <2>1. /\ UNCHANGED owed
        /\ \A k \in Job \ {j} : creating'[k] = creating[k]
        /\ creating'[j] = "undo"
    BY <1>5 DEF UndoPod, GoTo, TypeOK
  <2>2. \/ DeletePod(j)
        \/ UNCHANGED <<pod, doomed, expired, events, missed>>
    BY <1>5 DEF UndoPod
  <2> QED
    BY <2>1, <2>2, DeletionTraces
<1>6. CASE Rollback(j)
  <2>1. UNCHANGED <<pod, events, missed>> /\ owed' = owed \ {j}
    BY <1>6 DEF Rollback, kubernetes, watch
  <2>2. \A k \in Job \ {j} : creating'[k] = creating[k]
    BY <1>6 DEF Rollback, GoTo, TypeOK
  <2> QED
    BY <2>1, <2>2, QuietTraces DEF TypeOK
<1> QED
  BY <1>1, <1>2, <1>3, <1>4, <1>5, <1>6 DEF CreateStep

LEMMA DeleteTraces ==
  ASSUME TypeOK, ChargesAreTraceable, NEW j \in Job,
         DeleteLookup(j) \/ DeleteStep(j)
  PROVE  ChargesAreTraceable'
<1>1. CASE DeleteLookup(j)
  BY <1>1, QuietTraces DEF DeleteLookup, kubernetes, watch, ghosts, TypeOK
<1>2. CASE DeleteErase(j)
  <2>1. UNCHANGED <<creating, owed>>
    BY <1>2 DEF DeleteErase
  <2>2. \/ DeletePod(j)
        \/ UNCHANGED <<pod, doomed, expired, events, missed>>
    BY <1>2 DEF DeleteErase
  <2> QED
    BY <2>1, <2>2, DeletionTraces
<1>3. CASE DeleteCredit(j)
  <2>1. UNCHANGED <<creating, pod, events, missed>> /\ owed' \subseteq owed
    BY <1>3 DEF DeleteCredit, kubernetes, watch
  <2> QED
    BY <2>1, QuietTraces
<1> QED
  BY <1>1, <1>2, <1>3 DEF DeleteStep

LEMMA PodTraces ==
  ASSUME TypeOK, ChargesAreTraceable, NEW j \in Job,
         PodEnds(j) \/ PodExpires(j) \/ PodRemoved(j)
  PROVE  ChargesAreTraceable'
<1>1. CASE PodEnds(j)
  <2>1. /\ Notice("MODIFIED", j)
        /\ UNCHANGED <<creating, owed>>
        /\ pod' = [pod EXCEPT ![j] = "ended"]
    BY <1>1 DEF PodEnds
  <2>2. /\ \A k \in Job \ {j} : pod[k] # "none" => pod'[k] # "none"
        /\ pod'[j] # "none"
    BY <2>1 DEF TypeOK
  <2> QED
    BY <2>1, <2>2, NoticeTraces
<1>2. CASE PodExpires(j)
  BY <1>2, QuietTraces DEF PodExpires, watch, ghosts
<1>3. CASE PodRemoved(j)
  <2>1. /\ Notice("DELETED", j)
        /\ UNCHANGED <<creating, owed>>
        /\ pod' = [pod EXCEPT ![j] = "none"]
    BY <1>3 DEF PodRemoved
  <2>2. \A k \in Job \ {j} : pod[k] # "none" => pod'[k] # "none"
    BY <2>1 DEF TypeOK
  <2> QED
    BY <2>1, <2>2, NoticeTraces
<1> QED
  BY <1>1, <1>2, <1>3

LEMMA WatchTraces ==
  ASSUME TypeOK, ChargesAreTraceable, WatchStep \/ WatchDrops
  PROVE  ChargesAreTraceable'
<1>1. CASE HandleEvent
  <2> DEFINE S == [kind : {"MODIFIED", "DELETED"}, job : Job]
             j == Head(events).job
  <2>1. /\ events \in Seq(S) /\ events # <<>> /\ events' = Tail(events)
        /\ UNCHANGED <<creating, pod, missed>>
        /\ owed' = owed \ {j}
    BY <1>1 DEF HandleEvent, CreditPod, kubernetes, TypeOK
  <2>2. ASSUME NEW i \in 1 .. Len(events), events[i].job # j
        PROVE  i - 1 \in 1 .. Len(events') /\ events'[i - 1] = events[i]
    <3> HIDE DEF S
    <3>1. Len(events) \in Nat /\ Len(events') = Len(events) - 1
      BY <2>1
    <3>2. i # 1
      BY <2>1, <2>2
    <3> QED
      BY <2>1, <3>1, <3>2
  <2>3. ASSUME NEW k \in owed',
               \E i \in 1 .. Len(events) : events[i].job = k
        PROVE  \E i \in 1 .. Len(events') : events'[i].job = k
    <3>1. PICK i \in 1 .. Len(events) : events[i].job = k
      BY <2>3
    <3>2. k # j
      BY <2>1
    <3> HIDE DEF j
    <3> QED
      BY <2>2, <3>1, <3>2
  <2> HIDE DEF j
  <2> QED
    BY <2>1, <2>3 DEF ChargesAreTraceable
<1>2. CASE WatchStarts
  BY <1>2, QuietTraces DEF WatchStarts, kubernetes, ghosts
<1>3. CASE WatchDrops
  BY <1>3, QuietTraces DEF WatchDrops, kubernetes, ghosts
<1> QED
  BY <1>1, <1>2, <1>3 DEF WatchStep

LEMMA SweepTraces ==
  ASSUME TypeOK, ChargesAreTraceable, SweepStep
  PROVE  ChargesAreTraceable'
<1>1. CASE SweepList
  BY <1>1, QuietTraces DEF SweepList, kubernetes, watch, ghosts
<1>2. CASE \E j \in Job : SweepCredit(j)
  BY <1>2, QuietTraces DEF SweepCredit, CreditPod, kubernetes, watch
<1>3. CASE SweepDelete
  <2>1. sweepCur \in Job
    BY <1>3 DEF SweepDelete, TypeOK
  <2>2. UNCHANGED <<creating, owed>>
    BY <1>3 DEF SweepDelete
  <2>3. \/ DeletePod(sweepCur)
        \/ UNCHANGED <<pod, doomed, expired, events, missed>>
    BY <1>3 DEF SweepDelete
  <2> QED
    BY <2>1, <2>2, <2>3, DeletionTraces
<1> QED
  BY <1>1, <1>2, <1>3 DEF SweepStep

LEMMA TracesStep ==
  ASSUME TypeOK, ChargesAreTraceable, [Next]_vars
  PROVE  ChargesAreTraceable'
<1>1. CASE \E p \in Provider : Register(p)
  BY <1>1, QuietTraces DEF Register, kubernetes, watch
<1>2. CASE \E j \in Job : CheckRequest(j) \/ CreateStep(j)
  BY <1>2, CreateTraces
<1>3. CASE \E j \in Job : DeleteLookup(j) \/ DeleteStep(j)
  BY <1>3, DeleteTraces
<1>4. CASE \E j \in Job : PodEnds(j) \/ PodExpires(j) \/ PodRemoved(j)
  BY <1>4, PodTraces
<1>5. CASE WatchStep \/ WatchDrops
  BY <1>5, WatchTraces
<1>6. CASE SweepStep
  BY <1>6, SweepTraces
<1>7. CASE Crash
  BY <1>7 DEF Crash, ChargesAreTraceable
<1>8. CASE BootWith({})
  BY <1>8 DEF BootWith, Counted, kubernetes, ChargesAreTraceable
<1>9. CASE UNCHANGED vars
  BY <1>9 DEF ChargesAreTraceable, vars, kubernetes, watch, ghosts
<1> QED
  BY <1>1, <1>2, <1>3, <1>4, <1>5, <1>6, <1>7, <1>8, <1>9 DEF Next

\* No GPU charged to a job is lost track of: as long as it has not been
\* credited the pod is there, the request is still to be answered, the pod's
\* last event is in the channel, the pod went unwatched, or the request died
\* in MustParse.  What releases a charge is therefore complete but for the
\* last two.
THEOREM ChargesTraceable == Spec => []ChargesAreTraceable
<1>1. Init => ChargesAreTraceable
  BY DEF Init, ChargesAreTraceable
<1>2. TypeOK /\ ChargesAreTraceable /\ [Next]_vars => ChargesAreTraceable'
  BY TracesStep
<1> QED
  BY <1>1, <1>2, TypeCorrect, PTL DEF Spec

-----------------------------------------------------------------------------
(* What is in use is owed *)

\* A request that has not reached its debit is charged nothing and has no
\* pod: not even the recovery after a crash charges it.
FreshUncharged ==
  \A j \in Job : creating[j] \in {"new", "checked"} =>
                   j \notin owed /\ pod[j] = "none"

\* The in-use map is nil only while nothing is in use: the release that skips
\* a nil map leaves nothing behind.
NilIsEmpty ==
  \A p \in Provider : ledger[p].inUseNil => ledger[p].inUseGPU = NoGPU

LEMMA DeletionPods ==
  ASSUME TypeOK, NEW j \in Job,
         \/ DeletePod(j)
         \/ UNCHANGED <<pod, doomed, expired, events, missed>>,
         NEW k \in Job, pod[k] = "none"
  PROVE  pod'[k] = "none"
BY DEF DeletePod, TypeOK

LEMMA FreshStep ==
  ASSUME TypeOK, FreshUncharged, [Next]_vars
  PROVE  FreshUncharged'
<1> SUFFICES ASSUME NEW k \in Job, creating'[k] \in {"new", "checked"}
             PROVE  k \notin owed' /\ pod'[k] = "none"
  BY DEF FreshUncharged
<1>0. creating[k] \in {"new", "checked"} => k \notin owed /\ pod[k] = "none"
  BY DEF FreshUncharged
<1>1. CASE \E p \in Provider : Register(p)
  BY <1>0, <1>1 DEF Register, kubernetes
<1>2. ASSUME NEW j \in Job, CheckRequest(j) \/ DeleteLookup(j)
      PROVE  k \notin owed' /\ pod'[k] = "none"
  <2>1. UNCHANGED <<owed, pod>>
    BY <1>2 DEF CheckRequest, DeleteLookup, kubernetes, ghosts
  <2>2. creating[k] \in {"new", "checked"}
    BY <1>2 DEF CheckRequest, DeleteLookup, At, GoTo, TypeOK
  <2> QED
    BY <1>0, <2>1, <2>2
<1>3. ASSUME NEW j \in Job, CreateStep(j)
      PROVE  k \notin owed' /\ pod'[k] = "none"
  <2>1. CASE Debit(j)
    <3>1. \E to \in {"accepted", "failed"} : GoTo(j, to)
      BY <2>1 DEF Debit
    <3>2. k # j /\ creating[k] \in {"new", "checked"}
      BY <3>1 DEF GoTo, TypeOK
    <3>3. owed' \subseteq owed \cup {j} /\ UNCHANGED pod
      BY <2>1 DEF Debit, kubernetes
    <3> QED
      BY <1>0, <3>2, <3>3
  <2>2. CASE CreatePod(j)
    <3>1. \E to \in {"podMade", "failed", "undo"} : GoTo(j, to)
      BY <2>2 DEF CreatePod
    <3>2. k # j /\ creating[k] \in {"new", "checked"}
      BY <3>1 DEF GoTo, TypeOK
    <3>3. UNCHANGED owed /\ pod'[k] = pod[k]
      BY <2>2, <3>2 DEF CreatePod, ghosts, TypeOK
    <3> QED
      BY <1>0, <3>2, <3>3
  <2>3. CASE CreateService(j)
    <3>1. creating[k] \in {"new", "checked"}
      BY <2>3 DEF CreateService, GoTo, TypeOK
    <3> QED
      BY <1>0, <2>3, <3>1 DEF CreateService, ghosts
  <2>4. CASE UndoPod(j)
    <3>1. creating[k] \in {"new", "checked"}
      BY <2>4 DEF UndoPod, GoTo, TypeOK
    <3>2. \/ DeletePod(j)
          \/ UNCHANGED <<pod, doomed, expired, events, missed>>
      BY <2>4 DEF UndoPod
    <3> QED
      BY <1>0, <2>4, <3>1, <3>2, DeletionPods DEF UndoPod
  <2>5. CASE Rollback(j)
    <3>1. creating[k] \in {"new", "checked"}
      BY <2>5 DEF Rollback, GoTo, TypeOK
    <3> QED
      BY <1>0, <2>5, <3>1 DEF Rollback, kubernetes
  <2> QED
    BY <1>3, <2>1, <2>2, <2>3, <2>4, <2>5 DEF CreateStep
<1>4. ASSUME NEW j \in Job, DeleteStep(j)
      PROVE  k \notin owed' /\ pod'[k] = "none"
  <2>1. CASE DeleteErase(j)
    <3>1. \/ DeletePod(j)
          \/ UNCHANGED <<pod, doomed, expired, events, missed>>
      BY <2>1 DEF DeleteErase
    <3> QED
      BY <1>0, <2>1, <3>1, DeletionPods DEF DeleteErase
  <2>2. CASE DeleteCredit(j)
    BY <1>0, <2>2 DEF DeleteCredit, kubernetes
  <2> QED
    BY <1>4, <2>1, <2>2 DEF DeleteStep
<1>5. ASSUME NEW j \in Job, PodEnds(j) \/ PodExpires(j) \/ PodRemoved(j)
      PROVE  k \notin owed' /\ pod'[k] = "none"
  <2>1. UNCHANGED <<creating, owed>>
    BY <1>5 DEF PodEnds, PodExpires, PodRemoved, ghosts
  <2>2. pod[k] = "none" => pod'[k] = "none"
    BY <1>5 DEF PodEnds, PodExpires, PodRemoved, TypeOK
  <2> QED
    BY <1>0, <2>1, <2>2
<1>6. CASE WatchStep \/ WatchDrops
  BY <1>0, <1>6
  DEF WatchStep, HandleEvent, CreditPod, WatchStarts, WatchDrops, kubernetes,
      ghosts
<1>7. CASE SweepStep
  <2>1. CASE SweepList
    BY <1>0, <2>1 DEF SweepList, kubernetes, ghosts
  <2>2. CASE \E j \in Job : SweepCredit(j)
    BY <1>0, <2>2 DEF SweepCredit, CreditPod, kubernetes
  <2>3. CASE SweepDelete
    <3>1. sweepCur \in Job
      BY <2>3 DEF SweepDelete, TypeOK
    <3>2. \/ DeletePod(sweepCur)
          \/ UNCHANGED <<pod, doomed, expired, events, missed>>
      BY <2>3 DEF SweepDelete
    <3> QED
      BY <1>0, <2>3, <3>1, <3>2, DeletionPods DEF SweepDelete
  <2> QED
    BY <1>7, <2>1, <2>2, <2>3 DEF SweepStep
<1>8. CASE Crash
  <2>1. creating[k] \in {"new", "checked"}
    BY <1>8 DEF Crash
  <2> QED
    BY <1>0, <1>8, <2>1 DEF Crash, kubernetes
<1>9. CASE BootWith({})
  BY <1>0, <1>9 DEF BootWith, Counted, kubernetes
<1>10. CASE UNCHANGED vars
  BY <1>0, <1>10 DEF vars, kubernetes, ghosts
<1> QED
  BY <1>1, <1>2, <1>3, <1>4, <1>5, <1>6, <1>7, <1>8, <1>9, <1>10 DEF Next

GPUs == [j \in Job |-> Charge(j)["gpu"]]

LEMMA GPUsOf ==
  ASSUME NEW S \in SUBSET Job
  PROVE  /\ IsFiniteSet(S)
         /\ \A j \in S : GPUs[j] \in Nat
         /\ Total(GPUs, S) \in Nat
<1>1. \A j \in S : GPUs[j] \in Nat
  BY AmountTypes DEF GPUs, Amounts
<1> QED
  BY <1>1, CountedFinite, TotalType

LEMMA OneDebtorLess ==
  ASSUME NEW S \in SUBSET Job, NEW j \in Job
  PROVE  Total(GPUs, S \ {j}) >= Total(GPUs, S) - GPUs[j]
<1>1. /\ IsFiniteSet(S \ {j})
      /\ \A k \in S \ {j} : GPUs[k] \in Nat
      /\ Total(GPUs, S \ {j}) \in Nat
      /\ GPUs[j] \in Nat
  BY GPUsOf, AmountTypes DEF GPUs, Amounts
<1>2. CASE j \in S
  <2>1. (S \ {j}) \cup {j} = S
    BY <1>2
  <2>2. Total(GPUs, (S \ {j}) \cup {j}) = Total(GPUs, S \ {j}) + GPUs[j]
    BY <1>1, TotalAdd
  <2>3. Total(GPUs, S) = Total(GPUs, S \ {j}) + GPUs[j]
    BY <2>1, <2>2
  <2> QED
    BY <1>1, <2>3
<1>3. CASE j \notin S
  <2>1. S \ {j} = S
    BY <1>3
  <2> QED
    BY <1>1, <2>1
<1> QED
  BY <1>2, <1>3

LEMMA OwedType ==
  ASSUME TypeOK, NEW p, NEW t
  PROVE  /\ Debtors(p, t) \in SUBSET Job
         /\ Owed(p, t) = Total(GPUs, Debtors(p, t))
         /\ Owed(p, t) \in Nat
<1>1. Debtors(p, t) \in SUBSET Job
  BY DEF Debtors, TypeOK
<1> QED
  BY <1>1, GPUsOf DEF Owed, GPUs

\* Giving back to a provider what one of its jobs was charged, with or
\* without striking the job from those that owe.
LEMMA CreditKeeps ==
  ASSUME TypeOK, TypeOK', InUseIsOwed, NilIsEmpty, known' = known,
         NEW j \in Job, NEW q, NEW t0 \in GPUType, NEW a \in Amounts,
         Credit(q, t0, a),
         \/ owed' = owed
         \/ /\ owed' = owed \ {j}
            /\ q = Place[j] /\ t0 = Model(q) /\ a["gpu"] = Charge(j)["gpu"]
  PROVE  InUseIsOwed' /\ NilIsEmpty'
<1>1. ledger \in [Provider -> Capacities] /\ known \subseteq Provider
  BY DEF TypeOK
<1>2. q \in known =>
        /\ ledger' = [ledger EXCEPT ![q] = Release(ledger[q], t0, a)]
        /\ Release(ledger[q], t0, a).inUseNil = ledger[q].inUseNil
        /\ Release(ledger[q], t0, a).inUseGPU
             = [ledger[q].inUseGPU EXCEPT ![t0] =
                  IF ledger[q].inUseNil THEN @ ELSE NonNeg(@ - a.gpu)]
  <2> SUFFICES ASSUME q \in known
               PROVE  /\ ledger' = [ledger EXCEPT ![q] = Release(ledger[q], t0, a)]
                      /\ Release(ledger[q], t0, a).inUseNil = ledger[q].inUseNil
                      /\ Release(ledger[q], t0, a).inUseGPU
                           = [ledger[q].inUseGPU EXCEPT ![t0] =
                                IF ledger[q].inUseNil THEN @
                                ELSE NonNeg(@ - a.gpu)]
    OBVIOUS
  <2>1. ledger[q] \in Capacities
    BY <1>1
  <2>2. ledger' = [ledger EXCEPT ![q] = Release(ledger[q], t0, a)]
    BY DEF Credit
  <2> QED
    BY <2>1, <2>2, ReleaseColumns
<1>3. q \notin known => ledger' = ledger
  BY DEF Credit
<1>4. ASSUME NEW p \in Provider
      PROVE  /\ ledger[p].inUseGPU \in [GPUType -> Nat]
             /\ ledger'[p].inUseGPU \in [GPUType -> Nat]
  BY DEF TypeOK, Capacities
<1>5. NilIsEmpty'
  <2> SUFFICES ASSUME NEW p \in Provider, ledger'[p].inUseNil
               PROVE  ledger'[p].inUseGPU = NoGPU
    BY DEF NilIsEmpty
  <2>1. CASE p = q /\ q \in known
    <3>1. ledger'[p] = Release(ledger[p], t0, a)
      BY <1>1, <1>2, <2>1
    <3>2. ledger[p].inUseNil /\ ledger[p].inUseGPU = NoGPU
      BY <1>2, <2>1, <3>1 DEF NilIsEmpty
    <3>3. ledger'[p].inUseGPU = [NoGPU EXCEPT ![t0] = @]
      BY <1>2, <2>1, <3>1, <3>2
    <3> QED
      BY <3>3 DEF NoGPU
  <2>2. CASE ~ (p = q /\ q \in known)
    <3>1. ledger'[p] = ledger[p]
      BY <1>1, <1>2, <1>3, <2>2
    <3> QED
      BY <3>1 DEF NilIsEmpty
  <2> QED
    BY <2>1, <2>2
<1>6. ASSUME NEW p \in known, NEW t \in GPUType
      PROVE  ledger'[p].inUseGPU[t] <= Owed(p, t)'
  <2> DEFINE x == ledger[p].inUseGPU[t]
             y == ledger'[p].inUseGPU[t]
  <2>1. p \in Provider /\ x \in Nat /\ y \in Nat
    BY <1>1, <1>4
  <2>2. x <= Owed(p, t)
    BY DEF InUseIsOwed
  <2>3. /\ Debtors(p, t) \in SUBSET Job
        /\ Owed(p, t) = Total(GPUs, Debtors(p, t))
        /\ Owed(p, t) \in Nat
    BY OwedType
  <2>4. Owed(p, t)' = Total(GPUs, Debtors(p, t)') /\ Owed(p, t)' \in Nat
    <3>1. Debtors(p, t)' \in SUBSET Job
      BY DEF Debtors, TypeOK
    <3> QED
      BY <3>1, GPUsOf DEF Owed, GPUs
  <2>5. y <= x
    <3>1. CASE p = q
      <4>1. y = [ledger[p].inUseGPU EXCEPT ![t0] =
                   IF ledger[p].inUseNil THEN @ ELSE NonNeg(@ - a.gpu)][t]
        BY <1>1, <1>2, <3>1
      <4>2. a.gpu \in Nat
        BY DEF Amounts
      <4> QED
        BY <1>4, <2>1, <4>1, <4>2 DEF NonNeg
    <3>2. CASE p # q
      BY <1>1, <1>2, <1>3, <2>1, <3>2
    <3> QED
      BY <3>1, <3>2
  <2>6. CASE Debtors(p, t)' = Debtors(p, t)
    BY <2>1, <2>2, <2>3, <2>4, <2>5, <2>6
  <2>7. CASE Debtors(p, t)' # Debtors(p, t)
    <3>1. /\ owed' = owed \ {j}
          /\ q = Place[j] /\ t0 = Model(q) /\ a["gpu"] = Charge(j)["gpu"]
          /\ p = q /\ t = t0
          /\ Debtors(p, t)' = Debtors(p, t) \ {j}
      BY <2>7 DEF Debtors
    <3>2. y = IF ledger[p].inUseNil THEN x ELSE NonNeg(x - GPUs[j])
      <4>1. a.gpu = GPUs[j]
        BY <3>1 DEF GPUs
      <4>2. y = [ledger[p].inUseGPU EXCEPT ![t0] =
                   IF ledger[p].inUseNil THEN @ ELSE NonNeg(@ - a.gpu)][t]
        BY <1>1, <1>2, <3>1
      <4> QED
        BY <1>4, <2>1, <3>1, <4>1, <4>2
    <3>3. Owed(p, t)' >= Owed(p, t) - GPUs[j]
      BY <2>3, <2>4, <3>1, OneDebtorLess
    <3>4. ledger[p].inUseNil => x = 0
      BY <2>1 DEF NilIsEmpty, NoGPU
    <3>5. GPUs[j] \in Nat
      BY AmountTypes DEF GPUs, Amounts
    <3>6. CASE ledger[p].inUseNil
      BY <2>4, <3>2, <3>4, <3>6
    <3>7. CASE ~ ledger[p].inUseNil
      <4>1. y = NonNeg(x - GPUs[j])
        BY <3>2, <3>7
      <4>2. \A k, m, g, n \in Nat :
              k <= m /\ n >= m - g => NonNeg(k - g) <= n
        BY DEF NonNeg
      <4> HIDE DEF x, y
      <4>3. NonNeg(x - GPUs[j]) <= Owed(p, t)'
        BY <2>1, <2>2, <2>3, <2>4, <3>3, <3>5, <4>2
      <4> QED
        BY <4>1, <4>3 DEF y
    <3> QED
      BY <3>6, <3>7
  <2> QED
    BY <2>6, <2>7
<1> QED
  BY <1>5, <1>6 DEF InUseIsOwed

LEMMA CreditPodKeeps ==
  ASSUME TypeOK, TypeOK', InUseIsOwed, NilIsEmpty, known' = known,
         NEW j \in Job, CreditPod(j)
  PROVE  InUseIsOwed' /\ NilIsEmpty'
<1>1. CASE Placed(j)
  <2>1. Model(Place[j]) \in GPUType
    BY <1>1, ConstantTypes
  <2> QED
    BY <1>1, <2>1, AmountTypes, CreditKeeps DEF CreditPod
<1>2. CASE ~ Placed(j)
  <2>1. ledger' = ledger /\ owed' = owed \ {j}
    BY <1>2 DEF CreditPod
  <2>2. \A p \in known, t \in GPUType : Debtors(p, t)' = Debtors(p, t)
    BY <1>2, <2>1, ConstantTypes DEF Debtors, TypeOK
  <2>3. \A p \in known, t \in GPUType : Owed(p, t)' = Owed(p, t)
    BY <2>2 DEF Owed
  <2> QED
    BY <2>1, <2>3 DEF InUseIsOwed, NilIsEmpty
<1> QED
  BY <1>1, <1>2

LEMMA DebitKeeps ==
  ASSUME TypeOK, TypeOK', InUseIsOwed, NilIsEmpty, FreshUncharged,
         NEW j \in Job, Debit(j)
  PROVE  InUseIsOwed' /\ NilIsEmpty'
<1> DEFINE q == Place[j]
           r == Allocate(ledger[q], Machine[q], Model(q), Charge(j))
<1>1. ledger \in [Provider -> Capacities] /\ known \subseteq Provider
  BY DEF TypeOK
<1>2. known' = known /\ j \notin owed
  BY DEF Debit, At, FreshUncharged
<1>3. CASE q \in known
  <2>1. /\ r.ok \in BOOLEAN
        /\ r.cap \in Capacities
        /\ ~ r.cap.inUseNil
        /\ r.ok => r.cap.inUseGPU
                     = [ledger[q].inUseGPU EXCEPT ![Model(q)] = @ + Charge(j).gpu]
        /\ ~ r.ok => r.cap.inUseGPU = ledger[q].inUseGPU
    BY <1>1, <1>3, ConstantTypes, AmountTypes, AllocateColumns
  <2>2. /\ ledger' = [ledger EXCEPT ![q] = r.cap]
        /\ owed' = IF r.ok THEN owed \cup {j} ELSE owed
    BY <1>3 DEF Debit
  <2> HIDE DEF r
  <2>3. NilIsEmpty'
    BY <1>1, <1>3, <2>1, <2>2 DEF NilIsEmpty
  <2>4. ASSUME NEW p \in known, NEW t \in GPUType
        PROVE  ledger'[p].inUseGPU[t] <= Owed(p, t)'
    <3> DEFINE x == ledger[p].inUseGPU[t]
    <3>1. /\ p \in Provider
          /\ ledger[p].inUseGPU \in [GPUType -> Nat]
          /\ x \in Nat
      BY <1>1 DEF Capacities
    <3>2. x <= Owed(p, t)
      BY DEF InUseIsOwed
    <3>3. /\ Debtors(p, t) \in SUBSET Job
          /\ Owed(p, t) = Total(GPUs, Debtors(p, t))
          /\ Owed(p, t) \in Nat
      BY OwedType
    <3>4. Owed(p, t)' = Total(GPUs, Debtors(p, t)')
      BY DEF Owed, GPUs
    <3>5. CASE r.ok /\ p = q /\ t = Model(q)
      <4>1. Debtors(p, t)' = Debtors(p, t) \cup {j}
        BY <2>2, <3>5 DEF Debtors
      <4>2. j \notin Debtors(p, t)
        BY <1>2 DEF Debtors
      <4>3. GPUs[j] \in Nat /\ GPUs[j] = Charge(j).gpu
        BY AmountTypes DEF GPUs, Amounts
      <4>4. /\ IsFiniteSet(Debtors(p, t))
            /\ \A k \in Debtors(p, t) : GPUs[k] \in Nat
        BY <3>3, GPUsOf
      <4>5. Total(GPUs, Debtors(p, t) \cup {j})
              = Total(GPUs, Debtors(p, t)) + GPUs[j]
        BY <4>2, <4>3, <4>4, TotalAdd
      <4>6. ledger'[p].inUseGPU[t] = x + Charge(j).gpu
        BY <1>1, <2>1, <2>2, <3>1, <3>5
      <4> HIDE DEF x
      <4> QED
        BY <3>1, <3>2, <3>3, <3>4, <4>1, <4>3, <4>5, <4>6
    <3>6. CASE ~ (r.ok /\ p = q /\ t = Model(q))
      <4>1. Debtors(p, t)' = Debtors(p, t)
        BY <2>2, <3>6 DEF Debtors
      <4>2. ledger'[p].inUseGPU[t] = x
        <5>1. CASE p # q
          BY <1>1, <2>2, <3>1, <5>1
        <5>2. CASE p = q /\ ~ r.ok
          BY <1>1, <2>1, <2>2, <3>1, <5>2
        <5>3. CASE p = q /\ r.ok /\ t # Model(q)
          BY <1>1, <2>1, <2>2, <3>1, <5>3
        <5> QED
          BY <3>6, <5>1, <5>2, <5>3
      <4> QED
        BY <3>2, <3>3, <3>4, <4>1, <4>2
    <3> QED
      BY <3>5, <3>6
  <2> QED
    BY <1>2, <2>3, <2>4 DEF InUseIsOwed
<1>4. CASE q \notin known
  <2>1. UNCHANGED <<ledger, owed>>
    BY <1>4 DEF Debit
  <2> QED
    BY <1>2, <2>1 DEF InUseIsOwed, NilIsEmpty, Owed, Debtors
<1> QED
  BY <1>3, <1>4

LEMMA RegisterKeeps ==
  ASSUME TypeOK, TypeOK', InUseIsOwed, NilIsEmpty,
         NEW q \in Provider, Register(q)
  PROVE  InUseIsOwed' /\ NilIsEmpty'
<1>1. /\ ledger' = [ledger EXCEPT ![q] = Fresh(Machine[q])]
      /\ known' = known \cup {q}
      /\ owed' = {j \in owed : Place[j] # q}
      /\ ledger \in [Provider -> Capacities]
  BY DEF Register, TypeOK
<1>2. Fresh(Machine[q]).inUseGPU = NoGPU
  BY ConstantTypes, FreshType
<1>3. NilIsEmpty'
  BY <1>1, <1>2 DEF NilIsEmpty
<1>4. ASSUME NEW p \in known', NEW t \in GPUType
      PROVE  ledger'[p].inUseGPU[t] <= Owed(p, t)'
  <2>1. CASE p = q
    <3>1. ledger'[p].inUseGPU[t] = 0
      BY <1>1, <1>2, <2>1 DEF NoGPU
    <3>2. Debtors(p, t)' \in SUBSET Job /\ Owed(p, t)' = Total(GPUs, Debtors(p, t)')
      BY DEF Debtors, TypeOK, Owed, GPUs
    <3> QED
      BY <3>1, <3>2, GPUsOf
  <2>2. CASE p # q
    <3>1. p \in known /\ p \in Provider /\ ledger'[p] = ledger[p]
      BY <1>1, <2>2 DEF TypeOK
    <3>2. Debtors(p, t)' = Debtors(p, t)
      BY <1>1, <2>2 DEF Debtors
    <3> QED
      BY <3>1, <3>2 DEF InUseIsOwed, Owed
  <2> QED
    BY <2>1, <2>2
<1> QED
  BY <1>3, <1>4 DEF InUseIsOwed

LEMMA BootKeeps ==
  ASSUME TypeOK, TypeOK', NEW miners, BootWith(miners)
  PROVE  InUseIsOwed' /\ NilIsEmpty'
<1>1. PICK loaded \in BOOLEAN, listed \in BOOLEAN :
        /\ owed' = {j \in Job : listed /\ \E p \in known' : j \in Counted(p)}
        /\ ledger' = [p \in Provider |->
             LET c == [Reloaded(Machine[p]) EXCEPT
                         !.miningPod = p \in known' /\ p \in miners]
             IN IF p \in known' /\ listed /\ Counted(p) # {}
                THEN Recover(c, Machine[p], Held(p)) ELSE c]
  BY DEF BootWith
<1>2. ASSUME NEW p \in Provider
      PROVE  \/ ledger'[p].inUseGPU = NoGPU
             \/ /\ p \in known' /\ listed
                /\ ~ ledger'[p].inUseNil
                /\ ledger'[p].inUseGPU = [NoGPU EXCEPT ![Model(p)] = Held(p).gpu]
  <2> DEFINE b == p \in known' /\ p \in miners
             c == [Reloaded(Machine[p]) EXCEPT !.miningPod = b]
  <2>1. /\ c.inUseGPU = NoGPU
        /\ ~ Recover(c, Machine[p], Held(p)).inUseNil
        /\ Recover(c, Machine[p], Held(p)).inUseGPU
             = [NoGPU EXCEPT ![Model(p)] = Held(p).gpu]
    BY BootLedger
  <2>2. ledger'[p] = IF p \in known' /\ listed /\ Counted(p) # {}
                     THEN Recover(c, Machine[p], Held(p)) ELSE c
    BY <1>1
  <2> HIDE DEF c
  <2> QED
    BY <2>1, <2>2
<1>3. NilIsEmpty'
  BY <1>2 DEF NilIsEmpty
<1>4. ASSUME NEW p \in known', NEW t \in GPUType
      PROVE  ledger'[p].inUseGPU[t] <= Owed(p, t)'
  <2>1. p \in Provider
    BY DEF TypeOK
  <2>2. /\ Debtors(p, t)' \in SUBSET Job
        /\ Owed(p, t)' = Total(GPUs, Debtors(p, t)')
    BY DEF Debtors, TypeOK, Owed, GPUs
  <2>3. Owed(p, t)' \in Nat
    BY <2>2, GPUsOf
  <2>4. CASE ledger'[p].inUseGPU[t] = 0
    BY <2>3, <2>4
  <2>5. CASE ledger'[p].inUseGPU[t] # 0
    <3>1. /\ listed /\ t = Model(p)
          /\ ledger'[p].inUseGPU[t] = Held(p).gpu
      BY <1>2, <2>1, <2>5 DEF NoGPU
    <3>2. Debtors(p, t)' = Counted(p)
      BY <1>1, <3>1 DEF Debtors, Counted
    <3>3. [j \in Job |-> PodSize(j)["gpu"]] = GPUs
      BY AmountTypes DEF GPUs
    <3>4. Held(p).gpu = Total(GPUs, Counted(p))
      BY <3>3 DEF Held, Resource
    <3> QED
      BY <2>2, <2>3, <3>1, <3>2, <3>4
  <2> QED
    BY <2>4, <2>5
<1> QED
  BY <1>3, <1>4 DEF InUseIsOwed

\* Steps that leave the ledger alone.
LEMMA IdleKeeps ==
  ASSUME InUseIsOwed, NilIsEmpty, UNCHANGED <<ledger, known, owed>>
  PROVE  InUseIsOwed' /\ NilIsEmpty'
BY DEF InUseIsOwed, NilIsEmpty, Owed, Debtors

LEMMA LedgerStep ==
  ASSUME TypeOK, TypeOK', InUseIsOwed, NilIsEmpty, FreshUncharged, [Next]_vars
  PROVE  InUseIsOwed' /\ NilIsEmpty'
<1>1. CASE \E p \in Provider : Register(p)
  BY <1>1, RegisterKeeps
<1>2. CASE \E j \in Job : CheckRequest(j) \/ DeleteLookup(j)
  BY <1>2, IdleKeeps DEF CheckRequest, DeleteLookup, providers, ghosts
<1>3. ASSUME NEW j \in Job, CreateStep(j)
      PROVE  InUseIsOwed' /\ NilIsEmpty'
  <2>1. CASE Debit(j)
    BY <2>1, DebitKeeps
  <2>2. CASE CreatePod(j) \/ CreateService(j) \/ UndoPod(j)
    BY <2>2, IdleKeeps
    DEF CreatePod, CreateService, UndoPod, providers, ghosts
  <2>3. CASE Rollback(j) /\ Placed(j)
    <3>1. /\ Credit(Place[j], Model(Place[j]), Charge(j))
          /\ owed' = owed \ {j} /\ known' = known
      BY <2>3 DEF Rollback
    <3>2. Model(Place[j]) \in GPUType
      BY <2>3, ConstantTypes
    <3> QED
      BY <3>1, <3>2, AmountTypes, CreditKeeps
  <2>4. CASE Rollback(j) /\ ~ Placed(j)
    <3>1. ledger' = ledger /\ owed' = owed \ {j} /\ known' = known
      BY <2>4 DEF Rollback
    <3>2. \A p \in known, t \in GPUType : Debtors(p, t)' = Debtors(p, t)
      BY <2>4, <3>1, ConstantTypes DEF Debtors, TypeOK
    <3>3. \A p \in known, t \in GPUType : Owed(p, t)' = Owed(p, t)
      BY <3>2 DEF Owed
    <3> QED
      BY <3>1, <3>3 DEF InUseIsOwed, NilIsEmpty
  <2> QED
    BY <1>3, <2>1, <2>2, <2>3, <2>4 DEF CreateStep
<1>4. ASSUME NEW j \in Job, DeleteStep(j)
      PROVE  InUseIsOwed' /\ NilIsEmpty'
  <2>1. CASE DeleteErase(j)
    BY <2>1, IdleKeeps DEF DeleteErase, providers
  <2>2. CASE DeleteCredit(j)
    <3>1. /\ Credit(Place[j], DefaultType, PodSize(j))
          /\ known' = known
          /\ \/ owed' = owed
             \/ owed' = owed \ {j} /\ DefaultType = Model(Place[j])
      BY <2>2 DEF DeleteCredit
    <3> QED
      BY <3>1, GPUTypeAssumption, AmountTypes, CreditKeeps
  <2> QED
    BY <1>4, <2>1, <2>2 DEF DeleteStep
<1>5. CASE \E j \in Job : PodEnds(j) \/ PodExpires(j) \/ PodRemoved(j)
  BY <1>5, IdleKeeps DEF PodEnds, PodExpires, PodRemoved, providers, ghosts
<1>6. CASE HandleEvent
  <2>1. Head(events).job \in Job
    <3> DEFINE S == [kind : {"MODIFIED", "DELETED"}, job : Job]
    <3>1. events \in Seq(S) /\ events # <<>>
      BY <1>6 DEF HandleEvent, TypeOK
    <3> HIDE DEF S
    <3>2. Head(events) \in S
      BY <3>1
    <3> QED
      BY <3>2 DEF S
  <2> QED
    BY <1>6, <2>1, CreditPodKeeps DEF HandleEvent
<1>7. CASE WatchStarts \/ WatchDrops
  BY <1>7, IdleKeeps DEF WatchStarts, WatchDrops, providers, ghosts
<1>8. CASE SweepList \/ SweepDelete
  BY <1>8, IdleKeeps DEF SweepList, SweepDelete, providers, ghosts
<1>9. CASE \E j \in Job : SweepCredit(j)
  BY <1>9, CreditPodKeeps DEF SweepCredit
<1>10. CASE Crash
  <2>1. known' = {} /\ ledger' = [p \in Provider |-> Reloaded(Machine[p])]
    BY <1>10 DEF Crash
  <2>2. \A p \in Provider : Reloaded(Machine[p]).inUseGPU = NoGPU
    BY ConstantTypes, ReloadedType
  <2> QED
    BY <2>1, <2>2 DEF InUseIsOwed, NilIsEmpty
<1>11. CASE BootWith({})
  BY <1>11, BootKeeps
<1>12. CASE UNCHANGED vars
  BY <1>12, IdleKeeps DEF vars, providers, ghosts
<1> QED
  BY <1>1, <1>2, <1>3, <1>4, <1>5, <1>6, <1>7, <1>8, <1>9, <1>10, <1>11, <1>12
  DEF Next, WatchStep, SweepStep

\* The in-use column of a known provider never counts a GPU that no job owes.
\* Credits may come twice and the recovery may run at any time; the argument
\* needs that a request is charged at most once (FreshUncharged) and that the
\* release which skips a nil map skips nothing (NilIsEmpty).
THEOREM InUseOwed == Spec => []InUseIsOwed
<1>1. Init => InUseIsOwed /\ NilIsEmpty /\ FreshUncharged
  <2>1. \A p \in Provider : Reloaded(Machine[p]).inUseGPU = NoGPU
    BY ConstantTypes, ReloadedType
  <2> QED
    BY <2>1 DEF Init, InUseIsOwed, NilIsEmpty, FreshUncharged
<1>2. /\ TypeOK /\ TypeOK' /\ InUseIsOwed /\ NilIsEmpty /\ FreshUncharged
      /\ [Next]_vars
      => (InUseIsOwed /\ NilIsEmpty /\ FreshUncharged)'
  BY LedgerStep, FreshStep
<1> QED
  BY <1>1, <1>2, TypeCorrect, PTL DEF Spec

-----------------------------------------------------------------------------
(* A refusal charges nothing *)

\* The lazy initialisation of the GPU column fills in what was on offer.
LEMMA InitMapsOffers ==
  ASSUME NEW c \in Capacities, NEW m \in Machines, NEW d \in Capacities,
         ~ d.availNil, d.availGPU = InitMaps(c, m, m.model).availGPU,
         NEW t \in GPUType
  PROVE  Offered(d, m, t) = Offered(c, m, t)
<1>1. m.model \in GPUType
  BY DEF Machines
<1>2. d.availGPU[t] = IF t = m.model
                      THEN IF ~ c.availNil THEN c.availGPU[t]
                           ELSE IF c.gpuCount > 0 THEN c.gpuCount ELSE SpecTotal(m)
                      ELSE c.availGPU[t]
  <2> DEFINE n == IF ~ c.availNil THEN c.availGPU[m.model]
                  ELSE IF c.gpuCount > 0 THEN c.gpuCount ELSE SpecTotal(m)
             a == [c.availGPU EXCEPT ![m.model] = n]
  <2>1. InitMaps(c, m, m.model)
          = [c EXCEPT !.availGPU = a, !.availNil = FALSE, !.inUseNil = FALSE]
    BY DEF InitMaps
  <2>2. c.availGPU \in [GPUType -> Nat]
    BY DEF Capacities
  <2>3. a[t] = IF t = m.model THEN n ELSE c.availGPU[t]
    BY <1>1, <2>2
  <2> HIDE DEF a
  <2>4. InitMaps(c, m, m.model).availGPU = a
    BY <2>1 DEF Capacities
  <2> QED
    BY <2>3, <2>4
<1> QED
  BY <1>2 DEF Offered

LEMMA RefusedDebit ==
  ASSUME TypeOK, NEW j \in Job, NEW t \in GPUType,
         Debit(j), creating'[j] = "failed"
  PROVE  /\ Offered(ledger'[Place[j]], Machine[Place[j]], t)
              = Offered(ledger[Place[j]], Machine[Place[j]], t)
         /\ ledger'[Place[j]].inUseGPU[t] = ledger[Place[j]].inUseGPU[t]
         /\ ledger'[Place[j]].inUse = ledger[Place[j]].inUse
<1> DEFINE p == Place[j]
           r == Allocate(ledger[p], Machine[p], Model(p), Charge(j))
<1>1. CASE p \in known
  <2>1. /\ p \in Provider
        /\ ledger \in [Provider -> Capacities]
        /\ ledger[p] \in Capacities
        /\ Machine[p] \in Machines /\ Model(p) \in GPUType
    BY <1>1, ConstantTypes DEF TypeOK
  <2>2. r.ok \in BOOLEAN /\ r.cap \in Capacities
        /\ (~ r.ok => /\ r.cap.inUseGPU = ledger[p].inUseGPU
                      /\ r.cap.inUse = ledger[p].inUse
                      /\ r.cap.availGPU
                           = InitMaps(ledger[p], Machine[p], Model(p)).availGPU
                      /\ ~ r.cap.availNil)
    BY <2>1, AmountTypes, AllocateColumns
  <2>3. /\ ledger' = [ledger EXCEPT ![p] = r.cap]
        /\ GoTo(j, IF r.ok THEN "accepted" ELSE "failed")
    BY <1>1 DEF Debit
  <2> HIDE DEF r
  <2>4. ~ r.ok
    BY <2>3 DEF GoTo, TypeOK
  <2>5. ledger'[p] = r.cap
    BY <2>1, <2>3
  <2>6. Offered(r.cap, Machine[p], t) = Offered(ledger[p], Machine[p], t)
    BY <2>1, <2>2, <2>4, InitMapsOffers DEF Model
  <2> QED
    BY <2>2, <2>4, <2>5, <2>6
<1>2. CASE p \notin known
  BY <1>2 DEF Debit
<1> QED
  BY <1>1, <1>2

\* AllocateResources is all or nothing for whoever comes next: a request that
\* it refuses leaves on offer, of every GPU type, what was on offer, and in
\* use, of every resource, what was in use, whichever resource ran short.
THEOREM RefusalIsFree == Spec => RefusalChargesNothing
<1> DEFINE A == \A j \in Job, t \in GPUType :
                  creating[j] = "checked" /\ creating'[j] = "failed" /\ up' =>
                    LET p == Place[j]
                    IN /\ Offered(ledger'[p], Machine[p], t)
                            = Offered(ledger[p], Machine[p], t)
                       /\ ledger'[p].inUseGPU[t] = ledger[p].inUseGPU[t]
                       /\ ledger'[p].inUse = ledger[p].inUse
<1>1. TypeOK /\ [Next]_vars => [A]_vars
  <2> SUFFICES ASSUME TypeOK, Next,
                      NEW j \in Job, NEW t \in GPUType,
                      creating[j] = "checked", creating'[j] = "failed", up'
               PROVE  LET p == Place[j]
                      IN /\ Offered(ledger'[p], Machine[p], t)
                              = Offered(ledger[p], Machine[p], t)
                         /\ ledger'[p].inUseGPU[t] = ledger[p].inUseGPU[t]
                         /\ ledger'[p].inUse = ledger[p].inUse
    OBVIOUS
  <2>1. \A k \in Job : ~ CheckRequest(k)
    BY DEF CheckRequest, At, GoTo, TypeOK
  <2>2. ASSUME NEW k \in Job, CreateStep(k)
        PROVE  k = j /\ Debit(j)
    <3>1. At(k, "checked") \/ At(k, "accepted") \/ At(k, "podMade")
            \/ At(k, "unpod") \/ At(k, "undo")
      BY <2>2 DEF CreateStep, Debit, CreatePod, CreateService, UndoPod, Rollback
    <3>2. \E to \in Stage : GoTo(k, to)
      BY <2>2
      DEF CreateStep, Debit, CreatePod, CreateService, UndoPod, Rollback, Stage
    <3>3. k = j
      BY <3>2 DEF GoTo, TypeOK
    <3> QED
      BY <2>2, <3>3
      DEF CreateStep, Debit, CreatePod, CreateService, UndoPod, Rollback, At
  <2>3. ~ UNCHANGED creating
    OBVIOUS
  <2>4. ~ Crash
    BY DEF Crash
  <2>5. \A p \in Provider : ~ Register(p)
    BY <2>3 DEF Register
  <2>6. \A k \in Job : ~ DeleteLookup(k) /\ ~ DeleteStep(k)
    BY <2>3 DEF DeleteLookup, DeleteStep, DeleteErase, DeleteCredit
  <2>7. \A k \in Job : ~ PodEnds(k) /\ ~ PodExpires(k) /\ ~ PodRemoved(k)
    BY <2>3 DEF PodEnds, PodExpires, PodRemoved
  <2>8. ~ WatchStep /\ ~ WatchDrops /\ ~ SweepStep /\ ~ BootWith({})
    BY <2>3
    DEF WatchStep, HandleEvent, WatchStarts, WatchDrops, SweepStep, SweepList,
        SweepCredit, SweepDelete, BootWith
  <2>9. \E k \in Job : CreateStep(k)
    BY <2>1, <2>4, <2>5, <2>6, <2>7, <2>8 DEF Next
  <2>10. Debit(j)
    BY <2>2, <2>9
  <2> QED
    BY <2>10, RefusedDebit
<1> QED
  BY <1>1, TypeCorrect, PTL DEF Spec, RefusalChargesNothing

-----------------------------------------------------------------------------
(* What a step may do to the history, the ledger and the jobs it concerns *)

\* None of the events of E has happened so far.
Unspent(E) == \A e \in E : spent[e] = 0

\* How often an event has happened never falls, and the actions that spend it
\* raise it: what is conditional on "not so far" holds at every earlier step.
LEMMA SpendAllGrows ==
  ASSUME TypeOK, NEW E, SpendAll(E)
  PROVE  \A e \in Event : /\ spent'[e] >= spent[e]
                          /\ e \in E => spent'[e] # 0
BY DEF SpendAll, TypeOK

LEMMA SpentGrows ==
  ASSUME TypeOK, [Next]_vars
  PROVE  \A e \in Event : spent'[e] >= spent[e]
<1>1. SUFFICES ASSUME ~ UNCHANGED spent
               PROVE  \A e \in Event : spent'[e] >= spent[e]
  BY DEF TypeOK
<1>2. SUFFICES \E E : SpendAll(E)
  BY SpendAllGrows
<1>3. ASSUME NEW p \in Provider, Register(p)
      PROVE  \E E : SpendAll(E)
  BY <1>3 DEF Register, Spend, SpendIf
<1>4. ASSUME NEW j \in Job, CheckRequest(j) \/ DeleteLookup(j)
      PROVE  \E E : SpendAll(E)
  BY <1>1, <1>4 DEF CheckRequest, DeleteLookup, Spend
<1>5. ASSUME NEW j \in Job, CreateStep(j)
      PROVE  \E E : SpendAll(E)
  <2>1. ~ Debit(j) /\ ~ Rollback(j)
    BY <1>1 DEF Debit, Rollback
  <2>2. CASE CreatePod(j)
    BY <1>1, <2>2 DEF CreatePod, Spend
  <2>3. CASE CreateService(j)
    BY <1>1, <2>3 DEF CreateService, Spend
  <2>4. CASE UndoPod(j)
    BY <1>1, <2>4 DEF UndoPod, Spend
  <2> QED
    BY <1>5, <2>1, <2>2, <2>3, <2>4 DEF CreateStep
<1>6. ASSUME NEW j \in Job, DeleteStep(j)
      PROVE  \E E : SpendAll(E)
  BY <1>1, <1>6 DEF DeleteStep, DeleteErase, DeleteCredit, SpendIf
<1>7. ASSUME NEW j \in Job, PodEnds(j) \/ PodExpires(j) \/ PodRemoved(j)
      PROVE  \E E : SpendAll(E)
  BY <1>1, <1>7 DEF PodEnds, PodExpires, PodRemoved, Spend
<1>8. CASE WatchStep \/ WatchDrops
  BY <1>1, <1>8 DEF WatchStep, HandleEvent, WatchStarts, WatchDrops, Spend
<1>9. CASE SweepStep
  BY <1>1, <1>9
  DEF SweepStep, SweepList, SweepCredit, SweepDelete, Spend, SpendIf
<1>10. CASE Crash
  BY <1>10 DEF Crash, Spend
<1>11. CASE BootWith({})
  <2>1. \E loaded, listed \in BOOLEAN :
          SpendIf(~ (loaded /\ listed), "recoveryFails")
    BY <1>11 DEF BootWith
  <2> QED
    BY <2>1 DEF SpendIf
<1>12. ~ UNCHANGED vars
  BY <1>1 DEF vars
<1> QED
  BY <1>3, <1>4, <1>5, <1>6, <1>7, <1>8, <1>9, <1>10, <1>11, <1>12 DEF Next

LEMMA UnspentBefore ==
  ASSUME TypeOK, [Next]_vars, NEW E \in SUBSET Event, Unspent(E)'
  PROVE  Unspent(E)
<1>1. \A e \in E : spent'[e] >= spent[e] /\ spent[e] \in Nat /\ spent'[e] = 0
  BY SpentGrows DEF Unspent, TypeOK
<1> QED
  BY <1>1 DEF Unspent

-----------------------------------------------------------------------------
\* The jobs of the events in the channel.
Evented == {events[i].job : i \in 1 .. Len(events)}

LEMMA NoticeEvented ==
  ASSUME TypeOK, NEW j \in Job, NEW kind \in {"MODIFIED", "DELETED"},
         Notice(kind, j)
  PROVE  Evented' \subseteq Evented \cup {j}
<1> DEFINE S == [kind : {"MODIFIED", "DELETED"}, job : Job]
           e == [kind |-> kind, job |-> j]
<1>1. events \in Seq(S) /\ e \in S /\ e.job = j
  BY DEF TypeOK
<1>2. events' = IF watching THEN Append(events, e) ELSE events
  BY DEF Notice
<1> HIDE DEF S, e
<1>3. ASSUME NEW i \in 1 .. Len(events')
      PROVE  \/ i \in 1 .. Len(events) /\ events'[i] = events[i]
             \/ events'[i] = e
  BY <1>1, <1>2
<1> QED
  BY <1>1, <1>3 DEF Evented

LEMMA HeadEvented ==
  ASSUME TypeOK, events # <<>>
  PROVE  /\ Head(events).job \in Evented
         /\ Head(events).job \in Job
         /\ events' = Tail(events) => Evented' \subseteq Evented
<1> DEFINE S == [kind : {"MODIFIED", "DELETED"}, job : Job]
<1>1. events \in Seq(S)
  BY DEF TypeOK
<1>2. Head(events) \in S /\ Head(events) = events[1] /\ 1 \in 1 .. Len(events)
  <2> HIDE DEF S
  <2> QED
    BY <1>1
<1>3. ASSUME events' = Tail(events), NEW i \in 1 .. Len(events')
      PROVE  i + 1 \in 1 .. Len(events) /\ events'[i] = events[i + 1]
  <2> HIDE DEF S
  <2> QED
    BY <1>1, <1>3
<1> QED
  BY <1>2, <1>3 DEF Evented

\* Jobs for which the control plane or Kubernetes may still credit the
\* ledger: a request past its debit, a pod, a deletion, a sweep, an event.
Touched(j) ==
  \/ creating[j] \notin {"new", "checked", "failed"}
  \/ pod[j] # "none" \/ j \in doomed
  \/ deleting[j] # "idle"
  \/ j \in sweepTodo \/ sweepCur = j
  \/ j \in Evented

LEMMA DeletionTouches ==
  ASSUME TypeOK, NEW j \in Job,
         \/ DeletePod(j)
         \/ UNCHANGED <<pod, doomed, expired, events, missed>>
  PROVE  \A k \in Job : /\ pod'[k] # "none" => pod[k] # "none"
                        /\ k \in doomed' => k \in doomed \/ pod[k] # "none"
                        /\ k \in Evented' => k \in Evented \/ pod[k] # "none"
<1>1. CASE DeletePod(j) /\ pod[j] = "ended"
  BY <1>1, NoticeEvented DEF DeletePod, TypeOK
<1>2. CASE ~ (DeletePod(j) /\ pod[j] = "ended")
  <2>1. UNCHANGED <<pod, events>>
    BY <1>2 DEF DeletePod
  <2>2. \A k \in doomed' : k \in doomed \/ pod[k] # "none"
    BY <1>2 DEF DeletePod
  <2> QED
    BY <2>1, <2>2 DEF Evented
<1> QED
  BY <1>1, <1>2

\* Nothing but an accepted debit makes a placed job one that may be credited.
LEMMA TouchedBefore ==
  ASSUME TypeOK, [Next]_vars, up, ~ Crash, NEW k \in Job, Touched(k)', Placed(k)
  PROVE  Touched(k) \/ (Debit(k) /\ Place[k] \in known)
<1>1. CASE \E p \in Provider : Register(p)
  BY <1>1 DEF Register, Touched, Evented, kubernetes, watch, sweep
<1>2. ASSUME NEW j \in Job, CheckRequest(j)
      PROVE  Touched(k)
  <2>1. creating'[k] \in {creating[k], "checked", "failed"}
    BY <1>2 DEF CheckRequest, GoTo, TypeOK
  <2> QED
    BY <1>2, <2>1 DEF CheckRequest, Touched, Evented, kubernetes, watch, sweep
<1>3. ASSUME NEW j \in Job, DeleteLookup(j)
      PROVE  Touched(k)
  <2>1. deleting'[k] = deleting[k] \/ pod[k] # "none"
    BY <1>3 DEF DeleteLookup, TypeOK
  <2> QED
    BY <1>3, <2>1 DEF DeleteLookup, Touched, Evented, kubernetes, watch, sweep
<1>4. ASSUME NEW j \in Job, CreateStep(j)
      PROVE  Touched(k) \/ (Debit(k) /\ Place[k] \in known)
  <2>1. CASE Debit(j)
    <3>1. k # j => creating'[k] = creating[k]
      BY <2>1 DEF Debit, GoTo, TypeOK
    <3>2. Place[j] \notin known => creating'[j] = "failed"
      BY <2>1 DEF Debit, GoTo, TypeOK
    <3> QED
      BY <2>1, <3>1, <3>2
      DEF Debit, Touched, Evented, kubernetes, watch, sweep
  <2>2. CASE CreatePod(j)
    <3>1. creating[j] = "accepted" /\ (k # j => /\ creating'[k] = creating[k]
                                                /\ pod'[k] = pod[k])
      BY <2>2 DEF CreatePod, At, GoTo, TypeOK
    <3> QED
      BY <2>2, <3>1 DEF CreatePod, Touched, Evented, watch, sweep
  <2>3. CASE CreateService(j)
    <3>1. creating[j] = "podMade" /\ (k # j => creating'[k] = creating[k])
      BY <2>3 DEF CreateService, At, GoTo, TypeOK
    <3> QED
      BY <2>3, <3>1 DEF CreateService, Touched, Evented, watch, sweep
  <2>4. CASE UndoPod(j)
    <3>1. creating[j] = "unpod" /\ (k # j => creating'[k] = creating[k])
      BY <2>4 DEF UndoPod, At, GoTo, TypeOK
    <3>2. \/ DeletePod(j)
          \/ UNCHANGED <<pod, doomed, expired, events, missed>>
      BY <2>4 DEF UndoPod
    <3> QED
      BY <2>4, <3>1, <3>2, DeletionTouches DEF UndoPod, Touched, sweep
  <2>5. CASE Rollback(j)
    <3>1. creating[j] = "undo" /\ (k # j => creating'[k] = creating[k])
      BY <2>5 DEF Rollback, At, GoTo, TypeOK
    <3> QED
      BY <2>5, <3>1 DEF Rollback, Touched, Evented, kubernetes, watch, sweep
  <2> QED
    BY <1>4, <2>1, <2>2, <2>3, <2>4, <2>5 DEF CreateStep
<1>5. ASSUME NEW j \in Job, DeleteStep(j)
      PROVE  Touched(k)
  <2>1. CASE DeleteErase(j)
    <3>1. deleting[j] # "idle" /\ (k # j => deleting'[k] = deleting[k])
      BY <2>1 DEF DeleteErase, TypeOK
    <3>2. \/ DeletePod(j)
          \/ UNCHANGED <<pod, doomed, expired, events, missed>>
      BY <2>1 DEF DeleteErase
    <3> QED
      BY <2>1, <3>1, <3>2, DeletionTouches DEF DeleteErase, Touched, sweep
  <2>2. CASE DeleteCredit(j)
    <3>1. deleting[j] # "idle" /\ (k # j => deleting'[k] = deleting[k])
      BY <2>2 DEF DeleteCredit, TypeOK
    <3> QED
      BY <2>2, <3>1 DEF DeleteCredit, Touched, Evented, kubernetes, watch, sweep
  <2> QED
    BY <1>5, <2>1, <2>2 DEF DeleteStep
<1>6. ASSUME NEW j \in Job, PodEnds(j) \/ PodExpires(j) \/ PodRemoved(j)
      PROVE  Touched(k)
  <2>1. CASE PodEnds(j)
    <3>1. Evented' \subseteq Evented \cup {j}
      BY <2>1, NoticeEvented DEF PodEnds
    <3>2. pod[j] # "none" /\ (k # j => pod'[k] = pod[k])
      BY <2>1 DEF PodEnds, TypeOK
    <3> QED
      BY <2>1, <3>1, <3>2 DEF PodEnds, Touched, sweep
  <2>2. CASE PodExpires(j)
    BY <2>2 DEF PodExpires, Touched, Evented, watch, sweep
  <2>3. CASE PodRemoved(j)
    <3>1. Evented' \subseteq Evented \cup {j}
      BY <2>3, NoticeEvented DEF PodRemoved
    <3>2. j \in doomed /\ (k # j => pod'[k] = pod[k])
      BY <2>3 DEF PodRemoved, TypeOK
    <3> QED
      BY <2>3, <3>1, <3>2 DEF PodRemoved, Touched, sweep
  <2> QED
    BY <1>6, <2>1, <2>2, <2>3
<1>7. CASE WatchStep \/ WatchDrops
  <2>1. CASE HandleEvent
    BY <2>1, HeadEvented DEF HandleEvent, Touched, kubernetes, sweep
  <2>2. CASE WatchStarts \/ WatchDrops
    <3>1. UNCHANGED <<creating, deleting, pod, doomed, sweepTodo, sweepCur, events>>
      BY <2>2 DEF WatchStarts, WatchDrops, kubernetes, sweep
    <3> QED
      BY <3>1 DEF Touched, Evented
  <2> QED
    BY <1>7, <2>1, <2>2 DEF WatchStep
<1>8. CASE SweepStep
  <2>1. CASE SweepList
    BY <2>1 DEF SweepList, Sweepable, Touched, Evented, kubernetes, watch
  <2>2. CASE \E j \in Job : SweepCredit(j)
    BY <2>2 DEF SweepCredit, Touched, Evented, kubernetes, watch
  <2>3. CASE SweepDelete
    <3>1. sweepCur \in Job /\ sweepCur' = NoJob
      BY <2>3 DEF SweepDelete, TypeOK
    <3>2. \/ DeletePod(sweepCur)
          \/ UNCHANGED <<pod, doomed, expired, events, missed>>
      BY <2>3 DEF SweepDelete
    <3>3. k # NoJob
      BY RentalAssumption
    <3> QED
      BY <2>3, <3>1, <3>2, <3>3, DeletionTouches DEF SweepDelete, Touched
  <2> QED
    BY <1>8, <2>1, <2>2, <2>3 DEF SweepStep
<1>9. ~ BootWith({})
  BY DEF BootWith
<1>10. CASE UNCHANGED vars
  BY <1>10 DEF vars, Touched, Evented, kubernetes, watch, sweep
<1> QED
  BY <1>1, <1>2, <1>3, <1>4, <1>5, <1>6, <1>7, <1>8, <1>9, <1>10 DEF Next

\* One call of releaseJobResources on behalf of j, which may strike j from
\* those that owe if it gives back on the type j was charged on.
GivesBack(j) ==
  /\ known' = known
  /\ \E t \in GPUType, a \in Amounts :
       /\ Credit(Place[j], t, a)
       /\ a["gpu"] = Charge(j)["gpu"]
       /\ \/ owed' = owed
          \/ /\ owed' = owed \ {j}
             /\ Place[j] \in known => t = Model(Place[j])

LEMMA CreditPodGives ==
  ASSUME TypeOK, NEW j \in Job, CreditPod(j), known' = known
  PROVE  GivesBack(j)
<1>1. CASE Placed(j)
  BY <1>1, ConstantTypes, AmountTypes DEF CreditPod, GivesBack
<1>2. CASE ~ Placed(j)
  <2>1. Place[j] \notin known
    BY <1>2, RentalAssumption DEF Placed, TypeOK
  <2>2. Credit(Place[j], DefaultType, PodSize(j)) /\ owed' = owed \ {j}
    BY <1>2, <2>1 DEF CreditPod, Credit
  <2> QED
    BY <2>1, <2>2, AmountTypes, GPUTypeAssumption DEF GivesBack
<1> QED
  BY <1>1, <1>2

\* Every step but a registration, a crash and a boot.
Serving ==
  \/ \E j \in Job : CheckRequest(j) \/ DeleteLookup(j)
  \/ \E j \in Job : CreateStep(j) \/ DeleteStep(j)
  \/ \E j \in Job : PodEnds(j) \/ PodExpires(j) \/ PodRemoved(j)
  \/ WatchStep \/ WatchDrops \/ SweepStep

\* All a serving process does to the ledger and to who owes.
LEMMA ServingSteps ==
  ASSUME TypeOK, Serving
  PROVE  \/ \E j \in Job : Debit(j)
         \/ \E j \in Job : Touched(j) /\ GivesBack(j)
         \/ UNCHANGED <<known, ledger, owed>>
<1>1. SUFFICES ASSUME ~ UNCHANGED <<known, ledger, owed>>
               PROVE  \/ \E j \in Job : Debit(j)
                      \/ \E j \in Job : Touched(j) /\ GivesBack(j)
  OBVIOUS
<1>2. \A j \in Job : ~ CheckRequest(j) /\ ~ DeleteLookup(j)
  BY <1>1 DEF CheckRequest, DeleteLookup, providers, ghosts
<1>3. ASSUME NEW j \in Job, CreateStep(j), ~ Debit(j)
      PROVE  Touched(j) /\ GivesBack(j)
  <2>1. ~ CreatePod(j) /\ ~ CreateService(j) /\ ~ UndoPod(j)
    BY <1>1 DEF CreatePod, CreateService, UndoPod, providers, ghosts
  <2>2. Rollback(j)
    BY <1>3, <2>1 DEF CreateStep
  <2>3. Touched(j)
    BY <2>2 DEF Rollback, At, Touched
  <2>4. CASE Placed(j)
    <3>1. /\ Credit(Place[j], Model(Place[j]), Charge(j))
          /\ owed' = owed \ {j} /\ known' = known
      BY <2>2, <2>4 DEF Rollback
    <3>2. Model(Place[j]) \in GPUType /\ Charge(j) \in Amounts
      BY <2>4, ConstantTypes, AmountTypes
    <3> QED
      BY <2>3, <3>1, <3>2 DEF GivesBack
  <2>5. CASE ~ Placed(j)
    <3>1. Place[j] \notin known
      BY <2>5, RentalAssumption DEF Placed, TypeOK
    <3>2. /\ Credit(Place[j], DefaultType, Charge(j))
          /\ owed' = owed \ {j} /\ known' = known
      BY <2>2, <2>5, <3>1 DEF Rollback, Credit
    <3> QED
      BY <2>3, <3>1, <3>2, AmountTypes, GPUTypeAssumption DEF GivesBack
  <2> QED
    BY <2>3, <2>4, <2>5
<1>4. ASSUME NEW j \in Job, DeleteStep(j)
      PROVE  Touched(j) /\ GivesBack(j)
  <2>1. ~ DeleteErase(j)
    BY <1>1 DEF DeleteErase, providers
  <2>2. DeleteCredit(j)
    BY <1>4, <2>1 DEF DeleteStep
  <2>3. /\ Credit(Place[j], DefaultType, PodSize(j))
        /\ known' = known
        /\ \/ owed' = owed
           \/ owed' = owed \ {j} /\ DefaultType = Model(Place[j])
    BY <2>2 DEF DeleteCredit
  <2> QED
    BY <2>2, <2>3, AmountTypes, GPUTypeAssumption
    DEF DeleteCredit, Touched, GivesBack
<1>5. \A j \in Job : ~ PodEnds(j) /\ ~ PodExpires(j) /\ ~ PodRemoved(j)
  BY <1>1 DEF PodEnds, PodExpires, PodRemoved, providers, ghosts
<1>6. ~ WatchStarts /\ ~ WatchDrops /\ ~ SweepList /\ ~ SweepDelete
  BY <1>1 DEF WatchStarts, WatchDrops, SweepList, SweepDelete, providers, ghosts
<1>7. ASSUME HandleEvent
      PROVE  \E j \in Job : Touched(j) /\ GivesBack(j)
  BY <1>7, HeadEvented, CreditPodGives DEF HandleEvent, Touched
<1>8. ASSUME NEW j \in Job, SweepCredit(j)
      PROVE  Touched(j) /\ GivesBack(j)
  BY <1>8, CreditPodGives DEF SweepCredit, Touched
<1> QED
  BY <1>2, <1>3, <1>4, <1>5, <1>6, <1>7, <1>8
  DEF Serving, WatchStep, SweepStep

LEMMA LedgerSteps ==
  ASSUME TypeOK, [Next]_vars, up, ~ Crash
  PROVE  \/ \E p \in Provider : Register(p)
         \/ \E j \in Job : Debit(j)
         \/ \E j \in Job : Touched(j) /\ GivesBack(j)
         \/ UNCHANGED <<known, ledger, owed>>
<1>1. ~ BootWith({})
  BY DEF BootWith
<1>2. CASE UNCHANGED vars
  BY <1>2 DEF vars, providers, ghosts
<1>3. CASE \E p \in Provider : Register(p)
  BY <1>3
<1>4. CASE Serving
  BY <1>4, ServingSteps
<1> QED
  BY <1>1, <1>2, <1>3, <1>4 DEF Next, Serving

\* What a debit does to the ledger entry of a known provider.
LEMMA DebitLedger ==
  ASSUME TypeOK, NEW j \in Job, Debit(j), Place[j] \in known
  PROVE  LET p == Place[j]
             r == Allocate(ledger[p], Machine[p], Model(p), Charge(j))
         IN /\ p \in Provider /\ ledger[p] \in Capacities
            /\ r.ok \in BOOLEAN /\ r.cap \in Capacities /\ ~ r.cap.availNil
            /\ r.cap.miningGPU = ledger[p].miningGPU
            /\ ledger' = [ledger EXCEPT ![p] = r.cap]
            /\ creating' = [creating EXCEPT ![j] = IF r.ok THEN "accepted"
                                                   ELSE "failed"]
            /\ owed' = IF r.ok THEN owed \cup {j} ELSE owed
<1>1. /\ Place[j] \in Provider
      /\ ledger[Place[j]] \in Capacities
  BY DEF TypeOK
<1> DEFINE p == Place[j]
           r == Allocate(ledger[p], Machine[p], Model(p), Charge(j))
<1>2. /\ Machine[p] \in Machines /\ Model(p) \in GPUType
      /\ Charge(j) \in Amounts
  BY <1>1, ConstantTypes, AmountTypes
<1>3. /\ r.ok \in BOOLEAN /\ r.cap \in Capacities /\ ~ r.cap.availNil
      /\ r.cap.miningGPU = ledger[p].miningGPU
  BY <1>1, <1>2, AllocateColumns
<1>4. /\ ledger' = [ledger EXCEPT ![p] = r.cap]
      /\ creating' = [creating EXCEPT ![j] = IF r.ok THEN "accepted"
                                             ELSE "failed"]
      /\ owed' = IF r.ok THEN owed \cup {j} ELSE owed
  BY DEF Debit, GoTo
<1> HIDE DEF r
<1> QED
  BY <1>1, <1>3, <1>4 DEF r

\* What a release does to the ledger entry of a known provider.
LEMMA CreditLedger ==
  ASSUME TypeOK, NEW q \in known, NEW t \in GPUType, NEW a \in Amounts,
         Credit(q, t, a)
  PROVE  /\ q \in Provider /\ ledger[q] \in Capacities
         /\ ledger' = [ledger EXCEPT ![q] = Release(ledger[q], t, a)]
         /\ Release(ledger[q], t, a) \in Capacities
         /\ ~ Release(ledger[q], t, a).availNil
<1>1. q \in Provider /\ ledger[q] \in Capacities
  BY DEF TypeOK
<1> QED
  BY <1>1, ReleaseColumns DEF Credit

-----------------------------------------------------------------------------
(* Nothing is forgotten *)

Calm == Unspent({"register", "crash"})

\* The available map of the providers of such jobs is not nil: the debit has
\* made it, so no release can fill it with less than the machine's GPUs.
TouchedIsOpen ==
  Calm => /\ up
          /\ \A j \in Job : Touched(j) /\ Placed(j) =>
               Place[j] \in known /\ ~ ledger[Place[j]].availNil

LEMMA CalmStep ==
  ASSUME TypeOK, [Next]_vars, Calm'
  PROVE  /\ Calm
         /\ ~ Crash
         /\ \A p \in known : ~ Register(p)
<1>1. {"register", "crash"} \in SUBSET Event
  BY DEF Event
<1>2. Calm
  BY <1>1, UnspentBefore DEF Calm
<1>3. \A E : SpendAll(E) => "register" \notin E /\ "crash" \notin E
  BY <1>1, SpendAllGrows DEF Calm, Unspent
<1>4. ~ Crash
  BY <1>3 DEF Crash, Spend
<1>5. \A p \in known : ~ Register(p)
  BY <1>3 DEF Register, Spend
<1> QED
  BY <1>2, <1>4, <1>5

LEMMA OpenStays ==
  ASSUME TypeOK, [Next]_vars, Calm', up, NEW p \in known, ~ ledger[p].availNil
  PROVE  p \in known' /\ ~ ledger'[p].availNil
<1>1. ~ Crash /\ \A q \in known : ~ Register(q)
  BY CalmStep
<1>2. p \in Provider /\ ledger \in [Provider -> Capacities]
  BY DEF TypeOK
<1>3. ASSUME NEW q \in Provider, Register(q)
      PROVE  p \in known' /\ ~ ledger'[p].availNil
  <2>1. q # p
    BY <1>1, <1>3
  <2> QED
    BY <1>2, <1>3, <2>1 DEF Register
<1>4. ASSUME NEW j \in Job, Debit(j)
      PROVE  p \in known' /\ ~ ledger'[p].availNil
  <2>1. known' = known
    BY <1>4 DEF Debit
  <2>2. CASE Place[j] \in known
    BY <1>2, <1>4, <2>1, <2>2, DebitLedger
  <2>3. CASE Place[j] \notin known
    BY <1>4, <2>1, <2>3 DEF Debit
  <2> QED
    BY <2>2, <2>3
<1>5. ASSUME NEW j \in Job, GivesBack(j)
      PROVE  p \in known' /\ ~ ledger'[p].availNil
  <2>1. PICK t \in GPUType, a \in Amounts : Credit(Place[j], t, a)
    BY <1>5 DEF GivesBack
  <2>2. known' = known
    BY <1>5 DEF GivesBack
  <2>3. CASE Place[j] \in known
    BY <1>2, <2>1, <2>2, <2>3, CreditLedger
  <2>4. CASE Place[j] \notin known
    BY <2>1, <2>2, <2>4 DEF Credit
  <2> QED
    BY <2>3, <2>4
<1> QED
  BY <1>1, <1>3, <1>4, <1>5, LedgerSteps

LEMMA TouchedStep ==
  ASSUME TypeOK, TouchedIsOpen, [Next]_vars
  PROVE  TouchedIsOpen'
<1>1. SUFFICES ASSUME Calm'
               PROVE  /\ up'
                      /\ \A j \in Job : Touched(j)' /\ Placed(j) =>
                           Place[j] \in known' /\ ~ ledger'[Place[j]].availNil
  BY DEF TouchedIsOpen, Placed
<1>2. Calm /\ ~ Crash /\ up
  BY <1>1, CalmStep DEF TouchedIsOpen
<1>3. up'
  BY <1>2
  DEF Next, Register, CheckRequest, DeleteLookup, CreateStep, Debit, CreatePod,
      CreateService, UndoPod, Rollback, DeleteStep, DeleteErase, DeleteCredit,
      PodEnds, PodExpires, PodRemoved, WatchStep, HandleEvent, WatchStarts,
      WatchDrops, SweepStep, SweepList, SweepCredit, SweepDelete, BootWith,
      vars
<1>4. ASSUME NEW j \in Job, Touched(j)', Placed(j)
      PROVE  Place[j] \in known' /\ ~ ledger'[Place[j]].availNil
  <2>1. CASE Touched(j)
    BY <1>1, <1>2, <1>4, <2>1, OpenStays DEF TouchedIsOpen
  <2>2. CASE Debit(j) /\ Place[j] \in known
    <3>1. known' = known
      BY <2>2 DEF Debit
    <3>2. ledger \in [Provider -> Capacities]
      BY DEF TypeOK
    <3> QED
      BY <2>2, <3>1, <3>2, DebitLedger
  <2> QED
    BY <1>2, <1>4, <2>1, <2>2, TouchedBefore
<1> QED
  BY <1>3, <1>4

-----------------------------------------------------------------------------
(* On offer or owed *)

LEMMA OfferedType ==
  ASSUME NEW c \in Capacities, NEW m \in Machines, NEW t \in GPUType
  PROVE  Offered(c, m, t) \in Nat
BY SpecTotalType DEF Offered, Capacities

LEMMA ReleaseOffers ==
  ASSUME NEW c \in Capacities, ~ c.availNil, NEW m \in Machines,
         NEW t0 \in GPUType, NEW a \in Amounts, NEW t \in GPUType
  PROVE  Offered(Release(c, t0, a), m, t)
           = Offered(c, m, t) + IF t = t0 THEN a["gpu"] ELSE 0
<1>1. /\ Release(c, t0, a).availGPU = [c.availGPU EXCEPT ![t0] = @ + a.gpu]
      /\ ~ Release(c, t0, a).availNil
  BY ReleaseColumns
<1>2. c.availGPU \in [GPUType -> Nat] /\ a.gpu \in Nat
  BY DEF Capacities, Amounts
<1> QED
  BY <1>1, <1>2 DEF Offered

\* And out of use: that much less of the type, and never below nothing.
LEMMA ReleaseInUse ==
  ASSUME NEW c \in Capacities, ~ c.inUseNil, NEW t0 \in GPUType,
         NEW a \in Amounts, NEW t \in GPUType
  PROVE  /\ Release(c, t0, a).miningGPU = c.miningGPU
         /\ Release(c, t0, a).inUseGPU[t]
              = IF t0 = t THEN NonNeg(c.inUseGPU[t] - a["gpu"])
                ELSE c.inUseGPU[t]
<1>1. /\ Release(c, t0, a).miningGPU = c.miningGPU
      /\ Release(c, t0, a).inUseGPU
           = [c.inUseGPU EXCEPT ![t0] = IF c.inUseNil THEN @
                                        ELSE NonNeg(@ - a.gpu)]
  BY ReleaseColumns
<1>2. c.inUseGPU \in [GPUType -> Nat]
  BY DEF Capacities
<1> QED
  BY <1>1, <1>2

\* What is on offer of a type at a provider, or charged to a job of it.
Pool(p, t) == Offered(ledger[p], Machine[p], t) + Owed(p, t)

LEMMA OwedAfter ==
  ASSUME owed' \subseteq Job, NEW p, NEW t
  PROVE  /\ Debtors(p, t)' = {j \in owed' : Place[j] = p /\ Model(p) = t}
         /\ Debtors(p, t)' \in SUBSET Job
         /\ Owed(p, t)' = Total(GPUs, Debtors(p, t)')
         /\ Owed(p, t)' \in Nat
<1>1. Debtors(p, t)' = {j \in owed' : Place[j] = p /\ Model(p) = t}
  BY DEF Debtors, Model
<1>2. Owed(p, t)' = Total(GPUs, Debtors(p, t)')
  BY DEF Owed, GPUs, Charge
<1> QED
  BY <1>1, <1>2, GPUsOf

LEMMA OneDebtor ==
  ASSUME NEW S \in SUBSET Job, NEW j \in Job, j \notin S
  PROVE  /\ Total(GPUs, S \cup {j}) = Total(GPUs, S) + Charge(j)["gpu"]
         /\ Charge(j)["gpu"] \in Nat
<1>1. GPUs[j] \in Nat /\ GPUs[j] = Charge(j)["gpu"]
  BY AmountTypes DEF GPUs, Amounts
<1>2. IsFiniteSet(S) /\ \A k \in S : GPUs[k] \in Nat
  BY GPUsOf
<1> QED
  BY <1>1, <1>2, TotalAdd

\* One more job that owes, and one fewer.
LEMMA OwedMore ==
  ASSUME TypeOK, NEW j \in Job, j \notin owed, owed' = owed \cup {j}, NEW p, NEW t
  PROVE  Owed(p, t)' = Owed(p, t) + IF Place[j] = p /\ Model(p) = t
                                    THEN Charge(j)["gpu"] ELSE 0
<1>1. owed' \subseteq Job
  BY DEF TypeOK
<1>2. /\ Debtors(p, t)' = {k \in owed' : Place[k] = p /\ Model(p) = t}
      /\ Owed(p, t)' = Total(GPUs, Debtors(p, t)')
  BY <1>1, OwedAfter
<1>3. /\ Debtors(p, t) \in SUBSET Job
      /\ Owed(p, t) = Total(GPUs, Debtors(p, t))
      /\ Owed(p, t) \in Nat
  BY OwedType
<1>4. CASE Place[j] = p /\ Model(p) = t
  <2>1. Debtors(p, t)' = Debtors(p, t) \cup {j} /\ j \notin Debtors(p, t)
    BY <1>2, <1>4 DEF Debtors
  <2> QED
    BY <1>2, <1>3, <1>4, <2>1, OneDebtor
<1>5. CASE ~ (Place[j] = p /\ Model(p) = t)
  <2>1. Debtors(p, t)' = Debtors(p, t)
    BY <1>2, <1>5 DEF Debtors
  <2> QED
    BY <1>2, <1>3, <1>5, <2>1
<1> QED
  BY <1>4, <1>5

LEMMA OwedLess ==
  ASSUME TypeOK, NEW j \in owed, owed' = owed \ {j}, NEW p, NEW t
  PROVE  /\ Owed(p, t) = Owed(p, t)' + IF Place[j] = p /\ Model(p) = t
                                       THEN Charge(j)["gpu"] ELSE 0
         /\ Charge(j)["gpu"] \in Nat
<1>1. owed' \subseteq Job /\ j \in Job
  BY DEF TypeOK
<1>2. /\ Debtors(p, t)' = {k \in owed' : Place[k] = p /\ Model(p) = t}
      /\ Debtors(p, t)' \in SUBSET Job
      /\ Owed(p, t)' = Total(GPUs, Debtors(p, t)')
      /\ Owed(p, t)' \in Nat
  BY <1>1, OwedAfter
<1>3. Owed(p, t) = Total(GPUs, Debtors(p, t))
  BY OwedType
<1>4. Charge(j)["gpu"] \in Nat
  BY <1>1, AmountTypes DEF Amounts
<1>5. CASE Place[j] = p /\ Model(p) = t
  <2> DEFINE S == Debtors(p, t)'
  <2>1. j \notin S /\ S \cup {j} = Debtors(p, t)
    BY <1>2, <1>5 DEF Debtors
  <2> HIDE DEF S
  <2>2. S \in SUBSET Job /\ Owed(p, t)' = Total(GPUs, S)
    BY <1>2 DEF S
  <2>3. Total(GPUs, S \cup {j}) = Total(GPUs, S) + Charge(j)["gpu"]
    BY <1>1, <2>1, <2>2, OneDebtor
  <2> QED
    BY <1>3, <1>4, <1>5, <2>1, <2>2, <2>3
<1>6. CASE ~ (Place[j] = p /\ Model(p) = t)
  <2>1. Debtors(p, t)' = Debtors(p, t)
    BY <1>2, <1>6 DEF Debtors
  <2>2. Owed(p, t) = Owed(p, t)'
    BY <1>2, <1>3, <2>1
  <2> QED
    BY <1>2, <1>4, <1>6, <2>2
<1> QED
  BY <1>5, <1>6

\* An accepted debit moves GPUs from offered to owed, a refused one nothing.
LEMMA DebitPool ==
  ASSUME TypeOK, TypeOK', FreshUncharged, NEW j \in Job, Debit(j)
  PROVE  \A p \in known, t \in GPUType : Pool(p, t)' = Pool(p, t)
<1> SUFFICES ASSUME NEW p \in known, NEW t \in GPUType
             PROVE  Pool(p, t)' = Pool(p, t)
  OBVIOUS
<1>1. /\ p \in Provider /\ ledger \in [Provider -> Capacities]
      /\ ledger[p] \in Capacities
      /\ Machine[p] \in Machines /\ Model(p) \in GPUType
      /\ Machine' = Machine
  BY ConstantTypes DEF TypeOK
<1>2. owed' \subseteq Job /\ j \notin owed
  BY DEF TypeOK, Debit, At, FreshUncharged
<1>3. Pool(p, t)' = Offered(ledger'[p], Machine[p], t) + Owed(p, t)'
  BY DEF Pool
<1>4. /\ Debtors(p, t) \in SUBSET Job
      /\ Owed(p, t) = Total(GPUs, Debtors(p, t))
      /\ Owed(p, t) \in Nat
  BY OwedType
<1>5. CASE p = Place[j]
  <2> DEFINE r == Allocate(ledger[p], Machine[p], Model(p), Charge(j))
  <2>1. /\ r.ok \in BOOLEAN /\ r.cap \in Capacities /\ ~ r.cap.availNil
        /\ ledger' = [ledger EXCEPT ![p] = r.cap]
        /\ owed' = IF r.ok THEN owed \cup {j} ELSE owed
    BY <1>5, DebitLedger
  <2>2. /\ r.ok => r.cap.availGPU
                     = [InitMaps(ledger[p], Machine[p], Model(p)).availGPU
                          EXCEPT ![Model(p)] = @ - Charge(j).gpu]
        /\ ~ r.ok => r.cap.availGPU
                       = InitMaps(ledger[p], Machine[p], Model(p)).availGPU
    BY <1>1, AmountTypes, AllocateColumns
  <2> HIDE DEF r
  <2>3. ledger'[p] = r.cap
    BY <1>1, <2>1
  <2>4. CASE r.ok
    <3> DEFINE c0 == InitMaps(ledger[p], Machine[p], Model(p))
    <3>1. c0 \in Capacities /\ ~ c0.availNil
      BY <1>1, InitMapsType
    <3>2. Offered(c0, Machine[p], t) = Offered(ledger[p], Machine[p], t)
      BY <1>1, <3>1, InitMapsOffers DEF Model
    <3>3. /\ c0.availGPU \in [GPUType -> Nat]
          /\ Offered(c0, Machine[p], t) = c0.availGPU[t]
      BY <3>1 DEF Offered, Capacities
    <3>4. r.cap.availGPU = [c0.availGPU EXCEPT ![Model(p)] = @ - Charge(j).gpu]
      BY <2>2, <2>4
    <3> HIDE DEF c0
    <3>5. Offered(r.cap, Machine[p], t) = r.cap.availGPU[t]
      BY <2>1 DEF Offered
    <3>6. Owed(p, t)' = Owed(p, t) + IF Model(p) = t THEN Charge(j)["gpu"] ELSE 0
      BY <1>2, <1>5, <2>1, <2>4, OwedMore
    <3>7. Charge(j)["gpu"] \in Nat
      BY AmountTypes DEF Amounts
    <3>8. r.cap.availGPU[t] = c0.availGPU[t] - IF Model(p) = t
                                               THEN Charge(j)["gpu"] ELSE 0
      BY <1>1, <3>3, <3>4, <3>7
    <3> QED
      BY <1>3, <1>4, <2>3, <3>2, <3>3, <3>5, <3>6, <3>7, <3>8 DEF Pool
  <2>5. CASE ~ r.ok
    <3>1. Offered(r.cap, Machine[p], t) = Offered(ledger[p], Machine[p], t)
      BY <1>1, <2>1, <2>2, <2>5, InitMapsOffers DEF Model
    <3>2. Owed(p, t)' = Owed(p, t)
      BY <2>1, <2>5 DEF Owed, Debtors
    <3> QED
      BY <1>3, <2>3, <3>1, <3>2 DEF Pool
  <2> QED
    BY <2>1, <2>4, <2>5
<1>6. CASE p # Place[j]
  <2>1. ledger'[p] = ledger[p]
    <3>1. CASE Place[j] \in known
      BY <1>1, <1>6, <3>1, DebitLedger
    <3>2. CASE Place[j] \notin known
      BY <3>2 DEF Debit
    <3> QED
      BY <3>1, <3>2
  <2>2. owed' = owed \/ owed' = owed \cup {j}
    BY DEF Debit
  <2>3. owed' = owed => Owed(p, t)' = Owed(p, t)
    BY DEF Owed, Debtors
  <2>4. Owed(p, t)' = Owed(p, t)
    BY <1>2, <1>4, <1>6, <2>2, <2>3, OwedMore
  <2> QED
    BY <1>3, <2>1, <2>4 DEF Pool
<1> QED
  BY <1>5, <1>6

\* Where the available map is not nil, a release puts on offer at least what
\* it strikes from what is owed, and exactly that if the job does owe.
LEMMA CreditPool ==
  ASSUME TypeOK, TypeOK', NEW j \in Job, GivesBack(j),
         Place[j] \in known => ~ ledger[Place[j]].availNil
  PROVE  \A p \in known, t \in GPUType :
           /\ Pool(p, t)' >= Pool(p, t)
           /\ j \in owed /\ owed' = owed \ {j} => Pool(p, t)' = Pool(p, t)
<1> SUFFICES ASSUME NEW p \in known, NEW t \in GPUType
             PROVE  /\ Pool(p, t)' >= Pool(p, t)
                    /\ j \in owed /\ owed' = owed \ {j}
                         => Pool(p, t)' = Pool(p, t)
  OBVIOUS
<1>1. /\ p \in Provider /\ ledger \in [Provider -> Capacities]
      /\ ledger[p] \in Capacities
      /\ Machine[p] \in Machines /\ Model(p) \in GPUType
  BY ConstantTypes DEF TypeOK
<1>2. owed' \subseteq Job
  BY DEF TypeOK
<1>3. Pool(p, t)' = Offered(ledger'[p], Machine[p], t) + Owed(p, t)'
  BY DEF Pool
<1>4. /\ Debtors(p, t) \in SUBSET Job
      /\ Owed(p, t) = Total(GPUs, Debtors(p, t))
      /\ Owed(p, t) \in Nat
      /\ Owed(p, t)' \in Nat
      /\ Offered(ledger[p], Machine[p], t) \in Nat
  BY <1>1, <1>2, OwedType, OwedAfter, OfferedType
<1>5. PICK t0 \in GPUType, a \in Amounts :
        /\ Credit(Place[j], t0, a)
        /\ a["gpu"] = Charge(j)["gpu"]
        /\ \/ owed' = owed
           \/ /\ owed' = owed \ {j}
              /\ Place[j] \in known => t0 = Model(Place[j])
  BY DEF GivesBack
<1>6. a["gpu"] \in Nat
  BY DEF Amounts
<1>7. CASE p = Place[j]
  <2>1. ledger'[p] = Release(ledger[p], t0, a)
    BY <1>1, <1>5, <1>7, CreditLedger
  <2>2. Offered(ledger'[p], Machine[p], t)
          = Offered(ledger[p], Machine[p], t) + IF t = t0 THEN a["gpu"] ELSE 0
    BY <1>1, <1>7, <2>1, ReleaseOffers
  <2>3. CASE owed' = owed
    <3>1. Owed(p, t)' = Owed(p, t)
      BY <2>3 DEF Owed, Debtors
    <3>2. ~ (j \in owed /\ owed' = owed \ {j})
      BY <2>3
    <3> QED
      BY <1>3, <1>4, <1>6, <2>2, <3>1, <3>2 DEF Pool
  <2>4. CASE owed' = owed \ {j} /\ t0 = Model(p)
    <3>1. CASE j \in owed
      <4>1. Owed(p, t) = Owed(p, t)' + IF t = t0 THEN a["gpu"] ELSE 0
        BY <1>5, <1>7, <2>4, <3>1, OwedLess
      <4> QED
        BY <1>3, <1>4, <1>6, <2>2, <4>1 DEF Pool
    <3>2. CASE j \notin owed
      <4>1. Owed(p, t)' = Owed(p, t)
        BY <2>4, <3>2 DEF Owed, Debtors
      <4> QED
        BY <1>3, <1>4, <1>6, <2>2, <3>2, <4>1 DEF Pool
    <3> QED
      BY <3>1, <3>2
  <2> QED
    BY <1>5, <1>7, <2>3, <2>4
<1>8. CASE p # Place[j]
  <2>1. ledger'[p] = ledger[p]
    <3>1. CASE Place[j] \in known
      BY <1>1, <1>5, <1>8, <3>1, CreditLedger
    <3>2. CASE Place[j] \notin known
      BY <1>5, <3>2 DEF Credit
    <3> QED
      BY <3>1, <3>2
  <2>2. Debtors(p, t)' = Debtors(p, t)
    BY <1>2, <1>5, <1>8, OwedAfter DEF Debtors
  <2>3. Owed(p, t)' = Owed(p, t)
    BY <1>2, <1>4, <2>2, OwedAfter
  <2> QED
    BY <1>3, <1>4, <2>1, <2>3 DEF Pool
<1> QED
  BY <1>7, <1>8

\* The pool of a provider is at least what its registration put on offer.
Remembered(p) ==
  Pool(p, Model(p)) >= Offered(Fresh(Machine[p]), Machine[p], Model(p))

PoolIsWhole ==
  Calm => \A p \in known : Remembered(p)

LEMMA RememberedStep ==
  ASSUME TypeOK, TypeOK', TouchedIsOpen, FreshUncharged, PoolIsWhole, [Next]_vars
  PROVE  PoolIsWhole'
<1>1. SUFFICES ASSUME Calm', NEW p \in known'
               PROVE  Remembered(p)'
  BY DEF PoolIsWhole
<1>2. Calm /\ ~ Crash /\ up /\ \A q \in known : ~ Register(q)
  BY <1>1, CalmStep DEF TouchedIsOpen
<1>3. p \in known => Remembered(p)
  BY <1>2 DEF PoolIsWhole
<1>4. p \in Provider
  BY DEF TypeOK
<1>5. Offered(Fresh(Machine[p]), Machine[p], Model(p)) \in Nat
  BY <1>4, ConstantTypes, FreshType, OfferedType
<1>6. p \in known => Pool(p, Model(p)) \in Nat
  <2>1. p \in known => ledger[p] \in Capacities
    BY DEF TypeOK
  <2> QED
    BY <1>4, <2>1, ConstantTypes, OfferedType, OwedType DEF Pool
<1>7. /\ Remembered(p)' <=> Pool(p, Model(p))'
                              >= Offered(Fresh(Machine[p]), Machine[p], Model(p))
      /\ Pool(p, Model(p))' \in Nat
  <2>1. ledger'[p] \in Capacities /\ owed' \subseteq Job
    BY <1>4 DEF TypeOK
  <2>2. Pool(p, Model(p))'
          = Offered(ledger'[p], Machine[p], Model(p)) + Owed(p, Model(p))'
    BY DEF Pool, Model
  <2>3. Pool(p, Model(p))' \in Nat
    BY <1>4, <2>1, <2>2, ConstantTypes, OfferedType, OwedAfter
  <2> QED
    BY <2>3 DEF Remembered, Model
<1>8. ASSUME NEW q \in Provider, Register(q)
      PROVE  Remembered(p)'
  <2>1. CASE p = q
    <3>1. ledger'[p] = Fresh(Machine[p]) /\ owed' = {j \in owed : Place[j] # p}
      BY <1>4, <1>8, <2>1 DEF Register, TypeOK
    <3>2. Owed(p, Model(p))' \in Nat
      BY <3>1, OwedAfter DEF TypeOK
    <3>3. Pool(p, Model(p))'
            = Offered(Fresh(Machine[p]), Machine[p], Model(p)) + Owed(p, Model(p))'
      BY <3>1 DEF Pool, Model
    <3> QED
      BY <1>5, <1>7, <3>2, <3>3
  <2>2. CASE p # q
    <3>1. /\ p \in known /\ ledger'[p] = ledger[p]
          /\ owed' = {j \in owed : Place[j] # q}
      BY <1>4, <1>8, <2>2 DEF Register, TypeOK
    <3>2. Debtors(p, Model(p))' = Debtors(p, Model(p))
      BY <2>2, <3>1 DEF Debtors, Model
    <3>3. Pool(p, Model(p))' = Pool(p, Model(p))
      BY <3>1, <3>2 DEF Pool, Owed, Model, Charge
    <3> QED
      BY <1>3, <1>7, <3>1, <3>3 DEF Remembered
  <2> QED
    BY <2>1, <2>2
<1>9. ASSUME NEW j \in Job, Debit(j)
      PROVE  Remembered(p)'
  <2>1. known' = known
    BY <1>9 DEF Debit
  <2>2. Pool(p, Model(p))' = Pool(p, Model(p))
    BY <1>4, <1>9, <2>1, ConstantTypes, DebitPool DEF Model
  <2> QED
    BY <1>3, <1>7, <2>1, <2>2 DEF Remembered
<1>10. ASSUME NEW j \in Job, Touched(j), GivesBack(j)
       PROVE  Remembered(p)'
  <2>1. known' = known
    BY <1>10 DEF GivesBack
  <2>2. Place[j] \in known => ~ ledger[Place[j]].availNil
    BY <1>2, <1>10, ConstantTypes DEF TouchedIsOpen, TypeOK
  <2>3. Pool(p, Model(p))' >= Pool(p, Model(p))
    BY <1>4, <1>10, <2>1, <2>2, ConstantTypes, CreditPool DEF Model
  <2> QED
    BY <1>3, <1>5, <1>6, <1>7, <2>1, <2>3 DEF Remembered
<1>11. CASE UNCHANGED <<known, ledger, owed>>
  <2>1. Pool(p, Model(p))' = Pool(p, Model(p))
    BY <1>11 DEF Pool, Owed, Debtors, Model, Charge
  <2> QED
    BY <1>3, <1>7, <1>11, <2>1 DEF Remembered
<1> QED
  BY <1>2, <1>8, <1>9, <1>10, <1>11, LedgerSteps

\* Until the process is restarted or a provider registers again, everything
\* a provider registered with is on offer or owed.  A release credits what it
\* is asked to credit, so the argument is about the order: no release comes
\* before the debit has made the available map (TouchedIsOpen), and no job is
\* charged twice (FreshUncharged).
THEOREM NothingForgotten == Spec => []NothingIsForgotten
<1>1. Init => TouchedIsOpen /\ PoolIsWhole /\ FreshUncharged
  <2> SUFFICES ASSUME Init
               PROVE  TouchedIsOpen /\ PoolIsWhole /\ FreshUncharged
    OBVIOUS
  <2>1. Evented = {}
    BY DEF Init, Evented
  <2>2. \A j \in Job : ~ Touched(j)
    BY <2>1, RentalAssumption DEF Init, Touched
  <2> QED
    BY <2>2 DEF Init, TouchedIsOpen, PoolIsWhole, FreshUncharged
<1>2. /\ TypeOK /\ TypeOK' /\ TouchedIsOpen /\ PoolIsWhole /\ FreshUncharged
      /\ [Next]_vars
      => (TouchedIsOpen /\ PoolIsWhole /\ FreshUncharged)'
  BY TouchedStep, RememberedStep, FreshStep
<1>3. TypeOK /\ PoolIsWhole => NothingIsForgotten
  <2> SUFFICES ASSUME TypeOK, PoolIsWhole,
                      spent["register"] + spent["crash"] = 0
               PROVE  \A p \in known : Remembered(p)
    BY DEF NothingIsForgotten, Remembered, Pool
  <2>1. spent["register"] = 0 /\ spent["crash"] = 0
    BY DEF TypeOK, Event
  <2> QED
    BY <2>1 DEF PoolIsWhole, Calm, Unspent
<1> QED
  BY <1>1, <1>2, <1>3, TypeCorrect, PTL DEF Spec

-----------------------------------------------------------------------------
(* While pods stay *)

\* No job has ended or expired, no deletion was asked for and no service
\* creation failed: no pod that was made has gone or is going.
PodsStay == Unspent({"end", "expire", "delete", "serviceFails"})

Quiet ==
  PodsStay =>
    /\ events = <<>> /\ doomed = {} /\ expired = {} /\ missed = {}
    /\ sweepTodo = {} /\ sweepCur = NoJob
    /\ \A j \in Job :
         /\ creating[j] # "unpod" /\ pod[j] # "ended" /\ deleting[j] = "idle"
         /\ creating[j] \in {"accepted", "undo"} => pod[j] = "none"

\* The steps that are left while pods stay.
QuietNext ==
  \/ \E p \in Provider : Register(p)
  \/ \E j \in Job :
       \/ CheckRequest(j) \/ Debit(j) \/ CreatePod(j) \/ Rollback(j)
       \/ CreateService(j) /\ GoTo(j, "done")
  \/ WatchStarts \/ WatchDrops
  \/ Crash \/ BootWith({})

LEMMA QuietSteps ==
  ASSUME TypeOK, Quiet, Next, PodsStay'
  PROVE  PodsStay /\ QuietNext
<1> DEFINE E == {"end", "expire", "delete", "serviceFails"}
<1>1. E \in SUBSET Event
  BY DEF Event
<1>2. PodsStay
  BY <1>1, UnspentBefore DEF PodsStay
<1>3. \A F : SpendAll(F) => F \cap E = {}
  BY <1>1, SpendAllGrows DEF PodsStay, Unspent
<1>4. /\ events = <<>> /\ doomed = {} /\ expired = {}
      /\ sweepTodo = {} /\ sweepCur = NoJob
      /\ \A j \in Job : /\ creating[j] # "unpod" /\ pod[j] # "ended"
                        /\ deleting[j] = "idle"
  BY <1>2 DEF Quiet
<1>5. \A j \in Job : ~ DeleteLookup(j) /\ ~ PodEnds(j) /\ ~ PodExpires(j)
  BY <1>3 DEF DeleteLookup, PodEnds, PodExpires, Spend
<1>6. \A j \in Job : ~ PodRemoved(j)
  BY <1>4 DEF PodRemoved
<1>7. \A j \in Job : ~ DeleteStep(j) /\ ~ UndoPod(j)
  BY <1>4 DEF DeleteStep, DeleteErase, DeleteCredit, UndoPod, At
<1>8. \A j \in Job : CreateService(j) => GoTo(j, "done")
  BY <1>3 DEF CreateService, Spend
<1>9. ~ HandleEvent
  BY <1>4 DEF HandleEvent
<1>10. ~ SweepStep
  <2>1. Sweepable = {}
    BY <1>4 DEF Sweepable
  <2> QED
    BY <1>4, <2>1 DEF SweepStep, SweepList, SweepCredit, SweepDelete
<1> QED
  BY <1>2, <1>5, <1>6, <1>7, <1>8, <1>9, <1>10
  DEF Next, CreateStep, WatchStep, QuietNext

LEMMA QuietStep ==
  ASSUME TypeOK, Quiet, FreshUncharged, [Next]_vars
  PROVE  Quiet'
<1>1. CASE UNCHANGED vars
  BY <1>1
  DEF vars, Quiet, PodsStay, Unspent, kubernetes, watch, sweep, ghosts
<1>2. CASE Next
  <2>1. SUFFICES ASSUME PodsStay'
                 PROVE  /\ UNCHANGED <<doomed, expired>>
                        /\ events' = <<>> /\ missed' = {}
                        /\ sweepTodo' = {} /\ sweepCur' = NoJob
                        /\ \A j \in Job :
                             /\ creating'[j] # "unpod" /\ pod'[j] # "ended"
                             /\ deleting'[j] = "idle"
                             /\ creating'[j] \in {"accepted", "undo"}
                                  => pod'[j] = "none"
    <3>1. PodsStay' => doomed = {} /\ expired = {}
      BY <1>2, QuietSteps DEF Quiet
    <3> QED
      BY <3>1 DEF Quiet
  <2>2. QuietNext
    BY <1>2, <2>1, QuietSteps
  <2>3. /\ events = <<>> /\ missed = {} /\ sweepTodo = {} /\ sweepCur = NoJob
        /\ \A j \in Job :
             /\ creating[j] # "unpod" /\ pod[j] # "ended" /\ deleting[j] = "idle"
             /\ creating[j] \in {"accepted", "undo"} => pod[j] = "none"
    BY <1>2, <2>1, QuietSteps DEF Quiet
  <2>4. \A j \in Job : creating[j] \in {"new", "checked"} => pod[j] = "none"
    BY DEF FreshUncharged
  <2>5. CASE \E p \in Provider : Register(p)
    BY <2>3, <2>5 DEF Register, kubernetes, watch, sweep
  <2>6. ASSUME NEW j \in Job, CheckRequest(j)
        PROVE  /\ UNCHANGED <<deleting, kubernetes, watch, sweep, missed>>
               /\ \A k \in Job : \/ creating'[k] = creating[k]
                                 \/ creating'[k] \in {"checked", "failed"}
                                 \/ /\ creating'[k] = "accepted"
                                    /\ creating[k] = "new"
    BY <2>6 DEF CheckRequest, At, GoTo, TypeOK, ghosts
  <2>7. ASSUME NEW j \in Job, Debit(j)
        PROVE  /\ UNCHANGED <<deleting, kubernetes, watch, sweep, missed>>
               /\ \A k \in Job : \/ creating'[k] = creating[k]
                                 \/ creating'[k] = "failed"
                                 \/ /\ creating'[k] = "accepted"
                                    /\ creating[k] = "checked"
    <3>1. creating[j] = "checked" /\ \E to \in {"accepted", "failed"} : GoTo(j, to)
      BY <2>7 DEF Debit, At
    <3> QED
      BY <2>7, <3>1 DEF Debit, GoTo, TypeOK
  <2>8. ASSUME NEW j \in Job, CreatePod(j)
        PROVE  /\ UNCHANGED <<deleting, doomed, expired, watch, sweep, missed>>
               /\ creating[j] = "accepted"
               /\ \A k \in Job \ {j} : /\ creating'[k] = creating[k]
                                       /\ pod'[k] = pod[k]
               /\ \/ creating'[j] \in {"failed", "undo"} /\ pod'[j] = pod[j]
                  \/ creating'[j] = "podMade" /\ pod'[j] = "running"
    BY <2>8 DEF CreatePod, At, GoTo, TypeOK, ghosts
  <2>9. ASSUME NEW j \in Job,
               \/ Rollback(j)
               \/ CreateService(j) /\ GoTo(j, "done")
        PROVE  /\ UNCHANGED <<deleting, pod, doomed, expired, watch, sweep, missed>>
               /\ \A k \in Job : \/ creating'[k] = creating[k]
                                 \/ creating'[k] \in {"failed", "done"}
    BY <2>9 DEF Rollback, CreateService, At, GoTo, TypeOK, kubernetes, ghosts
  <2>10. CASE WatchStarts \/ WatchDrops
    BY <2>3, <2>10 DEF WatchStarts, WatchDrops, kubernetes, sweep, ghosts
  <2>11. CASE Crash
    BY <2>3, <2>11 DEF Crash, kubernetes
  <2>12. CASE BootWith({})
    BY <2>3, <2>12 DEF BootWith, kubernetes, watch, sweep
  <2>13. CASE \E j \in Job : CheckRequest(j) \/ Debit(j)
    <3>1. UNCHANGED <<deleting, kubernetes, watch, sweep, missed>>
      BY <2>6, <2>7, <2>13
    <3>2. \A k \in Job : \/ creating'[k] = creating[k]
                         \/ creating'[k] \in {"checked", "failed"}
                         \/ /\ creating'[k] = "accepted"
                            /\ creating[k] \in {"new", "checked"}
      BY <2>6, <2>7, <2>13
    <3> QED
      BY <2>3, <2>4, <3>1, <3>2 DEF kubernetes, watch, sweep
  <2>14. CASE \E j \in Job : CreatePod(j)
    BY <2>3, <2>8, <2>14 DEF watch, sweep
  <2>15. CASE \E j \in Job : \/ Rollback(j)
                             \/ CreateService(j) /\ GoTo(j, "done")
    BY <2>3, <2>9, <2>15 DEF watch, sweep
  <2> QED
    BY <2>2, <2>5, <2>10, <2>11, <2>12, <2>13, <2>14, <2>15 DEF QuietNext
<1> QED
  BY <1>1, <1>2

\* Where every quantity can be parsed, a request that ends without a pod has
\* been rolled back, whatever else fails or crashes, as long as no pod that
\* was made goes.
THEOREM FailuresAreRolledBack ==
  ASSUME Malformed = {}
  PROVE  Spec => [](PodsStay => FailedRequestsOweNothing)
<1>1. Init => Quiet /\ FreshUncharged
  BY DEF Init, Quiet, FreshUncharged
<1>2. /\ TypeOK /\ Quiet /\ FreshUncharged /\ [Next]_vars
      => (Quiet /\ FreshUncharged)'
  BY QuietStep, FreshStep
<1>3. ChargesAreTraceable /\ Quiet => (PodsStay => FailedRequestsOweNothing)
  <2> SUFFICES ASSUME ChargesAreTraceable, Quiet, PodsStay,
                      NEW j \in Job, creating[j] = "failed", pod[j] = "none",
                      j \in owed
               PROVE  FALSE
    BY DEF FailedRequestsOweNothing
  <2>1. events = <<>> /\ missed = {} /\ j \notin Malformed
    BY DEF Quiet
  <2>2. ~ \E i \in 1 .. Len(events) : events[i].job = j
    BY <2>1
  <2> QED
    BY <2>1, <2>2 DEF ChargesAreTraceable
<1> QED
  BY <1>1, <1>2, <1>3, TypeCorrect, ChargesTraceable, PTL DEF Spec

-----------------------------------------------------------------------------
(* The pool of a machine whose pods stay *)

\* Besides, nobody registers twice, and every row is saved and every recovery
\* read without an error.
Disturbances == {"register", "saveFails", "recoveryFails"}
Undisturbed == PodsStay /\ Unspent(Disturbances)

\* The three books agree: the database and the orchestrator know the same
\* providers, the running pods and the requests past their debit are charged,
\* and who is charged is charged at a provider whose maps are made.
BooksAgree ==
  Undisturbed =>
    /\ up => known = stored
    /\ ~ up => \A j \in Job : creating[j] \notin {"accepted", "undo"}
    /\ \A j \in Job : Placed(j) =>
         /\ pod[j] = "running" => Place[j] \in stored
         /\ up /\ (pod[j] = "running" \/ creating[j] \in {"accepted", "undo"})
              => j \in owed
    /\ \A j \in owed : /\ Place[j] \in known
                       /\ ~ ledger[Place[j]].availNil
                       /\ ~ ledger[Place[j]].inUseNil

LEMMA UndisturbedStep ==
  ASSUME TypeOK, Quiet, Next, Undisturbed'
  PROVE  /\ Undisturbed
         /\ QuietNext
         /\ \A p \in Provider : Register(p) => /\ p \notin known
                                               /\ stored' = stored \cup {p}
         /\ \A miners : BootWith(miners) =>
              /\ known' = stored
              /\ owed' = {j \in Job : \E p \in known' : j \in Counted(p)}
              /\ ledger' = [p \in Provider |->
                   LET c == [Reloaded(Machine[p]) EXCEPT
                               !.miningPod = p \in known' /\ p \in miners]
                   IN IF p \in known' /\ Counted(p) # {}
                      THEN Recover(c, Machine[p], Held(p)) ELSE c]
<1>1. Disturbances \in SUBSET Event
  BY DEF Disturbances, Event
<1>2. PodsStay /\ QuietNext
  BY QuietSteps DEF Undisturbed
<1>3. Unspent(Disturbances)
  BY <1>1, UnspentBefore DEF Undisturbed
<1>4. \A E : SpendAll(E) => E \cap Disturbances = {}
  BY <1>1, SpendAllGrows DEF Undisturbed, Unspent
<1>5. ASSUME NEW p \in Provider, Register(p)
      PROVE  p \notin known /\ stored' = stored \cup {p}
  <2>1. PICK saved \in BOOLEAN :
          /\ stored' = IF saved THEN stored \cup {p} ELSE stored
          /\ IF p \in known THEN Spend("register")
             ELSE SpendIf(~ saved, "saveFails")
    BY <1>5 DEF Register
  <2>2. p \notin known
    BY <1>4, <2>1 DEF Spend, Disturbances
  <2>3. saved
    BY <1>4, <2>1, <2>2 DEF SpendIf, Disturbances
  <2> QED
    BY <2>1, <2>2, <2>3
<1>6. ASSUME NEW miners, BootWith(miners)
      PROVE  /\ known' = stored
             /\ owed' = {j \in Job : \E p \in known' : j \in Counted(p)}
             /\ ledger' = [p \in Provider |->
                  LET c == [Reloaded(Machine[p]) EXCEPT
                              !.miningPod = p \in known' /\ p \in miners]
                  IN IF p \in known' /\ Counted(p) # {}
                     THEN Recover(c, Machine[p], Held(p)) ELSE c]
  <2>1. PICK loaded \in BOOLEAN, listed \in BOOLEAN :
          /\ SpendIf(~ (loaded /\ listed), "recoveryFails")
          /\ known' = IF loaded THEN stored ELSE {}
          /\ owed' = {j \in Job : listed /\ \E p \in known' : j \in Counted(p)}
          /\ ledger' = [p \in Provider |->
               LET c == [Reloaded(Machine[p]) EXCEPT
                           !.miningPod = p \in known' /\ p \in miners]
               IN IF p \in known' /\ listed /\ Counted(p) # {}
                  THEN Recover(c, Machine[p], Held(p)) ELSE c]
    BY <1>6 DEF BootWith
  <2>2. loaded /\ listed
    BY <1>4, <2>1 DEF SpendIf, Disturbances
  <2> QED
    BY <2>1, <2>2
<1> QED
  BY <1>2, <1>3, <1>5, <1>6 DEF Undisturbed

\* What the recovery leaves of a provider.
LEMMA RecoveredColumns ==
  ASSUME NEW p \in Provider, NEW b \in BOOLEAN
  PROVE  LET c == [Reloaded(Machine[p]) EXCEPT !.miningPod = b]
             d == Recover(c, Machine[p], Held(p))
         IN /\ c \in Capacities /\ d \in Capacities
            /\ c.inUseGPU = NoGPU /\ c.miningGPU = NoGPU
            /\ c.availNil /\ c.availGPU = NoGPU
            /\ c.gpuCount = Reloaded(Machine[p]).gpuCount
            /\ ~ d.availNil /\ ~ d.inUseNil
            /\ d.inUseGPU = [NoGPU EXCEPT ![Model(p)] = Held(p).gpu]
            /\ d.availGPU = [NoGPU EXCEPT ![Model(p)] =
                               NonNeg(SpecTotal(Machine[p]) - Held(p).gpu)]
            /\ d.miningGPU = NoGPU
<1> DEFINE c == [Reloaded(Machine[p]) EXCEPT !.miningPod = b]
           d == Recover(c, Machine[p], Held(p))
<1>1. Machine[p] \in Machines /\ Held(p) \in Amounts /\ Model(p) \in GPUType
      /\ Machine[p].model = Model(p) /\ SpecTotal(Machine[p]) \in Nat
  BY ConstantTypes, HeldType, SpecTotalType DEF Model
<1>2. Reloaded(Machine[p]) \in Capacities
  BY <1>1, ReloadedType
<1>3. c \in Capacities
  BY <1>2 DEF Capacities
<1>4. /\ c.inUseGPU = NoGPU /\ c.miningGPU = NoGPU /\ c.totalGPU = NoGPU
      /\ c.availNil /\ c.availGPU = NoGPU
      /\ c.gpuCount = Reloaded(Machine[p]).gpuCount
  BY DEF Reloaded
<1> HIDE DEF c
<1>5. /\ d \in Capacities
      /\ ~ d.availNil /\ ~ d.inUseNil
      /\ d.inUseGPU = [c.inUseGPU EXCEPT ![Machine[p].model] = Held(p).gpu]
      /\ d.miningGPU = c.miningGPU
      /\ d.availGPU
           = [c.availGPU EXCEPT ![Machine[p].model] =
                NonNeg((IF c.totalGPU[Machine[p].model] # 0
                        THEN c.totalGPU[Machine[p].model]
                        ELSE SpecTotal(Machine[p]))
                         - Held(p).gpu - c.miningGPU[Machine[p].model])]
  BY <1>1, <1>3, RecoverColumns
<1>6. c.totalGPU[Model(p)] = 0 /\ c.miningGPU[Model(p)] = 0
  BY <1>1, <1>4 DEF NoGPU
<1>7. Held(p).gpu \in Nat
  BY <1>1 DEF Amounts
<1>8. SpecTotal(Machine[p]) - Held(p).gpu - c.miningGPU[Model(p)]
        = SpecTotal(Machine[p]) - Held(p).gpu
  BY <1>1, <1>6, <1>7
<1>9. d.availGPU = [NoGPU EXCEPT ![Model(p)] =
                      NonNeg(SpecTotal(Machine[p]) - Held(p).gpu)]
  BY <1>1, <1>4, <1>5, <1>6, <1>8
<1> HIDE DEF d
<1>10. d.inUseGPU = [NoGPU EXCEPT ![Model(p)] = Held(p).gpu]
  BY <1>1, <1>4, <1>5
<1> QED
  BY <1>3, <1>4, <1>5, <1>9, <1>10 DEF c, d

\* The release of a rollback: of a job that is charged, or of none.
LEMMA RollbackGives ==
  ASSUME TypeOK, NEW j \in Job, Rollback(j)
  PROVE  GivesBack(j) /\ owed' = owed \ {j}
<1>1. owed' = owed \ {j} /\ known' = known
  BY DEF Rollback
<1>2. CASE Placed(j)
  <2>1. Credit(Place[j], Model(Place[j]), Charge(j))
    BY <1>2 DEF Rollback
  <2>2. Model(Place[j]) \in GPUType /\ Charge(j) \in Amounts
    BY <1>2, ConstantTypes, AmountTypes
  <2> QED
    BY <1>1, <2>1, <2>2 DEF GivesBack
<1>3. CASE ~ Placed(j)
  <2>1. Place[j] \notin known
    BY <1>3, RentalAssumption DEF Placed, TypeOK
  <2>2. Credit(Place[j], DefaultType, Charge(j))
    BY <1>3, <2>1 DEF Rollback, Credit
  <2> QED
    BY <1>1, <2>1, <2>2, AmountTypes, GPUTypeAssumption DEF GivesBack
<1> QED
  BY <1>2, <1>3

LEMMA BooksStep ==
  ASSUME TypeOK, Quiet, FreshUncharged, BooksAgree, [Next]_vars
  PROVE  BooksAgree'
<1>1. CASE UNCHANGED vars
  BY <1>1
  DEF vars, BooksAgree, Undisturbed, PodsStay, Unspent, providers, kubernetes,
      ghosts, Placed
<1>2. CASE Next
  <2> DEFINE Agree ==
        /\ up' => known' = stored'
        /\ ~ up' => \A j \in Job : creating'[j] \notin {"accepted", "undo"}
        /\ \A j \in Job : Placed(j) =>
             /\ pod'[j] = "running" => Place[j] \in stored'
             /\ up' /\ (pod'[j] = "running" \/ creating'[j] \in {"accepted", "undo"})
                  => j \in owed'
        /\ \A j \in owed' : /\ Place[j] \in known'
                            /\ ~ ledger'[Place[j]].availNil
                            /\ ~ ledger'[Place[j]].inUseNil
  <2>1. SUFFICES ASSUME Undisturbed'
                 PROVE  Agree
    BY DEF BooksAgree, Placed
  <2>2. Undisturbed /\ QuietNext
    BY <1>2, <2>1, UndisturbedStep
  <2>3. /\ up => known = stored
        /\ ~ up => \A j \in Job : creating[j] \notin {"accepted", "undo"}
    BY <2>2 DEF BooksAgree
  <2>4. ASSUME NEW j \in Job, Placed(j)
        PROVE  /\ pod[j] = "running" => Place[j] \in stored
               /\ up /\ (pod[j] = "running" \/ creating[j] \in {"accepted", "undo"})
                    => j \in owed
    BY <2>2, <2>4 DEF BooksAgree
  <2>5. ASSUME NEW j \in owed
        PROVE  /\ j \in Job
               /\ Place[j] \in known /\ Place[j] \in Provider
               /\ ~ ledger[Place[j]].availNil
               /\ ~ ledger[Place[j]].inUseNil
    BY <2>2 DEF BooksAgree, TypeOK
  <2>6. ledger \in [Provider -> Capacities]
    BY DEF TypeOK
  <2>7. ASSUME NEW p \in Provider, Register(p)
        PROVE  Agree
    <3>1. p \notin known /\ stored' = stored \cup {p}
      BY <1>2, <2>1, <2>7, UndisturbedStep
    <3>2. /\ up /\ up' /\ known' = known \cup {p}
          /\ ledger' = [ledger EXCEPT ![p] = Fresh(Machine[p])]
          /\ owed' = {j \in owed : Place[j] # p}
          /\ UNCHANGED <<creating, pod>>
      BY <2>7 DEF Register, kubernetes
    <3>3. owed' = owed /\ \A j \in owed : ledger'[Place[j]] = ledger[Place[j]]
      BY <2>5, <2>6, <3>1, <3>2
    <3> QED
      BY <2>3, <2>4, <2>5, <3>1, <3>2, <3>3
  <2>8. ASSUME NEW j \in Job, CheckRequest(j)
        PROVE  Agree
    <3>1. UNCHANGED <<up, stored, known, ledger, owed, pod>> /\ up
      BY <2>8 DEF CheckRequest, At, providers, kubernetes, ghosts
    <3>2. \A k \in Job : Placed(k) => \/ creating'[k] = creating[k]
                                      \/ creating'[k] \in {"checked", "failed"}
      BY <2>8 DEF CheckRequest, GoTo, TypeOK
    <3> QED
      BY <2>3, <2>4, <2>5, <3>1, <3>2
  <2>9. ASSUME NEW j \in Job, Debit(j)
        PROVE  Agree
    <3>1. UNCHANGED <<up, stored, known, pod>> /\ up
      BY <2>9 DEF Debit, At, kubernetes
    <3>2. CASE Place[j] \in known
      <4> DEFINE r == Allocate(ledger[Place[j]], Machine[Place[j]],
                               Model(Place[j]), Charge(j))
      <4>1. /\ ledger' = [ledger EXCEPT ![Place[j]] = r.cap]
            /\ ~ r.cap.availNil
            /\ Place[j] \in Provider
            /\ creating' = [creating EXCEPT ![j] = IF r.ok THEN "accepted"
                                                   ELSE "failed"]
            /\ owed' = IF r.ok THEN owed \cup {j} ELSE owed
        BY <2>9, <3>2, DebitLedger
      <4>2. ~ r.cap.inUseNil
        BY <2>6, <4>1, ConstantTypes, AmountTypes, AllocateColumns
      <4> HIDE DEF r
      <4>3. \A k \in owed' : /\ Place[k] \in known
                             /\ ~ ledger'[Place[k]].availNil
                             /\ ~ ledger'[Place[k]].inUseNil
        BY <2>5, <2>6, <3>2, <4>1, <4>2
      <4>4. \A k \in Job : \/ creating'[k] = creating[k] /\ k # j
                           \/ k = j /\ (creating'[k] = "accepted" => j \in owed')
                                    /\ creating'[k] \in {"accepted", "failed"}
        BY <4>1 DEF TypeOK
      <4>5. owed \subseteq owed'
        BY <4>1
      <4> QED
        BY <2>3, <2>4, <3>1, <4>3, <4>4, <4>5
    <3>3. CASE Place[j] \notin known
      <4>1. UNCHANGED <<ledger, owed>> /\ GoTo(j, "failed")
        BY <2>9, <3>3 DEF Debit
      <4>2. \A k \in Job : \/ creating'[k] = creating[k]
                           \/ creating'[k] = "failed"
        BY <4>1 DEF GoTo, TypeOK
      <4> QED
        BY <2>3, <2>4, <2>5, <3>1, <4>1, <4>2
    <3> QED
      BY <3>2, <3>3
  <2>10. ASSUME NEW j \in Job, CreatePod(j)
         PROVE  Agree
    <3>1. UNCHANGED <<up, stored, known, ledger, owed>> /\ up
          /\ creating[j] = "accepted"
      BY <2>10 DEF CreatePod, At, providers, ghosts
    <3>2. \A k \in Job \ {j} : creating'[k] = creating[k] /\ pod'[k] = pod[k]
      BY <2>10 DEF CreatePod, GoTo, TypeOK
    <3>3. Placed(j) => j \in owed /\ Place[j] \in stored
      BY <2>3, <2>4, <2>5, <3>1
    <3> QED
      BY <2>3, <2>4, <2>5, <3>1, <3>2, <3>3
  <2>11. ASSUME NEW j \in Job, CreateService(j), GoTo(j, "done")
         PROVE  Agree
    <3>1. UNCHANGED <<up, stored, known, ledger, owed, pod>> /\ up
      BY <2>11 DEF CreateService, At, providers, ghosts
    <3>2. \A k \in Job : \/ creating'[k] = creating[k]
                         \/ creating'[k] = "done"
      BY <2>11 DEF GoTo, TypeOK
    <3> QED
      BY <2>3, <2>4, <2>5, <3>1, <3>2
  <2>12. ASSUME NEW j \in Job, Rollback(j)
         PROVE  Agree
    <3>1. UNCHANGED <<up, stored, known, pod>> /\ up /\ owed' = owed \ {j}
      BY <2>12 DEF Rollback, At, kubernetes
    <3>2. creating[j] = "undo" /\ creating'[j] = "failed"
          /\ \A k \in Job \ {j} : creating'[k] = creating[k]
      BY <2>12 DEF Rollback, At, GoTo, TypeOK
    <3>3. pod[j] = "none"
      BY <2>2, <3>2 DEF Quiet, Undisturbed
    <3>4. \A k \in owed : /\ ~ ledger'[Place[k]].availNil
                          /\ ~ ledger'[Place[k]].inUseNil
      <4>1. PICK t \in GPUType, a \in Amounts : Credit(Place[j], t, a)
        BY <2>12, RollbackGives DEF GivesBack
      <4>2. CASE Place[j] \in known
        <5>1. /\ ledger' = [ledger EXCEPT ![Place[j]]
                              = Release(ledger[Place[j]], t, a)]
              /\ ~ Release(ledger[Place[j]], t, a).availNil
              /\ ledger[Place[j]] \in Capacities
          BY <4>1, <4>2, CreditLedger
        <5>2. Release(ledger[Place[j]], t, a).inUseNil
                = ledger[Place[j]].inUseNil
          BY <5>1, ReleaseColumns
        <5> QED
          BY <2>5, <2>6, <5>1, <5>2
      <4>3. CASE Place[j] \notin known
        BY <2>5, <4>1, <4>3 DEF Credit
      <4> QED
        BY <4>2, <4>3
    <3> QED
      BY <2>3, <2>4, <2>5, <3>1, <3>2, <3>3, <3>4
  <2>13. CASE WatchStarts \/ WatchDrops
    <3>1. UNCHANGED <<up, stored, known, ledger, creating, pod, owed>>
      BY <2>13 DEF WatchStarts, WatchDrops, providers, kubernetes, ghosts
    <3> QED
      BY <2>3, <2>4, <2>5, <3>1
  <2>14. CASE Crash
    BY <2>4, <2>14 DEF Crash, kubernetes
  <2>15. CASE BootWith({})
    <3>1. /\ ~ up /\ up' /\ UNCHANGED <<stored, creating, pod>>
      BY <2>15 DEF BootWith, kubernetes
    <3>2. /\ known' = stored
          /\ owed' = {j \in Job : \E p \in known' : j \in Counted(p)}
          /\ ledger' = [p \in Provider |->
               LET c == [Reloaded(Machine[p]) EXCEPT
                           !.miningPod = p \in known' /\ p \in {}]
               IN IF p \in known' /\ Counted(p) # {}
                  THEN Recover(c, Machine[p], Held(p)) ELSE c]
      BY <1>2, <2>1, <2>15, UndisturbedStep
    <3>3. owed' = {j \in Job : Place[j] \in stored /\ pod[j] = "running"}
      BY <3>2 DEF Counted
    <3>4. ASSUME NEW j \in owed'
          PROVE  /\ Place[j] \in known'
                 /\ ~ ledger'[Place[j]].availNil /\ ~ ledger'[Place[j]].inUseNil
      <4> DEFINE p == Place[j]
                 b == p \in known' /\ p \in {}
                 c == [Reloaded(Machine[p]) EXCEPT !.miningPod = b]
      <4>1. p \in known' /\ p \in Provider /\ j \in Counted(p)
        BY <3>2, <3>3 DEF TypeOK, Counted
      <4>2. b \in BOOLEAN
        OBVIOUS
      <4>3. ledger'[p] = Recover(c, Machine[p], Held(p))
        BY <3>2, <4>1
      <4>4. /\ ~ Recover(c, Machine[p], Held(p)).availNil
            /\ ~ Recover(c, Machine[p], Held(p)).inUseNil
        BY <4>1, <4>2, RecoveredColumns
      <4> HIDE DEF c
      <4> QED
        BY <4>1, <4>3, <4>4
    <3> QED
      BY <2>3, <2>4, <3>1, <3>2, <3>3, <3>4
  <2> HIDE DEF Agree
  <2> QED
    BY <2>2, <2>7, <2>8, <2>9, <2>10, <2>11, <2>12, <2>13, <2>14, <2>15
    DEF QuietNext
<1> QED
  BY <1>1, <1>2

-----------------------------------------------------------------------------
(* No double booking *)

\* An agent does not share more GPUs than its machine lists; the message
\* carries both numbers and nobody compares them.
SharesWhatItHas == \A p \in Provider :
  Machine[p].kind = "agent" => Machine[p].sharedGPU <= SpecTotal(Machine[p])

LEMMA SharedOffers ==
  ASSUME NEW m \in Machines,
         m.kind = "agent" => m.sharedGPU <= SpecTotal(m)
  PROVE  /\ Offered(Fresh(m), m, m.model) <= SpecTotal(m)
         /\ Reloaded(m).gpuCount <= SpecTotal(m)
<1>1. /\ m.model \in GPUType /\ m.gpus \in [GPUType -> Nat]
      /\ m.reserve \in Nat /\ m.sharedGPU \in Nat
      /\ m.kind \in {"sdk", "agent"}
      /\ SpecTotal(m) \in Nat
  BY SpecTotalType DEF Machines
<1>2. /\ Reloaded(m).gpuCount <= SpecTotal(m)
      /\ Reloaded(m).gpuCount \in Nat
      /\ Reloaded(m).availNil
  BY <1>1 DEF Reloaded
<1>3. CASE m.kind = "agent"
  BY <1>1, <1>2, <1>3 DEF Fresh, Offered
<1>4. CASE m.kind = "sdk"
  <2>1. /\ ~ Fresh(m).availNil
        /\ Fresh(m).availGPU[m.model] = NonNeg(m.gpus[m.model] - m.reserve)
    BY <1>1, <1>4 DEF Fresh, Reloaded
  <2>2. Offered(Fresh(m), m, m.model) <= m.gpus[m.model]
    BY <1>1, <2>1 DEF Offered, NonNeg
  <2>3. m.gpus[m.model] <= SpecTotal(m)
    <3>1. Total(m.gpus, {} \cup {m.model}) = Total(m.gpus, {}) + m.gpus[m.model]
      BY <1>1, FS_EmptySet, TotalAdd
    <3>2. Total(m.gpus, {m.model}) = m.gpus[m.model]
      BY <1>1, <3>1, TotalEmpty
    <3>3. Total(m.gpus, {m.model}) <= Total(m.gpus, GPUType)
      BY <1>1, GPUTypeAssumption, TotalMonotone
    <3> QED
      BY <3>2, <3>3 DEF SpecTotal
  <2>4. /\ Offered(Fresh(m), m, m.model) \in Nat
        /\ m.gpus[m.model] \in Nat
    BY <1>1, FreshType, OfferedType
  <2> QED
    BY <1>1, <1>2, <2>2, <2>3, <2>4
<1> QED
  BY <1>1, <1>3, <1>4

LEMMA HeldTotal ==
  ASSUME NEW p
  PROVE  /\ Counted(p) \in SUBSET Job
         /\ Held(p)["gpu"] = Total(GPUs, Counted(p))
<1>1. [j \in Job |-> PodSize(j)["gpu"]] = GPUs
  BY AmountTypes DEF GPUs
<1> QED
  BY <1>1 DEF Held, Resource, Counted

LEMMA HeldAfter ==
  ASSUME NEW p
  PROVE  /\ Counted(p)' = {j \in Job : Place[j] = p /\ pod'[j] = "running"}
         /\ Held(p)["gpu"]' = Total(GPUs, Counted(p)')
<1>1. [j \in Job |-> PodSize(j)["gpu"]] = GPUs
  BY AmountTypes DEF GPUs
<1>2. Held(p)["gpu"]' = Total([j \in Job |-> PodSize(j)["gpu"]], Counted(p)')
  BY DEF Held, Resource, PodSize
<1> QED
  BY <1>1, <1>2 DEF Counted

\* What is on offer and what is owed fit the machine together, and so does
\* what its pods hold.
Roomy ==
  Undisturbed =>
    /\ NoDoubleBooking
    /\ \A p \in known : Pool(p, Model(p)) <= SpecTotal(Machine[p])

LEMMA PoolRoomStep ==
  ASSUME SharesWhatItHas, TypeOK, TypeOK', Quiet, FreshUncharged, BooksAgree,
         Roomy, Next, Undisturbed'
  PROVE  \A p \in known' : Pool(p, Model(p))' <= SpecTotal(Machine[p])
<1> SUFFICES ASSUME NEW p \in known'
             PROVE  Pool(p, Model(p))' <= SpecTotal(Machine[p])
  OBVIOUS
<1>1. Undisturbed /\ QuietNext
  BY UndisturbedStep
<1>2. /\ p \in Provider /\ Machine[p] \in Machines /\ Model(p) \in GPUType
      /\ ledger \in [Provider -> Capacities] /\ owed' \subseteq Job
      /\ SpecTotal(Machine[p]) \in Nat /\ Machine[p].model = Model(p)
  BY ConstantTypes, SpecTotalType DEF TypeOK, Model
<1>3. p \in known => Pool(p, Model(p)) <= SpecTotal(Machine[p])
  BY <1>1 DEF Roomy
<1>4. /\ Offered(Fresh(Machine[p]), Machine[p], Model(p)) <= SpecTotal(Machine[p])
      /\ Reloaded(Machine[p]).gpuCount <= SpecTotal(Machine[p])
  BY <1>2, SharedOffers DEF SharesWhatItHas
<1>5. Pool(p, Model(p))'
        = Offered(ledger'[p], Machine[p], Model(p)) + Owed(p, Model(p))'
  BY DEF Pool, Model
<1>6. ASSUME known' = known, UNCHANGED <<ledger, owed>>
      PROVE  Pool(p, Model(p))' <= SpecTotal(Machine[p])
  <2>1. Pool(p, Model(p))' = Pool(p, Model(p))
    BY <1>6 DEF Pool, Owed, Debtors, Model, Charge
  <2> QED
    BY <1>3, <1>6, <2>1
<1>7. ASSUME NEW q \in Provider, Register(q)
      PROVE  Pool(p, Model(p))' <= SpecTotal(Machine[p])
  <2>1. q \notin known
    BY <1>7, UndisturbedStep
  <2>2. \A j \in owed : Place[j] \in known
    BY <1>1 DEF BooksAgree
  <2>3. owed' = owed /\ ledger' = [ledger EXCEPT ![q] = Fresh(Machine[q])]
        /\ known' = known \cup {q}
    BY <1>7, <2>1, <2>2 DEF Register
  <2>4. CASE p = q
    <3>1. Debtors(p, Model(p))' = {}
      BY <1>2, <2>1, <2>2, <2>3, <2>4, OwedAfter
    <3>2. Owed(p, Model(p))' = 0
      BY <1>2, <3>1, OwedAfter, TotalEmpty
    <3>3. Offered(Fresh(Machine[p]), Machine[p], Model(p)) \in Nat
      BY <1>2, FreshType, OfferedType
    <3> QED
      BY <1>2, <1>4, <1>5, <2>3, <2>4, <3>2, <3>3
  <2>5. CASE p # q
    <3>1. p \in known /\ ledger'[p] = ledger[p]
      BY <1>2, <2>3, <2>5
    <3>2. Pool(p, Model(p))' = Pool(p, Model(p))
      BY <2>3, <3>1 DEF Pool, Owed, Debtors, Model, Charge
    <3> QED
      BY <1>3, <3>1, <3>2
  <2> QED
    BY <2>4, <2>5
<1>8. ASSUME NEW j \in Job, Debit(j)
      PROVE  Pool(p, Model(p))' <= SpecTotal(Machine[p])
  <2>1. known' = known
    BY <1>8 DEF Debit
  <2>2. Pool(p, Model(p))' = Pool(p, Model(p))
    BY <1>2, <1>8, <2>1, DebitPool DEF Model
  <2> QED
    BY <1>3, <2>1, <2>2
<1>9. ASSUME NEW j \in Job, Rollback(j)
      PROVE  Pool(p, Model(p))' <= SpecTotal(Machine[p])
  <2>1. GivesBack(j) /\ owed' = owed \ {j} /\ known' = known
    BY <1>9, RollbackGives DEF GivesBack
  <2>2. CASE Place[j] \in known
    <3>1. Placed(j) /\ up /\ creating[j] = "undo"
      BY <1>9, <2>2, ConstantTypes DEF Rollback, At, TypeOK
    <3>2. j \in owed /\ ~ ledger[Place[j]].availNil
      BY <1>1, <3>1 DEF BooksAgree
    <3>3. Pool(p, Model(p))' = Pool(p, Model(p))
      BY <1>2, <2>1, <3>2, CreditPool DEF Model
    <3> QED
      BY <1>3, <2>1, <3>3
  <2>3. CASE Place[j] \notin known
    <3>1. ledger' = ledger
      BY <2>1, <2>3 DEF GivesBack, Credit
    <3>2. j \notin owed
      BY <1>1, <2>3 DEF BooksAgree
    <3> QED
      BY <1>6, <2>1, <3>1, <3>2
  <2> QED
    BY <2>2, <2>3
<1>10. CASE \E j \in Job : \/ CheckRequest(j) \/ CreatePod(j)
                           \/ CreateService(j)
  BY <1>6, <1>10 DEF CheckRequest, CreatePod, CreateService, providers, ghosts
<1>11. CASE WatchStarts \/ WatchDrops
  BY <1>6, <1>11 DEF WatchStarts, WatchDrops, providers, ghosts
<1>12. ~ Crash
  BY DEF Crash
<1>13. CASE BootWith({})
  <2> DEFINE b == p \in known' /\ p \in {}
             c == [Reloaded(Machine[p]) EXCEPT !.miningPod = b]
             d == Recover(c, Machine[p], Held(p))
  <2>1. /\ known' = stored /\ pod' = pod
        /\ owed' = {j \in Job : \E q \in known' : j \in Counted(q)}
        /\ ledger'[p] = IF Counted(p) # {} THEN d ELSE c
    <3>1. pod' = pod
      BY <1>13 DEF BootWith, kubernetes
    <3>2. /\ known' = stored
          /\ owed' = {j \in Job : \E q \in known' : j \in Counted(q)}
          /\ ledger' = [q \in Provider |->
               LET k == [Reloaded(Machine[q]) EXCEPT
                           !.miningPod = q \in known' /\ q \in {}]
               IN IF q \in known' /\ Counted(q) # {}
                  THEN Recover(k, Machine[q], Held(q)) ELSE k]
      BY <1>13, UndisturbedStep
    <3> QED
      BY <1>2, <3>1, <3>2
  <2>2. /\ c.availNil /\ c.gpuCount = Reloaded(Machine[p]).gpuCount
        /\ ~ d.availNil
        /\ d.availGPU = [NoGPU EXCEPT ![Model(p)] =
                           NonNeg(SpecTotal(Machine[p]) - Held(p).gpu)]
    BY <1>2, RecoveredColumns
  <2> HIDE DEF c, d
  <2>3. Debtors(p, Model(p))' = Counted(p)
    BY <1>2, <2>1, OwedAfter DEF Counted
  <2>4. /\ Owed(p, Model(p))' = Held(p)["gpu"]
        /\ Owed(p, Model(p))' \in Nat
    BY <1>2, <2>3, OwedAfter, HeldTotal
  <2>5. Held(p)["gpu"] <= SpecTotal(Machine[p])
    BY <1>1, <1>2 DEF Roomy, NoDoubleBooking
  <2>6. CASE Counted(p) = {}
    <3>1. Owed(p, Model(p))' = 0
      BY <2>4, <2>6, HeldTotal, TotalEmpty
    <3>2. Offered(c, Machine[p], Model(p)) <= SpecTotal(Machine[p])
      BY <1>2, <1>4, <2>2 DEF Offered
    <3>3. Offered(c, Machine[p], Model(p)) \in Nat
      BY <1>2, RecoveredColumns, OfferedType DEF c
    <3> QED
      BY <1>2, <1>5, <2>1, <2>6, <3>1, <3>2, <3>3
  <2>7. CASE Counted(p) # {}
    <3>1. Offered(d, Machine[p], Model(p)) = SpecTotal(Machine[p]) - Held(p)["gpu"]
      <4>1. Offered(d, Machine[p], Model(p))
              = NonNeg(SpecTotal(Machine[p]) - Held(p).gpu)
        BY <1>2, <2>2 DEF Offered, NoGPU
      <4>2. Held(p)["gpu"] \in Nat
        BY <2>4
      <4> QED
        BY <1>2, <2>5, <4>1, <4>2 DEF NonNeg
    <3> QED
      BY <1>2, <1>5, <2>1, <2>4, <2>7, <3>1
  <2> QED
    BY <2>6, <2>7
<1> QED
  BY <1>1, <1>7, <1>8, <1>9, <1>10, <1>11, <1>12, <1>13 DEF QuietNext

LEMMA RoomStep ==
  ASSUME SharesWhatItHas, TypeOK, TypeOK', Quiet, FreshUncharged, BooksAgree,
         BooksAgree', Roomy, [Next]_vars
  PROVE  Roomy'
<1>1. CASE UNCHANGED vars
  <2>1. /\ \A p \in known : Pool(p, Model(p))' = Pool(p, Model(p))
        /\ NoDoubleBooking' <=> NoDoubleBooking
        /\ Undisturbed' <=> Undisturbed
    BY <1>1
    DEF vars, providers, kubernetes, ghosts, Pool, Owed, Debtors, Model, Charge,
        NoDoubleBooking, Held, Counted, PodSize, Undisturbed, PodsStay, Unspent
  <2>2. known' = known
    BY <1>1 DEF vars, providers
  <2> QED
    BY <2>1, <2>2 DEF Roomy, Model
<1>2. CASE Next
  <2>1. SUFFICES ASSUME Undisturbed'
                 PROVE  /\ NoDoubleBooking'
                        /\ \A p \in known' :
                             Pool(p, Model(p))' <= SpecTotal(Machine[p])
    BY DEF Roomy, Model
  <2>2. Undisturbed /\ QuietNext
    BY <1>2, <2>1, UndisturbedStep
  <2>3. \A p \in known' : Pool(p, Model(p))' <= SpecTotal(Machine[p])
    BY <1>2, <2>1, PoolRoomStep
  <2>4. ASSUME NEW p \in Provider
        PROVE  Held(p)["gpu"]' <= SpecTotal(Machine[p])
    <3>1. \/ UNCHANGED pod
          \/ \E j \in Job : CreatePod(j)
      BY <2>2
      DEF QuietNext, Register, CheckRequest, Debit, Rollback, CreateService,
          WatchStarts, WatchDrops, Crash, BootWith, kubernetes
    <3>2. /\ Counted(p)' = {j \in Job : Place[j] = p /\ pod'[j] = "running"}
          /\ Held(p)["gpu"]' = Total(GPUs, Counted(p)')
      BY HeldAfter
    <3>3. /\ SpecTotal(Machine[p]) \in Nat
          /\ Machine[p] \in Machines /\ Model(p) \in GPUType
      BY ConstantTypes, SpecTotalType
    <3>4. CASE UNCHANGED pod
      <4>1. Counted(p)' = Counted(p)
        BY <3>2, <3>4 DEF Counted
      <4> QED
        BY <2>2, <3>2, <4>1, HeldTotal DEF Roomy, NoDoubleBooking
    <3>5. CASE \E j \in Job : CreatePod(j)
      <4>1. up'
        BY <3>5 DEF CreatePod, At
      <4>2. CASE p \in known'
        <5>1. /\ owed' \subseteq Job /\ ledger'[p] \in Capacities
          BY <4>2 DEF TypeOK
        <5>2. Counted(p)' \subseteq owed'
          BY <2>1, <3>2, <4>1, ConstantTypes DEF BooksAgree, Placed
        <5>3. Counted(p)' \in SUBSET Debtors(p, Model(p))'
          BY <3>2, <5>1, <5>2, OwedAfter
        <5>4. /\ Debtors(p, Model(p))' \in SUBSET Job
              /\ Owed(p, Model(p))' = Total(GPUs, Debtors(p, Model(p))')
              /\ Owed(p, Model(p))' \in Nat
          BY <5>1, OwedAfter
        <5>5. Total(GPUs, Counted(p)') <= Total(GPUs, Debtors(p, Model(p))')
          BY <5>3, <5>4, GPUsOf, TotalMonotone
        <5>6. /\ Pool(p, Model(p))'
                   = Offered(ledger'[p], Machine[p], Model(p)) + Owed(p, Model(p))'
              /\ Offered(ledger'[p], Machine[p], Model(p)) \in Nat
          BY <3>3, <5>1, OfferedType DEF Pool, Model
        <5>7. Pool(p, Model(p))' <= SpecTotal(Machine[p])
          BY <2>3, <4>2
        <5>8. Total(GPUs, Counted(p)') \in Nat
          BY <3>2, GPUsOf
        <5> QED
          BY <3>2, <3>3, <5>4, <5>5, <5>6, <5>7, <5>8
      <4>3. CASE p \notin known'
        <5>1. Counted(p)' = {}
          BY <2>1, <3>2, <4>1, <4>3, ConstantTypes DEF BooksAgree, Placed
        <5> QED
          BY <3>2, <3>3, <5>1, TotalEmpty
      <4> QED
        BY <4>2, <4>3
    <3> QED
      BY <3>1, <3>4, <3>5
  <2> QED
    BY <2>3, <2>4 DEF NoDoubleBooking
<1> QED
  BY <1>1, <1>2

LEMMA InitRoom ==
  ASSUME Init
  PROVE  Quiet /\ FreshUncharged /\ BooksAgree /\ Roomy
<1>1. ASSUME NEW p \in Provider
      PROVE  Held(p)["gpu"] <= SpecTotal(Machine[p])
  <2>1. Counted(p) = {}
    BY DEF Init, Counted
  <2>2. Held(p)["gpu"] = 0
    BY <2>1, HeldTotal, TotalEmpty
  <2> QED
    BY <2>2, ConstantTypes, SpecTotalType
<1> QED
  BY <1>1
  DEF Init, Quiet, FreshUncharged, BooksAgree, Roomy, NoDoubleBooking

\* The pods on a machine never request more GPUs than it has, whatever fails,
\* crashes and restarts, as long as pods stay, no provider registers again
\* and the database and the recovery answer.  The argument: the pool of a
\* known provider never exceeds its machine, the recovery included, and every
\* running pod is charged to that pool.
THEOREM NoGPUIsBookedTwice ==
  ASSUME SharesWhatItHas
  PROVE  Spec => [](Undisturbed => NoDoubleBooking)
<1> DEFINE I == Quiet /\ FreshUncharged /\ BooksAgree /\ Roomy
<1>1. Init => I
  BY InitRoom
<1>2. TypeOK /\ TypeOK' /\ I /\ [Next]_vars => I'
  BY QuietStep, FreshStep, BooksStep, RoomStep
<1>3. I => (Undisturbed => NoDoubleBooking)
  BY DEF Roomy
<1> QED
  BY <1>1, <1>2, <1>3, TypeCorrect, PTL DEF Spec

-----------------------------------------------------------------------------
(* The total is conserved *)

\* A machine with GPUs of one model, all of them shared, none set aside.
OneModelShared == \A p \in Provider :
  LET m == Machine[p]
  IN /\ \A t \in GPUType \ {m.model} : m.gpus[t] = 0
     /\ m.kind = "agent" => m.sharedGPU \in {0, SpecTotal(m)}
     /\ m.kind = "sdk" => m.reserve = 0

LEMMA OneModelOffers ==
  ASSUME NEW m \in Machines, NEW t \in GPUType,
         \A u \in GPUType \ {m.model} : m.gpus[u] = 0,
         m.kind = "agent" => m.sharedGPU \in {0, SpecTotal(m)},
         m.kind = "sdk" => m.reserve = 0
  PROVE  /\ SpecTotal(m) = m.gpus[m.model]
         /\ Offered(Fresh(m), m, t) = m.gpus[t]
         /\ Offered(Reloaded(m), m, t) = m.gpus[t]
         /\ Fresh(m).miningGPU = NoGPU
<1>1. /\ m.model \in GPUType /\ m.gpus \in [GPUType -> Nat]
      /\ m.reserve \in Nat /\ m.sharedGPU \in Nat
      /\ m.kind \in {"sdk", "agent"}
      /\ SpecTotal(m) \in Nat
  BY SpecTotalType DEF Machines
<1>2. SpecTotal(m) = m.gpus[m.model]
  <2>1. NoGPU \in [GPUType -> Nat] /\ Total(NoGPU, GPUType) = 0
        /\ NoGPU[m.model] = 0
    BY <1>1, TotalZero DEF NoGPU
  <2>2. \A u \in GPUType : u # m.model => m.gpus[u] = NoGPU[u]
    BY DEF NoGPU
  <2>3. Total(m.gpus, GPUType)
          = Total(NoGPU, GPUType) - NoGPU[m.model] + m.gpus[m.model]
    BY <1>1, <2>1, <2>2, GPUTypeAssumption, TotalChange
  <2>4. m.gpus[m.model] \in Nat
    BY <1>1
  <2> QED
    BY <2>1, <2>3, <2>4 DEF SpecTotal
<1>3. /\ Reloaded(m).availNil
      /\ Reloaded(m).availGPU[t] = 0
      /\ Reloaded(m).miningGPU = NoGPU
      /\ Reloaded(m).gpuCount \in {0, SpecTotal(m)}
  BY <1>1 DEF Reloaded, NoGPU
<1>4. Offered(Reloaded(m), m, t) = m.gpus[t]
  BY <1>1, <1>2, <1>3 DEF Offered
<1>5. CASE m.kind = "agent"
  BY <1>2, <1>3, <1>4, <1>5 DEF Fresh
<1>6. CASE m.kind = "sdk"
  <2>1. /\ ~ Fresh(m).availNil
        /\ Fresh(m).availGPU[t] = NonNeg(m.gpus[t] - m.reserve)
        /\ Fresh(m).miningGPU = NoGPU
    BY <1>6 DEF Fresh, Reloaded
  <2> QED
    BY <1>1, <1>2, <1>4, <1>6, <2>1 DEF Offered, NonNeg
<1> QED
  BY <1>1, <1>5, <1>6

\* Nothing is mined, on offer or owed is what the machine lists, and in use
\* is what is owed.
Balanced ==
  Undisturbed =>
    \A p \in known, t \in GPUType :
      /\ ledger[p].miningGPU = NoGPU
      /\ Pool(p, t) = Machine[p].gpus[t]
      /\ ledger[p].inUseGPU[t] = Owed(p, t)

LEMMA BalanceStep ==
  ASSUME OneModelShared, TypeOK, TypeOK', Quiet, FreshUncharged, BooksAgree,
         Roomy, Balanced, [Next]_vars
  PROVE  Balanced'
<1>1. CASE UNCHANGED vars
  BY <1>1
  DEF vars, providers, ghosts, Pool, Owed, Debtors, Model, Charge, Balanced,
      Undisturbed, PodsStay, Unspent
<1>2. CASE Next
  <2> SUFFICES ASSUME Undisturbed', NEW p \in known', NEW t \in GPUType
               PROVE  /\ ledger'[p].miningGPU = NoGPU
                      /\ Pool(p, t)' = Machine[p].gpus[t]
                      /\ ledger'[p].inUseGPU[t] = Owed(p, t)'
    BY DEF Balanced
  <2> DEFINE Goal == /\ ledger'[p].miningGPU = NoGPU
                     /\ Pool(p, t)' = Machine[p].gpus[t]
                     /\ ledger'[p].inUseGPU[t] = Owed(p, t)'
  <2>1. Undisturbed /\ QuietNext
    BY <1>2, UndisturbedStep
  <2>2. /\ p \in Provider /\ Machine[p] \in Machines /\ Model(p) \in GPUType
        /\ ledger \in [Provider -> Capacities] /\ owed' \subseteq Job
        /\ Machine[p].model = Model(p) /\ Machine[p].gpus[t] \in Nat
    BY ConstantTypes DEF TypeOK, Model, Machines
  <2>3. /\ SpecTotal(Machine[p]) = Machine[p].gpus[Model(p)]
        /\ Offered(Fresh(Machine[p]), Machine[p], t) = Machine[p].gpus[t]
        /\ Offered(Reloaded(Machine[p]), Machine[p], t) = Machine[p].gpus[t]
        /\ Fresh(Machine[p]).miningGPU = NoGPU
        /\ t # Model(p) => Machine[p].gpus[t] = 0
    BY <2>2, OneModelOffers DEF OneModelShared
  <2>4. p \in known => /\ ledger[p].miningGPU = NoGPU
                       /\ Pool(p, t) = Machine[p].gpus[t]
                       /\ ledger[p].inUseGPU[t] = Owed(p, t)
                       /\ ledger[p] \in Capacities
    BY <2>1, <2>2 DEF Balanced
  <2>5. Pool(p, t)' = Offered(ledger'[p], Machine[p], t) + Owed(p, t)'
    BY DEF Pool
  <2>6. ASSUME p \in known, ledger'[p] = ledger[p], Owed(p, t)' = Owed(p, t)
        PROVE  Goal
    BY <2>4, <2>5, <2>6 DEF Pool
  <2>7. ASSUME UNCHANGED <<known, ledger, owed>>
        PROVE  Goal
    <3>1. Owed(p, t)' = Owed(p, t)
      BY <2>7 DEF Owed, Debtors
    <3> QED
      BY <2>6, <2>7, <3>1
  <2>8. ASSUME NEW q \in Provider, Register(q)
        PROVE  Goal
    <3>1. q \notin known
      BY <1>2, <2>8, UndisturbedStep
    <3>2. \A j \in owed : Place[j] \in known
      BY <2>1 DEF BooksAgree
    <3>3. owed' = owed /\ ledger' = [ledger EXCEPT ![q] = Fresh(Machine[q])]
          /\ known' = known \cup {q}
      BY <2>8, <3>1, <3>2 DEF Register
    <3>4. CASE p = q
      <4>1. Debtors(p, t)' = {}
        BY <2>2, <3>1, <3>2, <3>3, <3>4, OwedAfter
      <4>2. Owed(p, t)' = 0
        BY <2>2, <4>1, OwedAfter, TotalEmpty
      <4>3. ledger'[p] = Fresh(Machine[p]) /\ ledger'[p].inUseGPU[t] = 0
        BY <2>2, <3>3, <3>4, FreshType DEF NoGPU
      <4> QED
        BY <2>2, <2>3, <2>5, <4>2, <4>3
    <3>5. CASE p # q
      <4>1. Owed(p, t)' = Owed(p, t)
        BY <3>3 DEF Owed, Debtors
      <4> QED
        BY <2>2, <2>6, <3>3, <3>5, <4>1
    <3> QED
      BY <3>4, <3>5
  <2>9. ASSUME NEW j \in Job, Debit(j)
        PROVE  Goal
    <3>1. known' = known
      BY <2>9 DEF Debit
    <3>2. Pool(p, t)' = Pool(p, t)
      BY <2>9, <3>1, DebitPool
    <3>3. j \notin owed
      BY <2>9 DEF Debit, At, FreshUncharged
    <3>4. CASE p = Place[j]
      <4> DEFINE r == Allocate(ledger[p], Machine[p], Model(p), Charge(j))
      <4>1. /\ ledger' = [ledger EXCEPT ![p] = r.cap]
            /\ owed' = IF r.ok THEN owed \cup {j} ELSE owed
            /\ r.cap.miningGPU = ledger[p].miningGPU
            /\ r.ok \in BOOLEAN
        BY <2>9, <3>1, <3>4, DebitLedger
      <4>2. r.cap.inUseGPU
              = IF r.ok THEN [ledger[p].inUseGPU EXCEPT
                                ![Model(p)] = @ + Charge(j).gpu]
                ELSE ledger[p].inUseGPU
        BY <2>2, <2>4, <3>1, <4>1, AmountTypes, AllocateColumns
      <4> HIDE DEF r
      <4>3. ledger'[p] = r.cap
        BY <2>2, <4>1
      <4>4. ledger[p].inUseGPU \in [GPUType -> Nat] /\ Charge(j)["gpu"] \in Nat
        BY <2>4, <3>1, AmountTypes DEF Capacities, Amounts
      <4>5. CASE r.ok
        <5>1. Owed(p, t)' = Owed(p, t) + IF Model(p) = t THEN Charge(j)["gpu"]
                                         ELSE 0
          BY <3>3, <3>4, <4>1, <4>5, OwedMore
        <5>2. r.cap.inUseGPU[t] = ledger[p].inUseGPU[t]
                                    + IF Model(p) = t THEN Charge(j)["gpu"] ELSE 0
          BY <2>2, <4>2, <4>4, <4>5
        <5> QED
          BY <2>4, <3>1, <3>2, <4>1, <4>3, <5>1, <5>2
      <4>6. CASE ~ r.ok
        <5>1. Owed(p, t)' = Owed(p, t)
          BY <4>1, <4>6 DEF Owed, Debtors
        <5>2. ledger'[p].inUseGPU = ledger[p].inUseGPU
          BY <4>2, <4>3, <4>6
        <5>3. ledger'[p].miningGPU = ledger[p].miningGPU
          BY <4>1, <4>3
        <5> QED
          BY <2>4, <3>1, <3>2, <5>1, <5>2, <5>3
      <4> QED
        BY <4>1, <4>5, <4>6
    <3>5. CASE p # Place[j]
      <4>1. ledger'[p] = ledger[p]
        <5>1. CASE Place[j] \in known
          BY <2>2, <2>9, <3>5, <5>1, DebitLedger
        <5>2. CASE Place[j] \notin known
          BY <2>9, <5>2 DEF Debit
        <5> QED
          BY <5>1, <5>2
      <4>2. owed' = owed \/ owed' = owed \cup {j}
        BY <2>9 DEF Debit
      <4>3. owed' = owed => Owed(p, t)' = Owed(p, t)
        BY DEF Owed, Debtors
      <4>4. Owed(p, t) \in Nat
        BY OwedType
      <4>5. Owed(p, t)' = Owed(p, t)
        BY <3>3, <3>5, <4>2, <4>3, <4>4, OwedMore
      <4> QED
        BY <2>6, <3>1, <4>1, <4>5
    <3> QED
      BY <3>4, <3>5
  <2>10. ASSUME NEW j \in Job, Rollback(j)
         PROVE  Goal
    <3>1. GivesBack(j) /\ owed' = owed \ {j} /\ known' = known
      BY <2>10, RollbackGives DEF GivesBack
    <3>2. CASE Place[j] \in known
      <4>1. Placed(j) /\ up /\ creating[j] = "undo"
        BY <2>10, <3>2, ConstantTypes DEF Rollback, At, TypeOK
      <4>2. j \in owed /\ ~ ledger[Place[j]].availNil
            /\ ~ ledger[Place[j]].inUseNil
        BY <2>1, <4>1 DEF BooksAgree
      <4>3. Pool(p, t)' = Pool(p, t)
        BY <3>1, <4>2, CreditPool
      <4>4. /\ Owed(p, t) = Owed(p, t)' + IF Place[j] = p /\ Model(p) = t
                                          THEN Charge(j)["gpu"] ELSE 0
            /\ Charge(j)["gpu"] \in Nat
            /\ Owed(p, t)' \in Nat
        BY <2>2, <3>1, <4>2, OwedLess, OwedAfter
      <4>5. /\ Credit(Place[j], Model(Place[j]), Charge(j))
            /\ Model(Place[j]) \in GPUType /\ Charge(j) \in Amounts
        BY <2>10, <4>1, ConstantTypes, AmountTypes DEF Rollback
      <4>6. CASE p = Place[j]
        <5> DEFINE c == Release(ledger[p], Model(p), Charge(j))
        <5>1. ledger'[p] = c
          BY <2>2, <3>2, <4>5, <4>6, CreditLedger
        <5>2. /\ ledger[p] \in Capacities /\ ~ ledger[p].inUseNil
              /\ Model(p) \in GPUType /\ Charge(j) \in Amounts
          BY <2>4, <3>2, <4>2, <4>5, <4>6
        <5>3. /\ c.miningGPU = ledger[p].miningGPU
              /\ c.inUseGPU[t] = IF Model(p) = t
                                 THEN NonNeg(ledger[p].inUseGPU[t]
                                               - Charge(j)["gpu"])
                                 ELSE ledger[p].inUseGPU[t]
          BY <2>2, <5>2, ReleaseInUse
        <5> HIDE DEF c
        <5>6. c.inUseGPU[t] = Owed(p, t)'
          BY <2>4, <3>2, <4>4, <4>6, <5>3 DEF NonNeg
        <5> QED
          BY <2>4, <3>2, <4>3, <4>6, <5>1, <5>3, <5>6
      <4>7. CASE p # Place[j]
        <5>1. ledger'[p] = ledger[p]
          BY <2>2, <3>2, <4>5, <4>7, CreditLedger
        <5>2. Owed(p, t)' = Owed(p, t)
          BY <4>4, <4>7
        <5> QED
          BY <2>6, <3>1, <5>1, <5>2
      <4> QED
        BY <4>6, <4>7
    <3>3. CASE Place[j] \notin known
      <4>1. ledger' = ledger
        BY <3>1, <3>3 DEF GivesBack, Credit
      <4>2. j \notin owed
        BY <2>1, <3>3 DEF BooksAgree
      <4> QED
        BY <2>7, <3>1, <4>1, <4>2
    <3> QED
      BY <3>2, <3>3
  <2>11. CASE \E j \in Job : \/ CheckRequest(j) \/ CreatePod(j)
                             \/ CreateService(j)
    BY <2>7, <2>11 DEF CheckRequest, CreatePod, CreateService, providers, ghosts
  <2>12. CASE WatchStarts \/ WatchDrops
    BY <2>7, <2>12 DEF WatchStarts, WatchDrops, providers, ghosts
  <2>13. ~ Crash
    BY DEF Crash
  <2>14. CASE BootWith({})
    <3> DEFINE b == p \in known' /\ p \in {}
               c == [Reloaded(Machine[p]) EXCEPT !.miningPod = b]
               d == Recover(c, Machine[p], Held(p))
    <3>1. /\ known' = stored
          /\ owed' = {j \in Job : \E q \in known' : j \in Counted(q)}
          /\ ledger' = [q \in Provider |->
               LET k == [Reloaded(Machine[q]) EXCEPT
                           !.miningPod = q \in known' /\ q \in {}]
               IN IF q \in known' /\ Counted(q) # {}
                  THEN Recover(k, Machine[q], Held(q)) ELSE k]
      BY <1>2, <2>14, UndisturbedStep
    <3>2. ledger'[p] = IF Counted(p) # {} THEN d ELSE c
      BY <2>2, <3>1
    <3>3. /\ c.inUseGPU = NoGPU /\ c.miningGPU = NoGPU
          /\ c.availNil /\ c.availGPU = NoGPU
          /\ c.gpuCount = Reloaded(Machine[p]).gpuCount
          /\ ~ d.availNil
          /\ d.inUseGPU = [NoGPU EXCEPT ![Model(p)] = Held(p).gpu]
          /\ d.availGPU = [NoGPU EXCEPT ![Model(p)] =
                             NonNeg(SpecTotal(Machine[p]) - Held(p).gpu)]
          /\ d.miningGPU = NoGPU
      BY <2>2, RecoveredColumns
    <3>4. Reloaded(Machine[p]).availNil /\ Reloaded(Machine[p]).availGPU = NoGPU
      BY DEF Reloaded
    <3> HIDE DEF c, d
    <3>5. Debtors(p, t)' = IF t = Model(p) THEN Counted(p) ELSE {}
      BY <2>2, <3>1, OwedAfter DEF Counted
    <3>6. Owed(p, t)' = IF t = Model(p) THEN Held(p)["gpu"] ELSE 0
      BY <2>2, <3>5, OwedAfter, HeldTotal, TotalEmpty
    <3>7. /\ Held(p)["gpu"] \in Nat
          /\ Held(p)["gpu"] <= SpecTotal(Machine[p])
      BY <2>1, <2>2, HeldType DEF Roomy, NoDoubleBooking, Amounts
    <3>8. CASE Counted(p) = {}
      <4>1. Owed(p, t)' = 0
        BY <3>6, <3>8, HeldTotal, TotalEmpty
      <4>2. Offered(c, Machine[p], t) = Offered(Reloaded(Machine[p]), Machine[p], t)
        BY <3>3, <3>4 DEF Offered
      <4>3. c.inUseGPU[t] = 0
        BY <3>3 DEF NoGPU
      <4> QED
        BY <2>2, <2>3, <2>5, <3>2, <3>3, <3>8, <4>1, <4>2, <4>3
    <3>9. CASE Counted(p) # {}
      <4>1. d.inUseGPU[t] = IF t = Model(p) THEN Held(p)["gpu"] ELSE 0
        BY <2>2, <3>3 DEF NoGPU
      <4>2. Offered(d, Machine[p], t)
              = IF t = Model(p) THEN NonNeg(SpecTotal(Machine[p]) - Held(p)["gpu"])
                ELSE 0
        BY <2>2, <3>3 DEF Offered, NoGPU
      <4>3. Offered(d, Machine[p], t) + Owed(p, t)' = Machine[p].gpus[t]
        BY <2>2, <2>3, <3>6, <3>7, <4>2 DEF NonNeg
      <4> QED
        BY <2>5, <3>2, <3>3, <3>6, <3>9, <4>1, <4>3
    <3> QED
      BY <3>8, <3>9
  <2> QED
    BY <2>1, <2>8, <2>9, <2>10, <2>11, <2>12, <2>13, <2>14 DEF QuietNext
<1> QED
  BY <1>1, <1>2

\* types.go's equation, Total = Available + InUse + Mining, for machines with
\* GPUs of one model that are all shared, through failures, refusals, crashes
\* and restarts, as long as pods stay, no provider registers again and the
\* database and the recovery answer.  Each exception is one the code does not
\* make good: a job credited twice, a registration that forgets the running
\* pods, a recovery without its listing.
THEOREM TotalConserved ==
  ASSUME OneModelShared
  PROVE  Spec => [](Undisturbed => TotalIsConserved)
<1> DEFINE I == Quiet /\ FreshUncharged /\ BooksAgree /\ Roomy /\ Balanced
<1>1. SharesWhatItHas
  BY ConstantTypes, SpecTotalType DEF OneModelShared, SharesWhatItHas
<1>2. Init => I
  BY InitRoom DEF Init, Balanced
<1>3. TypeOK /\ TypeOK' /\ I /\ [Next]_vars => I'
  BY <1>1, QuietStep, FreshStep, BooksStep, RoomStep, BalanceStep
<1>4. TypeOK /\ I => (Undisturbed => TotalIsConserved)
  <2> SUFFICES ASSUME TypeOK, I, Undisturbed, NEW p \in known, NEW t \in GPUType
               PROVE  Accounted(ledger[p], Machine[p], t) = Machine[p].gpus[t]
    BY DEF TotalIsConserved
  <2>1. /\ ledger[p].miningGPU = NoGPU
        /\ Pool(p, t) = Machine[p].gpus[t]
        /\ ledger[p].inUseGPU[t] = Owed(p, t)
    BY DEF Balanced
  <2>2. p \in Provider /\ ledger[p] \in Capacities
    BY DEF TypeOK
  <2>3. Offered(ledger[p], Machine[p], t) \in Nat /\ Owed(p, t) \in Nat
    BY <2>2, ConstantTypes, OfferedType, OwedType
  <2>4. NoGPU[t] = 0
    BY DEF NoGPU
  <2> QED
    BY <2>1, <2>3, <2>4 DEF Accounted, Pool
<1> QED
  BY <1>2, <1>3, <1>4, TypeCorrect, PTL DEF Spec

-----------------------------------------------------------------------------
(* Renting implements leases *)

\* The lease of Lease, by the names of the mapping.
Holding == {j \in owed : pod[j] # "running"}
Housed == {j \in Job : Placed(j) /\ pod[j] = "running"}
FreeGPUs ==
  [p \in stored |-> IF up THEN Offered(ledger[p], Machine[p], Model(p))
                    ELSE SpecTotal(Machine[p]) - Held(p)["gpu"]]

\* A process that is down has charged nobody.
Forgotten == Undisturbed => up \/ owed = {}

LEMMA ForgottenStep ==
  ASSUME TypeOK, Quiet, Forgotten, [Next]_vars
  PROVE  Forgotten'
<1>1. CASE UNCHANGED vars
  BY <1>1 DEF vars, ghosts, Forgotten, Undisturbed, PodsStay, Unspent
<1>2. CASE Next
  <2> SUFFICES ASSUME Undisturbed', ~ up'
               PROVE  owed' = {}
    BY DEF Forgotten
  <2>1. QuietNext /\ (up \/ owed = {})
    BY <1>2, UndisturbedStep DEF Forgotten
  <2>2. CASE Crash
    BY <2>2 DEF Crash
  <2>3. CASE WatchDrops
    BY <2>1, <2>3 DEF WatchDrops, ghosts
  <2>4. /\ ~ \E p \in Provider : Register(p)
        /\ ~ \E j \in Job : \/ CheckRequest(j) \/ Debit(j) \/ CreatePod(j)
                            \/ Rollback(j) \/ CreateService(j)
        /\ ~ WatchStarts /\ ~ BootWith({})
    BY DEF Register, CheckRequest, Debit, CreatePod, Rollback, CreateService,
           At, WatchStarts, BootWith
  <2> QED
    BY <2>1, <2>2, <2>3, <2>4 DEF QuietNext
<1> QED
  BY <1>1, <1>2

\* What is on offer, or will be once the process has recovered, is what is
\* left of the machine.
Settled == FreeGPUs = TheLease!Left(stored, Holding \cup Housed)

\* The sums of Lease are those of Sums.
LEMMA LeaseTotal ==
  ASSUME NEW f, NEW S
  PROVE  TheLease!Total(f, S) = Total(f, S)
BY DEF TheLease!Total, Total, TheLease!Cardinality, Cardinality

LEMMA OfferIsWhatIsLeft ==
  ASSUME OneModelShared, TypeOK, BooksAgree, Balanced, Forgotten, Undisturbed
  PROVE  Settled
<1> DEFINE J == Holding \cup Housed
<1> SUFFICES ASSUME NEW p \in stored
             PROVE  FreeGPUs[p]
                      = Machine[p].gpus[Model(p)]
                          - Total(GPUs, {j \in J : Place[j] = p})
  <2>1. ASSUME NEW p \in Provider
        PROVE  TheLease!TakenAt(p, J) = Total(GPUs, {j \in J : Place[j] = p})
    BY LeaseTotal DEF TheLease!TakenAt, GPUs
  <2>2. stored \subseteq Provider
    BY DEF TypeOK
  <2> HIDE DEF J
  <2>3. TheLease!Left(stored, J)
          = [p \in stored |->
               Machine[p].gpus[Model(p)] - TheLease!TakenAt(p, J)]
    BY <2>2 DEF TheLease!Left
  <2> QED
    BY <2>1, <2>2, <2>3 DEF Settled, FreeGPUs, J
<1>1. /\ p \in Provider /\ Machine[p] \in Machines /\ Model(p) \in GPUType
      /\ Machine[p].model = Model(p) /\ Machine[p].gpus[Model(p)] \in Nat
      /\ p # NoProvider
  BY ConstantTypes, RentalAssumption DEF TypeOK, Model, Machines
<1>2. CASE up
  <2>1. p \in known /\ known = stored
    BY <1>2 DEF BooksAgree
  <2>2. Debtors(p, Model(p)) = {j \in owed : Place[j] = p}
    BY DEF Debtors
  <2>3. {j \in J : Place[j] = p} = {j \in owed : Place[j] = p}
    BY <1>1, <1>2 DEF BooksAgree, TypeOK, Holding, Housed, Placed
  <2>4. /\ Owed(p, Model(p)) = Total(GPUs, Debtors(p, Model(p)))
        /\ Owed(p, Model(p)) \in Nat
    BY OwedType
  <2>5. Offered(ledger[p], Machine[p], Model(p)) + Owed(p, Model(p))
          = Machine[p].gpus[Model(p)]
    BY <1>1, <2>1 DEF Balanced, Pool
  <2>6. Offered(ledger[p], Machine[p], Model(p)) \in Nat
    BY <1>1, OfferedType DEF TypeOK
  <2>7. FreeGPUs[p] = Offered(ledger[p], Machine[p], Model(p))
    BY <1>2 DEF FreeGPUs
  <2> HIDE DEF J
  <2>8. {j \in J : Place[j] = p} = Debtors(p, Model(p))
    BY <2>2, <2>3
  <2> DEFINE D == {j \in J : Place[j] = p}
  <2>9. Total(GPUs, D) = Owed(p, Model(p))
    BY <2>4, <2>8
  <2> HIDE DEF D
  <2>10. FreeGPUs[p] = Machine[p].gpus[Model(p)] - Total(GPUs, D)
    BY <1>1, <2>4, <2>5, <2>6, <2>7, <2>9
  <2> QED
    BY <2>10 DEF D
<1>3. CASE ~ up
  <2>1. owed = {}
    BY <1>3 DEF Forgotten
  <2>2. {j \in J : Place[j] = p} = Counted(p)
    BY <1>1, <2>1 DEF Holding, Housed, Placed, Counted
  <2>3. SpecTotal(Machine[p]) = Machine[p].gpus[Model(p)]
    BY <1>1, OneModelOffers DEF OneModelShared
  <2>4. Held(p)["gpu"] = Total(GPUs, Counted(p))
    BY HeldTotal
  <2>5. FreeGPUs[p] = SpecTotal(Machine[p]) - Held(p)["gpu"]
    BY <1>3 DEF FreeGPUs
  <2> QED
    BY <2>2, <2>3, <2>4, <2>5
<1> QED
  BY <1>2, <1>3

\* The steps of a lease, said of the three sets alone: since what is free
\* follows from them, nothing else has to be shown of it.
LEMMA LeaseMoves ==
  ASSUME Settled, Settled'
  PROVE  /\ UNCHANGED <<stored, Holding, Housed>>
              => UNCHANGED TheLease!leaseVars
         /\ \A p \in Provider :
              p \notin stored /\ stored' = stored \cup {p}
                /\ UNCHANGED <<Holding, Housed>> => TheLease!Next
         /\ \A J \in SUBSET Job :
              J \subseteq Holding /\ Holding' = Holding \ J
                /\ UNCHANGED <<stored, Housed>> => TheLease!Next
         /\ \A j \in Job :
              j \in Holding /\ Holding' = Holding \ {j}
                /\ Housed' = Housed \cup {j} /\ stored' = stored
                => TheLease!Next
         /\ \A j \in Job :
              j \notin Holding \cup Housed /\ Place[j] \in stored
                /\ Charge(j)["gpu"] <= FreeGPUs[Place[j]]
                /\ Holding' = Holding \cup {j}
                /\ UNCHANGED <<stored, Housed>> => TheLease!Next
<1> DEFINE Leases == TheLease!Left(stored', Holding' \cup Housed')
<1>1. FreeGPUs' = Leases
  BY DEF Settled, TheLease!Left, TheLease!TakenAt, TheLease!Total, Model
<1>2. UNCHANGED <<stored, Holding, Housed>> => Leases = FreeGPUs
  BY DEF Settled
<1> HIDE DEF Leases
<1>3. ASSUME UNCHANGED <<stored, Holding, Housed>>
      PROVE  UNCHANGED TheLease!leaseVars
  <2>1. UNCHANGED <<stored, Holding, Housed, FreeGPUs>>
    BY <1>1, <1>2, <1>3
  <2> QED
    BY <2>1 DEF TheLease!leaseVars, Holding, Housed, FreeGPUs
<1>4. ASSUME NEW p \in Provider, p \notin stored, stored' = stored \cup {p},
             UNCHANGED <<Holding, Housed>>
      PROVE  TheLease!List(p)
  BY <1>4 DEF TheLease!List, Holding, Housed
<1>5. ASSUME NEW J \in SUBSET Job, J \subseteq Holding,
             Holding' = Holding \ J, UNCHANGED <<stored, Housed>>
      PROVE  TheLease!GiveUp(J)
  BY <1>5 DEF TheLease!GiveUp, Holding, Housed
<1>6. ASSUME NEW j \in Job, j \in Holding, Holding' = Holding \ {j},
             Housed' = Housed \cup {j}, stored' = stored
      PROVE  TheLease!MoveIn(j)
  BY <1>6 DEF TheLease!MoveIn, Holding, Housed
<1>7. ASSUME NEW j \in Job, j \notin Holding \cup Housed, Place[j] \in stored,
             Charge(j)["gpu"] <= FreeGPUs[Place[j]],
             Holding' = Holding \cup {j}, UNCHANGED <<stored, Housed>>
      PROVE  TheLease!Hold(j)
  BY <1>7 DEF TheLease!Hold, Holding, Housed, FreeGPUs
<1>8. \/ \E p \in Provider : TheLease!List(p)
      \/ \E j \in Job : TheLease!Hold(j) \/ TheLease!MoveIn(j)
      \/ \E J \in SUBSET Job : TheLease!GiveUp(J)
      => TheLease!Next
  BY <1>1 DEF TheLease!Next, Leases, Holding, Housed, FreeGPUs
<1> QED
  BY <1>3, <1>4, <1>5, <1>6, <1>7, <1>8

\* Every step is one of a lease, or none.
LEMMA LeaseStep ==
  ASSUME TypeOK, TypeOK', Quiet, FreshUncharged, BooksAgree, Forgotten,
         Settled, Settled', [Next]_vars, Undisturbed'
  PROVE  [TheLease!Next]_(TheLease!leaseVars)
<1>1. CASE UNCHANGED vars
  <2>1. UNCHANGED <<stored, Holding, Housed>>
    BY <1>1 DEF vars, providers, kubernetes, ghosts, Holding, Housed
  <2> QED
    BY <2>1, LeaseMoves
<1>2. CASE Next
  <2>1. Undisturbed /\ QuietNext
    BY <1>2, UndisturbedStep
  <2>2. /\ up => known = stored
        /\ \A j \in owed : j \in Job /\ Place[j] \in known
        /\ \A j \in Job :
             /\ pod[j] # "ended"
             /\ creating[j] \in {"new", "checked", "accepted", "undo"}
                  => pod[j] = "none"
             /\ creating[j] \in {"new", "checked"} => j \notin owed
             /\ Placed(j) /\ up /\ creating[j] = "accepted" => j \in owed
    BY <2>1 DEF BooksAgree, TypeOK, Undisturbed, Quiet, FreshUncharged
  <2>3. NoProvider \notin known
    BY RentalAssumption DEF TypeOK
  <2>4. pod \in [Job -> {"none", "running", "ended"}]
    BY DEF TypeOK
  <2>5. ASSUME UNCHANGED <<stored, owed, pod>>
        PROVE  UNCHANGED TheLease!leaseVars
    <3>1. UNCHANGED <<stored, Holding, Housed>>
      BY <2>5 DEF Holding, Housed
    <3> QED
      BY <3>1, LeaseMoves
  <2>6. ASSUME NEW p \in Provider, Register(p)
        PROVE  TheLease!Next
    <3>1. p \notin stored /\ stored' = stored \cup {p} /\ p \notin known
      BY <1>2, <2>2, <2>6, UndisturbedStep DEF Register
    <3>2. owed' = owed
      BY <2>2, <2>6, <3>1 DEF Register
    <3>3. UNCHANGED <<Holding, Housed>>
      BY <2>6, <3>2 DEF Register, kubernetes, Holding, Housed
    <3> QED
      BY <3>1, <3>3, LeaseMoves
  <2>7. ASSUME NEW j \in Job, Debit(j)
        PROVE  [TheLease!Next]_(TheLease!leaseVars)
    <3>1. /\ up /\ up' /\ creating[j] = "checked"
          /\ UNCHANGED <<stored, known, pod>>
      BY <2>7 DEF Debit, At, kubernetes
    <3>2. CASE owed' = owed
      BY <2>5, <3>1, <3>2
    <3>3. CASE owed' # owed
      <4> DEFINE p == Place[j]
      <4>1. /\ p \in known
            /\ owed' = owed \cup {j}
        BY <2>7, <3>3 DEF Debit
      <4>2. j \notin owed /\ pod[j] = "none" /\ p \in stored
        BY <2>2, <3>1, <4>1
      <4>3. /\ Holding' = Holding \cup {j} /\ Housed' = Housed
            /\ j \notin Holding \cup Housed
        BY <3>1, <4>1, <4>2 DEF Holding, Housed
      <4>4. /\ p \in Provider /\ Machine[p] \in Machines
            /\ Model(p) \in GPUType /\ ledger[p] \in Capacities
            /\ ledger'[p] \in Capacities
        BY <4>1, ConstantTypes DEF TypeOK
      <4>5. Offered(ledger'[p], Machine[p], Model(p)) + Charge(j)["gpu"]
              = Offered(ledger[p], Machine[p], Model(p))
        <5>1. Pool(p, Model(p))' = Pool(p, Model(p))
          BY <2>7, <4>1, <4>4, DebitPool DEF Model
        <5>2. /\ Owed(p, Model(p))' = Owed(p, Model(p)) + Charge(j)["gpu"]
              /\ Owed(p, Model(p)) \in Nat
              /\ Charge(j)["gpu"] \in Nat
          BY <4>1, <4>2, OwedMore, OwedType, AmountTypes DEF Amounts
        <5>3. Pool(p, Model(p))' = Offered(ledger'[p], Machine[p], Model(p))
                                     + Owed(p, Model(p))'
          BY DEF Pool, Model
        <5>4. /\ Offered(ledger'[p], Machine[p], Model(p)) \in Nat
              /\ Offered(ledger[p], Machine[p], Model(p)) \in Nat
          BY <4>4, OfferedType
        <5> QED
          BY <5>1, <5>2, <5>3, <5>4 DEF Pool
      <4>6. Charge(j)["gpu"] <= FreeGPUs[p]
        <5>1. /\ Offered(ledger'[p], Machine[p], Model(p)) \in Nat
              /\ Charge(j)["gpu"] \in Nat
          BY <4>4, OfferedType, AmountTypes DEF Amounts
        <5>2. FreeGPUs[p] = Offered(ledger[p], Machine[p], Model(p))
          BY <3>1, <4>2 DEF FreeGPUs
        <5> QED
          BY <4>5, <5>1, <5>2
      <4> QED
        BY <3>1, <4>2, <4>3, <4>6, LeaseMoves
    <3> QED
      BY <3>2, <3>3
  <2>8. ASSUME NEW j \in Job, CreatePod(j)
        PROVE  [TheLease!Next]_(TheLease!leaseVars)
    <3>1. /\ up /\ creating[j] = "accepted" /\ pod[j] = "none"
          /\ UNCHANGED <<stored, owed>>
      BY <2>2, <2>8 DEF CreatePod, At, providers, ghosts
    <3>2. CASE pod' = pod
      BY <2>5, <3>1, <3>2
    <3>3. CASE pod' # pod
      <4>1. pod' = [pod EXCEPT ![j] = "running"]
        BY <2>8, <3>3 DEF CreatePod
      <4>2. CASE Placed(j)
        <5>1. j \in owed
          BY <2>2, <3>1, <4>2
        <5>2. j \in Holding /\ Holding' = Holding \ {j}
          BY <2>2, <2>4, <3>1, <4>1, <5>1 DEF Holding
        <5>3. Housed' = Housed \cup {j}
          BY <2>4, <4>1, <4>2 DEF Housed, Placed
        <5> QED
          BY <3>1, <5>2, <5>3, LeaseMoves
      <4>3. CASE ~ Placed(j)
        <5>1. j \notin owed
          BY <2>2, <2>3, <4>3 DEF Placed
        <5>2. Holding' = Holding /\ Housed' = Housed
          BY <2>2, <2>4, <3>1, <4>1, <4>3, <5>1 DEF Holding, Housed, Placed
        <5> QED
          BY <3>1, <5>2, LeaseMoves
      <4> QED
        BY <4>2, <4>3
    <3> QED
      BY <3>2, <3>3
  <2>9. ASSUME NEW j \in Job, Rollback(j)
        PROVE  [TheLease!Next]_(TheLease!leaseVars)
    <3>1. /\ creating[j] = "undo" /\ pod[j] = "none"
          /\ owed' = owed \ {j} /\ UNCHANGED <<stored, pod>>
      BY <2>2, <2>9 DEF Rollback, At, kubernetes
    <3>2. /\ Holding' = Holding \ ({j} \cap Holding)
          /\ UNCHANGED <<stored, Housed>>
      BY <3>1 DEF Holding, Housed
    <3>3. {j} \cap Holding \in SUBSET Job /\ {j} \cap Holding \subseteq Holding
      OBVIOUS
    <3> QED
      BY <3>2, <3>3, LeaseMoves
  <2>10. CASE Crash
    <3>1. owed' = {} /\ UNCHANGED <<stored, pod>>
      BY <2>10 DEF Crash, kubernetes
    <3>2. /\ Holding' = Holding \ Holding
          /\ UNCHANGED <<stored, Housed>>
      BY <3>1 DEF Holding, Housed
    <3>3. Holding \in SUBSET Job
      BY <2>2 DEF Holding
    <3> QED
      BY <3>2, <3>3, LeaseMoves
  <2>11. CASE BootWith({})
    <3>1. owed = {}
      BY <2>1, <2>11 DEF BootWith, Forgotten
    <3>2. \A j \in owed' : pod[j] = "running"
      BY <1>2, <2>11, UndisturbedStep DEF Counted
    <3>3. UNCHANGED <<stored, pod>>
      BY <2>11 DEF BootWith, kubernetes
    <3>4. UNCHANGED <<stored, Holding, Housed>>
      BY <3>1, <3>2, <3>3 DEF Holding, Housed
    <3> QED
      BY <3>4, LeaseMoves
  <2>12. CASE \/ WatchStarts \/ WatchDrops
              \/ \E j \in Job : CheckRequest(j) \/ CreateService(j)
    <3>1. UNCHANGED <<stored, owed, pod>>
      BY <2>12
      DEF WatchStarts, WatchDrops, CheckRequest, CreateService, providers,
          kubernetes, ghosts
    <3> QED
      BY <2>5, <3>1
  <2> QED
    BY <2>1, <2>6, <2>7, <2>8, <2>9, <2>10, <2>11, <2>12 DEF QuietNext
<1> QED
  BY <1>1, <1>2

\* Debits, pods, rollbacks, crashes and recoveries of machines with GPUs of
\* one model that are all shared implement leases, for as long as pods stay, no
\* provider registers again and the database and the recovery answer: nothing
\* is rented without room, a tenant whose pod runs keeps its GPUs through every
\* restart, and what is offered is what nobody holds.
THEOREM RentingIsLeasing ==
  ASSUME OneModelShared
  PROVE  Spec => ([]Undisturbed => RefinesLease)
<1> DEFINE I == Quiet /\ FreshUncharged /\ BooksAgree /\ Roomy /\ Balanced
                  /\ Forgotten
<1>1. SharesWhatItHas
  BY ConstantTypes, SpecTotalType DEF OneModelShared, SharesWhatItHas
<1>2. Init => I
  BY InitRoom DEF Init, Balanced, Forgotten
<1>3. TypeOK /\ TypeOK' /\ I /\ [Next]_vars => I'
  BY <1>1, QuietStep, FreshStep, BooksStep, RoomStep, BalanceStep, ForgottenStep
<1>4. TypeOK /\ I /\ Undisturbed => Settled
  BY OfferIsWhatIsLeft
<1>5. TypeOK /\ Init => TheLease!Init
  <2> SUFFICES ASSUME Init PROVE TheLease!Init
    OBVIOUS
  <2>1. stored = {} /\ Holding = {} /\ Housed = {}
    BY DEF Init, Holding, Housed
  <2>2. FreeGPUs = TheLease!Left({}, {})
    BY <2>1 DEF FreeGPUs, TheLease!Left
  <2> QED
    BY <2>1, <2>2 DEF TheLease!Init, FreeGPUs, Holding, Housed
<1>6. /\ TypeOK /\ TypeOK' /\ I /\ Undisturbed' /\ Settled /\ Settled'
      /\ [Next]_vars
      => [TheLease!Next]_(TheLease!leaseVars)
  BY LeaseStep
<1> HIDE DEF I
<1> QED
  BY <1>2, <1>3, <1>4, <1>5, <1>6, TypeCorrect, PTL
  DEF Spec, RefinesLease, TheLease!Spec

-----------------------------------------------------------------------------
(* What an operation of the mining manager does to a ledger entry *)

\* A nil map stands for a machine nobody has used since it was loaded: every
\* column is still empty.
Untouched(c) ==
  c.availNil => /\ c.totalGPU = NoGPU
                /\ c.availGPU = NoGPU
                /\ c.miningGPU = NoGPU

\* From c to d, mining takes what was on offer, or finds nothing on offer or
\* no map and takes at most the machine.
Takes(c, d, m) ==
  \A t \in GPUType :
    LET taken == d.miningGPU[t] - c.miningGPU[t]
        free == Offered(c, m, t)
    IN taken > 0 => \/ taken <= free
                    \/ (free = 0 \/ c.availNil) /\ taken <= SpecTotal(m)

\* From c to d, what mining gives up is on offer.
Gives(c, d, m) ==
  \A t \in GPUType :
    LET given == c.miningGPU[t] - d.miningGPU[t]
    IN given > 0 => Offered(d, m, t) = Offered(c, m, t) + given

LEMMA SameMining ==
  ASSUME NEW c \in Capacities, NEW d \in Capacities, NEW m,
         d.miningGPU = c.miningGPU
  PROVE  Takes(c, d, m) /\ Gives(c, d, m)
<1>1. \A t \in GPUType : c.miningGPU[t] \in Nat
  BY DEF Capacities
<1> QED
  BY <1>1 DEF Takes, Gives

LEMMA ReloadedUntouched ==
  ASSUME NEW m \in Machines
  PROVE  /\ Untouched(Reloaded(m))
         /\ Untouched(Fresh(m))
<1>1. Untouched(Reloaded(m))
  BY DEF Untouched, Reloaded
<1>2. CASE m.kind = "agent"
  BY <1>1, <1>2 DEF Fresh
<1>3. CASE m.kind # "agent"
  <2>1. ~ Fresh(m).availNil
    BY <1>3 DEF Fresh, Reloaded
  <2> QED
    BY <1>1, <2>1 DEF Untouched
<1> QED
  BY <1>2, <1>3

\* What DeployMiningForProvider finds after its initialisations, for the type
\* it picks: what is on offer, or the machine's GPUs when that was zero.
LEMMA PrepareColumns ==
  ASSUME NEW c \in Capacities, NEW m \in Machines, Untouched(c),
         NEW t \in MiningTypes(c, m)
  PROVE  LET d == PrepareMining(c, m, t)
         IN /\ t \in GPUType
            /\ d \in Capacities /\ ~ d.availNil
            /\ d.miningGPU = c.miningGPU
            /\ d.inUseGPU = c.inUseGPU /\ d.inUseNil = c.inUseNil
            /\ c.availNil => t = m.model /\ d.availGPU[t] = SpecTotal(m)
            /\ ~ c.availNil =>
                 d.availGPU[t] = IF c.availGPU[t] = 0 THEN SpecTotal(m)
                                 ELSE c.availGPU[t]
<1> DEFINE filled == IF ~ c.availNil THEN c.availGPU
                     ELSE IF c.totalGPU # NoGPU THEN c.totalGPU
                     ELSE [c.availGPU EXCEPT ![t] = SpecTotal(m)]
           avail == IF filled[t] = 0 THEN [filled EXCEPT ![t] = SpecTotal(m)]
                    ELSE filled
<1>1. /\ t \in GPUType
      /\ c.totalGPU = NoGPU => t = m.model
  BY DEF MiningTypes, Machines, NoGPU
<1>2. /\ c.availGPU \in [GPUType -> Nat] /\ c.totalGPU \in [GPUType -> Nat]
      /\ SpecTotal(m) \in Nat
  BY SpecTotalType DEF Capacities
<1>3. filled \in [GPUType -> Nat]
  BY <1>1, <1>2
<1>4. /\ c.availNil => filled[t] = SpecTotal(m)
      /\ ~ c.availNil => filled[t] = c.availGPU[t]
  BY <1>1, <1>2 DEF Untouched
<1>5. PrepareMining(c, m, t) = [c EXCEPT !.availGPU = avail, !.availNil = FALSE]
  BY DEF PrepareMining
<1> HIDE DEF filled
<1>6. /\ avail \in [GPUType -> Nat]
      /\ avail[t] = IF filled[t] = 0 THEN SpecTotal(m) ELSE filled[t]
  BY <1>1, <1>2, <1>3
<1> HIDE DEF avail
<1>7. /\ PrepareMining(c, m, t) \in Capacities
      /\ ~ PrepareMining(c, m, t).availNil
      /\ PrepareMining(c, m, t).availGPU = avail
      /\ PrepareMining(c, m, t).miningGPU = c.miningGPU
      /\ PrepareMining(c, m, t).inUseGPU = c.inUseGPU
      /\ PrepareMining(c, m, t).inUseNil = c.inUseNil
  BY <1>5, <1>6 DEF Capacities
<1>8. c.availNil => t = m.model
  BY <1>1 DEF Untouched
<1> QED
  BY <1>1, <1>4, <1>6, <1>7, <1>8

LEMMA DeployColumns ==
  ASSUME NEW c \in Capacities, NEW m \in Machines, Untouched(c),
         NEW t \in MiningTypes(c, m), NEW n \in Nat,
         PrepareMining(c, m, t).availGPU[t] >= n
  PROVE  LET d == Deploy(PrepareMining(c, m, t), t, n, MinerSize)
         IN /\ d \in Capacities /\ ~ d.availNil
            /\ d.inUseGPU = c.inUseGPU /\ d.inUseNil = c.inUseNil
            /\ Takes(c, d, m)
<1> DEFINE e == PrepareMining(c, m, t)
           d == Deploy(e, t, n, MinerSize)
<1>1. /\ t \in GPUType
      /\ e \in Capacities /\ ~ e.availNil
      /\ e.miningGPU = c.miningGPU
      /\ e.inUseGPU = c.inUseGPU /\ e.inUseNil = c.inUseNil
      /\ c.availNil => t = m.model /\ e.availGPU[t] = SpecTotal(m)
      /\ ~ c.availNil => e.availGPU[t] = IF c.availGPU[t] = 0 THEN SpecTotal(m)
                                         ELSE c.availGPU[t]
  BY PrepareColumns
<1>2. e.availGPU[t] >= n
  OBVIOUS
<1> HIDE DEF e
<1> DEFINE availGPU == [e.availGPU EXCEPT ![t] = @ - n]
           miningGPU == [e.miningGPU EXCEPT ![t] = n]
<1>3. availGPU \in [GPUType -> Nat] /\ miningGPU \in [GPUType -> Nat]
  BY <1>1, <1>2 DEF Capacities
<1>4. d = [e EXCEPT !.miningGPU = miningGPU, !.availGPU = availGPU,
                    !.mining = MinerSize, !.miningPod = TRUE]
  BY DEF Deploy
<1> HIDE DEF availGPU, d
<1>5. /\ d \in Capacities /\ ~ d.availNil
      /\ d.miningGPU = miningGPU
      /\ d.inUseGPU = c.inUseGPU /\ d.inUseNil = c.inUseNil
  BY <1>1, <1>3, <1>4, MiningAssumption DEF Capacities
<1>6. Takes(c, d, m)
  <2>1. SUFFICES ASSUME NEW u \in GPUType, d.miningGPU[u] - c.miningGPU[u] > 0
                 PROVE  \/ d.miningGPU[u] - c.miningGPU[u] <= Offered(c, m, u)
                        \/ /\ Offered(c, m, u) = 0 \/ c.availNil
                           /\ d.miningGPU[u] - c.miningGPU[u] <= SpecTotal(m)
    BY DEF Takes
  <2>2. c.miningGPU \in [GPUType -> Nat]
    BY DEF Capacities
  <2>3. u = t /\ d.miningGPU[u] = n
    BY <1>1, <1>5, <2>1, <2>2
  <2>4. d.miningGPU[u] - c.miningGPU[u] <= n
    BY <2>2, <2>3
  <2>5. c.availGPU[t] \in Nat /\ SpecTotal(m) \in Nat
    BY <1>1, SpecTotalType DEF Capacities
  <2>6. CASE ~ c.availNil
    <3>1. Offered(c, m, t) = c.availGPU[t]
      BY <2>6 DEF Offered
    <3> QED
      BY <1>1, <1>2, <2>2, <2>3, <2>4, <2>5, <2>6, <3>1
  <2>7. CASE c.availNil
    BY <1>1, <1>2, <2>2, <2>3, <2>4, <2>5, <2>7
  <2> QED
    BY <2>6, <2>7
<1> QED
  BY <1>5, <1>6 DEF d, e

LEMMA AllocateMiningColumns ==
  ASSUME NEW c \in Capacities, NEW m, Untouched(c),
         NEW t \in GPUType, NEW n \in Nat \ {0}, c.availGPU[t] >= n
  PROVE  LET d == AllocateMining(c, t, n)
         IN /\ d \in Capacities /\ ~ d.availNil
            /\ d.inUseGPU = c.inUseGPU /\ d.inUseNil = c.inUseNil
            /\ Takes(c, d, m) /\ Gives(c, d, m)
<1> DEFINE availGPU == [c.availGPU EXCEPT ![t] = @ - n]
           miningGPU == [c.miningGPU EXCEPT ![t] = @ + n]
           d == AllocateMining(c, t, n)
<1>1. /\ c.availGPU \in [GPUType -> Nat] /\ c.miningGPU \in [GPUType -> Nat]
      /\ availGPU \in [GPUType -> Nat] /\ miningGPU \in [GPUType -> Nat]
  BY DEF Capacities
<1>2. d = [c EXCEPT !.availGPU = availGPU, !.availNil = FALSE,
                    !.miningGPU = miningGPU]
  BY DEF AllocateMining
<1> HIDE DEF d, availGPU
<1>3. /\ d \in Capacities /\ ~ d.availNil
      /\ d.miningGPU = miningGPU
      /\ d.inUseGPU = c.inUseGPU /\ d.inUseNil = c.inUseNil
  BY <1>1, <1>2 DEF Capacities
<1>4. ~ c.availNil
  BY <1>1 DEF Untouched, NoGPU
<1>5. \A u \in GPUType : Offered(c, m, u) = c.availGPU[u]
  BY <1>4 DEF Offered
<1>6. \A u \in GPUType :
        d.miningGPU[u] - c.miningGPU[u] = IF u = t THEN n ELSE 0
  BY <1>1, <1>3
<1>7. \A u \in GPUType :
        c.miningGPU[u] - d.miningGPU[u] = IF u = t THEN -n ELSE 0
  BY <1>1, <1>3
<1> HIDE DEF miningGPU
<1>8. Takes(c, d, m)
  BY <1>5, <1>6 DEF Takes
<1>9. Gives(c, d, m)
  BY <1>7 DEF Gives
<1> QED
  BY <1>3, <1>8, <1>9 DEF d

LEMMA ReleaseMiningColumns ==
  ASSUME NEW c \in Capacities, NEW m, Untouched(c),
         NEW t \in GPUType, NEW n \in Nat \ {0}, c.miningGPU[t] >= n
  PROVE  LET d == ReleaseMining(c, t, n)
         IN /\ d \in Capacities /\ ~ d.availNil
            /\ d.inUseGPU = c.inUseGPU /\ d.inUseNil = c.inUseNil
            /\ Takes(c, d, m) /\ Gives(c, d, m)
<1> DEFINE availGPU == [c.availGPU EXCEPT ![t] = @ + n]
           miningGPU == [c.miningGPU EXCEPT ![t] = @ - n]
           d == ReleaseMining(c, t, n)
<1>1. /\ c.availGPU \in [GPUType -> Nat] /\ c.miningGPU \in [GPUType -> Nat]
      /\ availGPU \in [GPUType -> Nat] /\ miningGPU \in [GPUType -> Nat]
  BY DEF Capacities
<1>2. d = [c EXCEPT !.availGPU = availGPU, !.availNil = FALSE,
                    !.miningGPU = miningGPU]
  BY DEF ReleaseMining
<1> HIDE DEF d
<1>3. /\ d \in Capacities /\ ~ d.availNil
      /\ d.miningGPU = miningGPU /\ d.availGPU = availGPU
      /\ d.inUseGPU = c.inUseGPU /\ d.inUseNil = c.inUseNil
  BY <1>1, <1>2 DEF Capacities
<1>4. ~ c.availNil
  BY <1>1 DEF Untouched, NoGPU
<1>5. \A u \in GPUType : /\ Offered(c, m, u) = c.availGPU[u]
                         /\ Offered(d, m, u) = d.availGPU[u]
  BY <1>3, <1>4 DEF Offered
<1>6. \A u \in GPUType :
        /\ d.miningGPU[u] - c.miningGPU[u] = IF u = t THEN -n ELSE 0
        /\ c.miningGPU[u] - d.miningGPU[u] = IF u = t THEN n ELSE 0
        /\ d.availGPU[u] = c.availGPU[u] + IF u = t THEN n ELSE 0
  BY <1>1, <1>3
<1> HIDE DEF miningGPU, availGPU
<1>7. Takes(c, d, m)
  BY <1>6 DEF Takes
<1>8. Gives(c, d, m)
  BY <1>5, <1>6 DEF Gives
<1> QED
  BY <1>3, <1>7, <1>8 DEF d

LEMMA ReturnColumns ==
  ASSUME NEW c \in Capacities, NEW m, Untouched(c)
  PROVE  LET d == ReturnMining(c)
         IN /\ d \in Capacities /\ Untouched(d)
            /\ d.inUseGPU = c.inUseGPU /\ d.inUseNil = c.inUseNil
            /\ Takes(c, d, m) /\ Gives(c, d, m)
<1> DEFINE availGPU == [t \in GPUType |-> c.availGPU[t] + c.miningGPU[t]]
           d == ReturnMining(c)
<1>1. /\ c.availGPU \in [GPUType -> Nat] /\ c.miningGPU \in [GPUType -> Nat]
      /\ availGPU \in [GPUType -> Nat]
      /\ NoGPU \in [GPUType -> Nat] /\ NoScalar \in [Scalar -> Nat]
  BY DEF Capacities, NoGPU, NoScalar
<1>2. d = [c EXCEPT !.availGPU = availGPU, !.miningGPU = NoGPU,
                    !.mining = NoScalar]
  BY DEF ReturnMining
<1> HIDE DEF d
<1>3. \A t \in GPUType : availGPU[t] = c.availGPU[t] + c.miningGPU[t]
  OBVIOUS
<1>4. c.availNil => availGPU = NoGPU
  BY <1>1 DEF Untouched, NoGPU
<1> HIDE DEF availGPU
<1>5. /\ d \in Capacities /\ d.availNil = c.availNil
      /\ d.miningGPU = NoGPU /\ d.availGPU = availGPU
      /\ d.gpuCount = c.gpuCount /\ d.totalGPU = c.totalGPU
      /\ d.inUseGPU = c.inUseGPU /\ d.inUseNil = c.inUseNil
  BY <1>1, <1>2 DEF Capacities
<1>6. Untouched(d)
  BY <1>4, <1>5 DEF Untouched
<1>7. \A t \in GPUType : c.miningGPU[t] \in Nat /\ d.miningGPU[t] = 0
  BY <1>1, <1>5 DEF NoGPU
<1>8. Takes(c, d, m)
  BY <1>7 DEF Takes
<1>9. ASSUME NEW t \in GPUType, c.miningGPU[t] - d.miningGPU[t] > 0
      PROVE  Offered(d, m, t)
               = Offered(c, m, t) + (c.miningGPU[t] - d.miningGPU[t])
  <2>1. ~ c.availNil
    BY <1>5, <1>7, <1>9 DEF Untouched, NoGPU
  <2>2. Offered(c, m, t) = c.availGPU[t] /\ Offered(d, m, t) = d.availGPU[t]
    BY <1>5, <2>1 DEF Offered
  <2> QED
    BY <1>1, <1>3, <1>5, <1>7, <2>2
<1> QED
  BY <1>5, <1>6, <1>8, <1>9 DEF d, Gives

-----------------------------------------------------------------------------
(* The steps of the mining side *)

\* Nobody is known to a process that is down, and every nil map is untouched.
MiningInv ==
  /\ MiningTypeOK
  /\ ~ up => known = {}
  /\ \A p \in Provider : Untouched(ledger[p])

\* What a step of the mining side may do to the ledger.
MinesFairly ==
  /\ ledger' \in [Provider -> Capacities]
  /\ \A p \in Provider :
       LET c == ledger[p]
           d == ledger'[p]
       IN /\ Untouched(d)
          /\ d.inUseGPU = c.inUseGPU /\ d.inUseNil = c.inUseNil
          /\ Takes(c, d, Machine[p])
          /\ ~ Deploys => Gives(c, d, Machine[p])

\* It is enough to look at the one entry a step writes.
LEMMA OneEntry ==
  ASSUME MiningInv, NEW p \in Provider, NEW d \in Capacities,
         ledger' = [ledger EXCEPT ![p] = d],
         Untouched(d),
         d.inUseGPU = ledger[p].inUseGPU, d.inUseNil = ledger[p].inUseNil,
         Takes(ledger[p], d, Machine[p]),
         ~ Deploys => Gives(ledger[p], d, Machine[p])
  PROVE  MinesFairly
<1>1. ledger \in [Provider -> Capacities]
  BY DEF MiningInv, MiningTypeOK, TypeOK
<1>2. ledger' \in [Provider -> Capacities]
  BY <1>1
<1>3. ledger'[p] = d /\ \A q \in Provider \ {p} : ledger'[q] = ledger[q]
  BY <1>1
<1>4. \A q \in Provider : Untouched(ledger[q])
  BY DEF MiningInv
<1>5. \A q \in Provider : /\ Takes(ledger[q], ledger[q], Machine[q])
                          /\ Gives(ledger[q], ledger[q], Machine[q])
  BY <1>1, SameMining
<1> QED
  BY <1>2, <1>3, <1>4, <1>5 DEF MinesFairly

LEMMA SameLedger ==
  ASSUME MiningInv, ledger' = ledger
  PROVE  MinesFairly
<1>1. ledger \in [Provider -> Capacities]
  BY DEF MiningInv, MiningTypeOK, TypeOK
<1>2. \A q \in Provider : /\ Takes(ledger[q], ledger[q], Machine[q])
                          /\ Gives(ledger[q], ledger[q], Machine[q])
  BY <1>1, SameMining
<1> QED
  BY <1>1, <1>2 DEF MinesFairly, MiningInv

MinerState == {"none", "running", "dying", "ended"}

LEMMA DeployFairly ==
  ASSUME MiningInv, NEW p \in Provider, NEW n \in Nat, NEW refused,
         DeployMining(p, n, refused), Deploys
  PROVE  MinesFairly /\ miner' \in [Provider -> MinerState]
<1>1. PICK t \in MiningTypes(ledger[p], Machine[p]) :
        LET c == PrepareMining(ledger[p], Machine[p], t)
        IN IF c.availGPU[t] >= n /\ ~ refused
           THEN /\ ledger' = [ledger EXCEPT ![p] = Deploy(c, t, n, MinerSize)]
                /\ miner' = [miner EXCEPT ![p] = IF @ = "none" THEN "running"
                                                 ELSE @]
           ELSE /\ ledger' = [ledger EXCEPT ![p] = c]
                /\ UNCHANGED miner
  BY DEF DeployMining
<1>2. /\ ledger[p] \in Capacities /\ Machine[p] \in Machines
      /\ Untouched(ledger[p])
      /\ miner \in [Provider -> MinerState]
  BY ConstantTypes DEF MiningInv, MiningTypeOK, TypeOK, MinerState
<1> DEFINE c == PrepareMining(ledger[p], Machine[p], t)
           d == Deploy(c, t, n, MinerSize)
<1>3. CASE c.availGPU[t] >= n /\ ~ refused
  <2>1. /\ d \in Capacities /\ ~ d.availNil
        /\ d.inUseGPU = ledger[p].inUseGPU /\ d.inUseNil = ledger[p].inUseNil
        /\ Takes(ledger[p], d, Machine[p])
    BY <1>2, <1>3, DeployColumns
  <2>2. /\ ledger' = [ledger EXCEPT ![p] = d]
        /\ miner' \in [Provider -> MinerState]
    BY <1>1, <1>2, <1>3 DEF MinerState
  <2>3. Untouched(d)
    BY <2>1 DEF Untouched
  <2> HIDE DEF d
  <2> QED
    BY <2>1, <2>2, <2>3, OneEntry
<1>4. CASE ~ (c.availGPU[t] >= n /\ ~ refused)
  <2>1. /\ c \in Capacities /\ ~ c.availNil
        /\ c.miningGPU = ledger[p].miningGPU
        /\ c.inUseGPU = ledger[p].inUseGPU /\ c.inUseNil = ledger[p].inUseNil
    BY <1>2, PrepareColumns
  <2>2. ledger' = [ledger EXCEPT ![p] = c] /\ miner' = miner
    BY <1>1, <1>4
  <2>3. Untouched(c)
    BY <2>1 DEF Untouched
  <2> HIDE DEF c
  <2>4. Takes(ledger[p], c, Machine[p]) /\ Gives(ledger[p], c, Machine[p])
    BY <1>2, <2>1, SameMining
  <2> QED
    BY <1>2, <2>1, <2>2, <2>3, <2>4, OneEntry
<1> QED
  BY <1>3, <1>4

\* What the steps of the mining side leave alone, whichever it is.
Aside ==
  /\ UNCHANGED rest
  /\ spent' \in [Event -> Nat]
  /\ miner' \in [Provider -> MinerState]
  /\ deploying' \subseteq Provider /\ resizing' \subseteq Provider

LEMMA MiningSteps ==
  ASSUME MiningInv, NEW p \in Provider, MiningStep(p)
  PROVE  MinesFairly /\ Aside
<1>1. /\ TypeOK /\ ledger \in [Provider -> Capacities]
      /\ ledger[p] \in Capacities /\ Machine[p] \in Machines
      /\ Untouched(ledger[p])
      /\ miner \in [Provider -> MinerState]
      /\ deploying \subseteq Provider /\ resizing \subseteq Provider
      /\ spent \in [Event -> Nat]
  BY ConstantTypes DEF MiningInv, MiningTypeOK, TypeOK, MinerState
<1>2. \A E : SpendAll(E) => spent' \in [Event -> Nat]
  BY <1>1, SpendType
<1>3. CASE StartMining(p)
  <2>1. PICK n \in MiningAsk, refused \in BOOLEAN :
          /\ SpendAll({"startMining"} \cup Refusal(refused))
          /\ DeployMining(p, n, refused)
    BY <1>3 DEF StartMining
  <2>2. n \in Nat
    BY MiningAssumption
  <2>3. spent'["startMining"] = spent["startMining"] + 1
    BY <2>1 DEF SpendAll, Event
  <2>4. spent["startMining"] \in Nat
    BY <1>1 DEF Event
  <2>5. Deploys
    BY <2>3, <2>4 DEF Deploys
  <2>6. MinesFairly /\ miner' \in [Provider -> MinerState]
    BY <2>1, <2>2, <2>5, DeployFairly
  <2> QED
    BY <1>1, <1>2, <1>3, <2>1, <2>6 DEF StartMining, Aside
<1>4. CASE DeployRegistered(p)
  <2>1. PICK refused \in BOOLEAN :
          /\ SpendAll(Refusal(refused))
          /\ IF p \in known THEN DeployMining(p, Machine[p].reserve, refused)
             ELSE UNCHANGED <<ledger, miner>>
    BY <1>4 DEF DeployRegistered
  <2>2. Deploys
    BY <1>4 DEF DeployRegistered, Deploys
  <2>3. Machine[p].reserve \in Nat
    BY <1>1 DEF Machines
  <2>4. MinesFairly /\ miner' \in [Provider -> MinerState]
    BY <1>1, <2>1, <2>2, <2>3, DeployFairly, SameLedger
  <2> QED
    BY <1>1, <1>2, <1>4, <2>1, <2>4 DEF DeployRegistered, Aside
<1>5. CASE StopMining(p)
  <2> DEFINE e == ReturnMining(ledger[p])
             d == [e EXCEPT !.miningPod = FALSE]
  <2>1. /\ e \in Capacities /\ Untouched(e)
        /\ e.inUseGPU = ledger[p].inUseGPU /\ e.inUseNil = ledger[p].inUseNil
        /\ Takes(ledger[p], e, Machine[p]) /\ Gives(ledger[p], e, Machine[p])
    BY <1>1, ReturnColumns
  <2>2. ledger' = [ledger EXCEPT ![p] = d]
    BY <1>5 DEF StopMining
  <2> HIDE DEF e
  <2>3. /\ d \in Capacities /\ d.availNil = e.availNil
        /\ d.gpuCount = e.gpuCount /\ d.totalGPU = e.totalGPU
        /\ d.availGPU = e.availGPU /\ d.miningGPU = e.miningGPU
        /\ d.inUseGPU = e.inUseGPU /\ d.inUseNil = e.inUseNil
    BY <2>1 DEF Capacities
  <2> HIDE DEF d
  <2>4. Untouched(d)
    BY <2>1, <2>3 DEF Untouched
  <2>5. \A t \in GPUType : Offered(d, Machine[p], t) = Offered(e, Machine[p], t)
    BY <2>3 DEF Offered
  <2>6. Takes(ledger[p], d, Machine[p]) /\ Gives(ledger[p], d, Machine[p])
    BY <2>1, <2>3, <2>5 DEF Takes, Gives
  <2>7. MinesFairly
    BY <2>1, <2>2, <2>3, <2>4, <2>6, OneEntry
  <2>8. miner' \in [Provider -> MinerState]
    BY <1>1, <1>5 DEF StopMining, MinerState
  <2> QED
    BY <1>1, <1>2, <1>5, <2>7, <2>8 DEF StopMining, Spend, Aside
<1>6. CASE AllocateMiningGPU(p)
  <2>1. PICK t \in GPUType, n \in MiningAsk :
          /\ ledger[p].availGPU[t] >= n
          /\ ledger' = [ledger EXCEPT ![p] = AllocateMining(@, t, n)]
    BY <1>6 DEF AllocateMiningGPU
  <2> DEFINE d == AllocateMining(ledger[p], t, n)
  <2>2. n \in Nat \ {0} /\ ledger' = [ledger EXCEPT ![p] = d]
    BY <2>1, MiningAssumption
  <2>3. /\ d \in Capacities /\ ~ d.availNil
        /\ d.inUseGPU = ledger[p].inUseGPU /\ d.inUseNil = ledger[p].inUseNil
        /\ Takes(ledger[p], d, Machine[p]) /\ Gives(ledger[p], d, Machine[p])
    BY <1>1, <2>1, <2>2, AllocateMiningColumns
  <2> HIDE DEF d
  <2>4. Untouched(d)
    BY <2>3 DEF Untouched
  <2>5. MinesFairly
    BY <2>2, <2>3, <2>4, OneEntry
  <2> QED
    BY <1>1, <1>2, <1>6, <2>5 DEF AllocateMiningGPU, Spend, Aside
<1>7. CASE ReleaseMiningGPU(p)
  <2>1. PICK t \in GPUType, n \in MiningAsk :
          /\ ledger[p].miningGPU[t] >= n
          /\ ledger' = [ledger EXCEPT ![p] = ReleaseMining(@, t, n)]
    BY <1>7 DEF ReleaseMiningGPU
  <2> DEFINE d == ReleaseMining(ledger[p], t, n)
  <2>2. n \in Nat \ {0} /\ ledger' = [ledger EXCEPT ![p] = d]
    BY <2>1, MiningAssumption
  <2>3. /\ d \in Capacities /\ ~ d.availNil
        /\ d.inUseGPU = ledger[p].inUseGPU /\ d.inUseNil = ledger[p].inUseNil
        /\ Takes(ledger[p], d, Machine[p]) /\ Gives(ledger[p], d, Machine[p])
    BY <1>1, <2>1, <2>2, ReleaseMiningColumns
  <2> HIDE DEF d
  <2>4. Untouched(d)
    BY <2>3 DEF Untouched
  <2>5. MinesFairly
    BY <2>2, <2>3, <2>4, OneEntry
  <2> QED
    BY <1>1, <1>2, <1>7, <2>5 DEF ReleaseMiningGPU, Spend, Aside
<1>8. CASE ResizeMiner(p)
  BY <1>1, <1>8, SameLedger DEF ResizeMiner, SetMiner, MinerState, Aside
<1>9. CASE MinerEnds(p)
  BY <1>1, <1>2, <1>9, SameLedger DEF MinerEnds, SetMiner, Spend, MinerState, Aside
<1>10. CASE MinerRemoved(p)
  BY <1>1, <1>10, SameLedger DEF MinerRemoved, SetMiner, MinerState, Aside
<1> QED
  BY <1>3, <1>4, <1>5, <1>6, <1>7, <1>8, <1>9, <1>10 DEF MiningStep

LEMMA SyncFairly ==
  ASSUME MiningInv, SyncMining
  PROVE  MinesFairly /\ Aside
<1>1. PICK unread \in SUBSET {p \in Provider : Reclaimable(p)} :
        /\ SpendIf(unread # {}, "apiFails")
        /\ ledger' = [p \in Provider |->
                        IF Reclaimable(p) /\ p \notin unread
                        THEN ReturnMining(ledger[p]) ELSE ledger[p]]
  BY DEF SyncMining
<1>2. /\ TypeOK /\ ledger \in [Provider -> Capacities]
      /\ \A p \in Provider : Untouched(ledger[p])
      /\ miner \in [Provider -> MinerState]
      /\ deploying \subseteq Provider /\ resizing \subseteq Provider
  BY DEF MiningInv, MiningTypeOK, TypeOK, MinerState
<1>3. ASSUME NEW p \in Provider
      PROVE  LET c == ledger[p]
                 d == ledger'[p]
             IN /\ d \in Capacities /\ Untouched(d)
                /\ d.inUseGPU = c.inUseGPU /\ d.inUseNil = c.inUseNil
                /\ Takes(c, d, Machine[p]) /\ Gives(c, d, Machine[p])
  <2>1. ledger'[p] = ReturnMining(ledger[p]) \/ ledger'[p] = ledger[p]
    BY <1>1
  <2>2. CASE ledger'[p] = ReturnMining(ledger[p])
    BY <1>2, <2>2, ReturnColumns
  <2>3. CASE ledger'[p] = ledger[p]
    BY <1>2, <2>3, SameMining
  <2> QED
    BY <2>1, <2>2, <2>3
<1>4. ledger' \in [Provider -> Capacities]
  BY <1>1, <1>3
<1>5. spent' \in [Event -> Nat]
  BY <1>1, <1>2, SpendType DEF SpendIf
<1> QED
  BY <1>2, <1>3, <1>4, <1>5 DEF MinesFairly, SyncMining, mining, Aside

-----------------------------------------------------------------------------
(* The steps of the renting side *)

LEMMA RentalFrame ==
  ASSUME TypeOK, RentalStep
  PROVE  Next /\ up' = up /\ known' = known
<1>1. SUFFICES up' = up /\ known' = known
  BY DEF RentalStep, Next
<1>2. CASE \E j \in Job : CheckRequest(j) \/ DeleteLookup(j)
  BY <1>2 DEF CheckRequest, DeleteLookup, At, providers
<1>3. CASE \E j \in Job : CreateStep(j)
  BY <1>3
  DEF CreateStep, Debit, CreatePod, CreateService, UndoPod, Rollback, At,
      providers
<1>4. CASE \E j \in Job : DeleteStep(j)
  BY <1>4 DEF DeleteStep, DeleteErase, DeleteCredit, providers
<1>5. CASE \E j \in Job : PodEnds(j) \/ PodExpires(j) \/ PodRemoved(j)
  BY <1>5 DEF PodEnds, PodExpires, PodRemoved, providers
<1>6. CASE WatchStep \/ WatchDrops
  BY <1>6 DEF WatchStep, HandleEvent, WatchStarts, WatchDrops, providers
<1>7. CASE SweepStep
  BY <1>7 DEF SweepStep, SweepList, SweepCredit, SweepDelete, providers
<1> QED
  BY <1>2, <1>3, <1>4, <1>5, <1>6, <1>7 DEF RentalStep

LEMMA ReleaseMines ==
  ASSUME NEW c \in Capacities, NEW t \in GPUType, NEW a \in Amounts
  PROVE  /\ ~ Release(c, t, a).availNil
         /\ Release(c, t, a).miningGPU = c.miningGPU
BY ReleaseColumns

\* Renting leaves the mining columns alone.
LEMMA RentalFairly ==
  ASSUME MiningInv, RentalStep
  PROVE  \A p \in Provider : /\ Untouched(ledger'[p])
                             /\ ledger'[p].miningGPU = ledger[p].miningGPU
<1>1. /\ TypeOK /\ TypeOK' /\ ledger \in [Provider -> Capacities]
      /\ \A p \in Provider : Untouched(ledger[p])
  <2>1. TypeOK
    BY DEF MiningInv, MiningTypeOK
  <2> QED
    BY <2>1, RentalFrame, NextType DEF MiningInv, TypeOK
<1>2. ASSUME ledger' = ledger
      PROVE  \A p \in Provider : /\ Untouched(ledger'[p])
                                 /\ ledger'[p].miningGPU = ledger[p].miningGPU
  BY <1>1, <1>2
<1>3. ASSUME NEW j \in Job, Debit(j), Place[j] \in known
      PROVE  \A p \in Provider : /\ Untouched(ledger'[p])
                                 /\ ledger'[p].miningGPU = ledger[p].miningGPU
  <2> DEFINE q == Place[j]
             r == Allocate(ledger[q], Machine[q], Model(q), Charge(j))
  <2>1. /\ q \in Provider /\ ledger' = [ledger EXCEPT ![q] = r.cap]
        /\ ~ r.cap.availNil /\ r.cap.miningGPU = ledger[q].miningGPU
    BY <1>1, <1>3, DebitLedger
  <2> HIDE DEF r, q
  <2>2. \A p \in Provider : ledger'[p] = IF p = q THEN r.cap ELSE ledger[p]
    BY <1>1, <2>1
  <2> QED
    BY <1>1, <2>1, <2>2 DEF Untouched
<1>4. ASSUME NEW j \in Job, GivesBack(j), Place[j] \in known
      PROVE  \A p \in Provider : /\ Untouched(ledger'[p])
                                 /\ ledger'[p].miningGPU = ledger[p].miningGPU
  <2> DEFINE q == Place[j]
  <2>1. PICK t \in GPUType, a \in Amounts : Credit(q, t, a)
    BY <1>4 DEF GivesBack
  <2> DEFINE r == Release(ledger[q], t, a)
  <2>2. TypeOK /\ q \in known
    BY <1>1, <1>4
  <2> HIDE DEF q
  <2>3. q \in Provider /\ ledger[q] \in Capacities
        /\ ledger' = [ledger EXCEPT ![q] = r]
    BY <2>1, <2>2, CreditLedger
  <2>4. ~ r.availNil /\ r.miningGPU = ledger[q].miningGPU
    BY <2>3, ReleaseMines
  <2> HIDE DEF r
  <2>5. \A p \in Provider : ledger'[p] = IF p = q THEN r ELSE ledger[p]
    BY <1>1, <2>3
  <2> QED
    BY <1>1, <2>4, <2>5 DEF Untouched
<1>5. \/ ledger' = ledger
      \/ \E j \in Job : Place[j] \in known /\ (Debit(j) \/ GivesBack(j))
  <2>1. \/ \E j \in Job : Debit(j)
        \/ \E j \in Job : GivesBack(j)
        \/ ledger' = ledger
    BY <1>1, ServingSteps DEF RentalStep, Serving
  <2>2. \A j \in Job : Place[j] \notin known =>
          /\ Debit(j) => ledger' = ledger
          /\ GivesBack(j) => ledger' = ledger
    BY DEF Debit, GivesBack, Credit
  <2> QED
    BY <2>1, <2>2
<1> QED
  BY <1>2, <1>3, <1>4, <1>5

LEMMA RegisterFairly ==
  ASSUME MiningInv, NEW p \in Provider, RegisterProvider(p)
  PROVE  \A q \in Provider :
           /\ Untouched(ledger'[q])
           /\ Continued(q) => ledger'[q].miningGPU = ledger[q].miningGPU
<1>1. /\ TypeOK /\ ledger \in [Provider -> Capacities]
      /\ \A q \in Provider : Untouched(ledger[q])
  BY DEF MiningInv, MiningTypeOK, TypeOK
<1>2. ledger' = [ledger EXCEPT ![p] = Fresh(Machine[p])]
  BY DEF RegisterProvider, Register
<1>3. \A q \in Provider : ledger'[q] = IF q = p THEN Fresh(Machine[p])
                                        ELSE ledger[q]
  BY <1>1, <1>2
<1>4. Untouched(Fresh(Machine[p]))
  BY ConstantTypes, ReloadedUntouched
<1>5. ~ Continued(p)
  <2>1. SUFFICES ASSUME p \in known
                 PROVE  spent'["register"] # spent["register"]
    BY DEF Continued
  <2>2. Spend("register")
    BY <2>1 DEF RegisterProvider, Register
  <2>3. spent'["register"] = spent["register"] + 1 /\ spent["register"] \in Nat
    BY <1>1, <2>2 DEF Spend, SpendAll, Event, TypeOK
  <2> QED
    BY <2>3
<1> QED
  BY <1>1, <1>3, <1>4, <1>5

LEMMA BootUntouched ==
  ASSUME TypeOK, NEW miners, BootWith(miners)
  PROVE  /\ up' = TRUE
         /\ \A p \in Provider : Untouched(ledger'[p])
<1>1. PICK loaded \in BOOLEAN, listed \in BOOLEAN :
        ledger' = [p \in Provider |->
             LET c == [Reloaded(Machine[p]) EXCEPT
                         !.miningPod = p \in known' /\ p \in miners]
             IN IF p \in known' /\ listed /\ Counted(p) # {}
                THEN Recover(c, Machine[p], Held(p)) ELSE c]
  BY DEF BootWith
<1>2. ASSUME NEW p \in Provider
      PROVE  Untouched(ledger'[p])
  <2> DEFINE b == p \in known' /\ p \in miners
             c == [Reloaded(Machine[p]) EXCEPT !.miningPod = b]
             d == Recover(c, Machine[p], Held(p))
  <2>1. ledger'[p] = c \/ ledger'[p] = d
    BY <1>1
  <2>2. /\ Machine[p] \in Machines /\ Held(p) \in Amounts
        /\ c \in Capacities
    BY ConstantTypes, HeldType, BootLedger
  <2>3. Untouched(c)
    BY <2>2 DEF Untouched, Reloaded
  <2> HIDE DEF c
  <2>4. ~ d.availNil
    BY <2>2, RecoverColumns
  <2> QED
    BY <2>1, <2>3, <2>4 DEF Untouched
<1> QED
  BY <1>2 DEF BootWith

-----------------------------------------------------------------------------
(* Type correctness, and what mining takes and gives *)

LEMMA MiningInvInit ==
  ASSUME MiningInit
  PROVE  MiningInv
<1>1. Init /\ TypeOK
  BY InitType DEF MiningInit
<1>2. \A p \in Provider : Untouched(ledger[p])
  BY <1>1, ConstantTypes, ReloadedUntouched DEF Init
<1> QED
  BY <1>1, <1>2 DEF MiningInit, Init, MiningInv, MiningTypeOK

\* A step of either side, or of both: crash, boot and registration.
LEMMA MiningNextFairly ==
  ASSUME MiningInv, [MiningNext]_allVars
  PROVE  /\ MiningInv'
         /\ \A p \in Provider : Continued(p) =>
              LET c == ledger[p]
                  d == ledger'[p]
              IN \/ d.miningGPU = c.miningGPU
                 \/ /\ Takes(c, d, Machine[p])
                    /\ ~ Deploys => Gives(c, d, Machine[p])
<1>1. /\ TypeOK /\ (~ up => known = {})
      /\ \A p \in Provider : Untouched(ledger[p])
      /\ miner \in [Provider -> MinerState]
      /\ deploying \subseteq Provider /\ resizing \subseteq Provider
  BY DEF MiningInv, MiningTypeOK, MinerState
<1>2. ASSUME MinesFairly, Aside
      PROVE  MiningInv'
  <2>1. TypeOK'
    BY <1>1, <1>2 DEF MinesFairly, Aside, TypeOK, rest, kubernetes, watch,
                      sweep, ghosts
  <2>2. up' = up /\ known' = known
    BY <1>2 DEF Aside, rest
  <2> QED
    BY <1>1, <1>2, <2>1, <2>2
    DEF MinesFairly, Aside, MiningInv, MiningTypeOK, MinerState
<1>3. CASE \E p \in Provider : MiningStep(p)
  BY <1>2, <1>3, MiningSteps DEF MinesFairly
<1>4. CASE SyncMining
  BY <1>2, <1>4, SyncFairly DEF MinesFairly
<1>5. ASSUME NEW p \in Provider, RegisterProvider(p)
      PROVE  /\ MiningInv'
             /\ \A q \in Provider :
                  Continued(q) => ledger'[q].miningGPU = ledger[q].miningGPU
  <2>1. TypeOK'
    BY <1>1, <1>5, RegisterType DEF RegisterProvider
  <2>2. up'
    BY <1>1, <1>5 DEF RegisterProvider, Register, TypeOK
  <2>3. /\ miner' = miner /\ resizing' = resizing
        /\ deploying' \subseteq Provider
    BY <1>1, <1>5 DEF RegisterProvider
  <2> QED
    BY <1>1, <1>5, <2>1, <2>2, <2>3, RegisterFairly
    DEF MiningInv, MiningTypeOK, MinerState
<1>6. CASE RentalStep /\ UNCHANGED mining
  <2>1. TypeOK' /\ up' = up /\ known' = known
    BY <1>1, <1>6, RentalFrame, NextType
  <2> QED
    BY <1>1, <1>6, <2>1, RentalFairly
    DEF MiningInv, MiningTypeOK, MinerState, mining
<1>7. CASE CrashAll
  <2>1. TypeOK' /\ known' = {}
    BY <1>1, <1>7, CrashType DEF CrashAll, Crash
  <2>2. \A p \in Provider : Untouched(ledger'[p])
    BY <1>7, ConstantTypes, ReloadedUntouched DEF CrashAll, Crash
  <2>3. miner' = miner /\ deploying' = {} /\ resizing' = {}
    BY <1>7 DEF CrashAll
  <2> QED
    BY <1>1, <2>1, <2>2, <2>3
    DEF MiningInv, MiningTypeOK, MinerState, Continued
<1>8. CASE Boot
  <2>1. PICK miners : BootWith(miners)
    BY <1>8 DEF Boot
  <2>2. TypeOK' /\ known = {}
    BY <1>1, <2>1, BootType DEF BootWith
  <2> QED
    BY <1>1, <1>8, <2>1, <2>2, BootUntouched
    DEF Boot, mining, MiningInv, MiningTypeOK, MinerState, Continued
<1>9. CASE UNCHANGED allVars
  <2>1. TypeOK'
    BY <1>1, <1>9, NextType DEF allVars
  <2> QED
    BY <1>1, <1>9, <2>1
    DEF allVars, vars, providers, mining, MiningInv, MiningTypeOK, MinerState
<1> QED
  BY <1>3, <1>4, <1>5, <1>6, <1>7, <1>8, <1>9 DEF MiningNext

\* In every reachable state of the rentals and the mining together, every
\* variable has its type: no deployment, resize, stop or pass of the monitor,
\* in any order with the rentals, drives a GPU column below zero.
THEOREM MiningTypeCorrect == MiningSpec => []MiningTypeOK
<1>1. MiningInit => MiningInv
  BY MiningInvInit
<1>2. MiningInv /\ [MiningNext]_allVars => MiningInv'
  BY MiningNextFairly
<1>3. MiningInv => MiningTypeOK
  BY DEF MiningInv
<1> QED
  BY <1>1, <1>2, <1>3, PTL DEF MiningSpec

\* Whatever else goes on, GPUs that mining gives up by a release, a stop or
\* the monitor are on offer at once.  The invariant is needed for a nil map,
\* on which releases would be lost: there is nothing to give up on one.
THEOREM MiningGivesBack == MiningSpec => MiningGivesBackItsGPUs
<1>1. MiningInit => MiningInv
  BY MiningInvInit
<1>2. MiningInv /\ [MiningNext]_allVars => MiningInv'
  BY MiningNextFairly
<1> DEFINE A == \A p \in Provider, t \in GPUType :
             Continued(p) /\ ~ Deploys =>
               LET given == ledger[p].miningGPU[t] - ledger'[p].miningGPU[t]
               IN given > 0 =>
                    Offered(ledger'[p], Machine[p], t)
                      = Offered(ledger[p], Machine[p], t) + given
<1>3. MiningInv /\ [MiningNext]_allVars => A
  <2> SUFFICES ASSUME MiningInv, [MiningNext]_allVars,
                      NEW p \in Provider, Continued(p), ~ Deploys
               PROVE  Gives(ledger[p], ledger'[p], Machine[p])
    BY DEF Gives
  <2>1. ledger[p] \in Capacities /\ ledger'[p] \in Capacities
    BY MiningNextFairly DEF MiningInv, MiningTypeOK, TypeOK
  <2>2. \/ ledger'[p].miningGPU = ledger[p].miningGPU
        \/ Gives(ledger[p], ledger'[p], Machine[p])
    BY MiningNextFairly
  <2> QED
    BY <2>1, <2>2, SameMining
<1> QED
  BY <1>1, <1>2, <1>3, PTL DEF MiningSpec, MiningGivesBackItsGPUs

\* For every machine, also one whose owner shares a part of it: GPUs that go
\* to mining come out of what was on offer, except where the pool reads zero
\* or has no map, and then they are at most the GPUs of the machine.
THEOREM MiningTakes == MiningSpec => MiningTakesFreeGPUs
<1>1. MiningInit => MiningInv
  BY MiningInvInit
<1>2. MiningInv /\ [MiningNext]_allVars => MiningInv'
  BY MiningNextFairly
<1> DEFINE A == \A p \in Provider, t \in GPUType :
             Continued(p) =>
               LET c == ledger[p]
                   taken == ledger'[p].miningGPU[t] - c.miningGPU[t]
                   free == Offered(c, Machine[p], t)
               IN taken > 0 => \/ taken <= free
                               \/ /\ free = 0 \/ c.availNil
                                  /\ taken <= SpecTotal(Machine[p])
<1>3. MiningInv /\ [MiningNext]_allVars => A
  <2> SUFFICES ASSUME MiningInv, [MiningNext]_allVars,
                      NEW p \in Provider, Continued(p)
               PROVE  Takes(ledger[p], ledger'[p], Machine[p])
    BY DEF Takes
  <2>1. ledger[p] \in Capacities /\ ledger'[p] \in Capacities
    BY MiningNextFairly DEF MiningInv, MiningTypeOK, TypeOK
  <2>2. \/ ledger'[p].miningGPU = ledger[p].miningGPU
        \/ Takes(ledger[p], ledger'[p], Machine[p])
    BY MiningNextFairly
  <2> QED
    BY <2>1, <2>2, SameMining
<1> QED
  BY <1>1, <1>2, <1>3, PTL DEF MiningSpec, MiningTakesFreeGPUs

-----------------------------------------------------------------------------
(* The books of the rentals *)

\* What the renting side proves about its own steps (see above)
\* holds in company.
Books == InUseIsOwed /\ NilIsEmpty /\ FreshUncharged /\ ChargesAreTraceable

LEMMA RentingKeepsBooks ==
  ASSUME TypeOK, TypeOK', Books, [Next]_vars
  PROVE  Books'
BY LedgerStep, FreshStep, TracesStep DEF Books

\* Mining writes no column a rental is counted in.
LEMMA MiningKeepsBooks ==
  ASSUME MiningInv, Books, MinesFairly, Aside
  PROVE  Books'
<1>1. /\ UNCHANGED <<known, creating, pod, events, owed, missed>>
      /\ known \subseteq Provider
  BY DEF Aside, rest, kubernetes, watch, ghosts, MiningInv, MiningTypeOK, TypeOK
<1>2. \A p \in Provider : /\ ledger'[p].inUseGPU = ledger[p].inUseGPU
                          /\ ledger'[p].inUseNil = ledger[p].inUseNil
  BY DEF MinesFairly
<1>3. \A p, t : Owed(p, t)' = Owed(p, t)
  BY <1>1 DEF Owed, Debtors
<1>4. InUseIsOwed'
  BY <1>1, <1>2, <1>3 DEF Books, InUseIsOwed
<1>5. NilIsEmpty'
  BY <1>2 DEF Books, NilIsEmpty
<1>6. FreshUncharged' /\ ChargesAreTraceable'
  BY <1>1 DEF Books, FreshUncharged, ChargesAreTraceable
<1> QED
  BY <1>4, <1>5, <1>6 DEF Books

\* RecoverMiningStates brings back the names of the mining pods only.
LEMMA BootKeepsBooks ==
  ASSUME TypeOK, TypeOK', Books, NEW miners, BootWith(miners)
  PROVE  Books'
<1>1. InUseIsOwed' /\ NilIsEmpty'
  BY BootKeeps
<1>2. FreshUncharged'
  BY DEF Books, FreshUncharged, BootWith, Counted, kubernetes
<1>3. ChargesAreTraceable'
  BY DEF BootWith, Counted, kubernetes, ChargesAreTraceable
<1> QED
  BY <1>1, <1>2, <1>3 DEF Books

\* Sharing the ledger with the mining pods costs the rentals none of their
\* guarantees: what is in use is owed, and every charge can be traced.
THEOREM RentalsKeepTheirBooks ==
  MiningSpec => [](InUseIsOwed /\ ChargesAreTraceable)
<1>1. MiningInit => MiningInv /\ Books
  <2>1. \A p \in Provider : Reloaded(Machine[p]).inUseGPU = NoGPU
    BY ConstantTypes, ReloadedType
  <2>2. Init => Books
    BY <2>1 DEF Init, Books, InUseIsOwed, NilIsEmpty, FreshUncharged,
                ChargesAreTraceable
  <2> QED
    BY <2>2, MiningInvInit DEF MiningInit
<1>2. MiningInv /\ Books /\ [MiningNext]_allVars => (MiningInv /\ Books)'
  <2> SUFFICES ASSUME MiningInv, Books, [MiningNext]_allVars
               PROVE  MiningInv' /\ Books'
    OBVIOUS
  <2>1. MiningInv'
    BY MiningNextFairly
  <2>2. TypeOK /\ TypeOK'
    BY <2>1 DEF MiningInv, MiningTypeOK
  <2>3. CASE (\E p \in Provider : MiningStep(p)) \/ SyncMining
    BY <2>1, <2>3, MiningSteps, SyncFairly, MiningKeepsBooks
  <2>4. CASE \E p \in Provider : RegisterProvider(p)
    BY <2>1, <2>2, <2>4, RentingKeepsBooks DEF RegisterProvider, Next
  <2>5. CASE RentalStep /\ UNCHANGED mining
    BY <2>1, <2>2, <2>5, RentalFrame, RentingKeepsBooks
  <2>6. CASE CrashAll
    BY <2>1, <2>2, <2>6, RentingKeepsBooks DEF CrashAll, Next
  <2>7. CASE Boot
    BY <2>1, <2>2, <2>7, BootKeepsBooks DEF Boot
  <2>8. CASE UNCHANGED allVars
    BY <2>1, <2>2, <2>8, RentingKeepsBooks DEF allVars
  <2> QED
    BY <2>3, <2>4, <2>5, <2>6, <2>7, <2>8 DEF MiningNext
<1>3. Books => InUseIsOwed /\ ChargesAreTraceable
  BY DEF Books
<1> QED
  BY <1>1, <1>2, <1>3, PTL DEF MiningSpec
=============================================================================
