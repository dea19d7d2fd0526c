---------------------------- MODULE RentalLedger ----------------------------
(***************************************************************************)
(* The renting side of the control plane: CreateJob and DeleteJob          *)
(* (internal/handler/job_handler.go over internal/job/manager.go), the     *)
(* ledger they debit and credit (orchestrator_ledger.go), and the three    *)
(* background workers that share it: the pod watch, the expiry sweep and   *)
(* the recovery at boot (orchestrator_podwatch.go, orchestrator.go).       *)
(* Kubernetes is the environment: pods end, expire and are removed on its  *)
(* own schedule, and the watch drops.                                      *)
(*                                                                         *)
(* The ledger is guarded by one mutex, so each call on it is one step;     *)
(* between two calls a handler or a worker can be overtaken by any other.  *)
(***************************************************************************)
EXTENDS Capacity, Sequences

CONSTANTS
  Provider,       \* provider ids
  NoProvider,     \* a request that names neither a provider nor a GPU type
  Job,            \* requests, each with the one pod it may create
  NoJob,
  Machine,        \* [Provider -> Machines]: the host behind a provider id
  Place,          \* [Job -> Provider \cup {NoProvider}]: where a request leads
  ByType,         \* the requests that name a GPU type: looked up in the DB
  Ask,            \* [Job -> [gpu, cpu, mem]]: 0 is a field left empty
  Malformed,      \* the requests whose quantities only the handler can parse
  HandlerDefault, \* [Scalar -> Nat]: what the ledger is charged for 0
  PodDefault,     \* [Scalar -> Nat]: what the pod requests for 0
  Bound           \* [Event -> Nat]: how often each event may happen

\* The events of the environment a run bounds.
Event == {"register", "crash", "recoveryFails", "saveFails", "drop", "end",
          "expire", "delete", "podFails", "serviceFails", "apiFails",
          "resweep", "startMining", "resizeMining", "stopMining",
          "minerEnds"}

Resource == {"gpu"} \cup Scalar

ASSUME RentalAssumption ==
  /\ IsFiniteSet(Job)
  /\ NoProvider \notin Provider
  /\ NoJob \notin Job
  /\ Machine \in [Provider -> Machines]
  /\ Place \in [Job -> Provider \cup {NoProvider}]
  /\ ByType \subseteq Job
  /\ \A j \in ByType : Place[j] \in Provider
  /\ Ask \in [Job -> [Resource -> Nat]]
  /\ Malformed \subseteq Job
  /\ HandlerDefault \in [Scalar -> Nat]
  /\ PodDefault \in [Scalar -> Nat]
  /\ Bound \in [Event -> Nat]

VARIABLES
  up,         \* the control plane is running
  stored,     \* providers with a row in the database
  known,      \* keys of Orchestrator.providers
  ledger,     \* the Capacity of each known provider
  creating,   \* where the CreateJob of a request stands
  deleting,   \* where a DeleteJob of a job stands
  pod,        \* the pod of a job: none, running or ended
  doomed,     \* running pods with a deletion timestamp
  expired,    \* pods past their expires-at annotation
  services,   \* jobs whose NodePort service exists
  watching,   \* the watch is established
  events,     \* terminal pod events received and not yet handled
  sweepTodo,  \* pods the current sweep has listed and not reached
  sweepCur,   \* the pod it has credited and not yet deleted
  owed,       \* ghost: jobs charged on the ledger, not yet credited to it
  missed,     \* ghost: jobs whose pod went while no watch was established
  spent       \* how often each bounded event has happened

providers == <<stored, known, ledger>>
kubernetes == <<pod, doomed, expired, services>>
watch == <<watching, events>>
sweep == <<sweepTodo, sweepCur>>
ghosts == <<owed, missed>>
vars == <<up, providers, creating, deleting, kubernetes, watch, sweep,
          ghosts, spent>>

-----------------------------------------------------------------------------
(* What a request is charged and what its pod holds *)

OrElse(n, default) == IF n = 0 THEN default ELSE n

\* The allocation CreateJob builds.
Charge(j) ==
  [r \in Resource |->
     OrElse(Ask[j][r], IF r = "gpu" THEN 1 ELSE HandlerDefault[r])]

\* The requests of the container CreateGPUJob builds: what every release
\* path but the rollback reads back from the pod.
PodSize(j) ==
  [r \in Resource |->
     OrElse(Ask[j][r], IF r = "gpu" THEN 1 ELSE PodDefault[r])]

Model(p) == Machine[p].model
Placed(j) == Place[j] # NoProvider

\* One more occurrence of each event of E, within the bounds.
SpendAll(E) ==
  /\ \A e \in E : spent[e] < Bound[e]
  /\ spent' = [e \in Event |-> IF e \in E THEN spent[e] + 1 ELSE spent[e]]

Spend(e) == SpendAll({e})
SpendIf(w, e) == SpendAll(IF w THEN {e} ELSE {})

\* A provider that is not known is skipped with a warning.
Credit(p, t, a) ==
  ledger' = IF p \in known THEN [ledger EXCEPT ![p] = Release(@, t, a)]
            ELSE ledger

\* Mutant: the GPU type of the pod's annotation is lost, as in DeleteJob.
CreditAsDefault(j) ==
  /\ IF Placed(j) THEN Credit(Place[j], DefaultType, PodSize(j))
     ELSE UNCHANGED ledger
  /\ owed' = owed \ {j}

\* The credit every path but DeleteJob gives: on the GPU type in the pod's
\* annotation, for the provider in its label, if it has one.
CreditPod(j) ==
  /\ IF Placed(j) THEN Credit(Place[j], Model(Place[j]), PodSize(j))
     ELSE UNCHANGED ledger
  /\ owed' = owed \ {j}

\* The API server accepts the deletion of a pod: a terminated pod goes at
\* once, a running one gets a deletion timestamp and its grace period.
Notice(kind, j) ==
  /\ events' = IF watching THEN Append(events, [kind |-> kind, job |-> j])
               ELSE events
  /\ missed' = IF ~ watching /\ kind = "DELETED" THEN missed \cup {j}
               ELSE missed

DeletePod(j) ==
  IF pod[j] = "ended"
  THEN /\ pod' = [pod EXCEPT ![j] = "none"]
       /\ expired' = expired \ {j}
       /\ doomed' = doomed
       /\ Notice("DELETED", j)
  ELSE /\ doomed' = IF pod[j] = "running" THEN doomed \cup {j} ELSE doomed
       /\ UNCHANGED <<pod, expired, events, missed>>

-----------------------------------------------------------------------------
(* Registration *)

\* handleRegistration for a provider that is new or still "approved" (no
\* provider ever reaches "joined"): the entry is replaced by the message's.
Register(p) ==
  /\ up
  /\ \E saved \in BOOLEAN :
       /\ stored' = IF saved THEN stored \cup {p} ELSE stored
       /\ IF p \in known THEN Spend("register")
          ELSE SpendIf(~ saved, "saveFails")
  /\ known' = known \cup {p}
  /\ ledger' = [ledger EXCEPT ![p] = Fresh(Machine[p])]
  /\ owed' = {j \in owed : Place[j] # p}
  /\ UNCHANGED <<up, creating, deleting, kubernetes, watch, sweep, missed>>

-----------------------------------------------------------------------------
(* CreateJob *)

At(j, from) == up /\ creating[j] = from
GoTo(j, to) == creating' = [creating EXCEPT ![j] = to]

\* The provider CreateJob looks at: the live entry for an id, a row of the
\* database for a GPU type.
Visible(j) == Place[j] \in (IF j \in ByType THEN stored ELSE known)
Seen(j) == IF j \in ByType THEN Reloaded(Machine[Place[j]])
           ELSE ledger[Place[j]]

\* The checks before the debit.  The GPU check asks the cluster for what the
\* node can allocate in all, or falls back on the cached ledger.
Fits(j, free) ==
  /\ Ask[j]["gpu"] <= free
  /\ \A s \in Scalar : Charge(j)[s] <= GetAvailable(Seen(j), s)

CheckRequest(j) ==
  /\ At(j, "new")
  /\ IF ~ Placed(j) THEN GoTo(j, "accepted")
     ELSE \E free \in {SpecTotal(Machine[Place[j]]),
                       AvailableGPUCount(Seen(j))} :
            GoTo(j, IF Visible(j) /\ Fits(j, free) THEN "checked" ELSE "failed")
  /\ UNCHANGED <<up, providers, deleting, kubernetes, watch, sweep, ghosts, spent>>

Debit(j) ==
  /\ At(j, "checked")
  /\ LET p == Place[j]
         r == Allocate(ledger[p], Machine[p], Model(p), Charge(j))
     IN IF p \in known
        THEN /\ ledger' = [ledger EXCEPT ![p] = r.cap]
             /\ GoTo(j, IF r.ok THEN "accepted" ELSE "failed")
             /\ owed' = IF r.ok THEN owed \cup {j} ELSE owed
        ELSE GoTo(j, "failed") /\ UNCHANGED <<ledger, owed>>
  /\ UNCHANGED <<up, stored, known, deleting, kubernetes, watch, sweep, missed,
                 spent>>

\* A quantity only the handler's Sscanf accepts makes resource.MustParse
\* panic: gin.Recovery ends the request, and nothing is rolled back.
CreatePod(j) ==
  /\ At(j, "accepted")
  /\ \/ /\ j \in Malformed
        /\ GoTo(j, "failed")
        /\ UNCHANGED <<pod, spent>>
     \/ /\ j \notin Malformed
        /\ GoTo(j, "podMade")
        /\ pod' = [pod EXCEPT ![j] = "running"]
        /\ UNCHANGED spent
     \/ /\ j \notin Malformed
        /\ Spend("podFails")
        /\ GoTo(j, "undo")
        /\ UNCHANGED pod
  /\ UNCHANGED <<up, providers, deleting, doomed, expired, services, watch,
                 sweep, ghosts>>

CreateService(j) ==
  /\ At(j, "podMade")
  /\ \/ /\ services' = services \cup {j}
        /\ GoTo(j, "done")
        /\ UNCHANGED spent
     \/ /\ Spend("serviceFails")
        /\ GoTo(j, "unpod")
        /\ UNCHANGED services
  /\ UNCHANGED <<up, providers, deleting, pod, doomed, expired, watch, sweep,
                 ghosts>>

\* The pod of a failed service is deleted and the error of that ignored.
UndoPod(j) ==
  /\ At(j, "unpod")
  /\ GoTo(j, "undo")
  /\ \/ DeletePod(j) /\ UNCHANGED spent
     \/ Spend("apiFails") /\ UNCHANGED <<pod, doomed, expired, events, missed>>
  /\ UNCHANGED <<up, providers, deleting, services, watching, sweep, owed>>

\* Mutant: an error of Kubernetes is answered without a rollback.
NoRollback(j) ==
  /\ At(j, "undo")
  /\ GoTo(j, "failed")
  /\ UNCHANGED <<up, providers, deleting, kubernetes, watch, sweep, ghosts,
                 spent>>

\* Mutant: as in DeleteJob, what is rolled back has no GPU type.
RollbackAsDefault(j) ==
  /\ At(j, "undo")
  /\ GoTo(j, "failed")
  /\ Credit(Place[j], DefaultType, Charge(j))
  /\ owed' = owed \ {j}
  /\ UNCHANGED <<up, stored, known, deleting, kubernetes, watch, sweep, missed,
                 spent>>

Rollback(j) ==
  /\ At(j, "undo")
  /\ GoTo(j, "failed")
  /\ IF Placed(j) THEN Credit(Place[j], Model(Place[j]), Charge(j))
     ELSE UNCHANGED ledger
  /\ owed' = owed \ {j}
  /\ UNCHANGED <<up, stored, known, deleting, kubernetes, watch, sweep, missed,
                 spent>>

-----------------------------------------------------------------------------
(* DeleteJob *)

\* What to give back is read from the pod and its service before anything is
\* deleted; without it the deletion goes ahead and credits nothing.
DeleteLookup(j) ==
  /\ up
  /\ deleting[j] = "idle"
  /\ pod[j] # "none"
  /\ Spend("delete")
  /\ deleting' = [deleting EXCEPT
                    ![j] = IF j \in services /\ Placed(j) THEN "priced"
                           ELSE "unpriced"]
  /\ UNCHANGED <<up, providers, creating, kubernetes, watch, sweep, ghosts>>

\* The service goes (its error is ignored), then the pod; an error on the
\* pod, absence included, ends the request.
DeleteErase(j) ==
  /\ up
  /\ deleting[j] \in {"priced", "unpriced"}
  /\ \/ /\ pod[j] # "none"
        /\ services' = services \ {j}
        /\ DeletePod(j)
        /\ deleting' = [deleting EXCEPT
                          ![j] = IF @ = "priced" THEN "erased" ELSE "idle"]
        /\ UNCHANGED spent
     \/ /\ SpendIf(pod[j] # "none", "apiFails")
        /\ services' = services \ {j}
        /\ deleting' = [deleting EXCEPT ![j] = "idle"]
        /\ UNCHANGED <<pod, doomed, expired, events, missed>>
  /\ UNCHANGED <<up, providers, creating, watching, sweep, owed>>

\* The allocation DeleteJob builds has no GPU type, so ReleaseResources
\* credits its GPUs under "default".
DeleteCredit(j) ==
  /\ up
  /\ deleting[j] = "erased"
  /\ deleting' = [deleting EXCEPT ![j] = "idle"]
  /\ Credit(Place[j], DefaultType, PodSize(j))
  /\ owed' = IF Model(Place[j]) = DefaultType THEN owed \ {j} ELSE owed
  /\ UNCHANGED <<up, stored, known, creating, kubernetes, watch, sweep, missed,
                 spent>>

-----------------------------------------------------------------------------
(* Kubernetes *)

PodEnds(j) ==
  /\ pod[j] = "running"
  /\ Spend("end")
  /\ pod' = [pod EXCEPT ![j] = "ended"]
  /\ Notice("MODIFIED", j)
  /\ UNCHANGED <<up, providers, creating, deleting, doomed, expired, services,
                 watching, sweep, owed>>

PodExpires(j) ==
  /\ pod[j] # "none"
  /\ j \notin expired
  /\ Spend("expire")
  /\ expired' = expired \cup {j}
  /\ UNCHANGED <<up, providers, creating, deleting, pod, doomed, services,
                 watch, sweep, ghosts>>

PodRemoved(j) ==
  /\ j \in doomed
  /\ pod' = [pod EXCEPT ![j] = "none"]
  /\ doomed' = doomed \ {j}
  /\ expired' = expired \ {j}
  /\ Notice("DELETED", j)
  /\ UNCHANGED <<up, providers, creating, deleting, services, watching, sweep,
                 owed, spent>>

-----------------------------------------------------------------------------
(* The pod watch *)

\* Mutant: only a terminal phase is credited, a deletion is not.
HandlePhaseOnly ==
  /\ up
  /\ events # <<>>
  /\ events' = Tail(events)
  /\ IF Head(events).kind = "MODIFIED" THEN CreditPod(Head(events).job)
     ELSE UNCHANGED <<ledger, owed>>
  /\ UNCHANGED <<up, stored, known, creating, deleting, kubernetes, watching,
                 sweep, missed, spent>>

\* handlePodEvent: a deletion and a terminal phase are credited alike.
HandleEvent ==
  /\ up
  /\ events # <<>>
  /\ events' = Tail(events)
  /\ CreditPod(Head(events).job)
  /\ UNCHANGED <<up, stored, known, creating, deleting, kubernetes, watching,
                 sweep, missed, spent>>

\* Events already received stay in the channel and are drained.
WatchDrops ==
  /\ watching
  /\ Spend("drop")
  /\ watching' = FALSE
  /\ UNCHANGED <<up, providers, creating, deleting, kubernetes, events, sweep,
                 ghosts>>

\* A new watch starts at the present: what happened in the gap is not sent.
WatchStarts ==
  /\ up
  /\ ~ watching
  /\ events = <<>>
  /\ watching' = TRUE
  /\ UNCHANGED <<up, providers, creating, deleting, kubernetes, events, sweep,
                 ghosts, spent>>

-----------------------------------------------------------------------------
(* The sweep *)

Sweepable == {j \in Job : pod[j] = "ended" \/ (pod[j] # "none" /\ j \in expired)}

SweepList ==
  /\ up
  /\ sweepTodo = {} /\ sweepCur = NoJob
  /\ Sweepable # {}
  /\ SpendIf(Sweepable \cap doomed # {}, "resweep")
  /\ sweepTodo' = Sweepable
  /\ UNCHANGED <<up, providers, creating, deleting, kubernetes, watch,
                 sweepCur, ghosts>>

\* Mutant: a pod without a provider label is skipped altogether.
SweepPlacedOnly(j) ==
  /\ up
  /\ sweepCur = NoJob
  /\ j \in sweepTodo
  /\ CreditPod(j)
  /\ sweepTodo' = sweepTodo \ {j}
  /\ sweepCur' = IF Placed(j) THEN j ELSE NoJob
  /\ UNCHANGED <<up, stored, known, creating, deleting, kubernetes, watch,
                 missed, spent>>

\* Mutant: the credit is left to the watch.
SweepWithoutCredit(j) ==
  /\ up
  /\ sweepCur = NoJob
  /\ j \in sweepTodo
  /\ sweepTodo' = sweepTodo \ {j}
  /\ sweepCur' = j
  /\ UNCHANGED <<up, providers, creating, deleting, kubernetes, watch, ghosts,
                 spent>>

\* Release first, from the listing, ...
SweepCredit(j) ==
  /\ up
  /\ sweepCur = NoJob
  /\ j \in sweepTodo
  /\ CreditPod(j)
  /\ sweepTodo' = sweepTodo \ {j}
  /\ sweepCur' = j
  /\ UNCHANGED <<up, stored, known, creating, deleting, kubernetes, watch,
                 missed, spent>>

\* ... then delete; a failure is only logged, a pod already gone is fine.
SweepDelete ==
  /\ up
  /\ sweepCur # NoJob
  /\ sweepCur' = NoJob
  /\ services' = services \ {sweepCur}
  /\ \/ DeletePod(sweepCur) /\ UNCHANGED spent
     \/ Spend("apiFails") /\ UNCHANGED <<pod, doomed, expired, events, missed>>
  /\ UNCHANGED <<up, providers, creating, deleting, watching, sweepTodo, owed>>

-----------------------------------------------------------------------------
(* Crash and boot *)

Crash ==
  /\ up
  /\ Spend("crash")
  /\ up' = FALSE
  /\ known' = {}
  /\ ledger' = [p \in Provider |-> Reloaded(Machine[p])]
  /\ creating' = [j \in Job |-> IF creating[j] \in {"new", "done"}
                                THEN creating[j] ELSE "failed"]
  /\ deleting' = [j \in Job |-> "idle"]
  /\ watching' = FALSE
  /\ events' = <<>>
  /\ sweepTodo' = {}
  /\ sweepCur' = NoJob
  /\ owed' = {} /\ missed' = {}
  /\ UNCHANGED <<stored, kubernetes>>

\* The pods RecoverJobAllocations counts for p: terminated ones are skipped.
Counted(p) == {j \in Job : Place[j] = p /\ pod[j] = "running"}

Held(p) == [r \in Resource |->
              Total([j \in Job |-> PodSize(j)[r]], Counted(p))]

\* Start: rows from the database, mining pods by name, then the jobs of the
\* providers that have pods.  An error of any of them is only a warning.
BootWith(miners) ==
  /\ ~ up
  /\ up' = TRUE
  /\ \E loaded, listed \in BOOLEAN :
       /\ SpendIf(~ (loaded /\ listed), "recoveryFails")
       /\ known' = IF loaded THEN stored ELSE {}
       /\ owed' = {j \in Job : listed /\ \E p \in known' : j \in Counted(p)}
       /\ ledger' = [p \in Provider |->
            LET c == [Reloaded(Machine[p]) EXCEPT
                        !.miningPod = p \in known' /\ p \in miners]
            IN IF p \in known' /\ listed /\ Counted(p) # {}
               THEN Recover(c, Machine[p], Held(p)) ELSE c]
  /\ UNCHANGED <<stored, creating, deleting, kubernetes, watch, sweep, missed>>

-----------------------------------------------------------------------------
Init ==
  /\ up = TRUE
  /\ stored = {} /\ known = {}
  /\ ledger = [p \in Provider |-> Reloaded(Machine[p])]
  /\ creating = [j \in Job |-> "new"]
  /\ deleting = [j \in Job |-> "idle"]
  /\ pod = [j \in Job |-> "none"]
  /\ doomed = {} /\ expired = {} /\ services = {}
  /\ watching = FALSE /\ events = <<>>
  /\ sweepTodo = {} /\ sweepCur = NoJob
  /\ owed = {} /\ missed = {}
  /\ spent = [e \in Event |-> 0]

\* A request that has been taken in runs to its answer.
CreateStep(j) ==
  Debit(j) \/ CreatePod(j) \/ CreateService(j)
    \/ UndoPod(j) \/ Rollback(j)

DeleteStep(j) == DeleteErase(j) \/ DeleteCredit(j)

WatchStep == HandleEvent \/ WatchStarts
SweepStep == SweepList \/ (\E j \in Job : SweepCredit(j)) \/ SweepDelete

Next ==
  \/ \E p \in Provider : Register(p)
  \/ \E j \in Job : CheckRequest(j) \/ DeleteLookup(j)
  \/ \E j \in Job : CreateStep(j) \/ DeleteStep(j)
  \/ \E j \in Job : PodEnds(j) \/ PodExpires(j) \/ PodRemoved(j)
  \/ WatchStep \/ WatchDrops \/ SweepStep
  \/ Crash \/ BootWith({})

Spec == Init /\ [][Next]_vars

\* The workers and handlers of a running process keep going, Kubernetes
\* finishes what it was told to delete, and the Deployment restarts the
\* process.  Nothing makes a user submit, a job end or a watch drop.  (That
\* CreateJob keeps going is said as its outcome, which amounts to
\* WF_vars(CreateStep(j)): an unfinished CreateStep(j) is always enabled.)
Answered(j) == creating[j] \in {"new", "done", "failed"}

Fairness ==
  /\ WF_vars(BootWith({}))
  /\ WF_vars(WatchStep)
  /\ WF_vars(SweepStep)
  /\ \A j \in Job : /\ []<>Answered(j)
                    /\ WF_vars(DeleteStep(j))
                    /\ WF_vars(PodRemoved(j))

FairSpec == Spec /\ Fairness

-----------------------------------------------------------------------------
(* Properties *)

Stage == {"new", "checked", "accepted", "podMade", "unpod", "undo", "done",
          "failed"}

\* Every variable has its type; with Capacities, no GPU column and no in-use
\* counter of the ledger ever goes negative (AllocateResources checks before
\* it debits, releaseJobResources clamps, RecoverJobAllocations floors at 0).
TypeOK ==
  /\ up \in BOOLEAN
  /\ stored \subseteq Provider /\ known \subseteq Provider
  /\ ledger \in [Provider -> Capacities]
  /\ creating \in [Job -> Stage]
  /\ deleting \in [Job -> {"idle", "priced", "unpriced", "erased"}]
  /\ pod \in [Job -> {"none", "running", "ended"}]
  /\ doomed \subseteq Job /\ expired \subseteq Job /\ services \subseteq Job
  /\ watching \in BOOLEAN
  /\ events \in Seq([kind : {"MODIFIED", "DELETED"}, job : Job])
  /\ sweepTodo \subseteq Job /\ sweepCur \in Job \cup {NoJob}
  /\ owed \subseteq Job /\ missed \subseteq Job
  /\ spent \in [Event -> Nat]

\* The jobs that hold GPUs of type t at p in the ledger's eyes, and how many.
Debtors(p, t) == {j \in owed : Place[j] = p /\ Model(p) = t}
Owed(p, t) == Total([j \in Job |-> Charge(j)["gpu"]], Debtors(p, t))

\* The in-use column never counts a GPU that no job was charged for and still
\* owes, however often an ended job is credited and whatever is recovered at
\* boot: AllocateResources and RecoverJobAllocations are its only sources.
InUseIsOwed == \A p \in known, t \in GPUType : ledger[p].inUseGPU[t] <= Owed(p, t)

\* A GPU charged to a job comes back unless one of three things happened:
\* the pod went while no watch was established, or the request died in
\* MustParse.  In every other state the job still has its pod, its request is
\* still running (and will roll back), or its last event is in the channel.
ChargesAreTraceable ==
  \A j \in owed :
    \/ pod[j] # "none"
    \/ creating[j] \in {"accepted", "undo"}
    \/ \E i \in 1 .. Len(events) : events[i].job = j
    \/ j \in missed
    \/ j \in Malformed

\* As long as the process has not been restarted and nobody has registered
\* again, no GPU the provider registered with vanishes from the ledger: what is
\* not on offer is owed by some job, whatever order ends, deletions, watch gaps,
\* repeated sweeps and failing calls come in.
NothingIsForgotten ==
  spent["register"] + spent["crash"] = 0 =>
    \A p \in known :
      Offered(ledger[p], Machine[p], Model(p)) + Owed(p, Model(p))
        >= Offered(Fresh(Machine[p]), Machine[p], Model(p))

\* The pods that run on a machine never request more GPUs than it has.
NoDoubleBooking ==
  \A p \in Provider : Held(p)["gpu"] <= SpecTotal(Machine[p])

\* types.go: Total = Available + InUse + Mining, per GPU type.
TotalIsConserved ==
  \A p \in known, t \in GPUType :
    Accounted(ledger[p], Machine[p], t) = Machine[p].gpus[t]

\* A request that ends without a pod owes nothing: its debit was undone.
FailedRequestsOweNothing ==
  \A j \in Job : creating[j] = "failed" /\ pod[j] = "none" => j \notin owed

\* A debit refused for want of CPU or memory leaves the GPUs as it found
\* them, offered and in use: the compensations of AllocateResources are
\* complete, the lazy initialisations it keeps change no GPU count.
RefusalChargesNothing ==
  [][\A j \in Job, t \in GPUType :
       creating[j] = "checked" /\ creating'[j] = "failed" /\ up' =>
         LET p == Place[j]
         IN /\ Offered(ledger'[p], Machine[p], t)
                 = Offered(ledger[p], Machine[p], t)
            /\ ledger'[p].inUseGPU[t] = ledger[p].inUseGPU[t]
            /\ ledger'[p].inUse = ledger[p].inUse]_vars

\* The sweep removes what has ended or expired, in spite of API errors and
\* crashes: its pod is eventually gone.
EndedPodsAreRemoved ==
  \A j \in Job : (j \in Sweepable) ~> (pod[j] = "none")

\* The GPUs of a job that has ended come back to the ledger, whether or not
\* the watch saw it end, and in spite of a restart: the sweep makes up for
\* the event.  (Of a pod that was told to go before it ended, nothing is left
\* for the sweep to find.)
EndedJobsAreCredited ==
  \A j \in Job :
    (j \in owed /\ pod[j] = "ended" /\ j \notin doomed) ~> (j \notin owed)
-----------------------------------------------------------------------------
(* What renting amounts to while pods stay: Lease *)

\* A charged job is a tenant as soon as its pod runs.  What the ledger offers
\* is free; while the process is down, what its recovery will find to offer.
TheLease == INSTANCE Lease WITH
  Home <- Place,
  Size <- [j \in Job |-> Charge(j)["gpu"]],
  Stock <- [p \in Provider |-> Machine[p].gpus[Model(p)]],
  listed <- stored,
  holds <- {j \in owed : pod[j] # "running"},
  tenants <- {j \in Job : Placed(j) /\ pod[j] = "running"},
  free <- [p \in stored |->
             IF up THEN Offered(ledger[p], Machine[p], Model(p))
             ELSE SpecTotal(Machine[p]) - Held(p)["gpu"]]

\* CreateJob, its rollback, the crash and RecoverJobAllocations together
\* implement leases: a debit needs room, a failure or a crash gives up what is
\* held without a pod and nothing else, a pod that runs keeps its GPUs through
\* every restart, and what is on offer is exactly what is left.
RefinesLease == TheLease!Spec
=============================================================================
