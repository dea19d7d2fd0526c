# WorldLand GPU broker: a TLA+ model of its control plane, payment contract and web frontend

WorldLand rents out GPUs of third parties.  A provider runs an agent or an SDK on
a GPU host; the host joins a Kubernetes cluster and registers with a control
plane (`k8s-proxy-server`, Go); renters ask the control plane for a job, which
becomes a pod on the host; idle GPUs mine.  Renters use a web frontend (`frontend`,
Next.js); payments are meant to go through a contract (`contracts/src/GPUVault.sol`).

The control plane keeps, in memory, one ledger per provider: GPUs, cores and
memory in the columns *total*, *available*, *in use* and *mining*.  Everything
that makes the system hard meets there: requests that race, a pod watch that
loses events, a sweep that repeats what the watch did, a process that restarts
and must rebuild the ledger from the pods that run, and a filler workload that
takes what rentals leave.  The models below are about that ledger, about the
messages by which a provider gets into it, about the one other place where
the system keeps accounts, the contract, and about the frontend, where the same
races come back on a small scale: a tab whose user changes under requests that are
under way, a wallet that changes under a connect, and a payment that goes on when its
page is gone.

Contents: [components](#1-the-system), [plan](#2-plan),
[modules](#3-modules-and-the-code), [runs](#4-what-tlc-checks),
[proofs](#5-what-is-proved), [findings](#6-where-code-and-documentation-disagree),
[limits](#7-what-is-not-modelled-and-what-the-models-abstract).
Paths without a prefix are below `src/k8s-proxy-server/`, those of the frontend's
files (`.ts`, `.tsx`) below `src/frontend/`.

## 1. The system

| component | state | operations | talks to |
|---|---|---|---|
| **rental ledger** `internal/provider/orchestrator_ledger.go`, `types.go`, `orchestrator_query.go` | `Orchestrator.providers`: provider id → `ProviderState{Spec, Capacity}`, one RWMutex | `AllocateResources`, `ReleaseResources`, `releaseJobResources`, `RecoverJobAllocations`, queries | called by the job API, the watch, the sweep, mining |
| **job API** `internal/handler/job_handler.go`, `internal/job/manager.go` | none of its own: ledger, pods, services | `CreateJob` (check, debit, pod, service, rollback), `DeleteJob` (look up, erase, credit), listing | ledger, Kubernetes, database |
| **pod watch and expiry sweep** `orchestrator_podwatch.go` | the watch channel, the sweep's list | `handlePodEvent`, `podWatcher`, `cleanupExpiredAndFailedJobs` (each minute) | Kubernetes, ledger |
| **boot recovery** `orchestrator.go`, `repository.go`, `node_manager.go` | rows of the `providers` table | `loadProvidersFromDB`, `RecoverMiningStates`, `RecoverJobAllocations` | database, Kubernetes, ledger |
| **mining ledger** `orchestrator_mining.go`, `mining_manager.go`, `internal/handler/mining_handler.go` | mining columns, `MiningPodName`, the mining pod | deploy, start, stop, resize (ledger at once, pod in a goroutine), 30 s monitor | ledger, Kubernetes |
| **registration** `orchestrator_registration.go`, `internal/sdk/bootstrap.go`, `cmd/provider-agent` | the agent's progress; map entry and database row of a provider | `registerProvider`, `registrationWorker`, `handleRegistration` | streams, ledger, database, mining |
| **payment contract** `contracts/src/GPUVault.sol` | deposits, session keys, nonces, rentals, fee | 11 external functions | an ERC-20 token (`MockUSDT.sol` in tests) |
| **message streams** `internal/messaging` | Redis streams, consumer groups, pending entries | publish, create a group, read, acknowledge | registration, heartbeat |
| **heartbeat** `orchestrator_registration.go`, `internal/sdk/daemon.go` | `Status`, `NodeName`, `LastSeen`; the row's status | `heartbeatLoop`, `handleHeartbeat`, `checkStaleProviders` | streams, database |
| wallet sessions `internal/wallet`, `wallet_auth_handler.go` | nonces and sessions in Redis, a cache in memory | nonce, verify, create, revoke, `ValidateAndCharge` | not wired into the server |
| tenant isolation `internal/k8s/tenant.go` | namespace, quota, policy per user | ensure, delete | Kubernetes |
| provider SDK `internal/sdk`, `cmd/provider-sdk` | local mining process, heartbeat loop | install, validate, register, mine | streams, control plane |
| server start and stop `cmd/server`, `internal/server` | the process | start the workers, stop | all |
| **session and API client** `hooks/useAuth.tsx`, `lib/api-client.ts`, `app/auth/login` | `auth_user` and `auth_token` in `localStorage`, the token of `ApiClient`, the state of `AuthProvider` | restore, Google and development login, logout; the header of a request | control plane, other tabs |
| **job console** `hooks/useJobs.ts`, `app/jobs`, `app/jobs/create`, `app/deploy`, `app/dashboard` | the list of jobs, providers, free GPUs, loading flags, the form | polls every 5 and 3 s, delete, select, submit | session, control plane |
| **wallet and checkout** `hooks/useWallet.ts`, `app/jobs/checkout` | address and connection; the step of the page; the chain of a payment | connect, `accountsChanged`, confirm, retry | MetaMask, session, control plane |
| **verification feed** `app/gpu-verification`, `app/da-verification`, `app/api/merkle-data` | the log `data.txt`, the window of blocks, counters | read, stream, select, copy | the block logger |
| blockchain client, JWT auth, CORS, config, static pages and effects, deployment | - | - | - |

How the parts interact, and what is hard about it:

* **One mutex, many steps.** Each call on the ledger is atomic; nothing longer is.
  `CreateJob` looks at a provider, debits it, creates a pod, creates a service and
  may roll back, and any other request, worker or crash fits between two of these.
* **Four creditors, no memory.** The end of a job is credited by the watch
  (MODIFIED with a terminal phase), by the sweep, by the watch again (DELETED) and
  by `DeleteJob`.  None of them knows of the others; the in-use column is clamped
  at zero, the available column is not.
* **Lossy watch.** After a gap a new watch starts at the present.  The sweep makes
  up for what it can still see: pods that exist.
* **Nil means two things.** The available map is nil until a first debit fills it
  from the machine, a first credit fills it with that credit, or a recovery
  fills it from the pods; after a restart it is nil again.  Zero likewise means
  "not initialised" and "all rented".
* **Recovery in three parts, each optional.** An error in any of them is logged,
  and the process serves.
* **Mining shares the column.** Deployment, resize and the monitor move GPUs
  between *available* and *mining* in calls of their own, and the pod follows in
  goroutines on a cancelled context.
* **At most once.** A consumer group starts at the end of its stream (`$`) and its
  consumer asks for new entries only (`>`).  A request published before the group
  exists is never read; one that was delivered to a process that died stays
  pending for ever.  The agent opens the group for its answers after it has
  published, so the first answer may be gone, and an answer that it finds later
  may belong to an earlier attempt.
* **Two writers of one status.** Registration sets a provider to *approved*, the
  heartbeat to *available*, each in the map under the lock and in the table
  outside it.
* **One pot.** All deposits of the contract share one token balance; session keys
  can be registered again, taken over by another wallet, revoked and expired
  between the signature of a payment and its submission.

* **One tab, three copies of a session.** The token is in the storage, in the API
  client and in the state of `AuthProvider`; other tabs write the first, a page load
  reads it into the second, an effect into the third, and a login answered late
  writes all of them, whatever the tab shows by then.
* **Polls that overlap.** Answers come in any order, to a page that shows something
  else by then, and share one loading flag with deletions and their refreshes.
* **A payment nobody can call back.** `handleConfirmPayment` is a chain of awaited calls
  that survives a logout, another login and leaving the page.

What makes each part correct:

* ledger: no column negative; no machine booked beyond its GPUs; a refused
  request leaves no trace; what a job was charged can be, and eventually is,
  credited; *Total = Available + InUse + Mining* (`types.go:69-72`).
* job API: a request that fails leaves nothing charged; a deleted job's resources
  come back.
* watch and sweep: whatever ended or expired is eventually removed and credited,
  watch gaps and restarts included.
* recovery: nothing is lost and nothing booked twice over a crash.
* mining: takes only free GPUs, gives back all it took, and its GPUs return when
  the pod dies.
* contract: the balance covers the deposits; a signature works once; keys stay
  within what was delegated; every transaction touches one deposit.
* registration: an agent that was told it is registered is, in the map and in the
  table; an agent that keeps trying gets in, whatever was lost on the way.
* heartbeat: it has the last word on the status of a provider that beats.
* session: a tab that shows a user sends this user's token.
* console: a user's list holds his jobs and ends up being the server's list; no
  spinner stays; the form becomes usable again.
* wallet: a connected page shows the account that is open to it.
* checkout: no job without a payment, one at most per payment; it is for the user the tab shows;
  what the page says of it is true; it does not stay at processing.
* feed: the window is a gapless run of blocks, and every block comes round.
* wallet sessions (not modelled): a nonce is used once, a revoked session is refused,
  the spend limit holds.

## 2. Plan

Built so far, in this order:

1. `Sums`, `Capacity`: the pure part of every ledger operation.
2. `RentalLedger`: requests, watch, sweep, crash and recovery over it, which implements
   the abstract `Lease` while pods stay.
3. `MiningLedger`: mining over the same ledger, extending 2.
4. `GPUVault` with the abstract `Escrow`.
5. `Registration`: streams, both workers that read them, and the agents.
6. `Session`, then over it `Console` and, with `Wallet`, `Checkout`, which implements the
   abstract `Sale`.
7. `BlockFeed`.
8. `SumsProofs`, `LedgerProofs` (both ledgers), `GPUVaultProofs`, `RegistrationProofs`,
   `SessionProofs`, `ConsoleProofs`, `CheckoutProofs`, `BlockFeedProofs`.

`RentalLedger` and `MiningLedger` compose by extension, as do `Session`, `Wallet`, `Console`
and `Checkout`.  Frontend and control plane are not composed: what the frontend needs of the
server is in `ServeRead`, `ServeDelete`, `Book` and `Refuse`, taken from the handlers, and
the verdict of the authentication is a constant, `Caller`.

Worth doing next: an abstract specification that covers the end of jobs too, once the
code credits each job once (see *EndedJob* in section 6); the wallet sessions, once something
constructs them.

## 3. Modules and the code

`PROJECT.json` names, for every definition that models code, the lines it
stands for.  Here is how state and steps correspond.

### Sums, Capacity

`Total(f, S)` is the sum of `f` over a finite set (`ProviderCapacity.TotalGPUCount`
and its like), written as the cardinality of a disjoint union so that the
provers can reason about it without recursion.  `Capacity` holds the
ledger of one provider (`ProviderCapacity`) and one operator per ledger operation,
returning the ledger the Go function leaves behind:

| operator | code |
|---|---|
| `Fresh`, `Reloaded` | what a registration message and what a database row bring (the row has no map: `available` is nil) |
| `InitMaps`, `InitScalar`, `MoveGPU`, `MoveScalar`, `Allocate` | `AllocateResources`, with its lazy initialisations and its compensations |
| `Release` | `releaseJobResources` and `ReleaseResources`: credit unconditionally, clamp only *in use* |
| `Recover` | `RecoverJobAllocations` for a provider with running pods |
| `PrepareMining`, `Deploy`, `AllocateMining`, `ReleaseMining`, `ReturnMining` | the column moves of `orchestrator_mining.go` |
| `GetAvailable`, `AvailableGPUCount`, `MiningGPUCount` | the readers `CreateJob` and mining decide by |
| `Offered`, `Accounted` | what the next debit would find (a nil map counts as the machine), and the three columns together |

A nil Go map is a flag beside a column that reads zero.

### RentalLedger

| variable | code |
|---|---|
| `up`; `known`, `ledger` | the process; keys and `Capacity` of `Orchestrator.providers` |
| `stored` | rows of the `providers` table |
| `creating[j]`, `deleting[j]` | how far the goroutine of a `CreateJob` / `DeleteJob` has come |
| `pod`, `doomed`, `expired`, `services` | Kubernetes: the pod of a job, its deletion timestamp, its `expires-at` annotation gone by, its service |
| `watching`, `events` | the watch and its channel |
| `sweepTodo`, `sweepCur` | what the sweep has listed, and the pod it has credited and not yet deleted |
| `owed`, `missed` | ghosts: jobs charged and not credited; jobs whose pod went unobserved |
| `spent` | how often each bounded event has happened |

`creating` runs `new → checked → accepted → podMade → done`, and to `failed` over
`unpod` and `undo`: `CheckRequest`, `Debit`, `CreatePod`, `CreateService`, `UndoPod`,
`Rollback` are the stretches of `CreateJob` between two points where the lock is
free or Kubernetes is called.  `DeleteLookup`, `DeleteErase`, `DeleteCredit` are
those of `DeleteJob`; `HandleEvent`, `WatchDrops`, `WatchStarts` the watch;
`SweepList`, `SweepCredit`, `SweepDelete` the sweep; `Register` is
`handleRegistration`; `Crash` and `BootWith` a restart, in which loading the rows
and listing the pods may each fail.  `PodEnds`, `PodExpires` and `PodRemoved` are
Kubernetes.

### MiningLedger

Extends `RentalLedger` with the mining pod of a provider (`miner`), registrations
whose goroutine will start mining (`deploying`) and resizes whose goroutine is
under way (`resizing`).  `StartMining`, `StopMining`, `AllocateMiningGPU`,
`ReleaseMiningGPU` are the handlers, `DeployRegistered` and `ResizeMiner` the
goroutines, `SyncMining` one tick of the monitor.  `RegisterProvider`, `CrashAll` and
`Boot` are the steps of `RentalLedger` with what they also do here; all other
steps of the renting side interleave unchanged (`RentalStep`).

### Registration

| variable | code |
|---|---|
| `up`, `bare` | the process, with its orchestrator; without one, which failed to start |
| `groups`, `monitor` | the streams whose consumer group exists; whether `heartbeatMonitor` is still to create its own, reads, or has returned |
| `unread`, `pending` | Redis: entries of `provider:registration` not yet delivered; entries delivered and not acknowledged, per provider |
| `batch`, `step` | what `ReadMessages` returned to `registrationWorker`, and how far `handleRegistration` is with the first of them |
| `cache`, `row` | the status of a provider in `Orchestrator.providers` and in the `providers` table |
| `beats`, `beating`, `saving` | heartbeats not delivered; those `heartbeatMonitor` has in hand; the one between its two writes |
| `phase`, `opened`, `answers` | how far an agent has come; whether the group on its response stream exists; what that group has not delivered |

`Publish`, `OpenGroup`, `ReadAnswer`, `Timeout` are `registerProvider`
(`bootstrap.go`) and the `main` of `provider-agent`, which do the same: publish,
create the group, wait 60 seconds for whatever answer comes first.
`StartDaemon` is `--daemon-only`, which sends heartbeats without registering and
is what the systemd unit of `install-provider.sh` runs.  `Beat` is the
ticker of `heartbeatLoop`.  That loop returns for good if Redis cannot be reached when it
starts (`daemon.go:127-130`): the daemon then goes on without a heartbeat (`mute`).  After a registration
the client exists already and cannot fail so.  `ReadRequests`, `Approve`, `Save`, `Answer`, `Ack` cut
`registrationWorker` and `handleRegistration` at the lock, the database and the two calls
to Redis; `ReadBeats`, `HandleBeat`, `SaveBeat` do so for `heartbeatMonitor`.  `Save`
writes the status it reads off the shared `ProviderState` outside the lock, and
may or may not see a heartbeat that came in between.  `Crash` and `Boot` are a
restart: the groups, their pending entries and the table survive it, the map and
what the workers had in hand do not.  Two failures end a part of the process and not the process.
`OpenMonitor` is the consumer of `heartbeatMonitor`: if it cannot be created the goroutine returns for
good (`orchestrator_registration.go:232-235`) and heartbeats stay in the stream.  `BootBare` is a start at
which Redis cannot be reached or the first group not be created: `main` logs a warning and serves
without an orchestrator (`cmd/server/main.go:51-53`), until it is stopped (`Crash`).

### GPUVault, Escrow

One action per external function.  The price of a rental is checked by `startRental` and not by
`startRentalWithSessionKey`, so a session key may start one at zero.  A transaction is atomic and a revert undoes
it, so each `require` and each `revert` is a guard.  `Move` is the token, `Sign`
what people sign off-chain for the nonce they read; a signed message stays and can
be submitted at any later time, once, twice or never.  Ghosts: `used` (messages
that took effect), `delegated` (limits granted per wallet), `drawn` (what keys paid
out per wallet), `gifts` (tokens that reached the contract without a deposit, by
plain transfer or because a payee or the fee recipient is the contract itself).

`Escrow` is what the contract promises: one pot and a fund per account; a fund is
only raised by what comes in and only lowered by what is paid out of it.
`GPUVault` implements it with `pot <- balance[Vault]`, `funds <- deposits`.  `Escrow`'s
actions are written from the change of `funds` (`n == funds'[a] - funds[a]`) rather
than with a quantifier over amounts, so that TLC can evaluate them as a property.

### Session, Wallet

| variable | code |
|---|---|
| `stored`, `client`, `shown`, `ready` | `localStorage`; the token in `apiClient`; the user and `isLoading` of `AuthProvider` |
| `signing` | Google logins whose answer is to come |
| `purse` | MetaMask: the account open to the page |
| `address`, `connected`, `connecting`, `asking` | the state of `useWallet`, and the calls of `connect` and `checkConnection` under way |

`Load` is the constructor of `ApiClient`, `Restore` the mount effect of `AuthProvider`: what
another tab does (`Elsewhere`) fits between the two.  A stored user that does not parse
is removed from the storage, the token in memory is not.  `AccountsAnswered` and
`BalanceAnswered` are the awaits of a connect; `AccountsChanged` is the handler of the
event, which fits between them.  The history variable `overtaken` remembers that it did.

### Console

`page` is the route, `view` what the hooks and the form of the mounted page hold,
`flights` the requests under way: each with the token it was sent with, and `live` as long
as its page is there to take the answer.  `Enter` is the mount of a page: the state of the
hooks starts anew and their effects send the first requests.  `Restored` and
`SignedIn` may find a page with `useJobs` already mounted, whose effect runs again (`Wake`).
`PollJobs` and `PollFree` are the intervals; `ReceiveJobs`, `ReceiveDeleted`,
`ReceiveProviders`, `ReceiveFree`, `ReceiveOffers` the code behind an await; `SelectType`,
`SetCount`, `Fill`, `Submit`, `RentNow`, `RetryOffers`, `Delete` what the buttons do when they are
rendered and enabled.  `ServeRead` and `ServeDelete` are the handlers of the control plane as
the pages see them, `Fail` everything that can go wrong with a request, `Rent`, `End` and
`Move` the rest of the world.  Going back in the browser is a `Go` or an `Open`.

### Lease

`Lease` is renting in four variables: the machines `listed`, the jobs that have `holds`, the `tenants`, and
what is `free`.  The mapping: `stored`; the charged jobs without a running pod; the jobs
with one; what the ledger offers, or, while the process is down, what the pods leave of the
machine.  A hold may be given up (a rollback, a crash), a tenancy may not.  It is about executions in which no
pod ends, which is why `Restart` checks it.

### Checkout, Sale

`here` and `step` are the page; each confirmation starts an `order`, whose `stage` is the
await `handleConfirmPayment` is at: `paying` (the waits up to and including
`mockPayment`), `settle`, `sent` (the request of `createJob`), `created` or `refused` (its answer), `finish`
(the refresh and the last wait).  `live` says whether the page that started it is still there to
show the result.  A page load ends every chain (`Killed`), but a request that is out may still be
served (`orphan`); leaving the page or logging out ends none (`Abandoned`, `HandedOver`).
`payer` (who confirmed, unless somebody else has had the tab since), `as` (whom the tab showed when the
request went out), `jobs` and `acked` are history.  `OtherTab` lets another tab write the storage at any moment.

`Sale` is what the page promises: an order is delivered only after it is paid, and once.
`Checkout` implements it with `paid <- PaidOrders`, `delivered <- Deliveries`.

### BlockFeed

`file` is `data.txt`, `ask` the requests of the GPU page (two in a development build, where
effects run twice), `gpu` and `da` the state of the pages.  `Answer` is the route, with lines that
do not parse dropped; `Receive` and `Tick` are the effects `fetchData` and the stream, with
`Push` for the window of 50.  `Parsed` is the loop of the route, a recursive function of the lines.  `AddEntry` computes its number from the value of `latestBlock` that its
effect captured, as the closure does.

## 4. What TLC checks

The runs of the ledgers, the contract and the registration say `CHECK_DEADLOCK FALSE`: when the
bounded events of a run are used up and nothing is pending, these systems
rightly stand still (the last of them when the server has come up without its orchestrator and
the agent is a daemon).  The runs of the frontend check for deadlock: a page can always be opened.

A bound limits how often an event of the environment may happen (`Bound` in the MC
module): one watch gap, one crash and so on.  The workers and handlers
themselves are not bounded.  One machine is enough because no operation relates two
providers (the sweep and the boot loop over them independently); two GPUs and
two jobs are enough for a race for the last GPU, a wrong count in either
direction and a job that survives another; the `default` type is a second column.
In `MCRentalLedger` a unit of memory is 8 GiB and the default amounts are halved.
One provider is enough for **Agents** too: providers share nothing but the batch
of the registration worker, which two requests of one provider fill as well as
those of two, and `LiveAgentsAreKnown` is proved for any number of them.  Two
unread requests and one event of each kind allow for a stale answer, a repeated
registration in one batch, and a crash between any two steps.

The frontend has bounds of its own, in the configurations.  **Console**: one job, one GPU type
with two providers, of which one changes its free GPUs through all values (`Supply`) and one always has one,
so that the first provider of a type may or may not be the one with GPUs; two polls of the jobs,
one of the GPUs and one deletion under way (`MaxPolls`, `MaxLooks`, `MaxDeletes`), which is enough for
two answers in the wrong order and for a refresh beside a poll; one request that fails
(`MaxFaults`).  **Checkout**: two orders (`MaxOrders`), for a retry and for a payment beside another; one
change from outside (`MaxChanges`), which is an account that opens or closes or another tab that
logs somebody in or out, at any moment.  In both, two users, one of whom the server
rejects (the token of the development login).  In **Console** other tabs act only while this one
loads a page (`Anytime = FALSE`): the tab reads the storage at no other moment.  The theorems hold
for all values of these, `Anytime` included.  **Feed**: windows of three rows with an opening of two,
against files of up to four lines, so that a file can be shorter than the opening and longer than
the window; `MaxEntries` and `MaxCopies` bound the counters.

| run | shows | why it is interesting |
|---|---|---|
| **Storm** | `TypeOK`, `InUseIsOwed`, `ChargesAreTraceable`, `NothingIsForgotten` | one each of registration again, a row that is not saved, crash, failed recovery, watch gap, end, deletion, repeated sweep, failed service, and a request that panics in `MustParse` |
| **Restart** | `NoDoubleBooking`, `TotalIsConserved`, `FailedRequestsOweNothing`, `RefusalChargesNothing`, `RefinesLease` | four requests, two of which fit; the others fall short of CPU or of memory only; Kubernetes refuses a pod; two crashes.  Jobs do not end here, see *EndedJob* |
| **Sweep** | `EndedPodsAreRemoved`, `EndedJobsAreCredited` (liveness) | a pod without a provider, a crash, a watch gap, an API error, a sweep that meets a terminating pod |
| **Mining** | `MiningTypeOK`, `MiningTakesFreeGPUs`, `MiningGivesBackItsGPUs`, `DeadMinersAreReclaimed` (liveness) | an SDK host of three GPUs that mines from its registration on, one rental; one each of start, resize, stop, the pod's end, an unreadable status or refused call, crash and registration again |
| **Agents** | `RegistrationTypeOK`, `LiveAgentsAreKnown`, `EveryAgentGetsIn`, `HeartbeatsPrevail` (both liveness) | one agent that registers, gives up, tries again or starts as a daemon; one each of crash, stop, database error and Redis error, which may cost an answer, an acknowledgement, the heartbeat monitor, a daemon's heartbeats or the orchestrator |
| **Vault** | `VaultTypeOK`, `Solvent`, `UsedSignaturesAreDead`, `ExposureIsBounded`, `RefinesEscrow` | two wallets share a key, two signatures, a rental, keys that expire, fees of 5 % (rounded: the amounts are ten tokens) and 10 %; a price of zero |
| **Console** | `ConsoleTypeOK`, `OwnToken`, `OwnJobsOnly`, `SpinnerStops`, `ShownJobsCatchUp`, `SubmitComesBack` (both liveness) | logins, logouts and page changes while polls, deletions and logins are under way; a request fails, or its answer is lost; another tab changes the session between the two reads of it |
| **Checkout** | `CheckoutTypeOK`, `WalletIsCurrent`, `ResultIsTrue`, `BookedForShown`, `RefinesSale`, `ProcessingEnds` (liveness) | two orders, a wallet that changes between the steps of a connect, a user who logs out, leaves or reloads and another tab that logs in or out in the middle of a payment, refused requests and lost answers |
| **Feed** | `FeedTypeOK`, `WindowIsContiguous`, `NumbersMeetTheCounter`, `EveryBlockComesRound` (liveness) | a log with half-written lines, two requests answered in any order, a stream that wraps around, copies that fade |
| **EndedJob**, **Reregister**, **MiningReset** | a violation each | section 6 |

What the properties say, in short; each is stated in full where it is defined.

* `InUseIsOwed`: the in-use column never exceeds what charged jobs owe, however
  often one job is credited.
* `ChargesAreTraceable`: a charged, uncredited job still has its pod, a running
  request or an event in the channel; otherwise its pod went in a watch gap or its
  request died in `MustParse`.
* `NothingIsForgotten`: before the first restart, every GPU is on offer or owed.
* `NoDoubleBooking`: running pods never request more GPUs than the machine has.
* `TotalIsConserved`: available + in use + mining = total.
* `FailedRequestsOweNothing`, `RefusalChargesNothing`: a failed request is undone; a
  refused debit changes no GPU count, through all compensations.
* `RefinesLease`: while pods stay, the control plane does nothing but lease: it lists machines, lets jobs
  hold GPUs that are free, takes back what is held without a pod, and leaves a pod that
  runs its GPUs.
* `EndedPodsAreRemoved`, `EndedJobsAreCredited`: the sweep is the promised catch-up.
* `MiningTakesFreeGPUs`, `MiningGivesBackItsGPUs`, `DeadMinersAreReclaimed`: what
  mining takes was on offer (or the pool read zero or had no map, and it is at most the
  machine's GPUs); what it gives up is on offer again; a dead miner's GPUs return.
* `LiveAgentsAreKnown`: an agent that read an answer, be it the one to an attempt it
  had given up, has a row and, while the control plane runs, an entry in its map;
  only a database error, which `handleRegistration` and `Start` log and ignore,
  breaks that.
* `EveryAgentGetsIn`: the agent's retry makes up for everything the streams lose, provided that the control
  plane has its orchestrator again and again (`[]<>up`): nothing restarts a server that came up without
  one.  The agent must come back under the same id: without `--provider-id` both agents
  make up a new one at each start (`bootstrap.go:103-110`, `provider-agent/main.go:55-57`), which is a
  new provider, with a response stream of its own, that loses its first answer as the one before did.
* `HeartbeatsPrevail`: if from some moment on a known provider beats and `heartbeatMonitor` reads, it is
  *available* in the map and in the table from some moment on, however registration and heartbeat
  interleaved before.  That both loops run is a hypothesis, since either may have returned.
* The contract's: see section 5, they are also proved.
* `OwnToken`: a tab that shows a user sends that user's token.
* `OwnJobsOnly`: the list a user sees holds this user's jobs only, except between the answer to
  a Google login and its redirect, when the page underneath may still be the one of another user.
* `SpinnerStops`: a page that says it is loading has a request under way that will end it.
* `ShownJobsCatchUp`: the list of a user who stays on the jobs page ends up being the server's.
* `SubmitComesBack`: the polls, which disable the button while they last, do not disable it for good.
* `WalletIsCurrent`: a connected page shows an address, the open account unless it was changed
  between two steps of a connect.
* `ResultIsTrue`: after success there is a job; after an error no answer has said that there is one.
* `BookedForShown`: a job is booked for the user this tab showed when the request went out, never for one
  whom another tab had put into the storage by then; and for the one who confirmed the payment, unless
  somebody else had the tab in between.  (That the next user of the tab then gets the job is in section 6.)
* `RefinesSale`, `ProcessingEnds`: no delivery without payment, one per payment; an end to processing.
* `WindowIsContiguous`, `EveryBlockComesRound`, `NumbersMeetTheCounter`: no gap and no repetition in
  the rows; each block is shown again and again; three counters agree.

### Fairness

`FairSpec` and `MiningFairSpec` assume only what the code schedules: the watch loop
and the sweep run for ever while the process does (`podWatcher`,
`jobExpirationMonitor`); the mining monitor ticks; a request that was taken in runs
to its answer; goroutines finish; Kubernetes finishes deletions it accepted; and
the Deployment restarts a process that died.  `FairSpec` of `Registration` assumes
that `registrationWorker` runs on while the process does and `heartbeatMonitor` until it returns, that a
process that died is started again (with its orchestrator or without: `WF_vars(Boot \/ BootBare)`),
and that an agent goes on with what it does, is started again when it has exited
and beats on its ticker while its loop runs.  That somebody starts an agent again is the retry the
registration is written for (`orchestrator_registration.go:12-14`), an assumption about
its operator: the unit of `install-provider.sh` restarts the daemon only.  An agent gives up only when no answer is waiting: the loop
reads before it looks at the clock again.  All of it is weak fairness.  For
`CreateJob` it is stated as its outcome, `[]<>Answered(j)`, which amounts to
`WF_vars(CreateStep(j))` (an unfinished request always has a step) and spares TLC
the evaluation of `ENABLED`.  Nobody has to submit, delete, end or register.

In the frontend the network and the timers are fair, the user is not.  `Console`: a request for the
list or for the free GPUs is served and its answer handled (weak fairness); the intervals go off again
and again while their page is open (strong fairness, because a bound on the requests under way disables a
poll for a moment, and `setInterval` does not care).  `Checkout`: each await of a chain returns, and the
server answers a request (weak fairness per order).  `BlockFeed`: the timers of an open page fire, and a
request is answered.  Nobody has to log in, click or stay.

## 5. What is proved

TLC checks small instances; the theorems below hold for any providers, machines,
jobs, requests, accounts, amounts, fees and bounds that satisfy the named assumptions
of the modules (`GPUTypeAssumption`, `RentalAssumption`, `VaultAssumption`,
`MiningAssumption`, `RegistrationAssumption`, `SessionAssumption`, `ConsoleAssumption`,
`WalletAssumption`, `CheckoutAssumption`, `FeedAssumption`): the sets that are summed over are finite, amounts and
bounds are naturals, a batch has at least one entry, and the null values are not
members of the sets they stand beside.

| theorem | module | statement |
|---|---|---|
| `TypeCorrect` | `LedgerProofs` | `Spec => []TypeOK` |
| `ChargesTraceable` | `LedgerProofs` | `Spec => []ChargesAreTraceable` |
| `InUseOwed` | `LedgerProofs` | `Spec => []InUseIsOwed` |
| `RefusalIsFree` | `LedgerProofs` | `Spec => RefusalChargesNothing` |
| `NothingForgotten` | `LedgerProofs` | `Spec => []NothingIsForgotten` |
| `FailuresAreRolledBack` | `LedgerProofs` | if `Malformed = {}`: `Spec => [](PodsStay => FailedRequestsOweNothing)` |
| `NoGPUIsBookedTwice` | `LedgerProofs` | if `SharesWhatItHas`: `Spec => [](Undisturbed => NoDoubleBooking)` |
| `TotalConserved` | `LedgerProofs` | if `OneModelShared`: `Spec => [](Undisturbed => TotalIsConserved)` |
| `RentingIsLeasing` | `LedgerProofs` | if `OneModelShared`: `Spec => ([]Undisturbed => RefinesLease)` |
| `MiningTypeCorrect` | `LedgerProofs` | `MiningSpec => []MiningTypeOK` |
| `MiningGivesBack` | `LedgerProofs` | `MiningSpec => MiningGivesBackItsGPUs` |
| `MiningTakes` | `LedgerProofs` | `MiningSpec => MiningTakesFreeGPUs` |
| `RentalsKeepTheirBooks` | `LedgerProofs` | `MiningSpec => [](InUseIsOwed /\ ChargesAreTraceable)` |
| `VaultTypes` | `GPUVaultProofs` | `Spec => []VaultTypeOK` |
| `VaultIsEscrow` | `GPUVaultProofs` | `Spec => RefinesEscrow` |
| `VaultSolvent` | `GPUVaultProofs` | `Spec => []Solvent` |
| `SignaturesDie` | `GPUVaultProofs` | `Spec => []UsedSignaturesAreDead` |
| `ExposureBounded` | `GPUVaultProofs` | `Spec => []ExposureIsBounded` |
| `RegistrationTypes` | `RegistrationProofs` | `Spec => []RegistrationTypeOK` |
| `LiveAgentsKnown` | `RegistrationProofs` | `Spec => []LiveAgentsAreKnown` |
| `TokenIsOwn` | `ConsoleProofs` | `Spec => []OwnToken` |
| `ConsoleTypes` | `ConsoleProofs` | `Spec => []ConsoleTypeOK` |
| `JobsAreOwn` | `ConsoleProofs` | `Spec => []OwnJobsOnly` |
| `SpinnersStop` | `ConsoleProofs` | `Spec => []SpinnerStops` |
| `WalletShown` | `CheckoutProofs` | `Spec => []WalletIsCurrent` |
| `CheckoutTypes` | `CheckoutProofs` | `Spec => []CheckoutTypeOK` |
| `ResultsAreTrue` | `CheckoutProofs` | `Spec => []ResultIsTrue` |
| `ShownUserGetsTheJob` | `CheckoutProofs` | `Spec => BookedForShown` |
| `CheckoutIsSale` | `CheckoutProofs` | `Spec => RefinesSale` |
| `FeedTypes` | `BlockFeedProofs` | `Spec => []FeedTypeOK` |
| `WindowHoldsTheRun` | `BlockFeedProofs` | `Spec => []WindowIsContiguous` |
| `NumbersMeet` | `BlockFeedProofs` | `Spec => []NumbersMeetTheCounter` |

**Sums** (`SumsProofs`).  `Total` is a natural number, zero for the zero function, and
changes by the change at one member; all of it from the library's facts on
cardinality, without induction over a recursive sum.

**Ledger types** (`TypeCorrect`, over facts about `Capacity` that open the module).  `TypeOK` is inductive as it
stands.  The weight lies in `AllocateColumns`: whatever branch `AllocateResources`
takes, no GPU column of the result is negative, and a refusal has the GPU columns
of the lazy initialisation alone.  `ReleaseColumns` and `RecoverColumns` say the same
of the credit and of the recovery.  CPU and memory may go negative (they are not checked on
every path) and are typed as integers.

**`ChargesAreTraceable`** is inductive together with `TypeOK`.  The hard steps are
those that take away a pod: `NoticeTraces` says that a removal that is watched
leaves an event and one that is not is remembered in `missed`; `WatchTraces` that the
event that is taken out of the channel credits its job.

**`InUseIsOwed`** needs three strengthenings.  `FreshUncharged`: a request that has not
reached its debit owes nothing and has no pod, or else a debit would add GPUs and
no debtor.  `NilIsEmpty`: a nil in-use map stands for zeros, or else the release
that skips a nil map would lose a credit.  `TypeOK`, for the sums.  A credit takes
one debtor away (`OneDebtorLess`) and clamps the column below what is left
(`CreditKeeps`); the second credit of a job finds no debtor to take away, and
leaves a column that is smaller still.

**`RefusalChargesNothing`** follows from `AllocateColumns` and `InitMapsOffers`: the
initialisation that a refused debit keeps offers exactly what the nil map stood for.

**`NothingIsForgotten`** is about the order of the steps.  `PoolIsWhole` says that what a
provider offers and what jobs owe add up to at least what it registered with.  A debit moves
GPUs from one to the other, a credit adds what it is told to.  The pool shrinks if a credit
is the first to touch a nil available map, because it fills the map with one job's
GPUs; `TouchedIsOpen` excludes that: whoever can be released has been debited, in
this process, and the debit has made the map.  It breaks at a restart or a second
registration, and the property is stated up to there (`Calm`).

**While pods stay** (`PodsStay`: no job has ended or expired, no deletion was asked for, no
service failed).  Then no event is ever sent and nothing is swept (`Quiet`), and `QuietNext` lists the
few steps that are left.  `FailedRequestsOweNothing` follows from `Quiet` and
`ChargesAreTraceable`: an uncredited job without a pod must be a request that is still to be
rolled back.  `Malformed = {}` is needed, since a panic in `MustParse` is not rolled back.

**`NoDoubleBooking` and `TotalIsConserved`** go through crashes, recoveries, refusals, failed pods and
rollbacks, any number of them.  They are no theorems of `Spec`: a job credited twice, a
registration that forgets the running pods, a row that was not saved and a recovery
without its listing break them (section 6).  `Undisturbed` excludes exactly that, and
TLC's run `Restart` has the same bounds.  `BooksAgree` is the heart: the table and
the map know the same providers while the process runs, and each running pod and each request past its
debit is charged, at a provider whose maps exist.  `Roomy` adds that offer and
charges fit the machine, and that what the pods hold does; it is inductive because a crash forgets both
and the recovery books what the pods hold.  `Balanced` turns `<=` into the equation,
with *in use* equal to what is owed.

The hypotheses are about machines.  `SharesWhatItHas`: an agent does not share more
GPUs than its machine lists; the registration carries both numbers and nobody
compares them, so without it a machine can be overbooked.  `OneModelShared`: with several
models, a reserve or a partial share, the pool of the shared model is by intention not the
machine's total.  The machines of `Restart` meet both.

**`RefinesLease`.**  `OfferIsWhatIsLeft` derives from `Balanced` and `BooksAgree` that what is on offer, or what
the recovery of a process that is down will offer, is the stock of a machine less what
jobs hold and tenants have.  Since `free` follows from the other three variables of `Lease` in every state,
`LeaseMoves` can say what a step amounts to by these alone, and `LeaseStep` goes through the steps that
`QuietNext` leaves: a registration lists, an accepted debit holds, a pod moves in, a rollback and a
crash give up what is held (`BooksAgree`: who has a pod is charged, so the recovery finds exactly the
tenants), everything else stutters.  That a debit finds room is `DebitPool` and the type of the column
it leaves.

**Mining.**  `MiningTypeOK` is not inductive: `Deploy` subtracts from a column that the
map's initialisation has just filled, and a nil map with something left in its mining column would
not be refused.  `Untouched` says that a nil map has empty columns; it holds because an entry becomes nil only by being loaded anew.
`MinesFairly` gathers what a mining step may do to the ledger (`Takes` or `Gives`, for each GPU type),
one lemma per operation shows it, and the three mining theorems follow, for whole and partial shares alike:
what a deployment finds after its initialisations (`PrepareColumns`) is the column it met, or, if that
read zero or was nil, the GPUs of the machine.
`RentalsKeepTheirBooks` reuses the lemmas of the rentals: a mining step leaves *in use*
and what jobs owe alone, so `InUseIsOwed` and `ChargesAreTraceable` hold of both
together, not only of the rentals by themselves.

**The contract.**  `VaultTypeOK` is inductive; `SettleBooks` and `PaymentBooks` state
once what a settlement and a signed payment do to deposits, balance and gifts, also
when the payee or the fee recipient is the contract itself.  `EscrowStep` maps every
action to one step of the escrow or a stutter; `Solvent` is then an invariant of
the escrow's steps alone (`EscrowKeepsSolvent`).  `ExposureIsBounded` is not inductive:
nothing in it stops a key from spending beyond its entry.  `Granted` adds what all
entries of a wallet still allow (`drawn + left <= delegated`), and `WithinEntry`
that no entry is overspent; `LeftAfter` computes how one changed entry changes the
sum.

**Registration.**  The types alone are not inductive: an acknowledgement takes one
from `pending`, which is a natural number only because every entry in hand is
pending.  `InHandIsPending` says so, and `CountTail` what taking the first entry off
the batch does to the count.  `LiveAgentsAreKnown` is about an agent at the far end of
two streams, so it needs what is true all along the way: `Sound` says that an answer
on its way, a request that is about to be answered and a live agent each
have the row, and that whoever has a row, or is about to be written one, is in
the map while the process runs.  It
holds as long as the database has not failed; failures are counted and the count never
falls, which is the other half of the property.

**The session** (`SessionProofs`).  `SessionMove` lists what a tab can do with its session;
`ConsoleMoves` and `CheckoutMoves` show that every step of the two pages does nothing else, so
the one proof of `SessionInv` serves both.  `OwnToken` needs `StoredPair`: a user that can be read from the storage
lies beside his own token, or else `Restore` would pair a user with a foreign one.

**The console.**  `OwnJobsOnly` is about a list whose requests were sent long before.
`OwnAnswers` follows them: as long as a user is shown, every request for the list that will be called back carries
his token, and every answer holds his jobs only.  `LoadingShowsNothing` covers the
moment in which nobody is shown yet and a page is mounted already.  `EnterKeeps` and `AskingKeeps` say once
what a mount and a new request for the list do to all of it, `TakenKeeps` what an answer does.

**The checkout.**  `WalletInv` adds that an account that was read and not yet shown is the open one unless
`overtaken`.  `OrderInv` carries five facts.  `InSession`: while a request is still to be sent the tab has read the storage
and `client = shown`, so a token left over from a user that does not parse is gone by then.  And of each order: it
has a job only in the stages after the server booked one (`Accountable`), its payer, if it still has one, is the user
shown until it is sent, and it is sent with the token of the user shown then (`Faithful`), the chain the page waits for is the one started last (`Attended`), and the result
it shows is that order's (`Told`).  `StepSells` maps every step to a payment, a delivery or a
stutter of `Sale`, and gives `BookedForShown` on the way.

**The feed** (`BlockFeedProofs`).  The rows come out of two recursive functions, `Parsed` and `Filled`, and the
library's induction theorems cannot be instantiated.  Two lemmas take their place: `LeastMember`, that a set
of naturals that is not empty has a least member (`<` on them is well-founded), and `UpTo`, that a set
with 0 and with the successor of each of its members below *n* reaches *n*; a fact is proved by
applying them to the set of numbers for which it holds.  So
`ParsedRuns` shows that what the route parses ascends strictly, and `FilledCounted` that the stand-in
blocks of the other page, which the source adds one by one, are the run of numbers that `Table`
writes down in one line.  `PushRows` says which rows the window keeps.  `FeedInv` follows the numbers from the log to the
screen: the file is `Numbered`, every answer `Descending`, the stream shows the last of the rows
it has passed (`Streamed`), the counter of the other page is the number of its newest row (`Counted`).

Only model-checked: the nine properties under fairness (`EndedPodsAreRemoved`,
`EndedJobsAreCredited`, `DeadMinersAreReclaimed`, `EveryAgentGetsIn`, `HeartbeatsPrevail`,
`ShownJobsCatchUp`, `SubmitComesBack`, `ProcessingEnds`, `EveryBlockComesRound`), since the provers do not
reason about `ENABLED`.  Every other property of a passing run is a theorem; those with a hypothesis
(`Malformed`, `SharesWhatItHas`, `OneModelShared`, `PodsStay`, `Undisturbed`) hold where it does, and
section 6 says how the code breaks them elsewhere.

## 6. Where code and documentation disagree

Each of the three violation runs ends in a counterexample to a sentence of the
repository.

* **EndedJob**: `types.go:69-72` calls *Total = Available + InUse + Mining* the one
  invariant of the accounting.  The end of a job is credited by the MODIFIED event
  (`orchestrator_podwatch.go:118`), by the sweep (264) and by the DELETED event of the
  pod the sweep deleted (97).  *In use* is clamped, *available* grows with each.
* **Reregister**: nothing ever sets a provider to `joined` (`OnNodeJoined` has no
  caller), so a repeated registration replaces the ledger
  (`orchestrator_registration.go:106`), although lines 12-14 promise idempotence
  "without double-counting capacity".
* **MiningReset**: a pool that reads zero is taken for one not initialised
  (`orchestrator_mining.go:214`), so a start of mining on a fully rented machine
  mines on rented GPUs, although "rental demand always wins" (3-4).

Seen while modelling, present in the model, and without a run of their own:

* `DeleteJob` builds an allocation without a GPU type (`job_handler.go:419-425`), so its credit goes to
  `default` (`orchestrator_ledger.go:134-138`); the type that was charged is credited by the DELETED event, and
  lost if that falls in a watch gap, against `docs/DESIGN.md:109-110`.
* `streams.go:4-5` promises that "an unacked message is redelivered after a crash (at-least-once)".
  `ReadMessages` asks for `>` (line 105), which never returns a pending entry, and nothing claims one.
  What saves the system is the agent's retry (`EveryAgentGetsIn`).
* `CreateGPUJob` deletes the pod of a failed service and `CreateJob` rolls back: with
  the DELETED event the job is credited twice.
* `DeployMiningForProvider` fills a nil map with all GPUs of the machine
  (`orchestrator_mining.go:196-206`), a rental with the shared count.  For an agent
  that shares one of its two GPUs, mining takes a GPU that was never on offer.  `MiningTakesFreeGPUs`
  names this state and the pool that reads zero as the two exceptions, and `MiningTakes` proves that there is no third.
* After a reboot a provider without running pods has a nil available map; the
  first credit of an ended pod creates it with that job's GPUs only, and the
  machine's others are lost until the next registration.
* `Start` logs an error of `RecoverJobAllocations` and serves with everything free
  (`orchestrator.go:122`), against "cannot leak or double-book" (`docs/DESIGN.md:80-81`).
* A pod that is terminating at boot is charged by the recovery; gone before the
  watch starts, it is never credited.
* Empty CPU and memory fields are charged as 4 cores and 16 GB
  (`job_handler.go:241-254`) while the pod gets, and is credited for, 2 and 8Gi
  (`manager.go:154-158`).
* A quantity that `Sscanf` accepts and `MustParse` does not ends `CreateJob` in a panic
  after the debit (`manager.go:275`); the rollback is skipped.
* `ListAll` asks for 1000 rows and gets 100 (`repository.go:235-239`, 257), so a boot
  forgets the rest of a larger fleet.  A provider whose row was not saved is
  forgotten by any restart.
* The mining reserve of an SDK host is deducted by the SDK
  (`bootstrap.go:341-350`) and again by the deployment (`orchestrator_mining.go:234`).
* `RecoverMiningStates` restores the pod's name, not its GPUs (`orchestrator_mining.go:398`), and
  not even the name where the pod cannot be looked up (`orchestrator_mining.go:387-393`; `Boot` chooses which are found).
* A server whose Redis cannot be reached at its start serves without an orchestrator, and one whose heartbeat consumer
  cannot be created without heartbeats, until somebody restarts it: the liveness properties of `Registration` say so.
* GPUs moved to mining by a resize of a provider without a mining pod name are
  skipped by the monitor (`orchestrator_mining.go:324`).
* Since no provider is ever *joined*, the stale check, which marks only those as
  offline, never marks any (`orchestrator_registration.go:8-9`, 313).
* A host whose service starts with `--daemon-only` and that the control plane does not
  know (a row that was not saved, a restart) beats for ever and is never told: a
  heartbeat of an unknown provider changes nothing.
* The answer to a first registration is lost if it is faster than the agent's
  group (`bootstrap.go`: publish, then `CreateConsumerGroup`); the agent gives up after
  60 seconds although it is registered.
* What `startRentalWithSessionKey` costs is not counted against the key's limit:
  `ExposureIsBounded` is about signed payments.  A rental whose cost has outgrown its
  renter's deposit, or whose provider is the zero address, cannot be ended.
* On an SDK host whose rented-out cores reach zero the lazy initialisation runs again and also hands
  out the fifth of the machine its owner keeps (`orchestrator_ledger.go:79`).

In the frontend:

* The server of the commit authenticates with `DevAuthMiddleware` (`server.go:105-109`), which takes the user from a header the
  frontend does not send, and has no route for `/auth/google`; the models take `AuthMiddleware`, which
  the login is written for.  With the former every caller is the same user.
* "Connect MetaMask to proceed with payment" (`checkout/page.tsx:198`): a wallet that disconnects
  afterwards does not stop a payment, which is a mock.
* The create page estimates with the provider's price, the checkout page charges 1.20 per hour and
  five percent (`checkout/page.tsx:42-46`).
* `canCreateJob` looks at the first provider of a type only, and the server lists providers in the random order of
  a map, so the button comes and goes while another provider has GPUs; `SubmitComesBack`
  therefore asks that all of them have.
* The deploy page shows the registered capacity as available, and the create page ignores what
  it puts into the address.
* A retry after a lost answer pays and orders again: two jobs, one per payment (`RefinesSale` allows
  it).
* `accountsChanged` takes the address and leaves the balance; a connect that is overtaken by it ends with
  the account it found first, also when the wallet has disconnected by then.
* A confirmed payment goes on after a logout or another login in the tab: the job is created for
  whoever is logged in at that moment, or refused after it was paid for.  Two chains can run side by side.
* An older answer to a poll may replace a newer one until the next poll; a deleted job
  is listed during its grace period.
* After a Google login answered late the page of another user may stay on the screen until the redirect.

## 7. What is not modelled, and what the models abstract

Not modelled, and why: see the components with status `not_modelled` in
`PROJECT.json`.  The wallet sessions are complete but nothing constructs them, so the server has no such state; the SDK's mining
controller drives its own machine and reports nothing; a graceful stop saves nothing that a crash
loses; the pages that are left out are static or redirect, and the components that are left out are effects or unused.  The rest is input and
output, stateless checks or generated code.  That a held lock delays others
(`syncMiningPodStates` calls Kubernetes under the ledger's lock) is out of reach of a model without time.

Abstractions of the ledger models:

* A job is one request and at most one pod; ids do not collide.  Names, prices,
  images, storage and logs are left out.  Amounts are naturals.
* The unlocked reads of `CreateJob` are taken as of one moment.  (In Go they race
  with writes to the same map, which may end the process: a crash, which may
  happen at any step.)
* The token generation before the provider lookup of a registration is folded into one step;
  every machine lists at least one GPU model.
* The errors of service deletions and of `Delete` on absent pods are ignored as in
  the code; a terminal MODIFIED event is sent once; a pod that was being created when the
  process crashed is not created later.
* A mining pod is running from its creation (`pending` is not told apart); several
  resize goroutines of one provider count as one; mining pods change the CPU and
  memory columns only as the code does, that is hardly (*mining*, not *available*).
* A provider without a wallet address reserves GPUs and never mines; the model's SDK
  host has one.
* Time passes by events: a job expires when it does, a worker ticks when it can.

Abstractions of `Registration`: `MaxUnread` bounds the requests nobody has read, as an
agent that retries against a control plane that is down would fill the stream; one
undelivered heartbeat of a provider stands for any number.  The database is configured.  The branches
with and without a join token, and the messages that do not parse, are left out:
the former write the same statuses, and agents do not send the latter.  Errors of
a read are left out: both loops pause and read again.  An agent that cannot publish, create its
group or read exits, which is `StopAgent`.  What a registration
does to the ledger is in the other two modules.

Abstractions of the contract: `uint256` is a natural number (the checked arithmetic
of Solidity reverts on overflow); allowances, job ids, events, the list
`userSessionKeys` and the views are left out; a signature is the message itself,
signed for the nonce its signer read.

Abstractions of the frontend: a token stands for the user it was issued to, and a user whose token
the server rejects for all reasons to reject one.  Error texts, prices, the configuration of a
job, balance and chain id are passed on and left out.  A request that was cut off by a page load is
served or not; equal requests of one page that nobody has answered yet are one.  React's batching is
taken as the code reads: the statements up to an await are one step, and an effect runs with the change it
depends on.  What a page shows matters where a button or a property depends on it: the operators
`Visible`, `Listed`, `TypeButtons`, `SubmitEnabled`, `Rentable`, `ConnectOffered`, `ReviewShown` and so on stand for the markup.
A block is its sequence number; hashes, timestamps and random delays are left out.
