---------------------------- MODULE Registration ----------------------------
(***************************************************************************)
(* How a provider gets in and stays in: messaging/streams.go, the workers  *)
(* of orchestrator_registration.go and the agents at the other end         *)
(* (sdk/bootstrap.go, sdk/daemon.go, cmd/provider-agent).                  *)
(*                                                                         *)
(* A consumer group reads a stream from where the stream ended when the    *)
(* group was created ("$") and asks for new entries only (">"): an entry   *)
(* added before the group exists is never read, and neither is one that    *)
(* was delivered to a process that died before the acknowledgement.        *)
(*                                                                         *)
(* Nothing calls OnNodeJoined, so no provider is ever Joined: that branch  *)
(* of handleRegistration and the stale check, which looks at Joined        *)
(* providers only, do nothing, and are left out.                           *)
(***************************************************************************)
EXTENDS Integers, Sequences, FiniteSets

CONSTANTS
  Provider,
  BatchSize,  \* entries a read returns at most (10)
  MaxUnread,  \* bound: requests in the stream that nobody has read
  Bound       \* [Event -> Nat]: how often each event may happen

Event == {"crash", "stop", "dbFails", "redisFails"}

ASSUME RegistrationAssumption ==
  /\ BatchSize \in Nat \ {0} /\ MaxUnread \in Nat
  /\ Bound \in [Event -> Nat]

\* The status of a provider in a table: "none" has no entry or row.
Status == {"none", "approved", "available"}

Stream == {"registration", "heartbeat"}

VARIABLES
  up,        \* the control plane runs, with its orchestrator
  bare,      \* or it serves without one, which could not be started
  groups,    \* the streams whose consumer group exists
  monitor,   \* heartbeatMonitor: "starting", "reads", or "gone" for good
  unread,    \* provider:registration, the entries not yet delivered
  pending,   \* per provider, the entries delivered and not acknowledged
  batch,     \* the entries registrationWorker has in hand
  step,      \* how far it is with the first of them
  cache,     \* Orchestrator.providers, the statuses
  row,       \* the providers table, the statuses
  beats,     \* providers with an undelivered entry in provider:heartbeat
  beating,   \* providers whose heartbeat heartbeatMonitor has in hand
  saving,    \* the one whose row it is about to write
  phase,     \* the agents
  opened,    \* agents whose response group exists
  answers,   \* undelivered entries of the response streams
  spent

server == <<up, bare, groups, monitor>>
requests == <<unread, pending, batch, step>>
statuses == <<cache, row>>
heartbeats == <<beats, beating, saving>>
agents == <<phase, opened, answers>>
vars == <<server, requests, statuses, heartbeats, agents, spent>>

Spend(e) ==
  /\ spent[e] < Bound[e]
  /\ spent' = [spent EXCEPT ![e] = @ + 1]

\* Fine, or the event e and no more than its bound.
Or(ok, fails, e) == \/ ok /\ UNCHANGED spent
                    \/ fails /\ Spend(e)

GoTo(p, a, b) == /\ phase[p] = a
                 /\ phase' = [phase EXCEPT ![p] = b]

-----------------------------------------------------------------------------
(* The agents *)

\* The registration request; an agent that exits is started again.
Publish(p) ==
  /\ GoTo(p, "off", "sent")
  /\ Len(unread) < MaxUnread
  /\ unread' = IF "registration" \in groups THEN Append(unread, p) ELSE unread
  /\ UNCHANGED <<server, pending, batch, step, statuses, heartbeats, opened,
                 answers, spent>>

\* Mutant: a new group for every start, which begins at the end.
OpenAfresh(p) ==
  /\ GoTo(p, "sent", "waiting")
  /\ opened' = opened \cup {p}
  /\ answers' = [answers EXCEPT ![p] = 0]
  /\ UNCHANGED <<server, requests, statuses, heartbeats, spent>>

\* Only then the group on the response stream, at its end if it is new.
OpenGroup(p) ==
  /\ GoTo(p, "sent", "waiting")
  /\ opened' = opened \cup {p}
  /\ UNCHANGED <<server, requests, statuses, heartbeats, answers, spent>>

\* Mutant: a read that returns no entry is taken for an answer.
ReadAnything(p) ==
  /\ GoTo(p, "waiting", "live")
  /\ answers' = [answers EXCEPT ![p] = @ - 1]
  /\ UNCHANGED <<server, requests, statuses, heartbeats, opened, spent>>

\* Whatever answer comes first: every one of them is a success.
ReadAnswer(p) ==
  /\ GoTo(p, "waiting", "live")
  /\ answers[p] > 0
  /\ answers' = [answers EXCEPT ![p] = @ - 1]
  /\ UNCHANGED <<server, requests, statuses, heartbeats, opened, spent>>

\* 60 seconds without one: the agent exits.
Timeout(p) ==
  /\ GoTo(p, "waiting", "off")
  /\ answers[p] = 0
  /\ UNCHANGED <<server, requests, statuses, heartbeats, opened, answers, spent>>

StopAgent(p) ==
  /\ phase[p] # "off"
  /\ Spend("stop")
  /\ phase' = [phase EXCEPT ![p] = "off"]
  /\ UNCHANGED <<server, requests, statuses, heartbeats, opened, answers>>

\* --daemon-only, what the installed service runs: no registration.  If Redis
\* cannot be reached at that moment heartbeatLoop returns, and the daemon goes
\* on without a heartbeat; after a registration the client is there already.
StartDaemon(p) ==
  /\ Or(GoTo(p, "off", "daemon"), GoTo(p, "off", "mute"), "redisFails")
  /\ UNCHANGED <<server, requests, statuses, heartbeats, opened, answers>>

Beats(p) == phase[p] \in {"live", "daemon"}
Serving(p) == Beats(p) \/ phase[p] = "mute"

\* A heartbeat.  One undelivered heartbeat of an agent stands for any number.
Beat(p) ==
  /\ Beats(p) /\ "heartbeat" \in groups
  /\ p \notin beats
  /\ beats' = beats \cup {p}
  /\ UNCHANGED <<server, requests, statuses, beating, saving, agents, spent>>

-----------------------------------------------------------------------------
(* registrationWorker *)

Count(s, p) == Cardinality({i \in DOMAIN s : s[i] = p})

ReadRequests ==
  /\ up /\ batch = <<>> /\ unread # <<>>
  /\ LET n == IF Len(unread) < BatchSize THEN Len(unread) ELSE BatchSize
     IN /\ batch' = SubSeq(unread, 1, n)
        /\ unread' = SubSeq(unread, n + 1, Len(unread))
  /\ pending' = [p \in Provider |-> pending[p] + Count(batch', p)]
  /\ UNCHANGED <<server, step, statuses, heartbeats, agents, spent>>

At(s) == up /\ batch # <<>> /\ step = s

\* Mutant: the agent is answered before its row is written.
AnswerFirst ==
  /\ At("approve")
  /\ cache' = [cache EXCEPT ![Head(batch)] = "approved"]
  /\ answers' = IF Head(batch) \in opened
                THEN [answers EXCEPT ![Head(batch)] = @ + 1]
                ELSE answers
  /\ step' = "save"
  /\ UNCHANGED <<server, unread, pending, batch, row, heartbeats, phase, opened,
                 spent>>

\* handleRegistration puts a fresh, approved ProviderState into the map, with
\* or without a join token.
Approve ==
  /\ At("approve")
  /\ cache' = [cache EXCEPT ![Head(batch)] = "approved"]
  /\ step' = "save"
  /\ UNCHANGED <<server, unread, pending, batch, row, heartbeats, agents, spent>>

\* repo.Create, an upsert, reads the status off the shared ProviderState: a
\* heartbeat that came in between may show or not.  An error is only logged.
Save ==
  /\ At("save")
  /\ \E s \in {"approved", cache[Head(batch)]} :
       Or(row' = [row EXCEPT ![Head(batch)] = s], UNCHANGED row, "dbFails")
  /\ step' = "answer"
  /\ UNCHANGED <<server, unread, pending, batch, cache, heartbeats, agents>>

\* The answer; nobody will read it if the agent's group does not exist yet.
Answer ==
  /\ At("answer")
  /\ Or(answers' = IF Head(batch) \in opened
                   THEN [answers EXCEPT ![Head(batch)] = @ + 1]
                   ELSE answers,
        UNCHANGED answers, "redisFails")
  /\ step' = "ack"
  /\ UNCHANGED <<server, unread, pending, batch, statuses, heartbeats, phase,
                 opened>>

Ack ==
  /\ At("ack")
  /\ Or(pending' = [pending EXCEPT ![Head(batch)] = @ - 1],
        UNCHANGED pending, "redisFails")
  /\ batch' = Tail(batch)
  /\ step' = "approve"
  /\ UNCHANGED <<server, unread, statuses, heartbeats, agents>>

-----------------------------------------------------------------------------
(* heartbeatMonitor *)

\* NewConsumer creates the group unless it exists.  When it fails -- the group
\* may be there for all that -- the goroutine returns, and nothing starts it
\* again before the next process.
OpenMonitor ==
  /\ up /\ monitor = "starting"
  /\ groups' \in {groups, groups \cup {"heartbeat"}}
  /\ Or(monitor' = "reads" /\ "heartbeat" \in groups', monitor' = "gone",
        "redisFails")
  /\ UNCHANGED <<up, bare, requests, statuses, heartbeats, agents>>

ReadBeats ==
  /\ monitor = "reads" /\ beating = {} /\ saving = {} /\ beats # {}
  /\ beating' = beats
  /\ beats' = {}
  /\ UNCHANGED <<server, requests, statuses, saving, agents, spent>>

\* Mutant: the row is left alone when the map says available already.
HandleNews ==
  /\ up /\ saving = {}
  /\ \E p \in beating :
       /\ cache' = IF cache[p] = "none" THEN cache
                   ELSE [cache EXCEPT ![p] = "available"]
       /\ beating' = beating \ {p}
       /\ saving' = IF cache[p] = "available" THEN {} ELSE {p}
  /\ UNCHANGED <<server, requests, row, beats, agents, spent>>

\* The heartbeat of a provider that is not in the map changes nothing there.
HandleBeat ==
  /\ up /\ saving = {}
  /\ \E p \in beating :
       /\ cache' = IF cache[p] = "none" THEN cache
                   ELSE [cache EXCEPT ![p] = "available"]
       /\ beating' = beating \ {p}
       /\ saving' = {p}
  /\ UNCHANGED <<server, requests, row, beats, agents, spent>>

\* repo.UpdateHeartbeat, outside the lock.
SaveBeat ==
  /\ up
  /\ \E p \in saving :
       Or(row' = IF row[p] = "none" THEN row
                 ELSE [row EXCEPT ![p] = "available"],
          UNCHANGED row, "dbFails")
  /\ saving' = {}
  /\ UNCHANGED <<server, requests, cache, beats, beating, agents>>

-----------------------------------------------------------------------------
(* The control plane *)

\* What was delivered and not acknowledged stays with the group.
Crash ==
  /\ up \/ bare
  /\ Spend("crash")
  /\ up' = FALSE /\ bare' = FALSE /\ monitor' = "starting"
  /\ cache' = [p \in Provider |-> "none"]
  /\ batch' = <<>> /\ step' = "approve"
  /\ beating' = {} /\ saving' = {}
  /\ UNCHANGED <<groups, unread, pending, row, beats, agents>>

\* NewOrchestrator and Start: the group, if this is the first time, and the
\* rows of the table, if it can be read.
Boot ==
  /\ ~ up /\ ~ bare
  /\ up' = TRUE
  /\ groups' = groups \cup {"registration"}
  /\ Or(cache' = row, UNCHANGED cache, "dbFails")
  /\ UNCHANGED <<bare, monitor, requests, row, heartbeats, agents>>

\* Without Redis, or without the group, startOrchestrator fails with a warning
\* and the process serves the rest until it is stopped.
BootBare ==
  /\ ~ up /\ ~ bare
  /\ Spend("redisFails")
  /\ bare' = TRUE
  /\ groups' \in {groups, groups \cup {"registration"}}
  /\ UNCHANGED <<up, monitor, requests, statuses, heartbeats, agents>>

Init ==
  /\ up = FALSE /\ bare = FALSE /\ groups = {} /\ monitor = "starting"
  /\ unread = <<>> /\ batch = <<>> /\ step = "approve"
  /\ pending = [p \in Provider |-> 0]
  /\ cache = [p \in Provider |-> "none"] /\ row = [p \in Provider |-> "none"]
  /\ beats = {} /\ beating = {} /\ saving = {}
  /\ phase = [p \in Provider |-> "off"]
  /\ opened = {}
  /\ answers = [p \in Provider |-> 0]
  /\ spent = [e \in Event |-> 0]

AgentStep(p) ==
  Publish(p) \/ OpenGroup(p) \/ ReadAnswer(p) \/ Timeout(p)

WorkerStep == ReadRequests \/ Approve \/ Save \/ Answer \/ Ack
MonitorStep == OpenMonitor \/ ReadBeats \/ HandleBeat \/ SaveBeat

Next ==
  \/ \E p \in Provider : AgentStep(p) \/ Beat(p) \/ StopAgent(p) \/ StartDaemon(p)
  \/ WorkerStep \/ MonitorStep
  \/ Crash \/ Boot \/ BootBare

Spec == Init /\ [][Next]_vars

\* registrationWorker runs on and heartbeatMonitor until it returns, an agent
\* runs on, is started again and, unless its loop has returned, beats on its
\* ticker, and a control plane that died is started again.  A bare one is not.
FairSpec ==
  /\ Spec
  /\ WF_vars(WorkerStep) /\ WF_vars(MonitorStep) /\ WF_vars(Boot \/ BootBare)
  /\ \A p \in Provider : WF_vars(AgentStep(p)) /\ WF_vars(Beat(p))

-----------------------------------------------------------------------------
(* Properties *)

RegistrationTypeOK ==
  /\ up \in BOOLEAN /\ bare \in BOOLEAN /\ groups \subseteq Stream
  /\ monitor \in {"starting", "reads", "gone"}
  /\ unread \in Seq(Provider) /\ batch \in Seq(Provider)
  /\ step \in {"approve", "save", "answer", "ack"}
  /\ pending \in [Provider -> Nat] /\ answers \in [Provider -> Nat]
  /\ cache \in [Provider -> Status] /\ row \in [Provider -> Status]
  /\ beats \subseteq Provider /\ beating \subseteq Provider
  /\ saving \subseteq Provider
  /\ phase \in [Provider -> {"off", "sent", "waiting", "live", "daemon", "mute"}]
  /\ opened \subseteq Provider
  /\ spent \in [Event -> Nat]

\* An agent that was told it is registered is: it has a row, and an entry in
\* the map of whatever process runs now -- even if the answer it read was the
\* one to an earlier attempt, and whatever crashed since.  Only an error of the
\* database, which handleRegistration and Start ignore, may break that.
LiveAgentsAreKnown ==
  \A p \in Provider :
    phase[p] = "live" =>
      \/ row[p] # "none" /\ (up => cache[p] # "none")
      \/ spent["dbFails"] > 0

\* An agent that is started again whenever it gives up, each time with the
\* same --provider-id, gets in, although its first answer may come before it
\* listens, a crash may swallow its request, and publishing the answer may
\* fail -- as long as the control plane has its orchestrator time and again.
EveryAgentGetsIn ==
  []<>up => \A p \in Provider : phase[p] = "off" ~> Serving(p)

\* A heartbeat has the last word on the status: while heartbeatMonitor reads
\* and the agent of a known provider goes on beating, a late second
\* registration that sets it back to approved does not stay, in the map or in
\* the table.  Both loops may have returned for good, whence the condition.
HeartbeatsPrevail ==
  \A p \in Provider :
    <>[](Beats(p) /\ monitor = "reads" /\ cache[p] # "none" /\ row[p] # "none")
      => <>[](cache[p] = "available" /\ row[p] = "available")
=============================================================================
