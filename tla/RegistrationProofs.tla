------------------------- MODULE RegistrationProofs -------------------------
(***************************************************************************)
(* Theorems about Registration, for any providers, batch size, queue bound *)
(* and number of crashes, stops and errors.                                *)
(***************************************************************************)
EXTENDS Registration, FiniteSetTheorems, TLAPS

-----------------------------------------------------------------------------
(* Counting the entries of a batch *)

LEMMA CountType ==
  ASSUME NEW s \in Seq(Provider), NEW p
  PROVE  /\ IsFiniteSet({i \in DOMAIN s : s[i] = p})
         /\ Count(s, p) \in Nat
<1>1. DOMAIN s = 1 .. Len(s) /\ Len(s) \in Nat
  OBVIOUS
<1>2. IsFiniteSet(1 .. Len(s))
  BY <1>1, FS_Interval
<1>3. {i \in DOMAIN s : s[i] = p} \in SUBSET (1 .. Len(s))
  BY <1>1
<1> QED
  BY <1>2, <1>3, FS_Subset, FS_CardinalityType DEF Count

\* Taking the first entry away takes one from the count of its provider.
LEMMA CountTail ==
  ASSUME NEW s \in Seq(Provider), s # <<>>, NEW p
  PROVE  Count(Tail(s), p) <= Count(s, p) - (IF Head(s) = p THEN 1 ELSE 0)
<1> DEFINE S == {i \in DOMAIN s : s[i] = p}
           T == {i \in DOMAIN Tail(s) : Tail(s)[i] = p}
           f == [i \in T |-> i + 1]
<1>1. /\ Len(s) \in Nat /\ Len(s) # 0 /\ DOMAIN s = 1 .. Len(s)
      /\ Tail(s) \in Seq(Provider) /\ DOMAIN Tail(s) = 1 .. (Len(s) - 1)
      /\ \A i \in 1 .. (Len(s) - 1) : Tail(s)[i] = s[i + 1]
      /\ Head(s) = s[1]
  OBVIOUS
<1>2. IsFiniteSet(S) /\ Cardinality(S) \in Nat
  BY CountType DEF Count
<1>3. /\ IsFiniteSet(S \ {1})
      /\ Cardinality(S \ {1})
           = Cardinality(S) - (IF Head(s) = p THEN 1 ELSE 0)
  <2>1. 1 \in S <=> Head(s) = p
    BY <1>1
  <2> HIDE DEF S
  <2> QED
    BY <1>2, <2>1, FS_RemoveElement
<1>4. f \in Injection(T, S \ {1})
  <2>1. \A i \in T : i \in Int /\ i + 1 \in S \ {1}
    BY <1>1
  <2>2. f \in [T -> S \ {1}]
    BY <2>1
  <2>3. \A i, k \in T : f[i] = f[k] => i = k
    BY <2>1
  <2> HIDE DEF f
  <2> QED
    BY <2>2, <2>3 DEF Injection, IsInjective
<1>5. Cardinality(T) <= Cardinality(S \ {1})
  <2> HIDE DEF S, T, f
  <2> QED
    BY <1>3, <1>4, FS_Injection
<1> QED
  BY <1>3, <1>5 DEF Count

-----------------------------------------------------------------------------
(* Type correctness *)

\* An entry the worker has in hand is still pending: acknowledging it never
\* takes a count below zero.
InHandIsPending == \A p \in Provider : Count(batch, p) <= pending[p]

TInv == RegistrationTypeOK /\ InHandIsPending

LEMMA TypesInit == Init => TInv
<1> SUFFICES ASSUME Init PROVE TInv
  OBVIOUS
<1>1. RegistrationTypeOK
  <2>1. unread \in Seq(Provider) /\ batch \in Seq(Provider)
    BY DEF Init
  <2>2. spent \in [Event -> Nat]
    BY DEF Init
  <2> QED
    BY <2>1, <2>2 DEF Init, RegistrationTypeOK, Status
<1>2. InHandIsPending
  <2> SUFFICES ASSUME NEW p \in Provider PROVE Count(<<>>, p) = 0
    BY DEF Init, InHandIsPending
  <2>1. {i \in DOMAIN <<>> : <<>>[i] = p} = {}
    OBVIOUS
  <2> QED
    BY <2>1, FS_EmptySet DEF Count
<1> QED
  BY <1>1, <1>2 DEF TInv

LEMMA SpendType ==
  ASSUME spent \in [Event -> Nat], NEW e \in Event, Spend(e)
  PROVE  spent' \in [Event -> Nat]
BY DEF Spend

LEMMA TypesNext == TInv /\ [Next]_vars => TInv'
<1> SUFFICES ASSUME TInv, [Next]_vars PROVE TInv'
  OBVIOUS
<1> USE DEF TInv, RegistrationTypeOK
<1> DEFINE Kept == UNCHANGED <<batch, pending>>
<1>k. ASSUME Kept PROVE InHandIsPending'
  BY <1>k DEF InHandIsPending, Count
<1>1. ASSUME NEW p \in Provider, Publish(p) PROVE TInv'
  <2>1. unread' \in Seq(Provider)
    BY <1>1 DEF Publish
  <2> QED
    BY <1>1, <1>k, <2>1 DEF Publish, GoTo, server, statuses, heartbeats
<1>2. ASSUME NEW p \in Provider, OpenGroup(p) PROVE TInv'
  BY <1>2, <1>k DEF OpenGroup, GoTo, server, requests, statuses, heartbeats
<1>3. ASSUME NEW p \in Provider, ReadAnswer(p) PROVE TInv'
  BY <1>3, <1>k DEF ReadAnswer, GoTo, server, requests, statuses, heartbeats
<1>4. ASSUME NEW p \in Provider, Timeout(p) PROVE TInv'
  BY <1>4, <1>k DEF Timeout, GoTo, server, requests, statuses, heartbeats
<1>5. ASSUME NEW p \in Provider, StopAgent(p) PROVE TInv'
  BY <1>5, <1>k, SpendType
     DEF Event, StopAgent, server, requests, statuses, heartbeats
<1>6. ASSUME NEW p \in Provider, StartDaemon(p) PROVE TInv'
  <2>1. spent' \in [Event -> Nat]
    BY <1>6, SpendType DEF Event, StartDaemon, Or
  <2>2. phase' \in [Provider -> {"off", "sent", "waiting", "live", "daemon", "mute"}]
    BY <1>6 DEF StartDaemon, Or, GoTo
  <2> QED
    BY <1>6, <1>k, <2>1, <2>2 DEF StartDaemon, server, requests, statuses, heartbeats
<1>7. ASSUME NEW p \in Provider, Beat(p) PROVE TInv'
  BY <1>7, <1>k DEF Beat, server, requests, statuses, agents
<1>8. ASSUME ReadRequests PROVE TInv'
  <2> DEFINE n == IF Len(unread) < BatchSize THEN Len(unread) ELSE BatchSize
  <2>1. n \in Nat /\ n <= Len(unread)
    BY RegistrationAssumption
  <2>2. /\ batch' = SubSeq(unread, 1, n)
        /\ unread' = SubSeq(unread, n + 1, Len(unread))
        /\ pending' = [p \in Provider |-> pending[p] + Count(batch', p)]
    BY <1>8 DEF ReadRequests
  <2> HIDE DEF n
  <2>3. batch' \in Seq(Provider) /\ unread' \in Seq(Provider)
    BY <2>1, <2>2
  <2>4. \A p \in Provider : Count(batch', p) \in Nat
    BY <2>3, CountType
  <2>5. pending' \in [Provider -> Nat]
    BY <2>2, <2>4
  <2>6. InHandIsPending'
    <3> SUFFICES ASSUME NEW p \in Provider PROVE Count(batch', p) <= pending'[p]
      BY DEF InHandIsPending, Count
    <3> QED
      BY <2>2, <2>4
  <2> QED
    BY <1>8, <2>3, <2>5, <2>6
       DEF ReadRequests, server, statuses, heartbeats, agents
<1>9. ASSUME Approve PROVE TInv'
  BY <1>9, <1>k DEF Approve, At, Status, server, heartbeats, agents
<1>10. ASSUME Save PROVE TInv'
  <2>1. Head(batch) \in Provider
    BY <1>10 DEF Save, At
  <2>2. row' \in [Provider -> Status] /\ spent' \in [Event -> Nat]
    BY <1>10, <2>1, SpendType DEF Event, Save, Or, Status
  <2> QED
    BY <1>10, <1>k, <2>2 DEF Save, At, server, heartbeats, agents
<1>11. ASSUME Answer PROVE TInv'
  <2>1. Head(batch) \in Provider
    BY <1>11 DEF Answer, At
  <2>2. spent' \in [Event -> Nat]
    BY <1>11, SpendType DEF Event, Answer, Or
  <2>3. \/ answers' = answers
        \/ answers' = [answers EXCEPT ![Head(batch)] = @ + 1]
    BY <1>11 DEF Answer, Or
  <2>4. \A h \in Provider : [answers EXCEPT ![h] = @ + 1] \in [Provider -> Nat]
    OBVIOUS
  <2>5. answers' \in [Provider -> Nat]
    BY <2>1, <2>3, <2>4
  <2> QED
    BY <1>11, <1>k, <2>2, <2>5 DEF Answer, At, server, statuses, heartbeats
<1>12. ASSUME Ack PROVE TInv'
  <2>1. batch # <<>> /\ Head(batch) \in Provider /\ Tail(batch) \in Seq(Provider)
    BY <1>12 DEF Ack, At
  <2>2. batch' = Tail(batch) /\ spent' \in [Event -> Nat]
    BY <1>12, SpendType DEF Event, Ack, Or
  <2>3. ASSUME NEW p \in Provider
        PROVE  /\ Count(batch', p) \in Nat /\ Count(batch, p) \in Nat
               /\ Count(batch', p)
                    <= Count(batch, p) - (IF Head(batch) = p THEN 1 ELSE 0)
               /\ Count(batch, p) <= pending[p]
    BY <2>1, <2>2, CountType, CountTail DEF InHandIsPending
  <2>4. ASSUME NEW p \in Provider
        PROVE  /\ pending'[p] \in Nat
               /\ Count(batch', p) <= pending'[p]
    <3>1. pending'[p] \in {pending[p],
                           pending[p] - (IF Head(batch) = p THEN 1 ELSE 0)}
      BY <1>12, <2>1 DEF Ack, Or
    <3> QED
      BY <2>3, <3>1
  <2>5. pending' \in [Provider -> Nat]
    <3>1. DOMAIN pending' = Provider /\ pending' = [p \in Provider |-> pending'[p]]
      BY <1>12 DEF Ack, Or
    <3> QED
      BY <2>4, <3>1
  <2>6. InHandIsPending'
    BY <2>4 DEF InHandIsPending, Count
  <2> QED
    BY <1>12, <2>1, <2>2, <2>5, <2>6
       DEF Ack, At, server, statuses, heartbeats, agents
<1>13. ASSUME ReadBeats PROVE TInv'
  BY <1>13, <1>k DEF ReadBeats, server, requests, statuses, agents
<1>14. ASSUME HandleBeat PROVE TInv'
  BY <1>14, <1>k DEF HandleBeat, Status, server, requests, agents
<1>15. ASSUME SaveBeat PROVE TInv'
  <2>1. row' \in [Provider -> Status] /\ spent' \in [Event -> Nat]
    BY <1>15, SpendType DEF Event, SaveBeat, Or, Status
  <2> QED
    BY <1>15, <1>k, <2>1 DEF SaveBeat, server, requests, agents
<1>16. ASSUME Crash PROVE TInv'
  <2>1. batch' = <<>> /\ pending' = pending /\ spent' \in [Event -> Nat]
    BY <1>16, SpendType DEF Event, Crash
  <2>2. InHandIsPending'
    <3> SUFFICES ASSUME NEW p \in Provider PROVE Count(<<>>, p) <= pending[p]
      BY <2>1 DEF InHandIsPending, Count
    <3>1. {i \in DOMAIN <<>> : <<>>[i] = p} = {}
      OBVIOUS
    <3> QED
      BY <3>1, FS_EmptySet DEF Count
  <2>3. batch' \in Seq(Provider)
    BY <2>1
  <2>4. cache' \in [Provider -> Status]
    BY <1>16 DEF Crash, Status
  <2> QED
    BY <1>16, <2>1, <2>2, <2>3, <2>4 DEF Crash, agents
<1>17. ASSUME Boot PROVE TInv'
  <2>1. /\ cache' \in [Provider -> Status] /\ spent' \in [Event -> Nat]
        /\ groups' \subseteq Stream
    BY <1>17, SpendType DEF Event, Boot, Or, Stream
  <2> QED
    BY <1>17, <1>k, <2>1 DEF Boot, requests, heartbeats, agents
<1>18. ASSUME BootBare PROVE TInv'
  <2>1. spent' \in [Event -> Nat] /\ groups' \subseteq Stream
    BY <1>18, SpendType DEF Event, BootBare, Stream
  <2> QED
    BY <1>18, <1>k, <2>1 DEF BootBare, requests, statuses, heartbeats, agents
<1>19. ASSUME OpenMonitor PROVE TInv'
  <2>1. spent' \in [Event -> Nat] /\ groups' \subseteq Stream
    BY <1>19, SpendType DEF Event, OpenMonitor, Or, Stream
  <2>2. monitor' \in {"starting", "reads", "gone"}
    BY <1>19 DEF OpenMonitor, Or
  <2> QED
    BY <1>19, <1>k, <2>1, <2>2
       DEF OpenMonitor, requests, statuses, heartbeats, agents
<1>20. ASSUME UNCHANGED vars PROVE TInv'
  BY <1>20, <1>k
     DEF vars, server, requests, statuses, heartbeats, agents
<1> QED
  BY <1>1, <1>2, <1>3, <1>4, <1>5, <1>6, <1>7, <1>8, <1>9, <1>10, <1>11, <1>12,
     <1>13, <1>14, <1>15, <1>16, <1>17, <1>18, <1>19, <1>20
     DEF Next, AgentStep, WorkerStep, MonitorStep

\* The streams, tables and agents stay well-formed; in particular no more
\* answers are read, and no more entries acknowledged, than were delivered.
THEOREM RegistrationTypes == Spec => []RegistrationTypeOK
<1>1. TInv => RegistrationTypeOK
  BY DEF TInv
<1> QED
  BY <1>1, TypesInit, TypesNext, PTL DEF Spec

-----------------------------------------------------------------------------
(* Whoever was answered is known *)

Saved(p) == row[p] # "none"

\* While the database works: the worker answers after it wrote the map and the
\* table, an answer that waits in a stream was given so, and no row lacks its
\* entry in the map of a running process.
Sound ==
  /\ \A p \in Provider : answers[p] > 0 \/ phase[p] = "live" => Saved(p)
  /\ \A p \in Provider : up /\ Saved(p) => cache[p] # "none"
  /\ step # "approve" =>
       up /\ batch # <<>> /\ cache[Head(batch)] # "none"
  /\ step \in {"answer", "ack"} => Saved(Head(batch))

\* No step undoes an error.
LEMMA ErrorsStay ==
  ASSUME RegistrationTypeOK, [Next]_vars
  PROVE  spent'["dbFails"] = 0 => spent["dbFails"] = 0
<1> USE DEF RegistrationTypeOK
<1>1. ASSUME NEW e \in Event, Spend(e)
      PROVE  spent'["dbFails"] = 0 => spent["dbFails"] = 0
  BY <1>1 DEF Spend, Event
<1>2. \/ UNCHANGED spent
      \/ \E e \in Event : Spend(e)
  <2>1. ASSUME NEW p \in Provider,
               AgentStep(p) \/ Beat(p) \/ StopAgent(p) \/ StartDaemon(p)
        PROVE  UNCHANGED spent \/ \E e \in Event : Spend(e)
    BY <2>1 DEF AgentStep, Publish, OpenGroup, ReadAnswer, Timeout, Beat,
                StopAgent, StartDaemon, Or, Event
  <2>2. ASSUME WorkerStep
        PROVE  UNCHANGED spent \/ \E e \in Event : Spend(e)
    BY <2>2 DEF WorkerStep, ReadRequests, Approve, Save, Answer, Ack, Or, Event
  <2>3. ASSUME MonitorStep
        PROVE  UNCHANGED spent \/ \E e \in Event : Spend(e)
    BY <2>3 DEF MonitorStep, OpenMonitor, ReadBeats, HandleBeat, SaveBeat, Or, Event
  <2>4. ASSUME Crash \/ Boot \/ BootBare
        PROVE  UNCHANGED spent \/ \E e \in Event : Spend(e)
    BY <2>4 DEF Crash, Boot, BootBare, Or, Event
  <2> QED
    BY <2>1, <2>2, <2>3, <2>4 DEF Next, vars
<1> QED
  BY <1>1, <1>2

LEMMA SoundInit == Init => Sound
BY DEF Init, Sound, Saved

LEMMA SoundNext ==
  ASSUME RegistrationTypeOK, Sound, [Next]_vars, spent'["dbFails"] = 0,
         spent["dbFails"] = 0
  PROVE  Sound'
<1> USE DEF RegistrationTypeOK, Sound, Saved
<1>h. batch # <<>> => Head(batch) \in Provider
  OBVIOUS
<1>1. ASSUME NEW p \in Provider, Publish(p) PROVE Sound'
  BY <1>1 DEF Publish, GoTo, server, statuses
<1>2. ASSUME NEW p \in Provider, OpenGroup(p) PROVE Sound'
  BY <1>2 DEF OpenGroup, GoTo, server, requests, statuses
<1>3. ASSUME NEW p \in Provider, ReadAnswer(p) PROVE Sound'
  BY <1>3 DEF ReadAnswer, GoTo, server, requests, statuses
<1>4. ASSUME NEW p \in Provider, Timeout(p) PROVE Sound'
  BY <1>4 DEF Timeout, GoTo, server, requests, statuses
<1>5. ASSUME NEW p \in Provider, StopAgent(p) PROVE Sound'
  BY <1>5 DEF StopAgent, server, requests, statuses
<1>6. ASSUME NEW p \in Provider, StartDaemon(p) PROVE Sound'
  BY <1>6 DEF StartDaemon, Or, GoTo, server, requests, statuses
<1>7. ASSUME NEW p \in Provider, Beat(p) PROVE Sound'
  BY <1>7 DEF Beat, server, requests, statuses, agents
<1>8. ASSUME ReadRequests PROVE Sound'
  BY <1>8 DEF ReadRequests, server, statuses, agents
<1>9. ASSUME Approve PROVE Sound'
  BY <1>9, <1>h DEF Approve, At, server, agents
<1>10. ASSUME Save PROVE Sound'
  <2>1. PICK s \in {"approved", cache[Head(batch)]} :
          Or(row' = [row EXCEPT ![Head(batch)] = s], UNCHANGED row, "dbFails")
    BY <1>10 DEF Save
  <2>2. row' = [row EXCEPT ![Head(batch)] = s]
    BY <2>1 DEF Or, Spend, Event
  <2>3. s # "none" /\ cache[Head(batch)] # "none" /\ batch # <<>>
    BY <1>10 DEF Save, At
  <2> QED
    BY <1>10, <1>h, <2>2, <2>3 DEF Save, At, server, agents
<1>11. ASSUME Answer PROVE Sound'
  <2>1. batch # <<>> /\ Saved(Head(batch)) /\ cache[Head(batch)] # "none"
    BY <1>11 DEF Answer, At
  <2>2. \/ answers' = answers
        \/ answers' = [answers EXCEPT ![Head(batch)] = @ + 1]
    BY <1>11 DEF Answer, Or
  <2> QED
    BY <1>11, <1>h, <2>1, <2>2 DEF Answer, At, server, statuses
<1>12. ASSUME Ack PROVE Sound'
  BY <1>12 DEF Ack, server, statuses, agents
<1>13. ASSUME ReadBeats PROVE Sound'
  BY <1>13 DEF ReadBeats, server, requests, statuses, agents
<1>14. ASSUME HandleBeat PROVE Sound'
  <2>1. \A q \in Provider : cache[q] # "none" => cache'[q] # "none"
    BY <1>14 DEF HandleBeat
  <2> QED
    BY <1>14, <1>h, <2>1 DEF HandleBeat, server, requests, agents
<1>15. ASSUME SaveBeat PROVE Sound'
  <2>1. PICK p \in saving :
          Or(row' = IF row[p] = "none" THEN row
                    ELSE [row EXCEPT ![p] = "available"],
             UNCHANGED row, "dbFails")
    BY <1>15 DEF SaveBeat
  <2>2. \A q \in Provider : row'[q] = "none" <=> row[q] = "none"
    BY <2>1 DEF Or
  <2> QED
    BY <1>15, <1>h, <2>2 DEF SaveBeat, server, requests, agents
<1>16. ASSUME Crash PROVE Sound'
  BY <1>16 DEF Crash, agents
<1>17. ASSUME Boot PROVE Sound'
  <2>1. cache' = row
    BY <1>17 DEF Boot, Or, Spend, Event
  <2> QED
    BY <1>17, <1>h, <2>1 DEF Boot, requests, agents
<1>18. ASSUME BootBare PROVE Sound'
  BY <1>18 DEF BootBare, requests, statuses, agents
<1>19. ASSUME OpenMonitor PROVE Sound'
  BY <1>19 DEF OpenMonitor, requests, statuses, agents
<1>20. ASSUME UNCHANGED vars PROVE Sound'
  BY <1>20 DEF vars, server, requests, statuses, agents
<1> QED
  BY <1>1, <1>2, <1>3, <1>4, <1>5, <1>6, <1>7, <1>8, <1>9, <1>10, <1>11, <1>12,
     <1>13, <1>14, <1>15, <1>16, <1>17, <1>18, <1>19, <1>20
     DEF Next, AgentStep, WorkerStep, MonitorStep

\* Until the database first fails, an agent that holds an answer -- its own or
\* a stale one -- has its row and, whenever the control plane runs, its entry
\* in the map, through any crashes and interleaving of the two workers.
THEOREM LiveAgentsKnown == Spec => []LiveAgentsAreKnown
<1> DEFINE Good == spent["dbFails"] = 0 => Sound
<1>1. Init => Good
  BY SoundInit
<1>2. RegistrationTypeOK /\ Good /\ [Next]_vars => Good'
  BY ErrorsStay, SoundNext
<1>3. RegistrationTypeOK /\ Good => LiveAgentsAreKnown
  <2> SUFFICES ASSUME RegistrationTypeOK, Good, NEW p \in Provider,
                      phase[p] = "live", ~ (spent["dbFails"] > 0)
               PROVE  row[p] # "none" /\ (up => cache[p] # "none")
    BY DEF LiveAgentsAreKnown
  <2>1. spent["dbFails"] = 0
    BY DEF RegistrationTypeOK, Event
  <2> QED
    BY <2>1 DEF Sound, Saved
<1> HIDE DEF Good
<1> QED
  BY <1>1, <1>2, <1>3, RegistrationTypes, PTL DEF Spec
=============================================================================
