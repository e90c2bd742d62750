----------------------- MODULE ServiceLifecycleProofs -----------------------
(***************************************************************************)
(* Proofs about ServiceLifecycle, for every set of services and workers    *)
(* and every bound.                                                        *)
(***************************************************************************)
EXTENDS ServiceLifecycle, SequenceTheorems, TLAPS

-----------------------------------------------------------------------------
(***************************************************************************)
(* How the steps change the outbox.                                        *)
(***************************************************************************)

\* The outbox keeps its events: none is lost, and the topic and the generation
\* of an event never change.
EventsKept ==
  \A s \in Services : \A e \in EventIds(s) :
    /\ e \in 1..Len(outbox'[s])
    /\ outbox'[s][e].topic = outbox[s][e].topic
    /\ outbox'[s][e].generation = outbox[s][e].generation

\* SetEvent, the claim, lease, delivery and retry updates of outbox_events,
\* changes the two flags of one event and nothing else.
LEMMA SetEventEffect ==
  ASSUME TypeOK, NEW s \in Services, NEW e \in EventIds(s),
         NEW d \in BOOLEAN, NEW l \in BOOLEAN, SetEvent(s, e, d, l)
  PROVE  /\ outbox' \in [Services -> Seq(Event)]
         /\ \A t \in Services : Len(outbox'[t]) = Len(outbox[t])
         /\ \A t \in Services : \A i \in EventIds(t) :
              /\ outbox'[t][i].topic = outbox[t][i].topic
              /\ outbox'[t][i].generation = outbox[t][i].generation
              /\ ~(t = s /\ i = e) => outbox'[t][i] = outbox[t][i]
         /\ outbox'[s][e].delivered = d
  <1> DEFINE ev == [outbox[s][e] EXCEPT !.delivered = d, !.locked = l]
  <1>1. outbox[s] \in Seq(Event) /\ e \in 1..Len(outbox[s])
    BY DEF TypeOK, EventIds
  <1>2. outbox[s][e] \in Event
    BY <1>1, ElementOfSeq
  <1>3. /\ ev \in Event
        /\ ev.topic = outbox[s][e].topic
        /\ ev.generation = outbox[s][e].generation
        /\ ev.delivered = d
    BY <1>2 DEF Event
  <1> HIDE DEF ev
  <1>4. /\ [outbox[s] EXCEPT ![e] = ev] \in Seq(Event)
        /\ Len([outbox[s] EXCEPT ![e] = ev]) = Len(outbox[s])
        /\ \A j \in 1..Len(outbox[s]) :
             [outbox[s] EXCEPT ![e] = ev][j] = IF j = e THEN ev ELSE outbox[s][j]
    BY <1>1, <1>3, ExceptSeq
  <1>5. outbox' = [outbox EXCEPT ![s] = [outbox[s] EXCEPT ![e] = ev]]
    BY DEF SetEvent, ev
  <1>6. outbox'[s] = [outbox[s] EXCEPT ![e] = ev] /\ \A t \in Services : t # s => outbox'[t] = outbox[t]
    BY <1>5 DEF TypeOK
  <1>7. outbox' \in [Services -> Seq(Event)]
    BY <1>4, <1>5 DEF TypeOK
  <1>8. \A t \in Services : Len(outbox'[t]) = Len(outbox[t])
    BY <1>4, <1>6
  <1>9. ASSUME NEW t \in Services, NEW i \in EventIds(t)
        PROVE  /\ outbox'[t][i].topic = outbox[t][i].topic
               /\ outbox'[t][i].generation = outbox[t][i].generation
               /\ ~(t = s /\ i = e) => outbox'[t][i] = outbox[t][i]
    BY <1>9, <1>3, <1>4, <1>6 DEF EventIds
  <1>10. outbox'[s][e].delivered = d
    BY <1>1, <1>3, <1>4, <1>6
  <1> QED
    BY <1>7, <1>8, <1>9, <1>10

\* A write to an instance adds one undelivered event and keeps the others.
LEMMA AppendEffect ==
  ASSUME NEW q \in Seq(Event), NEW topic \in Topics, NEW g \in Nat
  PROVE  LET p == Append(q, NewEvent(topic, g)) IN
         /\ p \in Seq(Event)
         /\ Len(p) = Len(q) + 1
         /\ \A i \in 1..Len(q) : i \in 1..Len(p) /\ p[i] = q[i]
         /\ Len(p) \in 1..Len(p)
         /\ p[Len(p)] = NewEvent(topic, g)
         /\ \A i \in 1..Len(p) : i \in 1..Len(q) \/ i = Len(p)
  <1>1. NewEvent(topic, g) \in Event
    BY DEF NewEvent, Event
  <1>2. Len(q) \in Nat
    BY LenProperties
  <1> QED
    BY <1>1, <1>2, AppendProperties

\* The event a busy worker holds is an event.
LEMMA HeldIsEvent ==
  ASSUME TypeOK, NEW w \in Workers, workers[w].event \in EventIds(workers[w].service)
  PROVE  /\ workers[w].service \in Services
         /\ Held(w) = outbox[workers[w].service][workers[w].event]
         /\ Held(w) \in Event
         /\ RequestOf(w) \in Request
  <1>1. workers[w] \in WorkerState
    BY DEF TypeOK
  <1>2. workers[w].service \in Services /\ workers[w].policy \in Nat
    BY <1>1 DEF WorkerState
  <1>3. Held(w) \in Event
    BY <1>2, ElementOfSeq DEF TypeOK, EventIds, Held
  <1> QED
    BY <1>2, <1>3 DEF Held, RequestOf, Request, Event

-----------------------------------------------------------------------------
(***************************************************************************)
(* Type correctness.                                                       *)
(***************************************************************************)

\* The busy workers hold events: what the type proof needs of the protocol.
HoldsEvents == \A w \in Workers :
  workers[w].pc # "idle" => workers[w].event \in EventIds(workers[w].service)

TypeInv == TypeOK /\ HoldsEvents

LEMMA IdleIsWorkerState == Idle \in WorkerState
  BY LifecycleAssumption DEF Idle, WorkerState, Answers

\* Every transaction, worker step and provider step keeps the tables' types.
LEMMA TypeStep == TypeInv /\ [Next]_vars => TypeInv'
  <1> SUFFICES ASSUME TypeOK, HoldsEvents, [Next]_vars PROVE TypeOK' /\ HoldsEvents'
    BY DEF TypeInv
  <1> USE LifecycleAssumption
  <1>typ. /\ instances \in [Services -> Row]
          /\ outbox \in [Services -> Seq(Event)]
          /\ workers \in [Workers -> WorkerState]
    BY DEF TypeOK
  <1>len. \A s \in Services : Len(outbox[s]) \in Nat
    BY <1>typ, LenProperties
  <1>gen. \A s \in Services : instances[s].generation \in Nat /\ instances[s].state \in States
    BY <1>typ DEF Row
  <1>write. ASSUME NEW s \in Services, NEW g \in Nat, NEW state \in States, NEW topic \in Topics,
                   WriteRow(s, g, state, topic)
            PROVE  TypeOK' /\ HoldsEvents'
    <2> DEFINE q == Append(outbox[s], NewEvent(topic, g))
    <2>1. /\ q \in Seq(Event)
          /\ \A i \in 1..Len(outbox[s]) : i \in 1..Len(q)
      BY <1>write, AppendEffect, <1>typ
    <2>2. outbox' = [outbox EXCEPT ![s] = q] /\ UNCHANGED workers
      BY <1>write DEF WriteRow
    <2> HIDE DEF q
    <2>3. instances' \in [Services -> Row]
      BY <1>write, <1>typ DEF WriteRow, Row
    <2>4. TypeOK'
      BY <1>write, <2>1, <2>2, <2>3 DEF TypeOK, WriteRow
    <2>5. HoldsEvents'
      BY <1>write, <2>1, <2>2, <1>typ DEF HoldsEvents, EventIds, WorkerState
    <2> QED BY <1>write, <2>4, <2>5
  <1>enq. ASSUME NEW rows \in SUBSET Services, NEW topic \in Topics, EnqueueFor(rows, topic),
                 UNCHANGED <<instances, workers, observations, provider, abandoned>>,
                 policy' \in Nat
          PROVE  TypeOK' /\ HoldsEvents'
    <2>1. ASSUME NEW s \in Services
          PROVE  /\ outbox'[s] \in Seq(Event)
                 /\ \A i \in 1..Len(outbox[s]) : i \in 1..Len(outbox'[s])
      BY <1>enq, AppendEffect, <1>typ, <1>gen DEF EnqueueFor
    <2>2. outbox' \in [Services -> Seq(Event)]
      BY <1>enq, <2>1 DEF EnqueueFor
    <2>3. TypeOK'
      BY <1>enq, <2>2 DEF TypeOK
    <2>4. HoldsEvents'
      BY <1>enq, <2>1, <1>typ DEF HoldsEvents, EventIds, WorkerState
    <2> QED BY <1>enq, <2>3, <2>4
  <1>flag. ASSUME NEW s \in Services, NEW e \in EventIds(s), NEW d \in BOOLEAN, NEW l \in BOOLEAN,
                  SetEvent(s, e, d, l),
                  workers' \in [Workers -> WorkerState],
                  \A w \in Workers : workers'[w].pc # "idle" =>
                     workers'[w].event \in EventIds(workers'[w].service),
                  UNCHANGED <<instances, policy, observations, provider, abandoned>>
           PROVE  TypeOK' /\ HoldsEvents'
    <2>1. outbox' \in [Services -> Seq(Event)] /\ \A t \in Services : Len(outbox'[t]) = Len(outbox[t])
      BY <1>flag, SetEventEffect
    <2>2. TypeOK'
      BY <1>flag, <2>1 DEF TypeOK
    <2>3. HoldsEvents'
      BY <1>flag, <2>1 DEF HoldsEvents, EventIds, WorkerState
    <2> QED BY <1>flag, <2>2, <2>3
  <1>goto. ASSUME NEW w \in Workers, NEW pc \in {"loaded", "sent", "answered", "finished"},
                  NEW answer \in Answers, workers[w].pc # "idle",
                  Goto(w, pc, answer), UNCHANGED outbox
           PROVE  workers' \in [Workers -> WorkerState] /\ HoldsEvents'
    BY <1>goto, <1>typ DEF Goto, WorkerState, HoldsEvents, EventIds
  <1>state. ASSUME NEW s \in Services, NEW state \in States,
                   SetState(s, state) \/ UNCHANGED instances
            PROVE  instances' \in [Services -> Row]
    BY <1>state, <1>typ DEF SetState, Row
  <1>1. CASE UNCHANGED vars
    BY <1>1 DEF vars, TypeOK, HoldsEvents, EventIds
  <1>2. ASSUME NEW s \in Services, CreateServiceInstance(s) PROVE TypeOK' /\ HoldsEvents'
    BY <1>2, <1>write DEF CreateServiceInstance, States, Topics
  <1>3. ASSUME NEW s \in Services, UpdateServiceInstance(s) PROVE TypeOK' /\ HoldsEvents'
    BY <1>3, <1>write, <1>gen DEF UpdateServiceInstance, States, Topics
  <1>4. ASSUME NEW s \in Services, BeginDeleteServiceInstance(s) PROVE TypeOK' /\ HoldsEvents'
    BY <1>4, <1>write, <1>gen DEF BeginDeleteServiceInstance, States, Topics
  <1>5. CASE SetResourceQuota
    BY <1>5, <1>enq DEF SetResourceQuota, Topics, TypeOK
  <1>6. ASSUME NEW rows \in SUBSET Flash, EnqueueFlashGpuReconciles(rows)
        PROVE  TypeOK' /\ HoldsEvents'
    BY <1>6, <1>enq DEF EnqueueFlashGpuReconciles, Topics, TypeOK
  <1>7. ASSUME NEW s \in Flash, NEW phase \in Phases, Observe(s, phase)
        PROVE  TypeOK' /\ HoldsEvents'
    <2>1. [service |-> s, generation |-> provider[s].generation, phase |-> phase] \in Observation
      BY <1>7, <1>gen, LifecycleAssumption DEF TypeOK, Observation, Provided
    <2>2. observations' \in SUBSET Observation
      BY <1>7, <2>1 DEF Observe, TypeOK
    <2> QED BY <2>2, <1>7 DEF Observe, TypeOK, HoldsEvents, EventIds
  <1>8. ASSUME NEW o \in observations, RecordFlashObservation(o) PROVE TypeOK' /\ HoldsEvents'
    <2>1. o.phase \in Phases /\ o.service \in Services
      BY <1>8 DEF TypeOK, Observation
    <2>2. observations' \in SUBSET Observation
      BY <1>8 DEF RecordFlashObservation, Recorded, TypeOK
    <2>3. instances' \in [Services -> Row]
      BY <1>8, <2>1, <1>state, <1>typ DEF RecordFlashObservation, SetState, Row, Phases, States
    <2> QED BY <2>2, <2>3, <1>8 DEF RecordFlashObservation, TypeOK, HoldsEvents, EventIds
  <1>9. ASSUME NEW w \in Workers, NEW s \in Services, NEW e \in EventIds(s), ClaimOutboxEvent(w, s, e)
        PROVE  TypeOK' /\ HoldsEvents'
    <2> DEFINE c == [pc |-> "claimed", service |-> s, event |-> e, policy |-> 0, answer |-> "none"]
    <2>1. c \in WorkerState
      BY <1>9, <1>len DEF WorkerState, Answers, EventIds
    <2>2. workers' = [workers EXCEPT ![w] = c]
      BY <1>9 DEF ClaimOutboxEvent
    <2>3. c.event = e /\ c.service = s
      OBVIOUS
    <2> HIDE DEF c
    <2>4. workers' \in [Workers -> WorkerState]
      BY <1>9, <2>1, <2>2, <1>typ
    <2>5. \A v \in Workers : workers'[v].pc # "idle" =>
             workers'[v].event \in EventIds(workers'[v].service)
      BY <1>9, <2>2, <2>3, <1>typ DEF HoldsEvents
    <2> QED BY <2>4, <2>5, <1>9, <1>flag DEF ClaimOutboxEvent
  <1>10. ASSUME NEW s \in Services, NEW e \in EventIds(s), LeaseExpires(s, e)
         PROVE  TypeOK' /\ HoldsEvents'
    <2>1. outbox[s][e] \in Event
      BY <1>10, ElementOfSeq, <1>typ DEF EventIds
    <2>2. workers' \in [Workers -> WorkerState] /\ UNCHANGED workers
      BY <1>10, <1>typ DEF LeaseExpires
    <2>3. outbox[s][e].delivered \in BOOLEAN
      BY <2>1 DEF Event
    <2> QED BY <2>2, <2>3, <1>10, <1>flag DEF LeaseExpires, HoldsEvents
  <1>11. ASSUME NEW w \in Workers, LoadInstance(w) PROVE TypeOK' /\ HoldsEvents'
    <2>1. workers' \in [Workers -> WorkerState] /\ HoldsEvents'
      BY <1>11, <1>goto DEF LoadInstance, Answers
    <2> QED BY <2>1, <1>11 DEF LoadInstance, TypeOK
  <1>12. ASSUME NEW w \in Workers, SendRequest(w) PROVE TypeOK' /\ HoldsEvents'
    <2>1. workers' \in [Workers -> WorkerState] /\ HoldsEvents'
      BY <1>12, <1>typ DEF SendRequest, TypeOK, WorkerState, HoldsEvents, EventIds
    <2> QED BY <2>1, <1>12 DEF SendRequest, TypeOK
  <1>apply. ASSUME NEW r \in Request, ProviderApplies(r) PROVE provider' \in [Services -> Provided]
    BY <1>apply DEF ProviderApplies, TypeOK, Provided, Request
  <1>13. ASSUME NEW w \in Workers, NEW answer \in Answers, ProviderAccepts(w, answer)
         PROVE  TypeOK' /\ HoldsEvents'
    <2>1. workers' \in [Workers -> WorkerState] /\ HoldsEvents'
      BY <1>13, <1>goto DEF ProviderAccepts
    <2>2. provider' \in [Services -> Provided]
      BY <1>13, <1>apply, HeldIsEvent DEF ProviderAccepts, HoldsEvents
    <2> QED BY <2>1, <2>2, <1>13 DEF ProviderAccepts, TypeOK
  <1>13a. ASSUME NEW w \in Workers, ProviderHasNothing(w) PROVE TypeOK' /\ HoldsEvents'
    <2>1. workers' \in [Workers -> WorkerState] /\ HoldsEvents'
      BY <1>13a, <1>goto DEF ProviderHasNothing, Answers
    <2>2. provider' \in [Services -> Provided]
      BY <1>13a DEF ProviderHasNothing, TypeOK, Provided
    <2> QED BY <2>1, <2>2, <1>13a DEF ProviderHasNothing, TypeOK
  <1>14. ASSUME NEW w \in Workers, ProviderRejects(w) \/ ProviderUnavailable(w)
         PROVE  TypeOK' /\ HoldsEvents'
    <2>1. workers' \in [Workers -> WorkerState] /\ HoldsEvents'
      BY <1>14, <1>goto DEF ProviderRejects, ProviderUnavailable, Answers
    <2> QED BY <2>1, <1>14 DEF ProviderRejects, ProviderUnavailable, TypeOK
  <1>15. ASSUME NEW w \in Workers, RequestTimesOut(w) PROVE TypeOK' /\ HoldsEvents'
    <2>1. workers' \in [Workers -> WorkerState] /\ HoldsEvents'
      BY <1>15, <1>goto DEF RequestTimesOut, Answers
    <2>2. abandoned' \in SUBSET Request
      BY <1>15, HeldIsEvent DEF RequestTimesOut, Abandon, HoldsEvents, TypeOK
    <2> QED BY <2>1, <2>2, <1>15 DEF RequestTimesOut, TypeOK
  <1>16. ASSUME NEW r \in abandoned, AbandonedArrives(r) \/ AbandonedIsLost(r)
         PROVE  TypeOK' /\ HoldsEvents'
    <2>1. r \in Request
      BY <1>16 DEF TypeOK
    <2>2. provider' \in [Services -> Provided]
      BY <2>1, <1>16, <1>apply DEF AbandonedArrives, AbandonedIsLost, TypeOK
    <2> QED BY <2>2, <1>16 DEF AbandonedArrives, AbandonedIsLost, TypeOK, HoldsEvents, EventIds
  <1>17. ASSUME NEW w \in Workers,
                CompleteDeleteServiceInstance(w) \/ MarkServiceInstanceReady(w)
                  \/ MarkServiceInstanceError(w) \/ AcknowledgeQuota(w)
         PROVE  TypeOK' /\ HoldsEvents'
    <2>1. workers' \in [Workers -> WorkerState] /\ HoldsEvents'
      BY <1>17, <1>goto DEF CompleteDeleteServiceInstance, MarkServiceInstanceReady,
           MarkServiceInstanceError, AcknowledgeQuota, Answers
    <2>2. workers[w].service \in Services
      BY <1>17, <1>typ DEF WorkerState
    <2>3. instances' \in [Services -> Row]
      BY <1>17, <2>2, <1>state DEF CompleteDeleteServiceInstance, MarkServiceInstanceReady,
           MarkServiceInstanceError, AcknowledgeQuota, States
    <2> QED BY <2>1, <2>3, <1>17 DEF CompleteDeleteServiceInstance, MarkServiceInstanceReady,
           MarkServiceInstanceError, AcknowledgeQuota, TypeOK
  <1>idle. ASSUME NEW w \in Workers, workers' = [workers EXCEPT ![w] = Idle]
           PROVE  /\ workers' \in [Workers -> WorkerState]
                  /\ \A v \in Workers : workers'[v].pc # "idle" =>
                        workers'[v].event \in EventIds(workers'[v].service)
    <2>1. Idle \in WorkerState /\ Idle.pc = "idle"
      BY <1>idle, IdleIsWorkerState DEF Idle
    <2>2. \A v \in Workers : workers'[v] = IF v = w THEN Idle ELSE workers[v]
      BY <1>idle, <1>typ
    <2> QED BY <2>1, <2>2, <1>idle, <1>typ DEF HoldsEvents
  <1>18. ASSUME NEW w \in Workers, MarkOutboxDelivered(w) \/ RetryOutboxEvent(w)
         PROVE  TypeOK' /\ HoldsEvents'
    <2>1. workers[w].service \in Services /\ workers[w].event \in EventIds(workers[w].service)
      BY <1>18, <1>typ DEF MarkOutboxDelivered, RetryOutboxEvent, HoldsEvents, WorkerState
    <2>2. Held(w) \in Event
      BY <1>18, <2>1, HeldIsEvent
    <2>3. /\ Held(w).delivered \in BOOLEAN
          /\ (Held(w).locked /\ Held(w).delivered) \in BOOLEAN
      BY <1>18, <2>2 DEF Event
    <2>4. /\ workers' \in [Workers -> WorkerState]
          /\ \A v \in Workers : workers'[v].pc # "idle" =>
                workers'[v].event \in EventIds(workers'[v].service)
      BY <1>18, <1>idle DEF MarkOutboxDelivered, RetryOutboxEvent
    <2> QED BY <2>1, <2>3, <2>4, <1>18, <1>flag DEF MarkOutboxDelivered, RetryOutboxEvent
  <1>19. ASSUME NEW w \in Workers, WorkerCrashes(w) PROVE TypeOK' /\ HoldsEvents'
    <2>1. /\ workers' \in [Workers -> WorkerState]
          /\ \A v \in Workers : workers'[v].pc # "idle" =>
                workers'[v].event \in EventIds(workers'[v].service)
      BY <1>19, <1>idle DEF WorkerCrashes
    <2>2. abandoned' \in SUBSET Request
      BY <1>19, HeldIsEvent DEF WorkerCrashes, Abandon, HoldsEvents, TypeOK
    <2> QED BY <2>1, <2>2, <1>19 DEF WorkerCrashes, TypeOK, HoldsEvents, EventIds
  <1>20. CASE ApiStep
    BY <1>20, <1>2, <1>3, <1>4, <1>5, <1>6, <1>7, <1>8 DEF ApiStep, SetFlashServiceStopped
  <1>21. CASE \E w \in Workers : WorkerStep(w)
    BY <1>21, <1>9, <1>11, <1>12, <1>15, <1>17, <1>18, <1>19 DEF WorkerStep
  <1>22. CASE ProviderStep
    BY <1>22, <1>13, <1>13a, <1>14, <1>16 DEF ProviderStep
  <1> QED
    BY <1>1, <1>10, <1>20, <1>21, <1>22 DEF Next

\* The tables, the queue and the processes' variables keep their types.
THEOREM TypeCorrect == Spec => []TypeOK
  <1>1. Init => TypeInv
    <2> SUFFICES ASSUME Init PROVE TypeInv
      OBVIOUS
    <2>1. workers \in [Workers -> WorkerState] /\ HoldsEvents
      BY IdleIsWorkerState DEF Init, HoldsEvents, Idle
    <2>2. outbox \in [Services -> Seq(Event)]
      BY EmptySeq DEF Init
    <2> QED
      BY <2>1, <2>2 DEF Init, TypeInv, TypeOK, Row, States, Observation, Phases,
           Provided
  <1>2. TypeInv => TypeOK
    BY DEF TypeInv
  <1> QED
    BY <1>1, <1>2, TypeStep, PTL DEF Spec

-----------------------------------------------------------------------------
(***************************************************************************)
(* The outbox protocol.                                                    *)
(***************************************************************************)

Inv == TypeInv /\ ProtocolInvariant

\* Facts every proof below starts from: the fields of the tables are of their types.
LEMMA Fields ==
  ASSUME TypeOK
  PROVE  /\ \A s \in Services : /\ instances[s].generation \in Nat
                                /\ instances[s].state \in States
                                /\ provider[s].generation \in Nat
                                /\ provider[s].present \in BOOLEAN
                                /\ provider[s].missed \in BOOLEAN
                                /\ Len(outbox[s]) \in Nat
         /\ \A s \in Services : \A e \in EventIds(s) :
              /\ outbox[s][e] \in Event
              /\ outbox[s][e].generation \in Nat
              /\ outbox[s][e].topic \in Topics
              /\ outbox[s][e].delivered \in BOOLEAN
         /\ \A w \in Workers : workers[w].service \in Services
         /\ \A o \in observations : o.service \in Services /\ o.generation \in Nat
  <1>1. \A s \in Services : Len(outbox[s]) \in Nat
    BY LenProperties DEF TypeOK
  <1>2. \A s \in Services : \A e \in EventIds(s) : outbox[s][e] \in Event
    BY ElementOfSeq DEF TypeOK, EventIds
  <1>3. \A s \in Services : \A e \in EventIds(s) :
              /\ outbox[s][e].generation \in Nat
              /\ outbox[s][e].topic \in Topics
              /\ outbox[s][e].delivered \in BOOLEAN
    BY <1>2 DEF Event
  <1> QED
    BY <1>1, <1>2, <1>3 DEF TypeOK, Row, Provided, Observation, WorkerState

\* How a row and its provider may move while a worker is busy with them: forward.
RowAdvances(s) ==
  /\ provider[s].generation <= provider'[s].generation
  /\ provider[s].missed => provider'[s].missed
  /\ \/ instances[s].generation < instances'[s].generation
     \/ /\ instances'[s].generation = instances[s].generation
        /\ instances[s].state = "removed" => instances'[s].state = "removed"
        /\ Live(s) => Live(s)'
        /\ (Live(s) /\ (Applied(s) \/ instances[s].state = "error"))
             => (Applied(s)' \/ instances'[s].state = "error")

\* What a worker knows stays true while others move the row, its provider and
\* the flags of its event.
LEMMA BystanderStaysSound ==
  ASSUME Inv, TypeOK', EventsKept, NEW w \in Workers, workers'[w] = workers[w],
         RowAdvances(workers[w].service)
  PROVE  AnswerIsSound(w)'
  <1> DEFINE s == workers[w].service
             e == workers[w].event
  <1> SUFFICES ASSUME workers[w].pc # "idle" PROVE AnswerIsSound(w)'
    BY DEF AnswerIsSound
  <1>1. AnswerIsSound(w)
    BY DEF Inv, ProtocolInvariant, AnswersAreSound
  <1>2. s \in Services /\ e \in EventIds(s)
    BY <1>1, Fields DEF AnswerIsSound, Inv, TypeInv
  <1>3. /\ workers'[w].service = s /\ workers'[w].event = e
        /\ workers'[w].pc = workers[w].pc /\ workers'[w].answer = workers[w].answer
    OBVIOUS
  <1>4. /\ e \in 1..Len(outbox'[s])
        /\ outbox'[s][e].topic = outbox[s][e].topic
        /\ outbox'[s][e].generation = outbox[s][e].generation
    BY <1>2 DEF EventsKept
  <1>5. /\ Held(w) = outbox[s][e] /\ Held(w)' = outbox'[s][e]
        /\ Held(w)'.topic = Held(w).topic /\ Held(w)'.generation = Held(w).generation
    BY <1>3, <1>4 DEF Held
  <1>6. /\ instances[s].generation \in Nat /\ provider[s].generation \in Nat
        /\ outbox[s][e].generation \in Nat
    BY <1>2, Fields DEF Inv, TypeInv
  <1>6a. instances'[s].generation \in Nat /\ provider'[s].generation \in Nat
    BY <1>2 DEF TypeOK, Row, Provided
  <1>7. outbox[s][e].generation <= instances[s].generation
    BY <1>2 DEF Inv, ProtocolInvariant, EventsFollowRow
  <1> HIDE DEF s, e
  <1>8. RowAdvances(s)
    BY DEF s
  <1>9. AnswerIsSound(w) <=>
          /\ e \in EventIds(s)
          /\ workers[w].pc = "answered" =>
             /\ workers[w].answer \in SuccessAnswers(Held(w).topic) \cup {"rejected"}
             /\ workers[w].answer = "rejected" => Held(w).topic = "reconcile"
             /\ workers[w].answer # "rejected" =>
                  \/ Held(w).generation <= provider[s].generation
                  \/ workers[w].answer = "deleted" /\ provider[s].missed
          /\ workers[w].pc = "finished" =>
             /\ workers[w].answer \in {"ok", "stale", "retry"}
             /\ (workers[w].answer # "retry" /\ Held(w).generation = instances[s].generation) =>
                \/ instances[s].state = "removed"
                \/ /\ Live(s)
                   /\ Held(w).topic = "reconcile" => Applied(s) \/ instances[s].state = "error"
    BY DEF AnswerIsSound, s, e
  <1>10. workers[w].pc = "answered" /\ workers[w].answer # "rejected" =>
           \/ Held(w).generation <= provider'[s].generation
           \/ workers[w].answer = "deleted" /\ provider'[s].missed
    BY <1>1, <1>5, <1>6, <1>6a, <1>8, <1>9 DEF RowAdvances
  <1>11. (/\ workers[w].pc = "finished" /\ workers[w].answer # "retry"
          /\ Held(w).generation = instances'[s].generation) =>
                \/ instances'[s].state = "removed"
                \/ /\ Live(s)'
                   /\ Held(w).topic = "reconcile" => Applied(s)' \/ instances'[s].state = "error"
    BY <1>1, <1>5, <1>6, <1>6a, <1>7, <1>8, <1>9 DEF RowAdvances
  <1> QED
    BY <1>1, <1>3, <1>4, <1>5, <1>9, <1>10, <1>11 DEF AnswerIsSound, EventIds, s

\* Requests under way stay covered while no event is lost.
LEMMA RequestsStayEvents ==
  ASSUME Inv, EventsKept, abandoned' \subseteq abandoned
  PROVE  RequestsAreEvents'
  BY DEF Inv, TypeInv, TypeOK, Request, ProtocolInvariant, RequestsAreEvents, EventsKept, EventIds

\* A transaction that moves a row to its next generation (or creates it), with
\* the event of the new generation, keeps the protocol's invariant.
LEMMA WriteRowStep ==
  ASSUME Inv, TypeOK', NEW s \in Services, NEW state \in States, NEW topic \in Topics,
         WriteRow(s, instances[s].generation + 1, state, topic),
         instances[s].state \notin {"deleting", "removed"},
         \/ state \in {"provisioning", "updating"} /\ topic = "reconcile"
         \/ state = "deleting" /\ topic = "delete"
  PROVE  ProtocolInvariant'
  <1> DEFINE g == instances[s].generation + 1
             q == Append(outbox[s], NewEvent(topic, g))
  <1>f. /\ \A t \in Services : /\ instances[t].generation \in Nat
                                /\ provider[t].generation \in Nat
                                /\ provider[t].present \in BOOLEAN
                                /\ Len(outbox[t]) \in Nat
        /\ \A w \in Workers : workers[w].service \in Services
        /\ \A o \in observations : o.service \in Services /\ o.generation \in Nat
    BY Fields DEF Inv, TypeInv
  <1>typ. instances \in [Services -> Row] /\ outbox \in [Services -> Seq(Event)]
    BY DEF Inv, TypeInv, TypeOK
  <1>1. /\ instances'[s].generation = g /\ instances'[s].state = state
        /\ \A t \in Services : t # s => instances'[t] = instances[t]
        /\ outbox'[s] = q
        /\ \A t \in Services : t # s => outbox'[t] = outbox[t]
        /\ UNCHANGED <<workers, observations, provider, abandoned>>
    BY <1>typ DEF WriteRow
  <1>2. /\ Len(q) = Len(outbox[s]) + 1
        /\ \A i \in 1..Len(outbox[s]) : i \in 1..Len(q) /\ q[i] = outbox[s][i]
        /\ Len(q) \in 1..Len(q)
        /\ q[Len(q)] = NewEvent(topic, g)
        /\ \A i \in 1..Len(q) : i \in 1..Len(outbox[s]) \/ i = Len(q)
    BY <1>f, <1>typ, AppendEffect
  <1>3. g \in Nat /\ g >= 1
    BY <1>f
  <1> HIDE DEF q, g
  <1>g. g = instances[s].generation + 1
    BY DEF g
  <1>4. EventsKept
    BY <1>1, <1>2 DEF EventsKept, EventIds
  <1>5. EventsFollowRow'
    <2> SUFFICES ASSUME NEW t \in Services
        PROVE  /\ instances'[t].state = "none" <=> instances'[t].generation = 0
               /\ \A e \in 1..Len(outbox'[t]) :
                    /\ 1 <= outbox'[t][e].generation
                    /\ outbox'[t][e].generation <= instances'[t].generation
                    /\ outbox'[t][e].generation = instances'[t].generation
                         => (Live(t)' <=> outbox'[t][e].topic # "delete")
                    /\ outbox'[t][e].topic = "delete" =>
                         instances'[t].state \in {"deleting", "removed"}
      BY DEF EventsFollowRow, EventIds
    <2>0. EventsFollowRow
      BY DEF Inv, ProtocolInvariant
    <2>1. CASE t # s
      BY <2>0, <2>1, <1>1 DEF EventsFollowRow, Live, Exists, EventIds
    <2>2. CASE t = s
      <3>1. instances'[s].state # "none" /\ instances'[s].generation # 0
        BY <1>1, <1>3
      <3>2. ASSUME NEW e \in 1..Len(outbox[s])
            PROVE  1 <= q[e].generation /\ q[e].generation < g /\ q[e].topic # "delete"
        <4>1. q[e] = outbox[s][e] /\ outbox[s][e].generation \in Nat
          BY <3>2, <1>2, Fields DEF EventIds, Inv, TypeInv
        <4>2. /\ 1 <= outbox[s][e].generation /\ outbox[s][e].generation <= instances[s].generation
              /\ outbox[s][e].topic # "delete"
          BY <2>0, <3>2 DEF EventsFollowRow, EventIds
        <4> QED BY <4>1, <4>2, <1>f, <1>g
      <3>3. ASSUME NEW e \in 1..Len(q), e \notin 1..Len(outbox[s])
            PROVE  q[e].generation = g /\ q[e].topic = topic
        BY <3>3, <1>2 DEF NewEvent
      <3>4. Live(s)' <=> topic # "delete"
        BY <1>1 DEF Live, Exists
      <3> QED
        <4>1. \A e \in 1..Len(q) : \/ 1 <= q[e].generation /\ q[e].generation < g
                                        /\ q[e].topic # "delete"
                                   \/ q[e].generation = g /\ q[e].topic = topic
          BY <3>2, <3>3
        <4>2. \A e \in 1..Len(q) : q[e].generation \in Nat
          BY <3>3, <1>2, <1>3, Fields DEF EventIds, Inv, TypeInv
        <4>3. topic = "delete" => instances'[s].state = "deleting"
          BY <1>1
        <4> QED BY <2>2, <3>1, <3>4, <4>1, <4>2, <4>3, <1>1, <1>3
    <2> QED BY <2>1, <2>2
  <1>6. AnswersAreSound'
    <2>1. \A t \in Services : RowAdvances(t)
      BY <1>1, <1>f, <1>g DEF RowAdvances, Live, Exists, Applied
    <2> QED BY <2>1, <1>1, <1>4, <1>f, BystanderStaysSound DEF AnswersAreSound
  <1>7. ProviderFollowsRow'
    BY <1>1, <1>f, <1>g DEF Inv, ProtocolInvariant, ProviderFollowsRow, Live, Exists
  <1>8. RequestsAreEvents'
    BY <1>1, <1>4, RequestsStayEvents
  <1>9. ObservationsAreSound'
    BY <1>1, <1>f, <1>g DEF Inv, ProtocolInvariant, ObservationsAreSound, Live, Exists, Applied
  <1>10. ReadyMeansApplied'
    BY <1>1, <1>f, <1>g DEF Inv, ProtocolInvariant, ReadyMeansApplied, Applied
  <1>11. DesiredStateNotLost'
    <2> SUFFICES ASSUME NEW t \in Services
        PROVE  /\ instances'[t].state = "deleting" => Pending(t, "delete")'
               /\ Live(t)' => Pending(t, "reconcile")' \/ Applied(t)' \/ instances'[t].state = "error"
      BY DEF DesiredStateNotLost
    <2>1. CASE t # s
      BY <2>1, <1>1 DEF Inv, ProtocolInvariant, DesiredStateNotLost, Pending, Live, Exists, Applied, EventIds
    <2>2. CASE t = s
      BY <2>2, <1>1, <1>2 DEF Pending, Live, Exists, EventIds, NewEvent
    <2> QED BY <2>1, <2>2
  <1> QED
    BY <1>5, <1>6, <1>7, <1>8, <1>9, <1>10, <1>11 DEF ProtocolInvariant

\* Enqueueing refreshes at the current generation of live rows keeps it too.
LEMMA EnqueueStep ==
  ASSUME Inv, TypeOK', NEW rows \in SUBSET Services, NEW topic \in {"reconcile", "flash-quota"},
         \A s \in rows : Live(s), EnqueueFor(rows, topic),
         UNCHANGED <<instances, workers, observations, provider, abandoned>>
  PROVE  ProtocolInvariant'
  <1>typ. outbox \in [Services -> Seq(Event)] /\ TypeOK
    BY DEF Inv, TypeInv, TypeOK
  <1>1. ASSUME NEW s \in Services
        PROVE  /\ \A e \in EventIds(s) : e \in 1..Len(outbox'[s]) /\ outbox'[s][e] = outbox[s][e]
               /\ \A e \in 1..Len(outbox'[s]) :
                    \/ e \in EventIds(s)
                    \/ /\ s \in rows
                       /\ outbox'[s][e].topic = topic
                       /\ outbox'[s][e].generation = instances[s].generation
    <2>1. outbox[s] \in Seq(Event) /\ instances[s].generation \in Nat /\ topic \in Topics
      BY <1>1, <1>typ, Fields DEF Topics
    <2>2. CASE s \in rows
      BY <2>1, <2>2, <1>1, AppendEffect DEF EnqueueFor, EventIds, NewEvent
    <2>3. CASE s \notin rows
      BY <2>3, <1>1 DEF EnqueueFor, EventIds
    <2> QED BY <2>2, <2>3
  <1>2. EventsKept
    BY <1>1 DEF EventsKept
  <1>3. \A s \in Services : RowAdvances(s) /\ (Live(s)' <=> Live(s))
    BY Fields, <1>typ DEF RowAdvances, Live, Exists, Applied
  <1>4. EventsFollowRow'
    <2>0. EventsFollowRow
      BY DEF Inv, ProtocolInvariant
    <2>1. ASSUME NEW s \in Services, NEW e \in 1..Len(outbox'[s])
          PROVE  /\ 1 <= outbox'[s][e].generation
                 /\ outbox'[s][e].generation <= instances[s].generation
                 /\ outbox'[s][e].generation = instances[s].generation
                      => (Live(s) <=> outbox'[s][e].topic # "delete")
                 /\ outbox'[s][e].topic = "delete" => instances[s].state \in {"deleting", "removed"}
      <3>1. CASE e \in EventIds(s)
        BY <2>0, <2>1, <3>1, <1>1 DEF EventsFollowRow
      <3>2. CASE e \notin EventIds(s)
        <4>1. s \in rows /\ Live(s) /\ outbox'[s][e].topic = topic
              /\ outbox'[s][e].generation = instances[s].generation
          BY <2>1, <3>2, <1>1
        <4>2. instances[s].generation # 0 /\ instances[s].generation \in Nat
          BY <2>0, <4>1, <1>typ, Fields DEF EventsFollowRow, Live, Exists
        <4> QED BY <4>1, <4>2
      <3> QED BY <3>1, <3>2
    <2> QED BY <2>0, <2>1, <1>3 DEF EventsFollowRow, EventIds
  <1>5. AnswersAreSound'
    BY <1>2, <1>3, <1>typ, Fields, BystanderStaysSound DEF AnswersAreSound
  <1>6. RequestsAreEvents'
    BY <1>2, RequestsStayEvents
  <1>7. ProviderFollowsRow' /\ ObservationsAreSound' /\ ReadyMeansApplied'
    BY DEF Inv, ProtocolInvariant, ProviderFollowsRow, ObservationsAreSound, ReadyMeansApplied,
           Live, Exists, Applied
  <1>8. DesiredStateNotLost'
    <2>1. ASSUME NEW s \in Services, NEW tp, Pending(s, tp) PROVE Pending(s, tp)'
      BY <2>1, <1>1 DEF Pending, EventIds
    <2> QED BY <2>1 DEF Inv, ProtocolInvariant, DesiredStateNotLost, Live, Exists, Applied
  <1> QED
    BY <1>4, <1>5, <1>6, <1>7, <1>8 DEF ProtocolInvariant

\* Nothing is lost when this event is closed.
MayClose(s, e) ==
  outbox[s][e].generation = instances[s].generation =>
    /\ instances[s].state # "deleting"
    /\ (outbox[s][e].topic = "reconcile" /\ Live(s)) =>
         (Applied(s) \/ instances[s].state = "error")

\* The updates of outbox_events: claiming, expiring, retrying, and closing an
\* event that may be closed.
LEMMA FlagStep ==
  ASSUME Inv, TypeOK', NEW s \in Services, NEW e \in EventIds(s),
         NEW d \in BOOLEAN, NEW l \in BOOLEAN, SetEvent(s, e, d, l),
         d = outbox[s][e].delivered \/ MayClose(s, e),
         UNCHANGED <<instances, observations, provider, abandoned>>,
         \A w \in Workers : workers'[w] = workers[w] \/ AnswerIsSound(w)'
  PROVE  ProtocolInvariant'
  <1>typ. TypeOK
    BY DEF Inv, TypeInv
  <1>1. /\ \A t \in Services : Len(outbox'[t]) = Len(outbox[t])
        /\ \A t \in Services : \A i \in EventIds(t) :
              /\ outbox'[t][i].topic = outbox[t][i].topic
              /\ outbox'[t][i].generation = outbox[t][i].generation
              /\ ~(t = s /\ i = e) => outbox'[t][i] = outbox[t][i]
        /\ outbox'[s][e].delivered = d
    BY <1>typ, SetEventEffect
  <1>2. EventsKept
    BY <1>1 DEF EventsKept, EventIds
  <1>3. \A t \in Services : RowAdvances(t) /\ (Live(t)' <=> Live(t))
    BY Fields, <1>typ DEF RowAdvances, Live, Exists, Applied
  <1>4. EventsFollowRow'
    BY <1>1, <1>3 DEF Inv, ProtocolInvariant, EventsFollowRow, EventIds
  <1>5. AnswersAreSound'
    BY <1>2, <1>3, <1>typ, Fields, BystanderStaysSound DEF AnswersAreSound
  <1>6. RequestsAreEvents'
    BY <1>2, RequestsStayEvents
  <1>7. ProviderFollowsRow' /\ ObservationsAreSound' /\ ReadyMeansApplied'
    BY DEF Inv, ProtocolInvariant, ProviderFollowsRow, ObservationsAreSound, ReadyMeansApplied,
           Live, Exists, Applied
  <1>8. DesiredStateNotLost'
    <2> SUFFICES ASSUME NEW t \in Services
        PROVE  /\ instances[t].state = "deleting" => Pending(t, "delete")'
               /\ Live(t) => Pending(t, "reconcile")' \/ Applied(t) \/ instances[t].state = "error"
      BY DEF DesiredStateNotLost, Live, Exists, Applied
    <2>0. DesiredStateNotLost /\ EventsFollowRow
      BY DEF Inv, ProtocolInvariant
    <2>1. ASSUME NEW tp, NEW i \in EventIds(t), ~outbox[t][i].delivered, outbox[t][i].topic = tp,
                 outbox[t][i].generation = instances[t].generation,
                 t # s \/ i # e \/ d = outbox[s][e].delivered
          PROVE  Pending(t, tp)'
      BY <2>1, <1>1 DEF Pending, EventIds
    <2>2. CASE instances[t].state = "deleting"
      <3>1. PICK i \in EventIds(t) : /\ ~outbox[t][i].delivered /\ outbox[t][i].topic = "delete"
                                     /\ outbox[t][i].generation = instances[t].generation
        BY <2>0, <2>2 DEF DesiredStateNotLost, Pending
      <3>2. t # s \/ i # e \/ d = outbox[s][e].delivered
        BY <2>2, <3>1 DEF MayClose
      <3> QED BY <2>1, <2>2, <3>1, <3>2 DEF Live
    <2>3. CASE Live(t) /\ ~Applied(t) /\ instances[t].state # "error"
      <3>1. PICK i \in EventIds(t) : /\ ~outbox[t][i].delivered /\ outbox[t][i].topic = "reconcile"
                                     /\ outbox[t][i].generation = instances[t].generation
        BY <2>0, <2>3 DEF DesiredStateNotLost, Pending
      <3>2. t # s \/ i # e \/ d = outbox[s][e].delivered
        BY <2>3, <3>1 DEF MayClose
      <3> QED BY <2>1, <2>3, <3>1, <3>2 DEF Live
    <2> QED BY <2>2, <2>3
  <1> QED
    BY <1>4, <1>5, <1>6, <1>7, <1>8 DEF ProtocolInvariant

\* A step of one worker, or of the network, that touches no table and no provider.
LEMMA LocalStep ==
  ASSUME Inv, TypeOK', UNCHANGED <<instances, outbox, observations, provider>>,
         \A w \in Workers : workers'[w] = workers[w] \/ AnswerIsSound(w)',
         RequestsAreEvents'
  PROVE  ProtocolInvariant'
  <1>typ. TypeOK
    BY DEF Inv, TypeInv
  <1>1. EventsKept
    BY DEF EventsKept, EventIds
  <1>2. \A t \in Services : RowAdvances(t)
    BY Fields, <1>typ DEF RowAdvances, Live, Exists, Applied
  <1>3. AnswersAreSound'
    BY <1>1, <1>2, <1>typ, Fields, BystanderStaysSound DEF AnswersAreSound
  <1>4. /\ EventsFollowRow' /\ ProviderFollowsRow' /\ ObservationsAreSound' /\ ReadyMeansApplied'
        /\ DesiredStateNotLost'
    BY DEF Inv, ProtocolInvariant, EventsFollowRow, ProviderFollowsRow, ObservationsAreSound,
           ReadyMeansApplied, DesiredStateNotLost, Pending, Live, Exists, Applied, EventIds
  <1> QED BY <1>3, <1>4 DEF ProtocolInvariant

\* The provider applies a request that was sent for an event.
LEMMA ApplyStep ==
  ASSUME Inv, TypeOK', NEW r \in Request, Accepts(r), ProviderApplies(r),
         \E e \in EventIds(r.service) :
           outbox[r.service][e].topic = r.topic /\ outbox[r.service][e].generation = r.generation,
         UNCHANGED <<instances, outbox, observations>>, abandoned' \subseteq abandoned,
         \A w \in Workers : workers'[w] = workers[w] \/ AnswerIsSound(w)'
  PROVE  ProtocolInvariant'
  <1> DEFINE s == r.service
  <1>typ. TypeOK /\ s \in Services /\ r.generation \in Nat /\ r.topic \in Topics
    BY DEF Inv, TypeInv, Request
  <1>f. \A t \in Services : /\ instances[t].generation \in Nat
                            /\ provider[t].generation \in Nat
                            /\ provider[t].present \in BOOLEAN
    BY <1>typ, Fields
  <1>1. /\ provider'[s].generation = r.generation
        /\ provider'[s].present = (r.topic # "delete")
        /\ provider'[s].missed = provider[s].missed
        /\ \A t \in Services : t # s => provider'[t] = provider[t]
    BY <1>typ DEF ProviderApplies, TypeOK
  <1>2. /\ 1 <= r.generation /\ r.generation <= instances[s].generation
        /\ r.generation = instances[s].generation => (Live(s) <=> r.topic # "delete")
    BY <1>typ DEF Inv, ProtocolInvariant, EventsFollowRow
  <1>3. provider[s].generation <= r.generation
    BY <1>typ, <1>f DEF Accepts, Current
  <1>p. ProviderFollowsRow
    BY DEF Inv, ProtocolInvariant
  <1>4. ProviderFollowsRow'
    <2> SUFFICES ASSUME NEW t \in Services
        PROVE  /\ provider'[t].generation <= instances[t].generation
               /\ provider'[t].present => 1 <= provider'[t].generation
               /\ provider'[t].generation = instances[t].generation => (provider'[t].present <=> Live(t))
               /\ instances[t].state = "removed" =>
                    provider'[t].missed \/ provider'[t].generation = instances[t].generation
      BY DEF ProviderFollowsRow, Live, Exists
    <2>1. CASE t # s
      BY <2>1, <1>1, <1>p DEF ProviderFollowsRow
    <2>2. CASE t = s
      <3>1. provider'[s].present <=> r.topic # "delete"
        BY <1>1
      <3>2. instances[s].state = "removed" =>
              provider[s].missed \/ r.generation = instances[s].generation
        BY <1>2, <1>3, <1>p, <1>f, <1>typ DEF ProviderFollowsRow
      <3> QED BY <2>2, <3>1, <3>2, <1>1, <1>2
    <2> QED BY <2>1, <2>2
  <1> HIDE DEF s
  <1>5. \A t \in Services : Applied(t) => Applied(t)'
    <2>1. Applied(s) => Live(s)
      BY <1>p, <1>typ DEF ProviderFollowsRow, Applied
    <2>2. Applied(s) => Applied(s)'
      BY <2>1, <1>1, <1>2, <1>3, <1>f, <1>typ DEF Applied
    <2> QED BY <2>2, <1>1 DEF Applied
  <1>6. \A t \in Services : RowAdvances(t)
    <2>1. \A t \in Services : /\ provider[t].generation <= provider'[t].generation
                              /\ provider[t].missed => provider'[t].missed
      BY <1>1, <1>3, <1>f
    <2> QED BY <2>1, <1>5 DEF RowAdvances, Live, Exists
  <1>7. EventsKept
    BY DEF EventsKept, EventIds
  <1>8. AnswersAreSound'
    BY <1>6, <1>7, <1>typ, Fields, BystanderStaysSound DEF AnswersAreSound
  <1>9. RequestsAreEvents'
    BY <1>7, RequestsStayEvents
  <1>10. EventsFollowRow' /\ ReadyMeansApplied' /\ DesiredStateNotLost'
    BY <1>5 DEF Inv, ProtocolInvariant, EventsFollowRow, ReadyMeansApplied,
           DesiredStateNotLost, Pending, Live, Exists, EventIds
  <1>11. \A o \in observations : o.service \in Services
    BY <1>typ, Fields
  <1>12. ObservationsAreSound'
    BY <1>5, <1>11 DEF Inv, ProtocolInvariant, ObservationsAreSound, Live, Exists
  <1> QED BY <1>4, <1>8, <1>9, <1>10, <1>12 DEF ProtocolInvariant

\* The provider has never held the service that it is asked to delete.
LEMMA MissStep ==
  ASSUME Inv, TypeOK', NEW s \in Services, provider[s].generation = 0,
         provider' = [provider EXCEPT ![s] =
           [generation |-> 0, present |-> FALSE, policy |-> 0, missed |-> TRUE]],
         UNCHANGED <<instances, outbox, observations, abandoned>>,
         \A w \in Workers : workers'[w] = workers[w] \/ AnswerIsSound(w)'
  PROVE  ProtocolInvariant'
  <1>typ. TypeOK
    BY DEF Inv, TypeInv
  <1>f. \A t \in Services : /\ instances[t].generation \in Nat
                            /\ provider[t].generation \in Nat
                            /\ provider[t].present \in BOOLEAN
    BY <1>typ, Fields
  <1>inv. /\ EventsFollowRow /\ ProviderFollowsRow /\ RequestsAreEvents
          /\ ObservationsAreSound /\ ReadyMeansApplied /\ DesiredStateNotLost
    BY DEF Inv, ProtocolInvariant
  <1>1. /\ provider'[s].generation = 0 /\ provider'[s].present = FALSE
        /\ provider'[s].missed = TRUE
        /\ \A t \in Services : t # s => provider'[t] = provider[t]
    BY <1>typ DEF TypeOK
  <1>2. instances[s].generation = 0 => ~Live(s)
    BY <1>inv DEF EventsFollowRow, Live, Exists
  <1>3. ~Applied(s)
    BY <1>inv, <1>2 DEF Applied, ProviderFollowsRow
  <1>4. \A t \in Services : Applied(t)' <=> Applied(t)
    BY <1>1, <1>3 DEF Applied
  <1>5. \A t \in Services : RowAdvances(t)
    <2>1. \A t \in Services : /\ provider[t].generation <= provider'[t].generation
                              /\ provider[t].missed => provider'[t].missed
      BY <1>1, <1>f
    <2> QED BY <2>1, <1>4 DEF RowAdvances, Live, Exists
  <1>6. EventsKept
    BY DEF EventsKept, EventIds
  <1>7. AnswersAreSound'
    BY <1>5, <1>6, <1>typ, Fields, BystanderStaysSound DEF AnswersAreSound
  <1>8. RequestsAreEvents'
    BY <1>6, RequestsStayEvents
  <1>9. ProviderFollowsRow'
    BY <1>1, <1>2, <1>f, <1>inv DEF ProviderFollowsRow, Live, Exists
  <1>10. EventsFollowRow' /\ ReadyMeansApplied' /\ DesiredStateNotLost'
    BY <1>4, <1>inv DEF EventsFollowRow, ReadyMeansApplied,
           DesiredStateNotLost, Pending, Live, Exists, EventIds
  <1>11. \A o \in observations : o.service \in Services
    BY <1>typ, Fields
  <1>12. ObservationsAreSound'
    BY <1>4, <1>11, <1>inv DEF ObservationsAreSound, Live, Exists
  <1> QED BY <1>7, <1>8, <1>9, <1>10, <1>12 DEF ProtocolInvariant

\* A status write: "removed" for a deleting row whose provider has applied the
\* delete or had nothing, "error" for a live row, any other state for a row that is applied.
LEMMA StateStep ==
  ASSUME Inv, TypeOK', NEW s \in Services, NEW state, SetState(s, state),
         \/ /\ state = "removed" /\ instances[s].state = "deleting"
            /\ provider[s].missed \/ provider[s].generation = instances[s].generation
         \/ state = "error" /\ Live(s)
         \/ state \in {"ready", "updating"} /\ Live(s) /\ Applied(s),
         UNCHANGED <<outbox, provider, abandoned>>,
         observations' \subseteq observations,
         \A w \in Workers : workers'[w] = workers[w] \/ AnswerIsSound(w)'
  PROVE  ProtocolInvariant'
  <1>typ. TypeOK
    BY DEF Inv, TypeInv
  <1>f. \A t \in Services : /\ instances[t].generation \in Nat
                            /\ provider[t].generation \in Nat
                            /\ provider[t].present \in BOOLEAN
    BY <1>typ, Fields
  <1>1. /\ instances'[s].state = state /\ instances'[s].generation = instances[s].generation
        /\ \A t \in Services : t # s => instances'[t] = instances[t]
    BY <1>typ DEF SetState, TypeOK, Row
  <1>2. \A t \in Services : /\ instances'[t].generation = instances[t].generation
                            /\ Applied(t)' <=> Applied(t)
                            /\ Live(t)' <=> Live(t)
                            /\ instances'[t].state = "none" <=> instances[t].state = "none"
    BY <1>1 DEF Applied, Live, Exists
  <1>3. EventsKept
    BY DEF EventsKept, EventIds
  <1>4. \A t \in Services : RowAdvances(t)
    <2>1. RowAdvances(s)
      BY <1>1, <1>2, <1>f DEF RowAdvances, Live, Exists
    <2> QED BY <2>1, <1>1, <1>2, <1>f DEF RowAdvances
  <1>5. AnswersAreSound'
    BY <1>3, <1>4, <1>typ, Fields, BystanderStaysSound DEF AnswersAreSound
  <1>6. RequestsAreEvents'
    BY <1>3, RequestsStayEvents
  <1>7. EventsFollowRow'
    <2>1. EventsFollowRow
      BY DEF Inv, ProtocolInvariant
    <2>2. \A t \in Services : instances[t].state \in {"deleting", "removed"} =>
                               instances'[t].state \in {"deleting", "removed"}
      BY <1>1 DEF Live, Exists
    <2> QED BY <1>2, <2>1, <2>2 DEF EventsFollowRow, EventIds
  <1>8. ProviderFollowsRow'
    BY <1>1, <1>2 DEF Inv, ProtocolInvariant, ProviderFollowsRow
  <1>9. ObservationsAreSound'
    BY <1>2, <1>typ, Fields DEF Inv, ProtocolInvariant, ObservationsAreSound
  <1>10. ReadyMeansApplied'
    BY <1>1, <1>2 DEF Inv, ProtocolInvariant, ReadyMeansApplied
  <1>11. DesiredStateNotLost'
    <2>1. \A t \in Services : \A tp \in Topics : Pending(t, tp)' <=> Pending(t, tp)
      BY <1>2 DEF Pending, EventIds
    <2> QED BY <2>1, <1>1, <1>2 DEF Inv, ProtocolInvariant, DesiredStateNotLost, Topics
  <1> QED BY <1>5, <1>6, <1>7, <1>8, <1>9, <1>10, <1>11 DEF ProtocolInvariant

\* A busy worker's event, with what the invariant says of it.
LEMMA HeldFacts ==
  ASSUME Inv, NEW w \in Workers, workers[w].pc # "idle"
  PROVE  LET s == workers[w].service IN
         /\ s \in Services
         /\ workers[w].event \in EventIds(s)
         /\ Held(w) = outbox[s][workers[w].event]
         /\ Held(w) \in Event
         /\ Held(w).generation \in Nat /\ Held(w).topic \in Topics
         /\ Held(w).delivered \in BOOLEAN /\ Held(w).locked \in BOOLEAN
         /\ 1 <= Held(w).generation /\ Held(w).generation <= instances[s].generation
         /\ Held(w).generation = instances[s].generation
              => (Live(s) <=> Held(w).topic # "delete")
         /\ Held(w).topic = "delete" => instances[s].state \in {"deleting", "removed"}
         /\ RequestOf(w) \in Request
         /\ \E e \in EventIds(s) : /\ outbox[s][e].topic = RequestOf(w).topic
                                   /\ outbox[s][e].generation = RequestOf(w).generation
         /\ RequestOf(w).service = s
         /\ RequestOf(w).generation = Held(w).generation
         /\ RequestOf(w).topic = Held(w).topic
         /\ AnswerIsSound(w)
  <1>1. TypeOK /\ AnswerIsSound(w) /\ EventsFollowRow
    BY DEF Inv, TypeInv, ProtocolInvariant, AnswersAreSound
  <1>2. workers[w].event \in EventIds(workers[w].service)
    BY <1>1 DEF AnswerIsSound
  <1>3. /\ workers[w].service \in Services
        /\ Held(w) = outbox[workers[w].service][workers[w].event]
        /\ Held(w) \in Event
        /\ RequestOf(w) \in Request
    BY <1>1, <1>2, HeldIsEvent
  <1>4. /\ RequestOf(w).service = workers[w].service
        /\ RequestOf(w).generation = Held(w).generation
        /\ RequestOf(w).topic = Held(w).topic
    BY DEF RequestOf
  <1>5. /\ 1 <= Held(w).generation /\ Held(w).generation <= instances[workers[w].service].generation
        /\ Held(w).generation = instances[workers[w].service].generation
              => (Live(workers[w].service) <=> Held(w).topic # "delete")
        /\ Held(w).topic = "delete" =>
              instances[workers[w].service].state \in {"deleting", "removed"}
    BY <1>1, <1>2, <1>3 DEF EventsFollowRow
  <1> QED
    BY <1>1, <1>2, <1>3, <1>4, <1>5 DEF Event

\* A worker that became idle, or went on to a point at which it claims nothing,
\* is sound.
LEMMA QuietWorker ==
  ASSUME NEW w \in Workers,
         \/ workers'[w].pc = "idle"
         \/ /\ workers'[w].pc \in {"claimed", "loaded", "sent"}
            /\ workers'[w].event \in 1..Len(outbox'[workers'[w].service])
  PROVE  AnswerIsSound(w)'
  BY DEF AnswerIsSound, EventIds

\* Goto changes one worker's program counter and answer.
LEMMA GotoEffect ==
  ASSUME TypeOK, NEW w \in Workers, NEW pc, NEW answer, Goto(w, pc, answer)
  PROVE  /\ workers'[w].pc = pc /\ workers'[w].answer = answer
         /\ workers'[w].service = workers[w].service /\ workers'[w].event = workers[w].event
         /\ \A v \in Workers : v # w => workers'[v] = workers[v]
  BY DEF Goto, TypeOK, WorkerState

\* A worker that finishes with a retry promises nothing.
LEMMA RetryIsSound ==
  ASSUME Inv, NEW w \in Workers, workers[w].pc # "idle", Goto(w, "finished", "retry"),
         UNCHANGED outbox
  PROVE  /\ AnswerIsSound(w)'
         /\ \A v \in Workers : workers'[v] = workers[v] \/ AnswerIsSound(v)'
  <1>1. workers[w].event \in EventIds(workers[w].service)
    BY HeldFacts
  <1>2. /\ workers'[w].pc = "finished" /\ workers'[w].answer = "retry"
        /\ workers'[w].service = workers[w].service /\ workers'[w].event = workers[w].event
        /\ \A v \in Workers : v # w => workers'[v] = workers[v]
    BY GotoEffect DEF Inv, TypeInv
  <1>3. AnswerIsSound(w)'
    BY <1>1, <1>2 DEF AnswerIsSound, EventIds
  <1> QED BY <1>2, <1>3

\* A worker that finishes with any other result has seen the event dealt with.
LEMMA FinishIsSound ==
  ASSUME Inv, NEW w \in Workers, workers[w].pc # "idle", NEW answer \in {"ok", "stale"},
         Goto(w, "finished", answer), UNCHANGED outbox,
         LET s == workers[w].service IN
         Held(w).generation = instances'[s].generation =>
              \/ instances'[s].state = "removed"
              \/ /\ Live(s)'
                 /\ Held(w).topic = "reconcile" => Applied(s)' \/ instances'[s].state = "error"
  PROVE  \A v \in Workers : workers'[v] = workers[v] \/ AnswerIsSound(v)'
  <1>1. workers[w].event \in EventIds(workers[w].service)
    BY HeldFacts
  <1>2. /\ workers'[w].pc = "finished" /\ workers'[w].answer = answer
        /\ workers'[w].service = workers[w].service /\ workers'[w].event = workers[w].event
        /\ \A v \in Workers : v # w => workers'[v] = workers[v]
    BY GotoEffect DEF Inv, TypeInv
  <1>3. Held(w)' = Held(w)
    BY <1>2 DEF Held
  <1>4. AnswerIsSound(w)'
    BY <1>1, <1>2, <1>3 DEF AnswerIsSound, EventIds
  <1> QED BY <1>2, <1>4

\* Requests under way stay covered when a busy worker's request joins them.
LEMMA AbandonIsSound ==
  ASSUME Inv, NEW w \in Workers, workers[w].pc # "idle", UNCHANGED outbox,
         abandoned' \subseteq abandoned \cup {RequestOf(w)}
  PROVE  RequestsAreEvents'
  <1>1. RequestsAreEvents
    BY DEF Inv, ProtocolInvariant
  <1>2. \E e \in EventIds(RequestOf(w).service) :
           /\ outbox[RequestOf(w).service][e].topic = RequestOf(w).topic
           /\ outbox[RequestOf(w).service][e].generation = RequestOf(w).generation
    BY HeldFacts
  <1> QED BY <1>1, <1>2 DEF RequestsAreEvents, EventIds

\* The protocol's invariant is kept by every step.
LEMMA ProtocolStep == Inv /\ [Next]_vars => Inv'
  <1> SUFFICES ASSUME Inv, [Next]_vars PROVE Inv'
    OBVIOUS
  <1>typ. TypeInv' /\ TypeOK' /\ TypeOK /\ TypeInv
    BY TypeStep DEF Inv, TypeInv
  <1> SUFFICES ProtocolInvariant'
    BY <1>typ DEF Inv
  <1>inv. /\ EventsFollowRow /\ AnswersAreSound /\ ProviderFollowsRow /\ RequestsAreEvents
          /\ ObservationsAreSound /\ ReadyMeansApplied /\ DesiredStateNotLost
    BY DEF Inv, ProtocolInvariant
  <1>f. \A s \in Services : instances[s].generation \in Nat /\ provider[s].generation \in Nat
    BY <1>typ, Fields
  <1>1. CASE UNCHANGED vars
    <2>1. RequestsAreEvents'
      BY <1>1, <1>inv DEF vars, RequestsAreEvents, EventIds
    <2> QED BY <1>1, <1>typ, <2>1, LocalStep DEF vars
  <1>2. ASSUME NEW s \in Services, CreateServiceInstance(s) PROVE ProtocolInvariant'
    <2>1. instances[s].generation = 0
      BY <1>2, <1>inv DEF CreateServiceInstance, EventsFollowRow
    <2>2. WriteRow(s, instances[s].generation + 1, "provisioning", "reconcile")
      BY <1>2, <2>1 DEF CreateServiceInstance
    <2> QED BY <1>2, <1>typ, <2>2, WriteRowStep DEF CreateServiceInstance, States, Topics
  <1>3. ASSUME NEW s \in Services, UpdateServiceInstance(s) PROVE ProtocolInvariant'
    BY <1>3, <1>typ, WriteRowStep DEF UpdateServiceInstance, Live, Exists, States, Topics
  <1>4. ASSUME NEW s \in Services, BeginDeleteServiceInstance(s) PROVE ProtocolInvariant'
    BY <1>4, <1>typ, WriteRowStep DEF BeginDeleteServiceInstance, Live, Exists, States, Topics
  <1>5. CASE SetResourceQuota
    <2> DEFINE rows == {s \in Flash : Live(s)}
    <2>1. rows \in SUBSET Services
      BY LifecycleAssumption
    <2> QED BY <1>5, <2>1, <1>typ, EnqueueStep DEF SetResourceQuota
  <1>6. ASSUME NEW rows \in SUBSET Flash, EnqueueFlashGpuReconciles(rows) PROVE ProtocolInvariant'
    <2>1. rows \in SUBSET Services
      BY <1>6, LifecycleAssumption
    <2> QED BY <1>6, <2>1, <1>typ, EnqueueStep DEF EnqueueFlashGpuReconciles
  <1>7. ASSUME NEW s \in Flash, NEW phase \in Phases, Observe(s, phase)
        PROVE  ProtocolInvariant'
    <2> DEFINE new == [service |-> s, generation |-> provider[s].generation, phase |-> phase]
    <2>1. /\ UNCHANGED <<instances, outbox, workers, provider, abandoned>>
          /\ observations' = observations \cup {new}
          /\ s \in Services /\ provider[s].present
      BY <1>7, LifecycleAssumption DEF Observe
    <2>2. ObservationsAreSound'
      <3>1. /\ new.generation <= instances[new.service].generation
            /\ (Live(new.service) /\ new.generation = instances[new.service].generation)
                 => Applied(new.service)
        BY <2>1, <1>inv DEF ProviderFollowsRow, Applied
      <3> HIDE DEF new
      <3> QED BY <2>1, <3>1, <1>inv DEF ObservationsAreSound, Applied, Live, Exists
    <2>3. EventsFollowRow' /\ ProviderFollowsRow' /\ ReadyMeansApplied' /\ DesiredStateNotLost'
          /\ RequestsAreEvents'
      BY <2>1, <1>inv DEF EventsFollowRow, ProviderFollowsRow, ReadyMeansApplied, DesiredStateNotLost,
           RequestsAreEvents, Pending, Applied, Live, Exists, EventIds
    <2>4. AnswersAreSound'
      BY <2>1, <1>inv DEF AnswersAreSound, AnswerIsSound, Held, Applied, Live, Exists, EventIds
    <2> QED BY <2>2, <2>3, <2>4 DEF ProtocolInvariant
  <1>8. ASSUME NEW o \in observations, RecordFlashObservation(o) PROVE ProtocolInvariant'
    <2>0. o.service \in Services /\ o.phase \in {"ready", "error", "updating"}
      BY <1>8, <1>typ DEF TypeOK, Observation, Phases
    <2>1. observations' \subseteq observations
      BY <1>8 DEF RecordFlashObservation, Recorded
    <2>2. CASE Live(o.service) /\ instances[o.service].generation = o.generation
      <3>1. SetState(o.service, o.phase)
        BY <1>8, <2>2 DEF RecordFlashObservation
      <3>2. Applied(o.service)
        BY <1>8, <2>2, <1>inv DEF ObservationsAreSound
      <3> QED BY <1>8, <2>0, <2>1, <2>2, <3>1, <3>2, <1>typ, StateStep DEF RecordFlashObservation
    <2>3. CASE ~(Live(o.service) /\ instances[o.service].generation = o.generation)
      <3>1. UNCHANGED <<instances, outbox, workers, provider, abandoned>>
        BY <1>8, <2>3 DEF RecordFlashObservation
      <3>2. ObservationsAreSound'
        BY <2>1, <3>1, <1>inv DEF ObservationsAreSound, Applied, Live, Exists
      <3>3. EventsFollowRow' /\ ProviderFollowsRow' /\ ReadyMeansApplied' /\ DesiredStateNotLost'
            /\ RequestsAreEvents'
        BY <3>1, <1>inv DEF EventsFollowRow, ProviderFollowsRow, ReadyMeansApplied, DesiredStateNotLost,
             RequestsAreEvents, Pending, Applied, Live, Exists, EventIds
      <3>4. AnswersAreSound'
        BY <3>1, <1>inv DEF AnswersAreSound, AnswerIsSound, Held, Applied, Live, Exists, EventIds
      <3> QED BY <3>2, <3>3, <3>4 DEF ProtocolInvariant
    <2> QED BY <2>2, <2>3
  <1>9. ASSUME NEW w \in Workers, NEW s \in Services, NEW e \in EventIds(s), ClaimOutboxEvent(w, s, e)
        PROVE  ProtocolInvariant'
    <2>1. /\ workers'[w].pc = "claimed" /\ workers'[w].service = s /\ workers'[w].event = e
          /\ \A v \in Workers : v # w => workers'[v] = workers[v]
      BY <1>9, <1>typ DEF ClaimOutboxEvent, TypeOK
    <2>2. Len(outbox'[s]) = Len(outbox[s])
      BY <1>9, <1>typ, SetEventEffect DEF ClaimOutboxEvent
    <2>3. \A v \in Workers : workers'[v] = workers[v] \/ AnswerIsSound(v)'
      BY <1>9, <2>1, <2>2, QuietWorker DEF EventIds
    <2>4. FALSE = outbox[s][e].delivered
      BY <1>9, <1>typ, Fields DEF ClaimOutboxEvent
    <2> QED BY <1>9, <2>3, <2>4, <1>typ, FlagStep DEF ClaimOutboxEvent
  <1>10. ASSUME NEW s \in Services, NEW e \in EventIds(s), LeaseExpires(s, e)
         PROVE  ProtocolInvariant'
    <2>1. outbox[s][e].delivered \in BOOLEAN
      BY <1>10, <1>typ, Fields
    <2> QED BY <1>10, <2>1, <1>typ, FlagStep DEF LeaseExpires
  <1>11. ASSUME NEW w \in Workers, LoadInstance(w) PROVE ProtocolInvariant'
    <2> DEFINE s == workers[w].service
    <2>0. workers[w].pc # "idle" /\ UNCHANGED <<instances, outbox, observations, provider, abandoned>>
      BY <1>11 DEF LoadInstance
    <2>h. /\ s \in Services /\ workers[w].event \in EventIds(s)
          /\ Held(w).generation = instances[s].generation => (Live(s) <=> Held(w).topic # "delete")
          /\ 1 <= Held(w).generation /\ Held(w).generation \in Nat
      BY <1>11, <2>0, HeldFacts
    <2>1. RequestsAreEvents'
      BY <2>0, <1>inv DEF RequestsAreEvents, EventIds
    <2>2. CASE Goto(w, "finished", "retry")
      BY <1>11, <2>0, <2>1, <2>2, <1>typ, RetryIsSound, LocalStep
    <2>3. CASE Goto(w, "loaded", "none")
      <3>1. \A v \in Workers : workers'[v] = workers[v] \/ AnswerIsSound(v)'
        BY <1>11, <2>0, <2>3, <2>h, <1>typ, GotoEffect, QuietWorker DEF EventIds
      <3> QED BY <2>0, <2>1, <3>1, <1>typ, LocalStep
    <2>4. CASE ~Exists(s) /\ Held(w).topic = "delete" /\ Goto(w, "finished", "ok")
      <3>1. Held(w).generation = instances'[s].generation => instances'[s].state = "removed"
        BY <2>0, <2>4, <2>h, <1>inv, <1>f DEF Exists, EventsFollowRow
      <3>2. \A v \in Workers : workers'[v] = workers[v] \/ AnswerIsSound(v)'
        BY <1>11, <2>0, <2>4, <3>1, FinishIsSound
      <3> QED BY <2>0, <2>1, <3>2, <1>typ, LocalStep
    <2>5. CASE Exists(s) /\ instances[s].generation # Held(w).generation /\ Goto(w, "finished", "stale")
      <3>1. \A v \in Workers : workers'[v] = workers[v] \/ AnswerIsSound(v)'
        BY <1>11, <2>0, <2>5, FinishIsSound
      <3> QED BY <2>0, <2>1, <3>1, <1>typ, LocalStep
    <2> QED BY <1>11, <2>2, <2>3, <2>4, <2>5 DEF LoadInstance
  <1>12. ASSUME NEW w \in Workers, SendRequest(w) PROVE ProtocolInvariant'
    <2>0. workers[w].pc # "idle" /\ UNCHANGED <<instances, outbox, observations, provider, abandoned>>
      BY <1>12 DEF SendRequest
    <2>1. /\ workers'[w].pc = "sent" /\ workers'[w].service = workers[w].service
          /\ workers'[w].event = workers[w].event
          /\ \A v \in Workers : v # w => workers'[v] = workers[v]
      BY <1>12, <1>typ DEF SendRequest, TypeOK, WorkerState
    <2>2. workers[w].event \in EventIds(workers[w].service)
      BY <1>12, <2>0, HeldFacts
    <2>3. \A v \in Workers : workers'[v] = workers[v] \/ AnswerIsSound(v)'
      BY <1>12, <2>0, <2>1, <2>2, QuietWorker DEF EventIds
    <2>4. RequestsAreEvents'
      BY <2>0, <1>inv DEF RequestsAreEvents, EventIds
    <2> QED BY <2>0, <2>3, <2>4, <1>typ, LocalStep
  <1>13. ASSUME NEW w \in Workers, NEW answer \in Answers, ProviderAccepts(w, answer)
         PROVE  ProtocolInvariant'
    <2> DEFINE s == workers[w].service
    <2>0. workers[w].pc # "idle" /\ UNCHANGED <<instances, outbox, observations, abandoned>>
      BY <1>13 DEF ProviderAccepts
    <2>h. /\ s \in Services /\ workers[w].event \in EventIds(s)
          /\ RequestOf(w) \in Request /\ RequestOf(w).service = s
          /\ RequestOf(w).generation = Held(w).generation /\ Held(w).generation \in Nat
          /\ Held(w).topic \in Topics
          /\ \E e \in EventIds(s) : /\ outbox[s][e].topic = RequestOf(w).topic
                                    /\ outbox[s][e].generation = RequestOf(w).generation
      BY <1>13, <2>0, HeldFacts
    <2>1. /\ workers'[w].pc = "answered" /\ workers'[w].answer = answer
          /\ workers'[w].service = s /\ workers'[w].event = workers[w].event
          /\ \A v \in Workers : v # w => workers'[v] = workers[v]
      BY <1>13, <1>typ, GotoEffect DEF ProviderAccepts
    <2>2. Held(w)' = Held(w)
      BY <2>0, <2>1 DEF Held
    <2>3. provider'[s].generation = Held(w).generation
      BY <1>13, <2>h, <1>typ DEF ProviderAccepts, ProviderApplies, TypeOK
    <2>4. answer \in SuccessAnswers(Held(w).topic) /\ answer # "rejected"
      BY <1>13, <2>h DEF ProviderAccepts, SuccessAnswers, Topics
    <2>5. AnswerIsSound(w)'
      BY <2>0, <2>1, <2>2, <2>3, <2>4, <2>h DEF AnswerIsSound, EventIds
    <2>6. \A v \in Workers : workers'[v] = workers[v] \/ AnswerIsSound(v)'
      BY <2>1, <2>5
    <2> QED BY <1>13, <2>0, <2>h, <2>6, <1>typ, ApplyStep DEF ProviderAccepts
  <1>13a. ASSUME NEW w \in Workers, ProviderHasNothing(w) PROVE ProtocolInvariant'
    <2> DEFINE s == workers[w].service
    <2>0. /\ workers[w].pc # "idle" /\ UNCHANGED <<instances, outbox, observations, abandoned>>
          /\ provider' = [provider EXCEPT ![s] =
               [generation |-> 0, present |-> FALSE, policy |-> 0, missed |-> TRUE]]
      BY <1>13a DEF ProviderHasNothing
    <2>h. s \in Services /\ workers[w].event \in EventIds(s)
      BY <1>13a, <2>0, HeldFacts
    <2>1. /\ workers'[w].pc = "answered" /\ workers'[w].answer = "deleted"
          /\ workers'[w].service = s /\ workers'[w].event = workers[w].event
          /\ \A v \in Workers : v # w => workers'[v] = workers[v]
      BY <1>13a, <1>typ, GotoEffect DEF ProviderHasNothing
    <2>2. Held(w)' = Held(w)
      BY <2>0, <2>1 DEF Held
    <2>3. Held(w).topic = "delete" /\ provider[s].generation = 0
      BY <1>13a DEF ProviderHasNothing, NotFound, RequestOf
    <2>4. provider'[s].missed = TRUE
      BY <2>0, <2>h, <1>typ DEF TypeOK
    <2>5. AnswerIsSound(w)'
      BY <2>0, <2>1, <2>2, <2>3, <2>4, <2>h DEF AnswerIsSound, EventIds, SuccessAnswers
    <2>6. \A v \in Workers : workers'[v] = workers[v] \/ AnswerIsSound(v)'
      BY <2>1, <2>5
    <2> QED BY <2>0, <2>h, <2>3, <2>6, <1>typ, MissStep
  <1>14. ASSUME NEW w \in Workers, ProviderRejects(w) PROVE ProtocolInvariant'
    <2>0. /\ workers[w].pc # "idle" /\ Held(w).topic = "reconcile"
          /\ UNCHANGED <<instances, outbox, observations, provider, abandoned>>
      BY <1>14 DEF ProviderRejects
    <2>1. /\ workers'[w].pc = "answered" /\ workers'[w].answer = "rejected"
          /\ workers'[w].service = workers[w].service /\ workers'[w].event = workers[w].event
          /\ \A v \in Workers : v # w => workers'[v] = workers[v]
      BY <1>14, <1>typ, GotoEffect DEF ProviderRejects
    <2>2. workers[w].event \in EventIds(workers[w].service) /\ Held(w)' = Held(w)
      BY <1>14, <2>0, <2>1, HeldFacts DEF Held
    <2>3. AnswerIsSound(w)'
      BY <2>0, <2>1, <2>2 DEF AnswerIsSound, EventIds
    <2>4. RequestsAreEvents'
      BY <2>0, <1>inv DEF RequestsAreEvents, EventIds
    <2> QED BY <2>0, <2>1, <2>3, <2>4, <1>typ, LocalStep
  <1>15. ASSUME NEW w \in Workers, ProviderUnavailable(w) \/ RequestTimesOut(w)
         PROVE  ProtocolInvariant'
    <2>0. /\ workers[w].pc # "idle" /\ Goto(w, "finished", "retry")
          /\ UNCHANGED <<instances, outbox, observations, provider>>
          /\ abandoned' \subseteq abandoned \cup {RequestOf(w)}
      BY <1>15 DEF ProviderUnavailable, RequestTimesOut, Abandon
    <2> QED BY <1>15, <2>0, <1>typ, RetryIsSound, AbandonIsSound, LocalStep
  <1>16. ASSUME NEW r \in abandoned, AbandonedArrives(r) \/ AbandonedIsLost(r)
         PROVE  ProtocolInvariant'
    <2>0. /\ UNCHANGED <<instances, outbox, workers, observations>>
          /\ abandoned' \subseteq abandoned
      BY <1>16 DEF AbandonedArrives, AbandonedIsLost
    <2>1. CASE UNCHANGED provider
      <3>1. RequestsAreEvents'
        BY <2>0, <1>inv DEF RequestsAreEvents, EventIds
      <3> QED BY <2>0, <2>1, <3>1, <1>typ, LocalStep
    <2>2. CASE Accepts(r) /\ ProviderApplies(r)
      <3>1. r \in Request
        BY <1>16, <1>typ DEF TypeOK
      <3>2. \E e \in EventIds(r.service) :
               outbox[r.service][e].topic = r.topic /\ outbox[r.service][e].generation = r.generation
        BY <1>16, <1>inv DEF RequestsAreEvents
      <3> QED BY <2>0, <2>2, <3>1, <3>2, <1>typ, ApplyStep
    <2> QED BY <1>16, <2>1, <2>2 DEF AbandonedArrives, AbandonedIsLost
  <1>busy. ASSUME NEW w \in Workers, workers[w].pc = "answered"
           PROVE  LET s == workers[w].service IN
                  /\ workers[w].pc # "idle" /\ s \in Services
                  /\ workers[w].event \in EventIds(s)
                  /\ Held(w).generation \in Nat /\ Held(w).topic \in Topics
                  /\ Held(w).generation <= instances[s].generation
                  /\ Held(w).generation = instances[s].generation
                       => (Live(s) <=> Held(w).topic # "delete")
                  /\ workers[w].answer \in SuccessAnswers(Held(w).topic) \cup {"rejected"}
                  /\ workers[w].answer = "rejected" => Held(w).topic = "reconcile"
                  /\ workers[w].answer # "rejected" =>
                       \/ Held(w).generation <= provider[s].generation
                       \/ workers[w].answer = "deleted" /\ provider[s].missed
    <2>1. workers[w].pc # "idle"
      BY <1>busy
    <2> QED BY <2>1, <1>busy, HeldFacts DEF AnswerIsSound
  <1>17. ASSUME NEW w \in Workers, CompleteDeleteServiceInstance(w) PROVE ProtocolInvariant'
    <2> DEFINE s == workers[w].service
    <2>0. /\ workers[w].pc = "answered" /\ workers[w].answer = "deleted"
          /\ UNCHANGED <<outbox, observations, provider, abandoned>>
      BY <1>17 DEF CompleteDeleteServiceInstance
    <2>1. /\ workers[w].pc # "idle" /\ s \in Services
          /\ Held(w).generation \in Nat
          /\ Held(w).topic = "delete"
          /\ Held(w).generation <= instances[s].generation
          /\ Held(w).generation = instances[s].generation => ~Live(s)
          /\ provider[s].missed \/ Held(w).generation <= provider[s].generation
      <3>1. Held(w).topic = "delete"
        BY <2>0, <1>17, <1>busy DEF SuccessAnswers, Topics
      <3> QED BY <3>1, <2>0, <1>17, <1>busy
    <2>2. CASE RowMatches(w) /\ instances[s].state = "deleting"
      <3>1. SetState(s, "removed") /\ Goto(w, "finished", "ok")
        BY <1>17, <2>2 DEF CompleteDeleteServiceInstance
      <3>2. provider[s].missed \/ provider[s].generation = instances[s].generation
        BY <2>1, <2>2, <1>inv, <1>f DEF RowMatches, ProviderFollowsRow
      <3>3. instances'[s].state = "removed"
        BY <3>1, <2>1, <1>typ DEF SetState, TypeOK, Row
      <3>4. \A v \in Workers : workers'[v] = workers[v] \/ AnswerIsSound(v)'
        BY <1>17, <2>0, <2>1, <3>1, <3>3, FinishIsSound
      <3> QED BY <2>0, <2>1, <2>2, <3>1, <3>2, <3>4, <1>typ, StateStep
    <2>3. CASE ~(RowMatches(w) /\ instances[s].state = "deleting")
      <3>1. UNCHANGED instances /\ Goto(w, "finished", "stale")
        BY <1>17, <2>3 DEF CompleteDeleteServiceInstance
      <3>2. Held(w).generation = instances[s].generation => instances[s].state = "removed"
        <4>1. Held(w).generation >= 1
          BY <1>17, <2>1, HeldFacts
        <4>2. instances[s].state = "none" => instances[s].generation = 0
          BY <2>1, <1>inv DEF EventsFollowRow
        <4> QED BY <2>1, <2>3, <4>1, <4>2 DEF RowMatches, Live, Exists
      <3>3. \A v \in Workers : workers'[v] = workers[v] \/ AnswerIsSound(v)'
        BY <1>17, <2>0, <2>1, <3>1, <3>2, FinishIsSound
      <3>4. RequestsAreEvents'
        BY <2>0, <1>inv DEF RequestsAreEvents, EventIds
      <3> QED BY <2>0, <3>1, <3>3, <3>4, <1>typ, LocalStep
    <2> QED BY <2>2, <2>3
  <1>18. ASSUME NEW w \in Workers, MarkServiceInstanceReady(w) \/ MarkServiceInstanceError(w)
         PROVE  ProtocolInvariant'
    <2> DEFINE s == workers[w].service
               st == IF workers[w].answer = "accepted" THEN "ready" ELSE "error"
    <2>0. /\ workers[w].pc = "answered" /\ workers[w].answer \in {"accepted", "failed", "rejected"}
          /\ UNCHANGED <<outbox, observations, provider, abandoned>>
          /\ IF RowMatches(w) THEN SetState(s, st) /\ Goto(w, "finished", "ok")
                              ELSE UNCHANGED instances /\ Goto(w, "finished", "stale")
      BY <1>18 DEF MarkServiceInstanceReady, MarkServiceInstanceError
    <2>1. /\ workers[w].pc # "idle" /\ s \in Services
          /\ Held(w).topic = "reconcile" /\ Held(w).generation \in Nat
          /\ Held(w).generation = instances[s].generation => Live(s)
          /\ workers[w].answer # "rejected" => Held(w).generation <= provider[s].generation
      <3>1. Held(w).topic = "reconcile"
        BY <2>0, <1>18, <1>busy DEF SuccessAnswers, Topics
      <3> QED BY <3>1, <2>0, <1>18, <1>busy
    <2>2. CASE RowMatches(w)
      <3>1. Live(s) /\ Held(w).generation = instances[s].generation
        BY <2>1, <2>2 DEF RowMatches
      <3>2. workers[w].answer = "accepted" => Applied(s)
        BY <2>1, <3>1, <1>inv, <1>f DEF ProviderFollowsRow, Applied
      <3>3. SetState(s, st) /\ Goto(w, "finished", "ok")
        BY <2>0, <2>2
      <3>4. st = "error" \/ (st = "ready" /\ Applied(s))
        BY <3>2
      <3> HIDE DEF st
      <3>5. instances'[s].state = st /\ instances'[s].generation = instances[s].generation
        BY <3>3, <2>1, <1>typ DEF SetState, TypeOK, Row
      <3>same. workers'[w].service = workers[w].service
        BY <1>18, <3>3, <1>typ, GotoEffect
      <3>6. Live(s)' /\ (Applied(s)' \/ instances'[s].state = "error")
        BY <3>same, <3>4, <3>5, <2>0 DEF Live, Exists, Applied
      <3>7. \A v \in Workers : workers'[v] = workers[v] \/ AnswerIsSound(v)'
        BY <1>18, <2>0, <2>1, <3>3, <3>6, FinishIsSound
      <3> QED BY <2>0, <2>1, <3>1, <3>3, <3>4, <3>7, <1>typ, StateStep
    <2>3. CASE ~RowMatches(w)
      <3>1. UNCHANGED instances /\ Goto(w, "finished", "stale")
        BY <2>0, <2>3
      <3>2. Held(w).generation # instances[s].generation
        BY <2>1, <2>3 DEF RowMatches, Live
      <3>3. \A v \in Workers : workers'[v] = workers[v] \/ AnswerIsSound(v)'
        BY <1>18, <2>0, <2>1, <3>1, <3>2, FinishIsSound
      <3>4. RequestsAreEvents'
        BY <2>0, <1>inv DEF RequestsAreEvents, EventIds
      <3> QED BY <2>0, <3>1, <3>3, <3>4, <1>typ, LocalStep
    <2> QED BY <2>2, <2>3
  <1>19. ASSUME NEW w \in Workers, AcknowledgeQuota(w) PROVE ProtocolInvariant'
    <2> DEFINE s == workers[w].service
    <2>0. /\ workers[w].pc = "answered" /\ workers[w].answer = "ok" /\ Goto(w, "finished", "ok")
          /\ UNCHANGED <<instances, outbox, observations, provider, abandoned>>
      BY <1>19 DEF AcknowledgeQuota
    <2>1. /\ workers[w].pc # "idle" /\ Held(w).topic = "flash-quota"
          /\ Held(w).generation = instances[s].generation => Live(s)
      <3>1. Held(w).topic = "flash-quota"
        BY <2>0, <1>19, <1>busy DEF SuccessAnswers, Topics
      <3> QED BY <3>1, <2>0, <1>19, <1>busy
    <2>same. workers'[w].service = workers[w].service
      BY <1>19, <2>0, <1>typ, GotoEffect
    <2>2. Live(s)' <=> Live(s)
      BY <2>same, <2>0 DEF Live, Exists
    <2>3. \A v \in Workers : workers'[v] = workers[v] \/ AnswerIsSound(v)'
      BY <1>19, <2>0, <2>1, <2>2, FinishIsSound
    <2>4. RequestsAreEvents'
      BY <2>0, <1>inv DEF RequestsAreEvents, EventIds
    <2> QED BY <2>0, <2>3, <2>4, <1>typ, LocalStep
  <1>idle. ASSUME NEW w \in Workers, workers' = [workers EXCEPT ![w] = Idle]
           PROVE  \A v \in Workers : workers'[v] = workers[v] \/ AnswerIsSound(v)'
    <2>1. workers'[w].pc = "idle" /\ \A v \in Workers : v # w => workers'[v] = workers[v]
      BY <1>idle, <1>typ DEF TypeOK, Idle
    <2> QED BY <1>idle, <2>1, QuietWorker
  <1>20. ASSUME NEW w \in Workers, MarkOutboxDelivered(w) \/ RetryOutboxEvent(w)
         PROVE  ProtocolInvariant'
    <2> DEFINE s == workers[w].service
               e == workers[w].event
    <2>0. /\ workers[w].pc = "finished" /\ workers[w].pc # "idle"
          /\ workers' = [workers EXCEPT ![w] = Idle]
          /\ UNCHANGED <<instances, observations, provider, abandoned>>
      BY <1>20 DEF MarkOutboxDelivered, RetryOutboxEvent
    <2>1. /\ s \in Services /\ e \in EventIds(s) /\ Held(w) = outbox[s][e]
          /\ Held(w).delivered \in BOOLEAN /\ Held(w).topic \in Topics
          /\ (Held(w).locked /\ Held(w).delivered) \in BOOLEAN
          /\ AnswerIsSound(w)
      BY <1>20, <2>0, HeldFacts
    <2>2. \A v \in Workers : workers'[v] = workers[v] \/ AnswerIsSound(v)'
      BY <1>20, <2>0, <1>idle
    <2>3. CASE MarkOutboxDelivered(w)
      <3>1. SetEvent(s, e, TRUE, FALSE) /\ workers[w].answer # "retry"
        BY <2>3 DEF MarkOutboxDelivered
      <3>2. MayClose(s, e)
        BY <2>0, <2>1, <3>1 DEF AnswerIsSound, MayClose, Live, Exists
      <3> QED BY <2>0, <2>1, <2>2, <3>1, <3>2, <1>typ, FlagStep
    <2>4. CASE RetryOutboxEvent(w)
      <3>1. SetEvent(s, e, Held(w).delivered, Held(w).locked /\ Held(w).delivered)
        BY <2>4 DEF RetryOutboxEvent
      <3> DEFINE d == Held(w).delivered
                 l == Held(w).locked /\ Held(w).delivered
      <3>2. SetEvent(s, e, d, l) /\ d \in BOOLEAN /\ l \in BOOLEAN /\ d = outbox[s][e].delivered
        BY <2>1, <3>1
      <3> HIDE DEF d, l
      <3> QED BY <2>0, <2>1, <2>2, <3>2, <1>typ, FlagStep
    <2> QED BY <1>20, <2>3, <2>4
  <1>21. ASSUME NEW w \in Workers, WorkerCrashes(w) PROVE ProtocolInvariant'
    <2>0. /\ workers[w].pc # "idle" /\ workers' = [workers EXCEPT ![w] = Idle]
          /\ UNCHANGED <<instances, outbox, observations, provider>>
          /\ abandoned' \subseteq abandoned \cup {RequestOf(w)}
      BY <1>21 DEF WorkerCrashes, Abandon
    <2> QED BY <1>21, <2>0, <1>idle, <1>typ, AbandonIsSound, LocalStep
  <1>22. CASE ApiStep
    BY <1>22, <1>2, <1>3, <1>4, <1>5, <1>6, <1>7, <1>8 DEF ApiStep, SetFlashServiceStopped
  <1>23. CASE \E w \in Workers : WorkerStep(w)
    BY <1>23, <1>9, <1>11, <1>12, <1>15, <1>17, <1>18, <1>19, <1>20, <1>21 DEF WorkerStep
  <1>24. CASE ProviderStep
    BY <1>24, <1>13, <1>13a, <1>14, <1>15, <1>16 DEF ProviderStep
  <1> QED
    BY <1>1, <1>10, <1>22, <1>23, <1>24 DEF Next

\* The invariant holds initially: the tables are empty and nobody works.
LEMMA ProtocolInit == Init => Inv
  <1> SUFFICES ASSUME Init PROVE Inv
    OBVIOUS
  <1>1. TypeInv
    <2>1. workers \in [Workers -> WorkerState] /\ HoldsEvents
      BY IdleIsWorkerState DEF Init, HoldsEvents, Idle
    <2>2. outbox \in [Services -> Seq(Event)]
      BY EmptySeq DEF Init
    <2> QED
      BY <2>1, <2>2 DEF Init, TypeInv, TypeOK, Row, States, Observation, Phases,
           Provided
  <1>2. \A s \in Services : /\ EventIds(s) = {} /\ ~Live(s)
                            /\ instances[s].state = "none" /\ instances[s].generation = 0
                            /\ provider[s].generation = 0 /\ provider[s].present = FALSE
    <2>1. \A s \in Services : outbox[s] = << >> /\ Len(outbox[s]) = 0
      BY EmptySeq DEF Init
    <2> QED BY <2>1 DEF Init, EventIds, Live, Exists
  <1>3. \A w \in Workers : workers[w].pc = "idle"
    BY DEF Init, Idle
  <1>4. AnswersAreSound /\ RequestsAreEvents
    BY <1>3 DEF AnswersAreSound, AnswerIsSound, RequestsAreEvents, Init
  <1>5. /\ EventsFollowRow /\ ProviderFollowsRow /\ ObservationsAreSound
        /\ ReadyMeansApplied /\ DesiredStateNotLost
    BY <1>2 DEF EventsFollowRow, ProviderFollowsRow, ObservationsAreSound, ReadyMeansApplied,
         DesiredStateNotLost, Init
  <1> QED BY <1>1, <1>4, <1>5 DEF Inv, ProtocolInvariant

\* The types and the outbox protocol's invariant hold in every state.
LEMMA AlwaysInv == Spec => []Inv
  BY ProtocolInit, ProtocolStep, PTL DEF Spec

\* Events, answers, observations and late requests stay tied to the row and to
\* what the provider holds, however workers, observers and users interleave.
THEOREM ProtocolHolds == Spec => []ProtocolInvariant
  <1>1. Inv => ProtocolInvariant
    BY DEF Inv
  <1> QED BY <1>1, AlwaysInv, PTL

\* No crash, expired lease, late request or late answer loses an accepted
\* generation or an accepted delete.
THEOREM DesiredStateIsNeverLost == Spec => []DesiredStateNotLost
  <1>1. Inv => DesiredStateNotLost
    BY DEF Inv, ProtocolInvariant
  <1> QED BY <1>1, AlwaysInv, PTL

\* An instance reads ready only while its provider holds its very generation.
THEOREM ReadyIsApplied == Spec => []ReadyMeansApplied
  <1>1. Inv => ReadyMeansApplied
    BY DEF Inv, ProtocolInvariant
  <1> QED BY <1>1, AlwaysInv, PTL

\* After its row is gone a service is at no provider, and no request under way,
\* of a slow worker or of one that gave up, can bring it back; only a service
\* that its provider was found never to have held may still be created late.
THEOREM RemovedIsFinal == Spec => []RemovedStaysRemoved
  <1>1. Inv => RemovedStaysRemoved
    <2> SUFFICES ASSUME Inv, NEW s \in Services, instances[s].state = "removed",
                        ~(provider[s].missed /\ provider[s].generation < instances[s].generation)
        PROVE  /\ ~provider[s].present
               /\ \A r \in UnderWay(s) : Accepts(r) => r.topic = "delete"
      BY DEF RemovedStaysRemoved
    <2>f. instances[s].generation \in Nat /\ provider[s].generation \in Nat
      BY Fields DEF Inv, TypeInv
    <2>1. provider[s].generation = instances[s].generation /\ ~provider[s].present /\ ~Live(s)
      BY <2>f DEF Inv, ProtocolInvariant, ProviderFollowsRow, Live, Exists
    <2>2. ASSUME NEW r, r \in UnderWay(s), Accepts(r) PROVE r.topic = "delete"
      <3>1. r.service = s /\ r.generation \in Nat /\ r.generation <= instances[s].generation
        <4>1. CASE r \in abandoned /\ r.service = s
          <5>1. PICK e \in EventIds(s) : /\ outbox[s][e].topic = r.topic
                                         /\ outbox[s][e].generation = r.generation
            BY <4>1 DEF Inv, ProtocolInvariant, RequestsAreEvents
          <5> QED BY <4>1, <5>1, Fields DEF Inv, TypeInv, ProtocolInvariant, EventsFollowRow
        <4>2. ASSUME NEW w \in Workers, workers[w].pc = "sent", workers[w].service = s,
                     r = RequestOf(w)
              PROVE  r.service = s /\ r.generation \in Nat /\ r.generation <= instances[s].generation
          BY <4>2, HeldFacts DEF RequestOf
        <4> QED BY <2>2, <4>1, <4>2 DEF UnderWay
      <3> QED BY <2>1, <2>2, <2>f, <3>1 DEF Accepts, Current
    <2> QED BY <2>1, <2>2
  <1> QED BY <1>1, AlwaysInv, PTL

-----------------------------------------------------------------------------
(***************************************************************************)
(* ServiceLifecycle implements DesiredState: under the inductive invariant *)
(* of the outbox protocol every step of the API, the workers, the          *)
(* observers and the network is a step that DesiredState allows, or does   *)
(* not change what users and providers see.                                *)
(***************************************************************************)

\* A step that touches neither the table nor a provider is invisible.
LEMMA InvisibleStep ==
  ASSUME UNCHANGED <<instances, provider>>
  PROVE  UNCHANGED Desired!vars
  BY DEF Desired!vars, ReportedPhase

\* A user's write is an accepted change of the desired state.
LEMMA WriteMapsToAccept ==
  ASSUME TypeOK, NEW s \in Services, NEW state \in {"provisioning", "updating"}, NEW topic,
         instances[s].state \in {"none", "provisioning", "updating", "ready", "error"},
         WriteRow(s, instances[s].generation + 1, state, topic)
  PROVE  Desired!Accept(s)
  <1>1. /\ instances'[s].generation = instances[s].generation + 1 /\ instances'[s].state = state
        /\ \A t \in Services : t # s => instances'[t] = instances[t]
        /\ UNCHANGED provider
    BY DEF WriteRow, TypeOK
  <1> QED BY <1>1 DEF Desired!Accept, Desired!Alive, ReportedPhase

\* An accepted delete.
LEMMA WriteMapsToRemove ==
  ASSUME TypeOK, NEW s \in Services, NEW topic,
         instances[s].state \in {"provisioning", "updating", "ready", "error"},
         WriteRow(s, instances[s].generation + 1, "deleting", topic)
  PROVE  Desired!Remove(s)
  <1>1. /\ instances'[s].generation = instances[s].generation + 1 /\ instances'[s].state = "deleting"
        /\ \A t \in Services : t # s => instances'[t] = instances[t]
        /\ UNCHANGED provider
    BY DEF WriteRow, TypeOK
  <1> QED BY <1>1 DEF Desired!Remove, Desired!Alive, ReportedPhase

\* A status write on a live row reports on the current desired state.
LEMMA StateMapsToReport ==
  ASSUME TypeOK, NEW s \in Services, NEW state \in {"ready", "error", "updating"}, Live(s),
         state = "ready" => Applied(s), SetState(s, state), UNCHANGED provider
  PROVE  \E outcome \in Desired!Alive : Desired!Report(s, outcome)
  <1> DEFINE outcome == IF state = "updating" THEN "pending" ELSE state
  <1>1. /\ instances'[s].generation = instances[s].generation /\ instances'[s].state = state
        /\ \A t \in Services : t # s => instances'[t] = instances[t]
    BY DEF SetState, TypeOK, Row
  <1>2. instances[s].state \in {"provisioning", "updating", "ready", "error"}
    BY DEF Live, Exists, TypeOK, Row, States
  <1>3. outcome = "ready" => provider[s].generation = instances[s].generation /\ provider[s].present = TRUE
    BY DEF Applied, TypeOK, Provided
  <1>4. outcome \in Desired!Alive
    BY DEF Desired!Alive
  <1>5. \A t \in Services : instances'[t].generation = instances[t].generation
    BY <1>1
  <1>6. \A t \in Services : ReportedPhase(t)' = IF t = s THEN outcome ELSE ReportedPhase(t)
    BY <1>1 DEF ReportedPhase
  <1>7. ReportedPhase(s) \in Desired!Alive
    BY <1>2 DEF ReportedPhase, Desired!Alive
  <1> HIDE DEF outcome
  <1>8. Desired!Report(s, outcome)
    BY <1>3, <1>5, <1>6, <1>7 DEF Desired!Report
  <1> QED BY <1>4, <1>8

\* The row of a deleted service is removed after its provider has removed it or
\* was found to have nothing.
LEMMA StateMapsToVanish ==
  ASSUME TypeOK, NEW s \in Services, instances[s].state = "deleting",
         \/ provider[s].missed
         \/ provider[s].generation = instances[s].generation /\ ~provider[s].present,
         SetState(s, "removed"), UNCHANGED provider
  PROVE  Desired!Vanish(s)
  <1>1. /\ instances'[s].generation = instances[s].generation /\ instances'[s].state = "removed"
        /\ \A t \in Services : t # s => instances'[t] = instances[t]
    BY DEF SetState, TypeOK, Row
  <1>2. provider[s].missed \/ (/\ provider[s].generation = instances[s].generation
                              /\ provider[s].present = FALSE)
    BY DEF TypeOK, Provided
  <1>3. \A t \in Services : instances'[t].generation = instances[t].generation
    BY <1>1
  <1>4. \A t \in Services : ReportedPhase(t)' = IF t = s THEN "removed" ELSE ReportedPhase(t)
    BY <1>1 DEF ReportedPhase
  <1>5. ReportedPhase(s) = "deleting"
    BY DEF ReportedPhase
  <1> QED BY <1>2, <1>3, <1>4, <1>5 DEF Desired!Vanish

\* A provider that applies a request of an event moves towards a desired state,
\* or stays where it is.
LEMMA ApplyMapsToApply ==
  ASSUME Inv, NEW r \in Request, Accepts(r), ProviderApplies(r), UNCHANGED instances,
         \E e \in EventIds(r.service) :
           outbox[r.service][e].topic = r.topic /\ outbox[r.service][e].generation = r.generation
  PROVE  Desired!Next \/ UNCHANGED Desired!vars
  <1> DEFINE s == r.service
             present == r.topic # "delete"
  <1>typ. TypeOK /\ s \in Services /\ r.generation \in Nat /\ present \in BOOLEAN
    BY DEF Inv, TypeInv, Request
  <1>f. /\ instances[s].generation \in Nat /\ instances[s].state \in States
        /\ provider[s].generation \in Nat /\ provider[s].present \in BOOLEAN
    BY <1>typ, Fields
  <1>1. /\ provider'[s].generation = r.generation /\ provider'[s].present = present
        /\ \A t \in Services : provider'[t].missed = provider[t].missed
        /\ \A t \in Services : t # s => provider'[t] = provider[t]
    BY <1>typ DEF ProviderApplies, TypeOK
  <1>2. /\ 1 <= r.generation /\ r.generation <= instances[s].generation
        /\ r.generation = instances[s].generation => (Live(s) <=> present)
        /\ instances[s].state = "none" <=> instances[s].generation = 0
    BY <1>typ DEF Inv, ProtocolInvariant, EventsFollowRow
  <1>3. provider[s].generation <= r.generation
    BY <1>typ, <1>f DEF Accepts, Current
  <1>4. instances[s].state # "none"
    BY <1>2, <1>f, <1>typ
  <1>5. CASE instances[s].state = "removed" /\ ~provider[s].missed
    <2>1. provider[s].generation = instances[s].generation /\ provider[s].present = FALSE
      BY <1>5, <1>typ, <1>f DEF Inv, ProtocolInvariant, ProviderFollowsRow, Live, Exists
    <2>2. r.generation = instances[s].generation /\ present = FALSE
      BY <2>1, <1>2, <1>3, <1>5, <1>f, <1>typ DEF Live, Exists
    <2> HIDE DEF s, present
    <2>3. \A t \in Services : /\ provider'[t].generation = provider[t].generation
                              /\ provider'[t].present = provider[t].present
                              /\ provider'[t].missed = provider[t].missed
      BY <1>1, <2>1, <2>2
    <2> QED BY <2>3 DEF Desired!vars, ReportedPhase
  <1>6. CASE instances[s].state = "removed" => provider[s].missed
    <2>1. ReportedPhase(s) = "removed" => provider[s].missed
      BY <1>6 DEF ReportedPhase
    <2>2. r.generation = instances[s].generation => (present <=> ReportedPhase(s) \in Desired!Alive)
      BY <1>2, <1>4, <1>f DEF ReportedPhase, Live, Exists, Desired!Alive, States
    <2>3. \A t \in Services : ReportedPhase(t)' = ReportedPhase(t)
      BY DEF ReportedPhase
    <2> HIDE DEF s, present
    <2>4. Desired!Apply(s, r.generation, present)
      BY <1>typ, <1>1, <1>2, <1>3, <2>1, <2>2, <2>3 DEF Desired!Apply
    <2>5. r.generation \in 0..instances[s].generation
      BY <1>typ, <1>2, <1>f
    <2> QED BY <1>typ, <2>4, <2>5 DEF Desired!Next
  <1> QED BY <1>5, <1>6

\* A provider without the service is asked to delete it.
LEMMA MissMapsToMiss ==
  ASSUME Inv, NEW w \in Workers, ProviderHasNothing(w)
  PROVE  Desired!Next
  <1>0. workers[w].pc # "idle"
    BY DEF ProviderHasNothing
  <1>s. PICK s \in Services : s = workers[w].service
    BY <1>0, HeldFacts
  <1>typ. TypeOK /\ s \in Services
    BY DEF Inv, TypeInv
  <1>f. /\ instances[s].generation \in Nat /\ instances[s].state \in States
        /\ provider[s].generation \in Nat /\ provider[s].present \in BOOLEAN
    BY <1>typ, Fields
  <1>1. Held(w).topic = "delete" /\ provider[s].generation = 0 /\ UNCHANGED instances
    BY <1>s DEF ProviderHasNothing, NotFound, RequestOf
  <1>2. instances[s].state \in {"deleting", "removed"}
    BY <1>s, <1>0, <1>1, HeldFacts
  <1>3. provider[s].present = FALSE
    BY <1>1, <1>f, <1>typ DEF Inv, ProtocolInvariant, ProviderFollowsRow
  <1>4. /\ provider'[s].generation = 0 /\ provider'[s].present = FALSE
        /\ provider'[s].missed = TRUE
        /\ \A t \in Services : t # s => provider'[t] = provider[t]
    BY <1>s, <1>typ DEF ProviderHasNothing, TypeOK
  <1>5. ReportedPhase(s) \in {"deleting", "removed"}
    BY <1>2 DEF ReportedPhase
  <1>6. \A t \in Services : /\ ReportedPhase(t)' = ReportedPhase(t)
                            /\ instances'[t].generation = instances[t].generation
                            /\ provider'[t].generation = provider[t].generation
                            /\ provider'[t].present = provider[t].present
                            /\ provider'[t].missed = IF t = s THEN TRUE ELSE provider[t].missed
    BY <1>1, <1>3, <1>4 DEF ReportedPhase
  <1>7. Desired!Miss(s)
    BY <1>typ, <1>1, <1>3, <1>5, <1>6 DEF Desired!Miss
  <1> QED BY <1>typ, <1>7 DEF Desired!Next

\* Every step maps to a step of DesiredState or to none.
LEMMA StepRefines == Inv /\ [Next]_vars => [Desired!Next]_(Desired!vars)
  <1> SUFFICES ASSUME Inv, [Next]_vars PROVE Desired!Next \/ UNCHANGED Desired!vars
    OBVIOUS
  <1>typ. TypeOK
    BY DEF Inv, TypeInv
  <1>quiet. UNCHANGED <<instances, provider>> => UNCHANGED Desired!vars
    BY InvisibleStep
  <1>report. ASSUME NEW s \in Services, \E outcome \in Desired!Alive : Desired!Report(s, outcome)
             PROVE  Desired!Next
    BY <1>report DEF Desired!Next
  <1>1. CASE UNCHANGED vars
    BY <1>1, <1>quiet DEF vars
  <1>2. ASSUME NEW s \in Services, CreateServiceInstance(s) PROVE Desired!Next
    <2>1. instances[s].generation = 0
      BY <1>2 DEF Inv, ProtocolInvariant, CreateServiceInstance, EventsFollowRow
    <2>2. WriteRow(s, instances[s].generation + 1, "provisioning", "reconcile")
      BY <1>2, <2>1 DEF CreateServiceInstance
    <2>3. Desired!Accept(s)
      BY <1>2, <1>typ, <2>2, WriteMapsToAccept DEF CreateServiceInstance
    <2> QED BY <2>3 DEF Desired!Next
  <1>live. ASSUME NEW s \in Services, Live(s)
           PROVE  instances[s].state \in {"provisioning", "updating", "ready", "error"}
    BY <1>live, <1>typ DEF Live, Exists, TypeOK, Row, States
  <1>3. ASSUME NEW s \in Services, UpdateServiceInstance(s) PROVE Desired!Next
    <2>1. Desired!Accept(s)
      BY <1>3, <1>typ, <1>live, WriteMapsToAccept DEF UpdateServiceInstance
    <2> QED BY <2>1 DEF Desired!Next
  <1>4. ASSUME NEW s \in Services, BeginDeleteServiceInstance(s) PROVE Desired!Next
    <2>1. Desired!Remove(s)
      BY <1>4, <1>typ, <1>live, WriteMapsToRemove DEF BeginDeleteServiceInstance
    <2> QED BY <2>1 DEF Desired!Next
  <1>5. CASE ApiStep
    <2>1. CASE SetResourceQuota
      BY <2>1, <1>quiet DEF SetResourceQuota
    <2>2. ASSUME NEW rows \in SUBSET Flash, EnqueueFlashGpuReconciles(rows)
          PROVE  UNCHANGED Desired!vars
      BY <2>2, <1>quiet DEF EnqueueFlashGpuReconciles
    <2>3. ASSUME NEW s \in Flash, NEW phase \in Phases, Observe(s, phase)
          PROVE  UNCHANGED Desired!vars
      BY <2>3, <1>quiet DEF Observe
    <2>4. ASSUME NEW o \in observations, RecordFlashObservation(o)
          PROVE  Desired!Next \/ UNCHANGED Desired!vars
      <3>1. o.service \in Services /\ o.phase \in {"ready", "error", "updating"}
        BY <2>4, <1>typ DEF TypeOK, Observation, Phases
      <3>2. CASE Live(o.service) /\ instances[o.service].generation = o.generation
        <4>1. Applied(o.service)
          BY <2>4, <3>2 DEF Inv, ProtocolInvariant, ObservationsAreSound
        <4>2. SetState(o.service, o.phase) /\ UNCHANGED provider
          BY <2>4, <3>2 DEF RecordFlashObservation
        <4> QED BY <3>1, <3>2, <4>1, <4>2, <1>typ, <1>report, StateMapsToReport
      <3>3. CASE ~(Live(o.service) /\ instances[o.service].generation = o.generation)
        BY <2>4, <3>3, <1>quiet DEF RecordFlashObservation
      <3> QED BY <3>2, <3>3
    <2> QED BY <1>5, <1>2, <1>3, <1>4, <2>1, <2>2, <2>3, <2>4 DEF ApiStep, SetFlashServiceStopped
  <1>6. ASSUME NEW w \in Workers, CompleteDeleteServiceInstance(w)
        PROVE  Desired!Next \/ UNCHANGED Desired!vars
    <2> DEFINE s == workers[w].service
    <2>1. CASE RowMatches(w) /\ instances[s].state = "deleting"
      <3>1. SetState(s, "removed") /\ UNCHANGED provider
        BY <1>6, <2>1 DEF CompleteDeleteServiceInstance
      <3>2. s \in Services /\ (provider[s].missed \/ Held(w).generation <= provider[s].generation)
        <4>1. AnswerIsSound(w) /\ workers[w].pc = "answered" /\ workers[w].answer = "deleted"
          BY <1>6 DEF Inv, ProtocolInvariant, AnswersAreSound, CompleteDeleteServiceInstance
        <4> QED BY <4>1, <1>typ, Fields DEF AnswerIsSound
      <3>3. instances[s].generation \in Nat /\ provider[s].generation \in Nat
        BY <3>2, <1>typ, Fields
      <3>4. \/ provider[s].missed
            \/ provider[s].generation = instances[s].generation /\ ~provider[s].present
        BY <2>1, <3>2, <3>3 DEF RowMatches, Inv, ProtocolInvariant, ProviderFollowsRow, Live
      <3> HIDE DEF s
      <3>5. Desired!Vanish(s)
        BY <2>1, <3>1, <3>2, <3>4, <1>typ, StateMapsToVanish
      <3> QED BY <3>2, <3>5 DEF Desired!Next
    <2>2. CASE ~(RowMatches(w) /\ instances[s].state = "deleting")
      BY <1>6, <2>2, <1>quiet DEF CompleteDeleteServiceInstance
    <2> QED BY <2>1, <2>2
  <1>7. ASSUME NEW w \in Workers, MarkServiceInstanceReady(w) \/ MarkServiceInstanceError(w)
        PROVE  Desired!Next \/ UNCHANGED Desired!vars
    <2> DEFINE s == workers[w].service
               st == IF workers[w].answer = "accepted" THEN "ready" ELSE "error"
    <2>1. /\ workers[w].pc = "answered" /\ workers[w].answer \in {"accepted", "failed", "rejected"}
          /\ UNCHANGED provider
          /\ IF RowMatches(w) THEN SetState(s, st) ELSE UNCHANGED instances
      BY <1>7 DEF MarkServiceInstanceReady, MarkServiceInstanceError
    <2>2. /\ AnswerIsSound(w) /\ s \in Services
          /\ Held(w) \in Event
      BY <1>7, <2>1, HeldFacts, Fields, <1>typ
         DEF Inv, ProtocolInvariant, AnswersAreSound, AnswerIsSound, Held
    <2>3. CASE RowMatches(w)
      <3>1. Held(w).topic = "reconcile"
        BY <2>1, <2>2 DEF AnswerIsSound, SuccessAnswers, Event, Topics
      <3>2. /\ Held(w).generation = instances[s].generation
            /\ workers[w].event \in EventIds(s)
            /\ workers[w].answer # "rejected" => Held(w).generation <= provider[s].generation
        BY <2>1, <2>2, <2>3 DEF RowMatches, AnswerIsSound
      <3>3. Live(s)
        BY <3>1, <3>2, <2>2 DEF Inv, ProtocolInvariant, EventsFollowRow, Held
      <3>4. instances[s].generation \in Nat /\ provider[s].generation \in Nat
        BY <2>2, <1>typ, Fields
      <3>5. st = "ready" => Applied(s)
        BY <2>1, <2>2, <3>2, <3>3, <3>4 DEF Inv, ProtocolInvariant, ProviderFollowsRow, Applied
      <3>6. SetState(s, st) /\ UNCHANGED provider /\ st \in {"ready", "error", "updating"}
        BY <2>1, <2>3
      <3> HIDE DEF s, st
      <3> QED BY <2>2, <3>3, <3>5, <3>6, <1>typ, <1>report, StateMapsToReport
    <2>4. CASE ~RowMatches(w)
      BY <2>1, <2>4, <1>quiet
    <2> QED BY <2>3, <2>4
  <1>8. ASSUME NEW w \in Workers, WorkerStep(w)
        PROVE  Desired!Next \/ UNCHANGED Desired!vars
    <2>1. \/ CompleteDeleteServiceInstance(w)
          \/ MarkServiceInstanceReady(w) \/ MarkServiceInstanceError(w)
          \/ UNCHANGED <<instances, provider>>
      BY <1>8 DEF WorkerStep, ClaimOutboxEvent, LoadInstance, SendRequest, RequestTimesOut,
           AcknowledgeQuota, MarkOutboxDelivered, RetryOutboxEvent, WorkerCrashes
    <2> QED BY <1>8, <2>1, <1>6, <1>7, <1>quiet
  <1>9. ASSUME NEW s \in Services, NEW e \in EventIds(s), LeaseExpires(s, e)
        PROVE  UNCHANGED Desired!vars
    BY <1>9, <1>quiet DEF LeaseExpires
  <1>10. ASSUME NEW w \in Workers, NEW answer \in Answers, ProviderAccepts(w, answer)
         PROVE  Desired!Next \/ UNCHANGED Desired!vars
    <2>1. /\ workers[w].pc = "sent" /\ Accepts(RequestOf(w)) /\ ProviderApplies(RequestOf(w))
          /\ UNCHANGED instances
      BY <1>10 DEF ProviderAccepts
    <2>2. /\ workers[w].service \in Services /\ workers[w].event \in EventIds(workers[w].service)
          /\ workers[w].policy \in Nat /\ Held(w) \in Event
      <3>1. AnswerIsSound(w)
        BY DEF Inv, ProtocolInvariant, AnswersAreSound
      <3>2. workers[w].service \in Services /\ workers[w].event \in EventIds(workers[w].service)
        BY <2>1, <3>1, <1>typ, Fields DEF AnswerIsSound
      <3> QED BY <3>2, <1>typ, Fields DEF TypeOK, WorkerState, Held
    <2>3. RequestOf(w) \in Request
      BY <2>2 DEF RequestOf, Request, Event
    <2>4. /\ RequestOf(w).service = workers[w].service /\ RequestOf(w).topic = Held(w).topic
          /\ RequestOf(w).generation = Held(w).generation
      BY DEF RequestOf
    <2>5. \E e \in EventIds(RequestOf(w).service) :
            /\ outbox[RequestOf(w).service][e].topic = RequestOf(w).topic
            /\ outbox[RequestOf(w).service][e].generation = RequestOf(w).generation
      BY <2>2, <2>4 DEF Held
    <2> QED BY <2>1, <2>3, <2>5, ApplyMapsToApply
  <1>11. ASSUME NEW r \in abandoned, AbandonedArrives(r)
         PROVE  Desired!Next \/ UNCHANGED Desired!vars
    <2>1. r \in Request
      BY <1>11, <1>typ DEF TypeOK
    <2>2. \E e \in EventIds(r.service) :
            outbox[r.service][e].topic = r.topic /\ outbox[r.service][e].generation = r.generation
      BY <1>11 DEF Inv, ProtocolInvariant, RequestsAreEvents
    <2>3. CASE Accepts(r)
      BY <1>11, <2>1, <2>2, <2>3, ApplyMapsToApply DEF AbandonedArrives
    <2>4. CASE ~Accepts(r)
      BY <1>11, <2>4, <1>quiet DEF AbandonedArrives
    <2> QED BY <2>3, <2>4
  <1>12. CASE ProviderStep
    <2>1. ASSUME NEW w \in Workers, ProviderRejects(w) \/ ProviderUnavailable(w)
          PROVE  UNCHANGED Desired!vars
      BY <2>1, <1>quiet DEF ProviderRejects, ProviderUnavailable
    <2>2. ASSUME NEW r \in abandoned, AbandonedIsLost(r) PROVE UNCHANGED Desired!vars
      BY <2>2, <1>quiet DEF AbandonedIsLost
    <2> QED BY <1>12, <1>10, <1>11, <2>1, <2>2, MissMapsToMiss DEF ProviderStep
  <1> QED BY <1>1, <1>5, <1>8, <1>9, <1>12 DEF Next

\* The outbox protocol implements what DesiredState promises of create, update,
\* delete and status, for any number of services and workers.
THEOREM LifecycleImplementsDesiredState == Spec => ImplementsDesiredState
  <1>1. Init => Desired!Init
    BY DEF Init, Desired!Init, ReportedPhase
  <1> QED
    BY <1>1, StepRefines, AlwaysInv, PTL DEF Spec, ImplementsDesiredState, Desired!Spec

\* What DesiredState says about one service in one step.
LEMMA PromiseOfOneStep ==
  ASSUME TypeOK, TypeOK', NEW s \in Services, Desired!Next \/ UNCHANGED Desired!vars
  PROVE  /\ instances[s].generation <= instances'[s].generation
         /\ ReportedPhase(s) = "deleting" => ReportedPhase(s)' \in {"deleting", "removed"}
         /\ ReportedPhase(s) = "removed" => ReportedPhase(s)' = "removed"
  <1> DEFINE d == [t \in Services |-> instances[t].generation]
             ph == [t \in Services |-> ReportedPhase(t)]
  <1>1. d[s] \in Nat /\ d[s] = instances[s].generation /\ d'[s] = instances'[s].generation
    BY Fields
  <1>2. ph[s] = ReportedPhase(s) /\ ph'[s] = ReportedPhase(s)'
    OBVIOUS
  <1>a. UNCHANGED Desired!vars => d' = d /\ ph' = ph
    BY DEF Desired!vars
  <1>b. ASSUME NEW t \in Services, Desired!Accept(t)
        PROVE  /\ ph[t] \notin {"deleting", "removed"} /\ d' = [d EXCEPT ![t] = d[t] + 1]
               /\ ph' = [ph EXCEPT ![t] = "pending"]
    BY <1>b DEF Desired!Accept, Desired!Alive
  <1>c. ASSUME NEW t \in Services, Desired!Remove(t)
        PROVE  /\ ph[t] \notin {"deleting", "removed"} /\ d' = [d EXCEPT ![t] = d[t] + 1]
               /\ ph' = [ph EXCEPT ![t] = "deleting"]
    BY <1>c DEF Desired!Remove, Desired!Alive
  <1>d. ASSUME NEW t \in Services, NEW g, NEW present, Desired!Apply(t, g, present)
        PROVE  d' = d /\ ph' = ph
    BY <1>d DEF Desired!Apply
  <1>e. ASSUME NEW t \in Services, NEW outcome, Desired!Report(t, outcome)
        PROVE  /\ ph[t] \notin {"deleting", "removed"} /\ d' = d
               /\ ph' = [ph EXCEPT ![t] = outcome]
    BY <1>e DEF Desired!Report, Desired!Alive
  <1>f. ASSUME NEW t \in Services, Desired!Vanish(t)
        PROVE  ph[t] = "deleting" /\ d' = d /\ ph' = [ph EXCEPT ![t] = "removed"]
    BY <1>f DEF Desired!Vanish
  <1>g. ASSUME NEW t \in Services, Desired!Miss(t) PROVE d' = d /\ ph' = ph
    BY <1>g DEF Desired!Miss
  <1>3. \/ \E t \in Services :
             /\ ph[t] \notin {"deleting", "removed"}
             /\ d' = [d EXCEPT ![t] = d[t] + 1] \/ d' = d
             /\ \E x : ph' = [ph EXCEPT ![t] = x]
        \/ \E t \in Services : ph[t] = "deleting" /\ d' = d /\ ph' = [ph EXCEPT ![t] = "removed"]
        \/ d' = d /\ ph' = ph
    <2> HIDE DEF d, ph
    <2> QED BY <1>a, <1>b, <1>c, <1>d, <1>e, <1>f, <1>g DEF Desired!Next
  <1>4. DOMAIN d = Services /\ DOMAIN ph = Services
    OBVIOUS
  <1> HIDE DEF d, ph
  <1>5. d[s] <= d'[s] /\ (ph[s] = "deleting" => ph'[s] \in {"deleting", "removed"})
        /\ (ph[s] = "removed" => ph'[s] = "removed")
    BY <1>1, <1>3, <1>4
  <1> QED BY <1>1, <1>2, <1>5

\* A delete is final: no late answer or observation takes a deleting row back,
\* and no generation goes back.
THEOREM DeletesAreFinal == Spec => DeletionIsFinal
  <1>1. ASSUME Inv, Inv', [Next]_vars
        PROVE  [\A s \in Services :
                 /\ instances[s].state = "deleting" => instances'[s].state \in {"deleting", "removed"}
                 /\ instances[s].state = "removed" => instances'[s].state = "removed"
                 /\ instances[s].generation <= instances'[s].generation]_vars
    <2> SUFFICES ASSUME NEW s \in Services
        PROVE  /\ instances[s].state = "deleting" => instances'[s].state \in {"deleting", "removed"}
               /\ instances[s].state = "removed" => instances'[s].state = "removed"
               /\ instances[s].generation <= instances'[s].generation
      OBVIOUS
    <2>1. Desired!Next \/ UNCHANGED Desired!vars
      BY <1>1, StepRefines
    <2>2. TypeOK /\ TypeOK'
      BY <1>1 DEF Inv, TypeInv
    <2>3. /\ instances[s].generation <= instances'[s].generation
          /\ ReportedPhase(s) = "deleting" => ReportedPhase(s)' \in {"deleting", "removed"}
          /\ ReportedPhase(s) = "removed" => ReportedPhase(s)' = "removed"
      BY <2>1, <2>2, PromiseOfOneStep
    <2> QED BY <2>3 DEF ReportedPhase
  <1> QED BY <1>1, AlwaysInv, PTL DEF Spec, DeletionIsFinal
=============================================================================
