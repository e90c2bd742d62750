-------------------------- MODULE ServiceLifecycle --------------------------
(***************************************************************************)
(* The core of HeteroCloud: the service_instances table, the transactional *)
(* outbox that is written in the same transactions, the provider workers   *)
(* that deliver outbox events over HTTP, the background observer of the    *)
(* API that writes provider status back, and the providers.                *)
(*                                                                         *)
(* A specification (the JSON spec of a service) is fixed by the generation *)
(* that carries it, so a generation stands for its specification.  All the *)
(* limits that a Flash PUT carries are one number, the version of the      *)
(* quota tables they were read from.                                       *)
(***************************************************************************)
EXTENDS Naturals, Sequences, FiniteSets

CONSTANTS
  Services,          \* ids of service instances (UUIDv7, never reused here)
  Flash,             \* the ones whose provider is "flash"
  Workers,           \* provider worker processes
  MaxGeneration,     \* bound on the generation of an instance
  MaxPolicy,         \* bound on the number of quota changes
  MaxEvents,         \* bound on the outbox events of one instance
  MaxObservations,   \* bound on the observations that await recording
  MaxAbandoned       \* bound on the requests under way without a sender

ASSUME LifecycleAssumption ==
  /\ Services # {}
  /\ Flash \subseteq Services
  /\ MaxGeneration \in Nat
  /\ MaxPolicy \in Nat
  /\ MaxEvents \in Nat
  /\ MaxObservations \in Nat
  /\ MaxAbandoned \in Nat

VARIABLES
  instances,     \* table service_instances
  outbox,        \* table outbox_events, split by aggregate_id
  policy,        \* version of the quota tables
  workers,       \* what each worker process is doing
  observations,  \* statuses that API replicas have fetched and not recorded yet
  provider,      \* what each provider has applied
  abandoned      \* requests whose sender gave up but which may still arrive

vars == <<instances, outbox, policy, workers, observations, provider, abandoned>>
-----------------------------------------------------------------------------
(***************************************************************************)
(* State.                                                                  *)
(***************************************************************************)

\* "none": the id was never inserted; "removed": its row was deleted.
States == {"none", "provisioning", "updating", "ready", "error",
           "deleting", "removed"}

Row == [generation : Nat, state : States]

Topics == {"reconcile", "delete", "flash-quota"}

Event == [topic : Topics, generation : Nat, delivered : BOOLEAN, locked : BOOLEAN]

\* The JSON body and the query of a provider request, and its method.
Request == [service : Services, topic : Topics, generation : Nat, policy : Nat]

\* deliver's progress; "answer" is the provider's answer, then deliver's result.
Answers == {"none", "accepted", "failed", "rejected", "deleted",
            "ok", "stale", "retry"}

WorkerState ==
  [pc : {"idle", "claimed", "loaded", "sent", "answered", "finished"},
   service : Services, event : Nat, policy : Nat, answer : Answers]

\* A provider's phase as record_flash_observation reads it: "updating" is every
\* phase except ready and error.
Phases == {"ready", "error", "updating"}

Observation == [service : Services, generation : Nat, phase : Phases]

\* "missed" is history: a DELETE was answered although the provider had never
\* held the service.  The provider itself keeps nothing of it.
Provided == [generation : Nat, present : BOOLEAN, policy : Nat, missed : BOOLEAN]

\* The row is in the table.
Exists(s) == instances[s].state \notin {"none", "removed"}

\* Rows that user writes and enqueued refreshes may touch.
Live(s) == Exists(s) /\ instances[s].state # "deleting"

NewEvent(topic, g) ==
  [topic |-> topic, generation |-> g, delivered |-> FALSE, locked |-> FALSE]

EventIds(s) == 1..Len(outbox[s])

Room(s) == Len(outbox[s]) < MaxEvents

Idle == [pc |-> "idle", service |-> CHOOSE s \in Services : TRUE, event |-> 0,
         policy |-> 0, answer |-> "none"]

\* The event a busy worker holds.
Held(w) == outbox[workers[w].service][workers[w].event]

RequestOf(w) == [service |-> workers[w].service, topic |-> Held(w).topic,
                 generation |-> Held(w).generation, policy |-> workers[w].policy]

Init ==
  /\ instances = [s \in Services |-> [generation |-> 0, state |-> "none"]]
  /\ outbox = [s \in Services |-> << >>]
  /\ policy = 0
  /\ workers = [w \in Workers |-> Idle]
  /\ observations = {}
  /\ provider = [s \in Services |->
                   [generation |-> 0, present |-> FALSE, policy |-> 0, missed |-> FALSE]]
  /\ abandoned = {}
-----------------------------------------------------------------------------
(***************************************************************************)
(* Transactions of the API.  Each is one PostgreSQL transaction under the  *)
(* tenant's advisory lock, so one step.                                    *)
(***************************************************************************)

\* Mutant: the payload is built from the row as it was before the update.
WriteRowOldPayload(s, g, state, topic) ==
  /\ instances' = [instances EXCEPT ![s] = [generation |-> g, state |-> state]]
  /\ outbox' = [outbox EXCEPT ![s] = Append(@, NewEvent(topic, instances[s].generation))]
  /\ UNCHANGED <<policy, workers, observations, provider, abandoned>>

\* The tail of every write to an instance: the row and its outbox event.
WriteRow(s, g, state, topic) ==
  /\ instances' = [instances EXCEPT ![s] = [generation |-> g, state |-> state]]
  /\ outbox' = [outbox EXCEPT ![s] = Append(@, NewEvent(topic, g))]
  /\ UNCHANGED <<policy, workers, observations, provider, abandoned>>

CreateServiceInstance(s) ==
  /\ instances[s].state = "none"
  /\ Room(s)
  /\ WriteRow(s, 1, "provisioning", "reconcile")

\* Also the write behind an automatic or requested rollback.
UpdateServiceInstance(s) ==
  /\ Live(s)
  /\ Room(s) /\ instances[s].generation < MaxGeneration
  /\ WriteRow(s, instances[s].generation + 1, "updating", "reconcile")

SetFlashServiceStopped(s) ==
  /\ s \in Flash
  /\ UpdateServiceInstance(s)

\* A second delete of a row that is already deleting changes nothing.
BeginDeleteServiceInstance(s) ==
  /\ Live(s)
  /\ Room(s) /\ instances[s].generation < MaxGeneration
  /\ WriteRow(s, instances[s].generation + 1, "deleting", "delete")

\* Append an event of this topic at the current generation for each of the rows.
EnqueueFor(rows, topic) ==
  outbox' = [s \in Services |->
               IF s \in rows
                 THEN Append(outbox[s], NewEvent(topic, instances[s].generation))
                 ELSE outbox[s]]

\* A change of default, account, cloud-organization or member limits.
SetResourceQuota ==
  LET rows == {s \in Flash : Live(s)} IN
  /\ policy < MaxPolicy
  /\ \A s \in rows : Room(s)
  /\ policy' = policy + 1
  /\ EnqueueFor(rows, "flash-quota")
  /\ UNCHANGED <<instances, workers, observations, provider, abandoned>>

\* sync_gpu_catalog found the catalog entry of these services changed.
EnqueueFlashGpuReconciles(rows) ==
  /\ rows # {}
  /\ \A s \in rows : s \in Flash /\ Live(s) /\ Room(s)
  /\ EnqueueFor(rows, "reconcile")
  /\ UNCHANGED <<instances, policy, workers, observations, provider, abandoned>>
-----------------------------------------------------------------------------
(***************************************************************************)
(* The worker: process_one = claim, deliver, acknowledge or retry.         *)
(***************************************************************************)

SetEvent(s, e, delivered, locked) ==
  outbox' = [outbox EXCEPT ![s] = [outbox[s] EXCEPT ![e] =
               [outbox[s][e] EXCEPT !.delivered = delivered, !.locked = locked]]]

Goto(w, pc, answer) == workers' = [workers EXCEPT ![w].pc = pc, ![w].answer = answer]

\* Any available event may be the oldest one: available_at moves with every
\* retry, and SKIP LOCKED passes over rows other claims hold.
ClaimOutboxEvent(w, s, e) ==
  /\ workers[w].pc = "idle"
  /\ e \in EventIds(s)
  /\ ~outbox[s][e].delivered /\ ~outbox[s][e].locked
  /\ SetEvent(s, e, FALSE, TRUE)
  /\ workers' = [workers EXCEPT ![w] = [pc |-> "claimed", service |-> s, event |-> e,
                                        policy |-> 0, answer |-> "none"]]
  /\ UNCHANGED <<instances, policy, observations, provider, abandoned>>

\* Mutant: only rows with locked_at IS NULL are claimed.
LeaseNeverExpires(s, e) ==
  /\ e \in EventIds(s)
  /\ outbox[s][e].locked /\ outbox[s][e].delivered
  /\ SetEvent(s, e, TRUE, FALSE)
  /\ UNCHANGED <<instances, policy, workers, observations, provider, abandoned>>

\* locked_at is two minutes old: the claim may be taken over, although its
\* worker may only be slow.
LeaseExpires(s, e) ==
  /\ e \in EventIds(s)
  /\ outbox[s][e].locked
  /\ SetEvent(s, e, outbox[s][e].delivered, FALSE)
  /\ UNCHANGED <<instances, policy, workers, observations, provider, abandoned>>

\* deliver reads the row: a missing row is success for a delete and an error
\* otherwise; a row of another generation makes the event stale.
LoadInstance(w) ==
  LET s == workers[w].service IN
  /\ workers[w].pc = "claimed"
  /\ \/ ~Exists(s) /\ Goto(w, "finished",
                           IF Held(w).topic = "delete" THEN "ok" ELSE "retry")
     \/ /\ Exists(s) /\ instances[s].generation # Held(w).generation
        /\ Goto(w, "finished", "stale")
     \/ /\ Exists(s) /\ instances[s].generation = Held(w).generation
        /\ Goto(w, "loaded", "none")
  /\ UNCHANGED <<instances, outbox, policy, observations, provider, abandoned>>

\* A Flash PUT carries the limits read now; other requests carry none.
SendRequest(w) ==
  /\ workers[w].pc = "loaded"
  /\ workers' = [workers EXCEPT
       ![w].pc = "sent",
       ![w].policy = IF workers[w].service \in Flash /\ Held(w).topic # "delete"
                       THEN policy ELSE 0]
  /\ UNCHANGED <<instances, outbox, policy, observations, provider, abandoned>>
-----------------------------------------------------------------------------
(***************************************************************************)
(* The provider, which is not in this repository.  The contract it signs   *)
(* (contracts/provider/v1): generations are monotonic, delete is           *)
(* idempotent, a quota-only PUT needs an existing service of the same      *)
(* generation.  A provider that has held the service keeps its generation, *)
(* also once it is deleted; one that has never held it has nothing to      *)
(* compare with, and a DELETE there (404 not_found) leaves nothing behind. *)
(***************************************************************************)

\* The generation of the request is not behind what the provider has seen.
Current(r) ==
  LET p == provider[r.service] IN
  \/ r.generation > p.generation
  \/ r.generation = p.generation /\ (p.present \/ r.topic = "delete")

\* A DELETE of what the provider has never held.
NotFound(r) == r.topic = "delete" /\ provider[r.service].generation = 0

Accepts(r) ==
  IF r.topic = "flash-quota"
    THEN provider[r.service].present /\ provider[r.service].generation = r.generation
    ELSE Current(r) /\ ~NotFound(r)

ProviderApplies(r) ==
  provider' = [provider EXCEPT ![r.service] =
    [generation |-> r.generation,
     present    |-> r.topic # "delete",
     policy     |-> IF r.topic = "delete" THEN 0 ELSE r.policy,
     missed     |-> provider[r.service].missed]]

\* What the provider may answer to a request that it applies.
SuccessAnswers(topic) ==
  CASE topic = "delete"      -> {"deleted"}
    [] topic = "flash-quota" -> {"ok"}
    [] OTHER                 -> {"accepted", "failed"}

ProviderAccepts(w, answer) ==
  /\ workers[w].pc = "sent"
  /\ Accepts(RequestOf(w))
  /\ answer \in SuccessAnswers(Held(w).topic)
  /\ ProviderApplies(RequestOf(w))
  /\ Goto(w, "answered", answer)
  /\ UNCHANGED <<instances, outbox, policy, observations, abandoned>>

\* provider_delete_already_absent: the worker takes the answer for a deletion.
ProviderHasNothing(w) ==
  /\ workers[w].pc = "sent"
  /\ NotFound(RequestOf(w))
  /\ provider' = [provider EXCEPT ![workers[w].service] =
       [generation |-> 0, present |-> FALSE, policy |-> 0, missed |-> TRUE]]
  /\ Goto(w, "answered", "deleted")
  /\ UNCHANGED <<instances, outbox, policy, observations, abandoned>>

\* A reconcile that the provider refuses with 400, 409 or 422: always when it
\* is out of date, and whenever the configuration is not acceptable.
ProviderRejects(w) ==
  /\ workers[w].pc = "sent"
  /\ Held(w).topic = "reconcile"
  /\ Goto(w, "answered", "rejected")
  /\ UNCHANGED <<instances, outbox, policy, observations, provider, abandoned>>

\* Mutant: every failed DELETE counts as "already absent".
ProviderUnavailableIsAbsent(w) ==
  /\ workers[w].pc = "sent"
  /\ IF Held(w).topic = "delete" THEN Goto(w, "answered", "deleted")
                                 ELSE Goto(w, "finished", "retry")
  /\ UNCHANGED <<instances, outbox, policy, observations, provider, abandoned>>

\* Any other status, and every refusal of a delete or a quota refresh.
ProviderUnavailable(w) ==
  /\ workers[w].pc = "sent"
  /\ Goto(w, "finished", "retry")
  /\ UNCHANGED <<instances, outbox, policy, observations, provider, abandoned>>

\* The sender of the request is gone; one request too many is lost at once.
Abandon(r) ==
  abandoned' = IF Cardinality(abandoned) < MaxAbandoned THEN abandoned \cup {r}
                                                       ELSE abandoned

\* The client's 15 s timeout or a broken connection; the request may still be
\* processed, or may have been.
RequestTimesOut(w) ==
  /\ workers[w].pc = "sent"
  /\ Abandon(RequestOf(w))
  /\ Goto(w, "finished", "retry")
  /\ UNCHANGED <<instances, outbox, policy, observations, provider>>

AbandonedArrives(r) ==
  /\ r \in abandoned
  /\ abandoned' = abandoned \ {r}
  /\ IF Accepts(r) THEN ProviderApplies(r) ELSE UNCHANGED provider
  /\ UNCHANGED <<instances, outbox, policy, workers, observations>>

AbandonedIsLost(r) ==
  /\ r \in abandoned
  /\ abandoned' = abandoned \ {r}
  /\ UNCHANGED <<instances, outbox, policy, workers, observations, provider>>
-----------------------------------------------------------------------------
(***************************************************************************)
(* The worker again: write the answer back, then close the event.          *)
(***************************************************************************)

\* Mutant: the write-back is not fenced by the generation.
RowMatchesAnyGeneration(w) == Exists(workers[w].service)

\* UPDATE or DELETE ... WHERE generation = the event's: no row, no effect.
RowMatches(w) ==
  /\ Exists(workers[w].service)
  /\ instances[workers[w].service].generation = Held(w).generation

SetState(s, state) == instances' = [instances EXCEPT ![s].state = state]

CompleteDeleteServiceInstance(w) ==
  LET s == workers[w].service IN
  /\ workers[w].pc = "answered" /\ workers[w].answer = "deleted"
  /\ IF RowMatches(w) /\ instances[s].state = "deleting"
       THEN SetState(s, "removed") /\ Goto(w, "finished", "ok")
       ELSE UNCHANGED instances /\ Goto(w, "finished", "stale")
  /\ UNCHANGED <<outbox, policy, observations, provider, abandoned>>

MarkServiceInstanceReady(w) ==
  /\ workers[w].pc = "answered" /\ workers[w].answer = "accepted"
  /\ IF RowMatches(w)
       THEN SetState(workers[w].service, "ready") /\ Goto(w, "finished", "ok")
       ELSE UNCHANGED instances /\ Goto(w, "finished", "stale")
  /\ UNCHANGED <<outbox, policy, observations, provider, abandoned>>

MarkServiceInstanceError(w) ==
  /\ workers[w].pc = "answered" /\ workers[w].answer \in {"failed", "rejected"}
  /\ IF RowMatches(w)
       THEN SetState(workers[w].service, "error") /\ Goto(w, "finished", "ok")
       ELSE UNCHANGED instances /\ Goto(w, "finished", "stale")
  /\ UNCHANGED <<outbox, policy, observations, provider, abandoned>>

\* A quota refresh never touches the lifecycle state.
AcknowledgeQuota(w) ==
  /\ workers[w].pc = "answered" /\ workers[w].answer = "ok"
  /\ Goto(w, "finished", "ok")
  /\ UNCHANGED <<instances, outbox, policy, observations, provider, abandoned>>

MarkOutboxDelivered(w) ==
  /\ workers[w].pc = "finished" /\ workers[w].answer \in {"ok", "stale"}
  /\ SetEvent(workers[w].service, workers[w].event, TRUE, FALSE)
  /\ workers' = [workers EXCEPT ![w] = Idle]
  /\ UNCHANGED <<instances, policy, observations, provider, abandoned>>

\* Mutant: a failed delivery is acknowledged.
RetryAcknowledges(w) ==
  /\ workers[w].pc = "finished" /\ workers[w].answer = "retry"
  /\ SetEvent(workers[w].service, workers[w].event, TRUE, FALSE)
  /\ workers' = [workers EXCEPT ![w] = Idle]
  /\ UNCHANGED <<instances, policy, observations, provider, abandoned>>

\* Releases the row whoever has claimed it meanwhile; a delivered row stays.
RetryOutboxEvent(w) ==
  /\ workers[w].pc = "finished" /\ workers[w].answer = "retry"
  /\ SetEvent(workers[w].service, workers[w].event,
              Held(w).delivered, Held(w).locked /\ Held(w).delivered)
  /\ workers' = [workers EXCEPT ![w] = Idle]
  /\ UNCHANGED <<instances, policy, observations, provider, abandoned>>

\* The process dies, or a database call fails and process_one gives up: the
\* event stays claimed until its lease expires.
WorkerCrashes(w) ==
  /\ workers[w].pc # "idle"
  /\ IF workers[w].pc = "sent" THEN Abandon(RequestOf(w)) ELSE UNCHANGED abandoned
  /\ workers' = [workers EXCEPT ![w] = Idle]
  /\ UNCHANGED <<instances, outbox, policy, observations, provider>>
-----------------------------------------------------------------------------
(***************************************************************************)
(* The observer, in every API replica, reads the Flash rows, asks the      *)
(* provider for their status and writes it back when it is of the          *)
(* generation that the row had when it was read.                           *)
(***************************************************************************)

\* The provider only has generations that the row has had, so whatever it
\* reports may be an answer to somebody who has read the row at that time.
Observe(s, phase) ==
  /\ s \in Flash
  /\ Cardinality(observations) < MaxObservations
  /\ provider[s].present
  /\ observations' = observations \cup
       {[service |-> s, generation |-> provider[s].generation, phase |-> phase]}
  /\ UNCHANGED <<instances, outbox, policy, workers, provider, abandoned>>

\* An observation is recorded once by each replica that has made it.
Recorded(o) == observations' \in {observations, observations \ {o}}

\* Mutant: the observation is recorded without comparing generations.
RecordFlashObservationUnfenced(o) ==
  /\ o \in observations
  /\ IF Live(o.service) THEN SetState(o.service, o.phase) ELSE UNCHANGED instances
  /\ Recorded(o)
  /\ UNCHANGED <<outbox, policy, workers, provider, abandoned>>

RecordFlashObservation(o) ==
  /\ o \in observations
  /\ IF Live(o.service) /\ instances[o.service].generation = o.generation
       THEN SetState(o.service, o.phase)
       ELSE UNCHANGED instances
  /\ Recorded(o)
  /\ UNCHANGED <<outbox, policy, workers, provider, abandoned>>
-----------------------------------------------------------------------------
ApiStep ==
  \/ \E s \in Services : \/ CreateServiceInstance(s)
                         \/ UpdateServiceInstance(s)
                         \/ SetFlashServiceStopped(s)
                         \/ BeginDeleteServiceInstance(s)
  \/ SetResourceQuota
  \/ \E rows \in SUBSET Flash : EnqueueFlashGpuReconciles(rows)
  \/ \E s \in Flash, phase \in Phases : Observe(s, phase)
  \/ \E o \in observations : RecordFlashObservation(o)

WorkerStep(w) ==
  \/ \E s \in Services : \E e \in EventIds(s) : ClaimOutboxEvent(w, s, e)
  \/ LoadInstance(w)
  \/ SendRequest(w)
  \/ RequestTimesOut(w)
  \/ CompleteDeleteServiceInstance(w)
  \/ MarkServiceInstanceReady(w)
  \/ MarkServiceInstanceError(w)
  \/ AcknowledgeQuota(w)
  \/ MarkOutboxDelivered(w)
  \/ RetryOutboxEvent(w)
  \/ WorkerCrashes(w)

ProviderStep ==
  \/ \E w \in Workers : \/ \E answer \in Answers : ProviderAccepts(w, answer)
                        \/ ProviderHasNothing(w)
                        \/ ProviderRejects(w)
                        \/ ProviderUnavailable(w)
  \/ \E r \in abandoned : AbandonedArrives(r) \/ AbandonedIsLost(r)

Next ==
  \/ ApiStep
  \/ \E w \in Workers : WorkerStep(w)
  \/ \E s \in Services : \E e \in EventIds(s) : LeaseExpires(s, e)
  \/ ProviderStep

Spec == Init /\ [][Next]_vars
-----------------------------------------------------------------------------
(***************************************************************************)
(* Fairness.  Workers poll for ever and a claimed event is carried through *)
(* unless the worker fails; the claim order (available_at, then id) lets   *)
(* no available event wait for ever; the provider answers.  Failures of    *)
(* workers and of the provider stop happening at some time.                *)
(***************************************************************************)

\* The provider has no reason to turn the worker's request down.
Served(w) == Accepts(RequestOf(w)) \/ NotFound(RequestOf(w))

ProviderAnswers(w) ==
  \/ \E answer \in Answers : ProviderAccepts(w, answer)
  \/ ProviderHasNothing(w)
  \/ (ProviderRejects(w) \/ ProviderUnavailable(w)) /\ ~Served(w)

\* The steps of a worker that holds an event, except its failures.
WorkerAdvances(w) ==
  \/ LoadInstance(w) \/ SendRequest(w) \/ ProviderAnswers(w)
  \/ CompleteDeleteServiceInstance(w)
  \/ MarkServiceInstanceReady(w) \/ MarkServiceInstanceError(w) \/ AcknowledgeQuota(w)
  \/ MarkOutboxDelivered(w) \/ RetryOutboxEvent(w)

Fault ==
  \E w \in Workers :
    \/ WorkerCrashes(w)
    \/ RequestTimesOut(w)
    \/ ProviderUnavailable(w) /\ Served(w)

\* A step that leaves no trace of a fault is none.
Fairness ==
  /\ <>[][Fault => \E w \in Workers : WorkerAdvances(w)]_vars
  /\ \A w \in Workers : WF_vars(WorkerAdvances(w))
  /\ \A s \in Services : \A e \in 1..MaxEvents :
       /\ WF_vars(e \in EventIds(s) /\ LeaseExpires(s, e))
       /\ SF_vars(\E w \in Workers : e \in EventIds(s) /\ ClaimOutboxEvent(w, s, e))

FairSpec == Spec /\ Fairness
-----------------------------------------------------------------------------
(***************************************************************************)
(* Properties.                                                             *)
(***************************************************************************)

\* The columns hold values of their types (service_instances, outbox_events)
\* and the processes' local variables too.
TypeOK ==
  /\ instances \in [Services -> Row]
  /\ outbox \in [Services -> Seq(Event)]
  /\ policy \in Nat
  /\ workers \in [Workers -> WorkerState]
  /\ observations \in SUBSET Observation
  /\ provider \in [Services -> Provided]
  /\ abandoned \in SUBSET Request

\* The state users read: provisioning and updating are the same promise.
ReportedPhase(s) ==
  IF instances[s].state \in {"provisioning", "updating"} THEN "pending"
                                                       ELSE instances[s].state

Desired == INSTANCE DesiredState WITH
  desired <- [s \in Services |-> instances[s].generation],
  phase   <- [s \in Services |-> ReportedPhase(s)],
  applied <- [s \in Services |-> [generation |-> provider[s].generation,
                                  present    |-> provider[s].present]],
  missed  <- [s \in Services |-> provider[s].missed]

\* Queue, leases, retries, abandoned requests and late observations together
\* implement what DesiredState promises of create, update, delete and status.
ImplementsDesiredState == Desired!Spec

\* An undelivered event of this topic for the current generation of the row.
Pending(s, topic) ==
  \E e \in EventIds(s) : /\ ~outbox[s][e].delivered
                         /\ outbox[s][e].topic = topic
                         /\ outbox[s][e].generation = instances[s].generation

\* The provider holds the service at the row's generation.
Applied(s) == provider[s].present /\ provider[s].generation = instances[s].generation

\* ARCHITECTURE.md: an outage "delays reconciliation without losing accepted
\* desired state".  Whatever crashes, expires or arrives late, a live row is
\* queued at its generation, or applied by the provider, or reported as an
\* error; and a deleting row has its delete queued.
DesiredStateNotLost ==
  \A s \in Services :
    /\ instances[s].state = "deleting" => Pending(s, "delete")
    /\ Live(s) => \/ Pending(s, "reconcile")
                  \/ Applied(s)
                  \/ instances[s].state = "error"

\* deliver and record_flash_observation: a row reads "ready" only while the
\* provider holds exactly the row's generation, although answers and
\* observations are written back after the row may have moved on.
ReadyMeansApplied ==
  \A s \in Services : instances[s].state = "ready" => Applied(s)

\* The requests for a service that may still reach its provider.
UnderWay(s) == {r \in abandoned : r.service = s}
               \cup {RequestOf(w) : w \in {v \in Workers : workers[v].pc = "sent"
                                                     /\ workers[v].service = s}}

\* complete_delete_service_instance: once the row is gone the provider holds
\* nothing, and no request that is still on its way, from a slow worker or from
\* one that gave up, can bring the service back.  The exception is a service
\* whose DELETE found that the provider had never held it: what brings that one
\* back is of an older generation, so a provider that has seen the deletion's
\* generation is always final.
RemovedStaysRemoved ==
  \A s \in Services : instances[s].state = "removed" =>
    \/ /\ ~provider[s].present
       /\ \A r \in UnderWay(s) : Accepts(r) => r.topic = "delete"
    \/ provider[s].missed /\ provider[s].generation < instances[s].generation

\* begin_delete_service_instance: a delete is final.  No late answer, late
\* observation or second delete moves a deleting row anywhere but out, and
\* generations never go back.
DeletionIsFinal ==
  [][\A s \in Services :
       /\ instances[s].state = "deleting" => instances'[s].state \in {"deleting", "removed"}
       /\ instances[s].state = "removed" => instances'[s].state = "removed"
       /\ instances[s].generation <= instances'[s].generation]_vars

\* begin_delete_service_instance: a deleted service is eventually removed.
DeletionCompletes ==
  \A s \in Services : instances[s].state = "deleting" ~> instances[s].state = "removed"

\* process_one: every accepted generation is eventually applied by the provider,
\* reported as an error, or replaced by a newer one.
GenerationSettles ==
  \A s \in Services : \A g \in 1..MaxGeneration :
    (Live(s) /\ instances[s].generation = g)
      ~> (instances[s].generation > g \/ Applied(s) \/ instances[s].state = "error")
-----------------------------------------------------------------------------
(***************************************************************************)
(* The inductive invariant behind the safety properties: what ties the     *)
(* row, its events, the workers' answers, the requests under way and the   *)
(* provider together.                                                      *)
(***************************************************************************)

\* An event never runs ahead of its row, at the row's generation there are
\* deletes or refreshes, never both, and a delete is never taken back.
EventsFollowRow ==
  \A s \in Services :
    /\ instances[s].state = "none" <=> instances[s].generation = 0
    /\ \A e \in EventIds(s) :
         /\ 1 <= outbox[s][e].generation
         /\ outbox[s][e].generation <= instances[s].generation
         /\ outbox[s][e].generation = instances[s].generation
              => (Live(s) <=> outbox[s][e].topic # "delete")
         /\ outbox[s][e].topic = "delete" => instances[s].state \in {"deleting", "removed"}

\* What a worker that answers for its event knows about the row and the provider.
AnswerIsSound(w) ==
  LET s == workers[w].service IN
  workers[w].pc # "idle" =>
    /\ workers[w].event \in EventIds(s)
    /\ workers[w].pc = "answered" =>
         /\ workers[w].answer \in SuccessAnswers(Held(w).topic) \cup {"rejected"}
         /\ workers[w].answer = "rejected" => Held(w).topic = "reconcile"
         /\ workers[w].answer # "rejected" =>
              \/ Held(w).generation <= provider[s].generation
              \/ workers[w].answer = "deleted" /\ provider[s].missed
    /\ workers[w].pc = "finished" =>
         /\ workers[w].answer \in {"ok", "stale", "retry"}
         /\ (workers[w].answer # "retry" /\ Held(w).generation = instances[s].generation) =>
              \/ instances[s].state = "removed"
              \/ /\ Live(s)
                 /\ Held(w).topic = "reconcile" => Applied(s) \/ instances[s].state = "error"

AnswersAreSound == \A w \in Workers : AnswerIsSound(w)

\* The provider never runs ahead of the row, at the row's generation it holds
\* the service exactly when the row is live, and the row is only removed when
\* the provider has seen the delete or was found to have nothing.
ProviderFollowsRow ==
  \A s \in Services :
    /\ provider[s].present => 1 <= provider[s].generation
    /\ provider[s].generation <= instances[s].generation
    /\ provider[s].generation = instances[s].generation => (provider[s].present <=> Live(s))
    /\ instances[s].state = "removed" =>
         provider[s].missed \/ provider[s].generation = instances[s].generation

\* A request under way was sent for an event.
RequestsAreEvents ==
  \A r \in abandoned : \E e \in EventIds(r.service) :
    outbox[r.service][e].topic = r.topic /\ outbox[r.service][e].generation = r.generation

\* An observation of the current generation was made of what the provider holds.
ObservationsAreSound ==
  \A o \in observations :
    /\ o.generation <= instances[o.service].generation
    /\ (Live(o.service) /\ o.generation = instances[o.service].generation)
         => Applied(o.service)

\* The outbox protocol's invariant, from which the safety properties follow.
ProtocolInvariant ==
  /\ EventsFollowRow
  /\ AnswersAreSound
  /\ ProviderFollowsRow
  /\ RequestsAreEvents
  /\ ObservationsAreSound
  /\ ReadyMeansApplied
  /\ DesiredStateNotLost
=============================================================================
