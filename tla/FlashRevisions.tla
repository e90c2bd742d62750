--------------------------- MODULE FlashRevisions ---------------------------
(***************************************************************************)
(* Deployment history of one Flash service: the revisions that database    *)
(* triggers capture, the observers of the API replicas that record runtime *)
(* health and roll an unhealthy revision back, manual rollback, and the    *)
(* worker that writes the provider's answer to a PUT.                      *)
(*                                                                         *)
(* The settings of a generation never change, so the row's settings and a  *)
(* copy of the row that was read earlier are named by a generation.  Of    *)
(* the row's states only deleting is told apart: see ServiceLifecycle.     *)
(***************************************************************************)
EXTENDS Naturals, FiniteSets, FiniteSetsExt

CONSTANTS
  Execs,          \* values of the settings that a rollback reverts
  Securities,     \* values of the settings that a rollback keeps
  Sizes,          \* sizes of persistent disks
  Requests,       \* the settings that users submit
  ScaleToZero,    \* the Execs with autoscaling.min_replicas = 0
  AutoRollback,   \* the Execs with deployment.auto_rollback
  ListLimit,      \* revisions that a listing returns
  MaxGeneration,  \* bound on the generation of the service
  Observers       \* API replicas that run the observer

\* disk 0: persistent_storage_gib is left out.
Settings == [exec : Execs, security : Securities, stopped : BOOLEAN, disk : Sizes \cup {0}]

ASSUME RevisionsAssumption ==
  /\ Sizes \subseteq Nat \ {0}
  /\ ListLimit \in Nat
  /\ Requests \subseteq Settings
  /\ ScaleToZero \subseteq Execs
  /\ AutoRollback \subseteq Execs
  /\ MaxGeneration \in Nat \ {0}

VARIABLES
  row,        \* the row of service_instances
  revisions,  \* table flash_service_revisions, by generation
  runtime,    \* what the provider runs
  answer,     \* the answer to a PUT that the worker has not written yet
  observers,  \* what each observer is doing
  intent,     \* what users last asked for of the settings a rollback keeps
  healthy     \* generations that have run with ready replicas

revisionsVars == <<row, revisions, runtime, answer, observers, intent, healthy>>
-----------------------------------------------------------------------------
(***************************************************************************)
(* State.                                                                  *)
(***************************************************************************)

Generations == 1..MaxGeneration

\* reported: persistent_storage_bytes of the status column, 0 in an empty one.
RowType == [generation : Generations, deleting : BOOLEAN, reported : Sizes \cup {0}]

\* readyAt and activated stand for the two timestamps being set; pending is also
\* a failed revision.
Revision == [settings : Settings, phase : {"pending", "ready", "rolled_back"},
             readyAt : BOOLEAN, activated : BOOLEAN]

\* What the provider reports: observed_generation, desired_replicas > 0, a phase
\* that makes the row ready together with ready_replicas > 0, and the disk.
Status == [generation : 0..MaxGeneration, desired : BOOLEAN, ready : BOOLEAN,
           disk : Sizes \cup {0}]

NoStatus == [generation |-> 0, desired |-> FALSE, ready |-> FALSE, disk |-> 0]

\* The phase may lag behind the replicas.
Reported(ready) == [generation |-> runtime.generation, desired |-> runtime.desired,
                    ready |-> ready /\ runtime.ready, disk |-> runtime.disk]

\* accepted: the last generation PUT; generation: the one whose Pods exist.
Runtime == [accepted : 0..MaxGeneration, generation : 0..MaxGeneration,
            desired : BOOLEAN, ready : BOOLEAN, disk : Sizes \cup {0}]

PutAnswer == [generation : 0..MaxGeneration, status : Status]

NoAnswer == [generation |-> 0, status |-> NoStatus]

Observer ==
  [pc : {"idle", "target", "observed", "recorded", "due", "found", "marking"},
   generation : 0..MaxGeneration, status : Status, previous : 0..MaxGeneration]

RestingObserver == [pc |-> "idle", generation |-> 0, status |-> NoStatus, previous |-> 0]

Captured(settings) == [settings |-> settings, phase |-> "pending",
                       readyAt |-> FALSE, activated |-> FALSE]

Kept(settings) == [security |-> settings.security, stopped |-> settings.stopped]

SettingsOf(g) == revisions[g].settings

Live == ~row.deleting

RevisionsInit ==
  /\ row = [generation |-> 1, deleting |-> FALSE, reported |-> 0]
  /\ \E settings \in Requests :
       /\ revisions = [g \in {1} |-> Captured(settings)]
       /\ intent = Kept(settings)
  /\ runtime = [accepted |-> 0, generation |-> 0, desired |-> FALSE, ready |-> FALSE, disk |-> 0]
  /\ answer = NoAnswer
  /\ observers = [o \in Observers |-> RestingObserver]
  /\ healthy = {}
-----------------------------------------------------------------------------
(***************************************************************************)
(* Writes of the API.                                                      *)
(***************************************************************************)

\* A new generation; the status column is emptied and the trigger captures a
\* revision of it.
WriteRow(settings, deleting) ==
  LET g == row.generation + 1 IN
  /\ g <= MaxGeneration
  /\ row' = [generation |-> g, deleting |-> deleting, reported |-> 0]
  /\ revisions' = [h \in 1..g |-> IF h = g THEN Captured(settings) ELSE revisions[h]]

\* validate_flash_disk_update.  The part of the disk that the image and the
\* ephemeral files need is left out: it refuses more, from what is requested and
\* reported alone.
DiskFits(settings) ==
  settings.disk = 0 \/ settings.disk >= Max({row.reported, SettingsOf(row.generation).disk})

\* The quotas are left out: a refusal for them changes nothing.
Admissible(settings) == Live /\ DiskFits(settings)

UpdateServiceInstanceChecked(settings) ==
  /\ Admissible(settings)
  /\ WriteRow(settings, FALSE)

UpdateService(settings) ==
  /\ UpdateServiceInstanceChecked(settings)
  /\ intent' = Kept(settings)
  /\ UNCHANGED <<runtime, answer, observers, healthy>>

SetFlashServiceStopped(stopped) ==
  /\ Live
  /\ SettingsOf(row.generation).stopped # stopped
  /\ WriteRow([SettingsOf(row.generation) EXCEPT !.stopped = stopped], FALSE)
  /\ intent' = [intent EXCEPT !.stopped = stopped]
  /\ UNCHANGED <<runtime, answer, observers, healthy>>

BeginDeleteServiceInstance ==
  /\ Live
  /\ WriteRow(SettingsOf(row.generation), TRUE)
  /\ UNCHANGED <<runtime, answer, observers, intent, healthy>>

\* Execution settings of the target; everything else stays, disks only grow.
RollbackSpec(target, current) ==
  [exec     |-> target.exec,
   security |-> current.security,
   stopped  |-> current.stopped,
   disk     |-> IF current.disk = 0 THEN target.disk ELSE Max({target.disk, current.disk})]

\* The route reads the row and the revision first; the update is refused when
\* the generation has moved on, so it is one step.
Rollback(target) ==
  /\ target < row.generation
  /\ revisions[target].phase = "ready"
  /\ UpdateServiceInstanceChecked(RollbackSpec(SettingsOf(target), SettingsOf(row.generation)))
  /\ UNCHANGED <<runtime, answer, observers, intent, healthy>>
-----------------------------------------------------------------------------
(***************************************************************************)
(* Status that is written to the row, and the trigger that follows.        *)
(***************************************************************************)

\* capture_flash_revision, for an update of a row that has its revision.
CaptureFlashRevision(g, status) ==
  LET ready == \/ revisions[g].readyAt
               \/ status.ready /\ status.generation = g /\ ~SettingsOf(g).stopped IN
  [revisions[g] EXCEPT !.readyAt = ready, !.phase = IF ready THEN "ready" ELSE "pending"]

\* The worker's PUT of the current generation.  The provider answers before the
\* new Pods exist, so the status may be that of an older generation.
ProviderAnswersPut(ready) ==
  /\ Live
  /\ answer = NoAnswer
  /\ runtime' = [runtime EXCEPT !.accepted = row.generation]
  /\ answer' = [generation |-> row.generation, status |-> Reported(ready)]
  /\ UNCHANGED <<row, revisions, observers, intent, healthy>>

\* mark_service_instance_ready and mark_service_instance_error.
MarkServiceInstance ==
  LET g == answer.generation  status == answer.status IN
  /\ answer # NoAnswer
  /\ IF row.generation = g
       THEN /\ row' = [row EXCEPT !.reported = status.disk]
            /\ revisions' = [revisions EXCEPT ![g] = CaptureFlashRevision(g, status)]
       ELSE UNCHANGED <<row, revisions>>
  /\ answer' = NoAnswer
  /\ UNCHANGED <<runtime, observers, intent, healthy>>
-----------------------------------------------------------------------------
(***************************************************************************)
(* observe, in every API replica.                                          *)
(***************************************************************************)

ObserverGoes(o, pc) == observers' = [observers EXCEPT ![o].pc = pc]

ObserverRests(o) == observers' = [observers EXCEPT ![o] = RestingObserver]

ReadTarget(o) ==
  /\ observers[o].pc = "idle"
  /\ Live
  /\ observers' = [observers EXCEPT ![o].pc = "target", ![o].generation = row.generation]
  /\ UNCHANGED <<row, revisions, runtime, answer, intent, healthy>>

\* A status of another generation, like no status, ends the observation.
GetStatus(o, ready) ==
  /\ observers[o].pc = "target"
  /\ IF runtime.generation = observers[o].generation
       THEN observers' = [observers EXCEPT ![o].pc = "observed", ![o].status = Reported(ready)]
       ELSE ObserverRests(o)
  /\ UNCHANGED <<row, revisions, runtime, answer, intent, healthy>>

\* record_flash_observation; then nothing is done for a stopped service.
RecordFlashObservation(o) ==
  LET g == observers[o].generation  status == observers[o].status IN
  /\ observers[o].pc = "observed"
  /\ IF Live /\ row.generation = g
       THEN /\ row' = [row EXCEPT !.reported = status.disk]
            /\ revisions' = [revisions EXCEPT ![g] =
                 [CaptureFlashRevision(g, status) EXCEPT
                    !.activated = @ \/ (status.desired /\ ~SettingsOf(g).stopped)]]
       ELSE UNCHANGED <<row, revisions>>
  /\ IF SettingsOf(g).stopped THEN ObserverRests(o)
       ELSE observers' = [observers EXCEPT ![o].pc = "recorded", ![o].status = NoStatus]
  /\ UNCHANGED <<runtime, answer, intent, healthy>>


\* The revision is activated, not known to be healthy, and past its deadline.
CheckDeadline(o) ==
  LET g == observers[o].generation IN
  /\ observers[o].pc = "recorded"
  /\ IF /\ revisions[g].activated \/ SettingsOf(g).exec \notin ScaleToZero
        /\ SettingsOf(g).exec \in AutoRollback
        /\ ~revisions[g].readyAt
       THEN ObserverGoes(o, "due")
       ELSE ObserverRests(o)
  /\ UNCHANGED <<row, revisions, runtime, answer, intent, healthy>>

\* flash_revisions: the newest ones.
Listed == {g \in DOMAIN revisions : g + ListLimit > row.generation}

FindPrevious(o) ==
  LET ready == {g \in Listed : g < observers[o].generation /\ revisions[g].phase = "ready"} IN
  /\ observers[o].pc = "due"
  /\ IF ready = {} THEN ObserverRests(o)
       ELSE observers' = [observers EXCEPT ![o].pc = "found", ![o].previous = Max(ready)]
  /\ UNCHANGED <<row, revisions, runtime, answer, intent, healthy>>

\* Mutant: the rollback passes no expected generation.
AutomaticRollbackUnfenced(o) ==
  LET settings == RollbackSpec(SettingsOf(observers[o].previous),
                               SettingsOf(observers[o].generation)) IN
  /\ observers[o].pc = "found"
  /\ IF Admissible(settings)
       THEN UpdateServiceInstanceChecked(settings) /\ ObserverGoes(o, "marking")
       ELSE ObserverRests(o) /\ UNCHANGED <<row, revisions>>
  /\ UNCHANGED <<runtime, answer, intent, healthy>>

\* The update is refused when the generation is not the one that was observed.
AutomaticRollback(o) ==
  LET settings == RollbackSpec(SettingsOf(observers[o].previous),
                               SettingsOf(observers[o].generation)) IN
  /\ observers[o].pc = "found"
  /\ IF row.generation = observers[o].generation /\ Admissible(settings)
       THEN UpdateServiceInstanceChecked(settings) /\ ObserverGoes(o, "marking")
       ELSE ObserverRests(o) /\ UNCHANGED <<row, revisions>>
  /\ UNCHANGED <<runtime, answer, intent, healthy>>

\* Mutant: the revision is marked whatever it has become.
MarkFlashRevisionRolledBackAlways(o) ==
  LET g == observers[o].generation IN
  /\ observers[o].pc = "marking"
  /\ revisions' = [revisions EXCEPT ![g].phase = "rolled_back"]
  /\ ObserverRests(o)
  /\ UNCHANGED <<row, runtime, answer, intent, healthy>>

MarkFlashRevisionRolledBack(o) ==
  LET g == observers[o].generation IN
  /\ observers[o].pc = "marking"
  /\ revisions' = [revisions EXCEPT ![g].phase = IF revisions[g].readyAt THEN @ ELSE "rolled_back"]
  /\ ObserverRests(o)
  /\ UNCHANGED <<row, runtime, answer, intent, healthy>>

\* The deadline has not passed, a quota is exhausted, the actor has lost its
\* permission, a call fails or the replica stops.
GiveUp(o) ==
  /\ observers[o].pc # "idle"
  /\ ObserverRests(o)
  /\ UNCHANGED <<row, revisions, runtime, answer, intent, healthy>>
-----------------------------------------------------------------------------
(***************************************************************************)
(* The provider.                                                           *)
(***************************************************************************)

\* The accepted generation replaces the running one.  The disk never shrinks; a
\* size that was left out is chosen here.
RuntimeRolls ==
  /\ runtime.accepted > runtime.generation
  /\ LET settings == SettingsOf(runtime.accepted) IN
     \E desired \in BOOLEAN, disk \in Sizes :
       /\ desired => ~settings.stopped
       /\ ~desired => settings.stopped \/ settings.exec \in ScaleToZero
       /\ IF settings.disk = 0 THEN disk >= runtime.disk
                               ELSE disk = Max({runtime.disk, settings.disk})
       /\ runtime' = [runtime EXCEPT !.generation = runtime.accepted, !.desired = desired,
                                     !.ready = FALSE, !.disk = disk]
  /\ UNCHANGED <<row, revisions, answer, observers, intent, healthy>>

RuntimeScales ==
  /\ runtime.generation > 0
  /\ SettingsOf(runtime.generation).exec \in ScaleToZero
  /\ ~SettingsOf(runtime.generation).stopped
  /\ runtime' = [runtime EXCEPT !.desired = ~@, !.ready = FALSE]
  /\ UNCHANGED <<row, revisions, answer, observers, intent, healthy>>

RuntimeTurns(ready) ==
  /\ runtime.desired /\ runtime.ready # ready
  /\ runtime' = [runtime EXCEPT !.ready = ready]
  /\ healthy' = IF ready THEN healthy \cup {runtime.generation} ELSE healthy
  /\ UNCHANGED <<row, revisions, answer, observers, intent>>
-----------------------------------------------------------------------------
ApiStep ==
  \/ \E settings \in Requests : UpdateService(settings)
  \/ \E stopped \in BOOLEAN : SetFlashServiceStopped(stopped)
  \/ BeginDeleteServiceInstance
  \/ \E target \in DOMAIN revisions : Rollback(target)

ObserverAdvances(o) ==
  \/ \E ready \in BOOLEAN : GetStatus(o, ready)
  \/ RecordFlashObservation(o) \/ CheckDeadline(o) \/ FindPrevious(o)
  \/ AutomaticRollback(o) \/ MarkFlashRevisionRolledBack(o)

RuntimeStep ==
  \/ RuntimeRolls \/ RuntimeScales \/ (\E ready \in BOOLEAN : RuntimeTurns(ready))

WorkerStep == (\E ready \in BOOLEAN : ProviderAnswersPut(ready)) \/ MarkServiceInstance

RevisionsNext ==
  \/ ApiStep
  \/ WorkerStep
  \/ \E o \in Observers : ReadTarget(o) \/ ObserverAdvances(o) \/ GiveUp(o)
  \/ RuntimeStep

RevisionsSpec == RevisionsInit /\ [][RevisionsNext]_revisionsVars
-----------------------------------------------------------------------------
(***************************************************************************)
(* Properties.                                                             *)
(***************************************************************************)

\* The columns and the processes' variables have their types.
RevisionsTypeOK ==
  /\ row \in RowType
  /\ revisions \in [1..row.generation -> Revision]
  /\ runtime \in Runtime
  /\ answer \in PutAnswer
  /\ observers \in [Observers -> Observer]
  /\ intent \in [security : Securities, stopped : BOOLEAN]
  /\ healthy \in SUBSET Generations

\* capture_flash_revision, flash-operations.md: a revision is offered for
\* rollback exactly when it is recorded as healthy, and then it has run with
\* ready replicas, although answers and observations are written late.
HealthIsEarned ==
  \A g \in DOMAIN revisions :
    /\ revisions[g].phase = "ready" <=> revisions[g].readyAt
    /\ revisions[g].readyAt => g \in healthy /\ ~SettingsOf(g).stopped

\* rollback_spec and the generation fence: "Current IAM, secrets, exposure and
\* network restrictions remain authoritative".  Whatever is rolled back while
\* users edit, the row has what users last asked for.
SettingsStayCurrent == Kept(SettingsOf(row.generation)) = intent

=============================================================================
