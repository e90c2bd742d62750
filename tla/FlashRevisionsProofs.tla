------------------------ MODULE FlashRevisionsProofs ------------------------
(***************************************************************************)
(* Deployment history of a Flash service, for any settings, number of      *)
(* generations and number of API replicas.                                 *)
(***************************************************************************)
EXTENDS FlashRevisions, WellFoundedInduction, TLAPS

\* A status that says ready comes from a generation that ran with ready replicas.
Witnessed(status) == status.ready => status.generation \in healthy

\* What is under way speaks of generations that have been written.
GenerationsAreKnown ==
  /\ runtime.accepted <= row.generation
  /\ runtime.generation <= row.generation
  /\ runtime.desired => runtime.generation # 0
  /\ answer.generation <= row.generation
  /\ \A o \in Observers :
       /\ observers[o].generation <= row.generation
       /\ observers[o].pc # "idle" => observers[o].generation # 0
       /\ observers[o].pc = "found" => observers[o].previous \in 1..row.generation

\* Statuses on their way to the row were true when they were taken.
StatusesAreWitnessed ==
  /\ runtime.ready => runtime.generation \in healthy
  /\ Witnessed(answer.status)
  /\ \A o \in Observers : Witnessed(observers[o].status)

IInv ==
  /\ RevisionsTypeOK
  /\ GenerationsAreKnown
  /\ StatusesAreWitnessed
  /\ HealthIsEarned
  /\ SettingsStayCurrent
-----------------------------------------------------------------------------
(***************************************************************************)
(* Greatest elements.                                                      *)
(***************************************************************************)

\* A set of numbers up to n that is not empty has a greatest one.
LEMMA MaxIsMember ==
    ASSUME NEW n \in Nat, NEW S \in SUBSET (0 .. n), S # {}
    PROVE  Max(S) \in S /\ \A y \in S : Max(S) >= y
  <1> DEFINE R == OpToRel(<, Nat)
             T == {n - x : x \in S}
  <1>1. T \subseteq Nat /\ T # {}
    <2> HIDE DEF R
    <2>1. \A x \in S : n - x \in Nat
      OBVIOUS
    <2> QED BY <2>1
  <1>2. \A x, y \in Nat : y < x => <<y, x>> \in R
    BY DEF OpToRel
  <1>3. \E x \in T : \A y \in T : ~(<<y, x>> \in R)
    <2> HIDE DEF T, R
    <2> QED BY <1>1, WFMin, NatLessThanWellFounded DEF R
  <1>4. \E x \in T : \A y \in T : ~(y < x)
    <2> HIDE DEF T, R
    <2> QED BY <1>1, <1>2, <1>3
  <1>5. PICK m \in S : \A y \in S : ~(n - y < n - m)
    BY <1>4
  <1>6. \A y \in S : m >= y
    BY <1>5
  <1> QED BY <1>6 DEF Max

\* The greater of two numbers is one of them.
LEMMA MaxOfTwo ==
    ASSUME NEW a \in Nat, NEW b \in Nat
    PROVE  Max({a, b}) \in {a, b}
  <1>1. \E x \in {a, b} : \A y \in {a, b} : x >= y
    <2>1. CASE a >= b
      BY <2>1
    <2>2. CASE b >= a
      BY <2>2
    <2> QED BY <2>1, <2>2
  <1> QED BY <1>1 DEF Max

\* Sizes of disks are numbers, and so is the size that is left out.
LEMMA SizesAreNumbers == \A x \in Sizes \cup {0} : x \in Nat
  BY RevisionsAssumption

\* rollback_spec makes settings out of settings.
LEMMA RollbackSpecType ==
    ASSUME NEW target \in Settings, NEW current \in Settings
    PROVE  /\ RollbackSpec(target, current) \in Settings
           /\ Kept(RollbackSpec(target, current)) = Kept(current)
  <1> DEFINE disk == IF current.disk = 0 THEN target.disk ELSE Max({target.disk, current.disk})
  <1>0. target.disk \in Sizes \cup {0} /\ current.disk \in Sizes \cup {0}
    BY DEF Settings
  <1>1. target.disk \in Nat /\ current.disk \in Nat
    BY <1>0, SizesAreNumbers
  <1>2. disk \in Sizes \cup {0}
    <2>1. Max({target.disk, current.disk}) \in {target.disk, current.disk}
      BY <1>1, MaxOfTwo
    <2> QED BY <2>1, <1>0
  <1> HIDE DEF disk
  <1>3. RollbackSpec(target, current) =
          [exec |-> target.exec, security |-> current.security, stopped |-> current.stopped, disk |-> disk]
    BY DEF RollbackSpec, disk
  <1> QED BY <1>2, <1>3 DEF Settings, Kept

-----------------------------------------------------------------------------
(***************************************************************************)
(* What the parts of a step do.                                            *)
(***************************************************************************)

\* The columns and variables, field by field.
LEMMA Fields ==
    ASSUME IInv
    PROVE  /\ row.generation \in Generations /\ row.generation \in Nat
           /\ row.deleting \in BOOLEAN /\ row.reported \in Sizes \cup {0}
           /\ DOMAIN revisions = 1..row.generation
           /\ \A g \in 1..row.generation : revisions[g] \in Revision /\ SettingsOf(g) \in Settings
           /\ runtime.accepted \in 0..MaxGeneration /\ runtime.generation \in 0..MaxGeneration
           /\ runtime.desired \in BOOLEAN /\ runtime.ready \in BOOLEAN
           /\ runtime.disk \in Sizes \cup {0}
           /\ answer.generation \in 0..MaxGeneration /\ answer.status \in Status
           /\ \A o \in Observers : /\ observers[o] \in Observer
                                   /\ observers[o].generation \in 0..MaxGeneration
                                   /\ observers[o].status \in Status
                                   /\ observers[o].previous \in 0..MaxGeneration
  <1>typ. RevisionsTypeOK
    BY DEF IInv
  <1>1. /\ row.generation \in Generations /\ row.generation \in Nat
        /\ row.deleting \in BOOLEAN /\ row.reported \in Sizes \cup {0}
        /\ DOMAIN revisions = 1..row.generation
    BY <1>typ, RevisionsAssumption DEF RevisionsTypeOK, RowType, Generations
  <1>2. \A g \in 1..row.generation : revisions[g] \in Revision /\ SettingsOf(g) \in Settings
    BY <1>typ DEF RevisionsTypeOK, Revision, SettingsOf
  <1>3. /\ runtime.accepted \in 0..MaxGeneration /\ runtime.generation \in 0..MaxGeneration
        /\ runtime.desired \in BOOLEAN /\ runtime.ready \in BOOLEAN
        /\ runtime.disk \in Sizes \cup {0}
        /\ answer.generation \in 0..MaxGeneration /\ answer.status \in Status
    BY <1>typ DEF RevisionsTypeOK, Runtime, PutAnswer
  <1>4. ASSUME NEW o \in Observers
        PROVE  /\ observers[o] \in Observer
               /\ observers[o].generation \in 0..MaxGeneration
               /\ observers[o].status \in Status
               /\ observers[o].previous \in 0..MaxGeneration
    BY <1>typ DEF RevisionsTypeOK, Observer
  <1> QED BY <1>1, <1>2, <1>3, <1>4

\* No status, no answer, and an observer at rest.
LEMMA RestingType ==
    /\ NoStatus \in Status /\ NoStatus.ready = FALSE
    /\ NoAnswer \in PutAnswer /\ NoAnswer.generation = 0 /\ NoAnswer.status = NoStatus
    /\ RestingObserver \in Observer /\ RestingObserver.pc = "idle" /\ RestingObserver.generation = 0
    /\ RestingObserver.status = NoStatus
  <1>1. 0 \in 0..MaxGeneration
    BY RevisionsAssumption
  <1>2. NoStatus \in Status /\ NoStatus.ready = FALSE
    BY <1>1 DEF NoStatus, Status
  <1>3. NoAnswer \in PutAnswer /\ NoAnswer.generation = 0 /\ NoAnswer.status = NoStatus
    BY <1>1, <1>2 DEF NoAnswer, PutAnswer
  <1> QED BY <1>1, <1>2, <1>3 DEF RestingObserver, Observer

\* What the provider reports is true of the generation that it names.
LEMMA ReportedIsWitnessed ==
    ASSUME IInv, NEW ready \in BOOLEAN
    PROVE  Reported(ready) \in Status /\ Witnessed(Reported(ready))
  <1>1. (ready /\ runtime.ready) \in BOOLEAN
    OBVIOUS
  <1>2. Reported(ready) \in Status
    BY <1>1, Fields DEF Reported, Status
  <1>3. Witnessed(Reported(ready))
    BY DEF Reported, Witnessed, IInv, StatusesAreWitnessed
  <1> QED BY <1>2, <1>3

\* One observer moves, to a state that is founded.
LEMMA ObserverMoves ==
    ASSUME IInv, NEW o \in Observers, NEW new \in Observer,
           observers' = [observers EXCEPT ![o] = new],
           new.generation <= row.generation,
           new.pc # "idle" => new.generation # 0,
           new.pc = "found" => new.previous \in 1..row.generation,
           Witnessed(new.status)
    PROVE  /\ observers' \in [Observers -> Observer]
           /\ \A p \in Observers :
                /\ observers'[p].generation <= row.generation
                /\ observers'[p].pc # "idle" => observers'[p].generation # 0
                /\ observers'[p].pc = "found" => observers'[p].previous \in 1..row.generation
                /\ Witnessed(observers'[p].status)
  <1>1. observers \in [Observers -> Observer]
    BY DEF IInv, RevisionsTypeOK
  <1>2. observers' \in [Observers -> Observer] /\ observers'[o] = new
        /\ \A p \in Observers : p # o => observers'[p] = observers[p]
    BY <1>1
  <1>3. \A p \in Observers :
          /\ observers[p].generation <= row.generation
          /\ observers[p].pc # "idle" => observers[p].generation # 0
          /\ observers[p].pc = "found" => observers[p].previous \in 1..row.generation
          /\ Witnessed(observers[p].status)
    BY DEF IInv, GenerationsAreKnown, StatusesAreWitnessed
  <1> QED BY <1>2, <1>3

\* A step of an observer that reads, or rests.
LEMMA ObserverOnly ==
    ASSUME IInv, NEW o \in Observers, NEW new \in Observer,
           observers' = [observers EXCEPT ![o] = new],
           new.generation <= row.generation,
           new.pc # "idle" => new.generation # 0,
           new.pc = "found" => new.previous \in 1..row.generation,
           Witnessed(new.status),
           UNCHANGED <<row, revisions, runtime, answer, intent, healthy>>
    PROVE  IInv'
  <1>1. /\ observers' \in [Observers -> Observer]
        /\ \A p \in Observers :
             /\ observers'[p].generation <= row.generation
             /\ observers'[p].pc # "idle" => observers'[p].generation # 0
             /\ observers'[p].pc = "found" => observers'[p].previous \in 1..row.generation
             /\ Witnessed(observers'[p].status)
    BY ObserverMoves
  <1>2. RevisionsTypeOK' /\ GenerationsAreKnown' /\ StatusesAreWitnessed'
    BY <1>1 DEF IInv, RevisionsTypeOK, GenerationsAreKnown, StatusesAreWitnessed, Witnessed
  <1>3. HealthIsEarned' /\ SettingsStayCurrent'
    BY DEF IInv, HealthIsEarned, SettingsStayCurrent, SettingsOf
  <1> QED BY <1>2, <1>3 DEF IInv

\* A revision is written again, with its health earned.
LEMMA RevisionWritten ==
    ASSUME IInv, NEW g \in 1..row.generation, NEW new \in Revision,
           revisions' = [revisions EXCEPT ![g] = new],
           new.settings = SettingsOf(g),
           new.phase = "ready" <=> new.readyAt,
           new.readyAt => g \in healthy /\ ~SettingsOf(g).stopped,
           row'.generation = row.generation, UNCHANGED <<healthy, intent>>
    PROVE  /\ revisions' \in [1..row.generation -> Revision]
           /\ HealthIsEarned' /\ SettingsStayCurrent'
  <1>1. revisions \in [1..row.generation -> Revision] /\ row.generation \in 1..row.generation
    BY Fields, RevisionsAssumption DEF IInv, RevisionsTypeOK, Generations
  <1>2. /\ revisions' \in [1..row.generation -> Revision] /\ revisions'[g] = new
        /\ \A h \in 1..row.generation : h # g => revisions'[h] = revisions[h]
    BY <1>1
  <1>3. \A h \in 1..row.generation : revisions'[h].settings = revisions[h].settings
    BY <1>2 DEF SettingsOf
  <1>4. DOMAIN revisions = 1..row.generation /\ DOMAIN revisions' = 1..row.generation
    BY <1>1, <1>2
  <1>5. HealthIsEarned'
    <2> SUFFICES ASSUME NEW h \in 1..row.generation
                 PROVE  /\ revisions'[h].phase = "ready" <=> revisions'[h].readyAt
                        /\ revisions'[h].readyAt => h \in healthy /\ ~revisions'[h].settings.stopped
      BY <1>4 DEF HealthIsEarned, SettingsOf
    <2>1. CASE h = g
      BY <2>1, <1>2, <1>3 DEF SettingsOf
    <2>2. CASE h # g
      BY <2>2, <1>2, <1>4 DEF IInv, HealthIsEarned, SettingsOf
    <2> QED BY <2>1, <2>2
  <1>6. SettingsStayCurrent'
    BY <1>1, <1>3 DEF IInv, SettingsStayCurrent, SettingsOf, Kept
  <1> QED BY <1>2, <1>5, <1>6

\* capture_flash_revision keeps the health earned.
LEMMA CaptureIsEarned ==
    ASSUME IInv, NEW g \in 1..row.generation, NEW status \in Status, Witnessed(status)
    PROVE  LET new == CaptureFlashRevision(g, status)
           IN  /\ new \in Revision /\ new.settings = SettingsOf(g)
               /\ new.phase = "ready" <=> new.readyAt
               /\ new.readyAt => g \in healthy /\ ~SettingsOf(g).stopped
  <1> DEFINE ready == \/ revisions[g].readyAt
                      \/ status.ready /\ status.generation = g /\ ~SettingsOf(g).stopped
             phase == IF ready THEN "ready" ELSE "pending"
  <1>1. revisions[g] \in Revision /\ SettingsOf(g) = revisions[g].settings
    BY Fields DEF SettingsOf
  <1>2. ready \in BOOLEAN
    BY <1>1 DEF Revision
  <1>3. ready => g \in healthy /\ ~SettingsOf(g).stopped
    BY Fields DEF IInv, HealthIsEarned, Witnessed
  <1>4. phase \in {"pending", "ready"} /\ (phase = "ready" <=> ready)
    OBVIOUS
  <1>5. CaptureFlashRevision(g, status) = [revisions[g] EXCEPT !.readyAt = ready, !.phase = phase]
    BY DEF CaptureFlashRevision
  <1> HIDE DEF ready, phase
  <1>6. LET new == [revisions[g] EXCEPT !.readyAt = ready, !.phase = phase]
        IN  new \in Revision /\ new.settings = SettingsOf(g) /\ new.readyAt = ready /\ new.phase = phase
    BY <1>1, <1>2, <1>4 DEF Revision
  <1> QED BY <1>3, <1>4, <1>5, <1>6

\* A new generation with its revision: what users asked for is carried over.
LEMMA RowWritten ==
    ASSUME IInv, NEW settings \in Settings, NEW deleting \in BOOLEAN, WriteRow(settings, deleting),
           intent' = Kept(settings), UNCHANGED <<runtime, answer, healthy>>,
           observers' \in [Observers -> Observer],
           \A o \in Observers :
              /\ observers'[o].generation = observers[o].generation
              /\ observers'[o].status = observers[o].status
              /\ observers'[o].previous = observers[o].previous
              /\ observers'[o].pc = observers[o].pc
                   \/ (observers'[o].pc = "marking" /\ observers[o].pc # "idle")
    PROVE  IInv'
  <1> DEFINE g == row.generation + 1
  <1>1. /\ row.generation \in Nat /\ g \in Generations /\ 0 \in Sizes \cup {0}
    BY Fields, RevisionsAssumption DEF WriteRow, Generations
  <1>2. /\ row' = [generation |-> g, deleting |-> deleting, reported |-> 0]
        /\ revisions' = [h \in 1..g |-> IF h = g THEN Captured(settings) ELSE revisions[h]]
    BY DEF WriteRow
  <1>3. row' \in RowType /\ row'.generation = g
    BY <1>1, <1>2 DEF RowType
  <1>4. /\ Captured(settings) \in Revision /\ Captured(settings).settings = settings
        /\ Captured(settings).phase = "pending" /\ Captured(settings).readyAt = FALSE
    BY DEF Captured, Revision
  <1>5. \A h \in 1..g : h # g => h \in 1..row.generation
    BY <1>1
  <1> HIDE DEF g
  <1>6. /\ revisions' \in [1..g -> Revision] /\ g \in 1..g
        /\ revisions'[g] = Captured(settings)
        /\ \A h \in 1..g : h # g => revisions'[h] = revisions[h]
    BY <1>1, <1>2, <1>4, <1>5, Fields DEF Generations
  <1>7. intent' \in [security : Securities, stopped : BOOLEAN]
    BY DEF Kept, Settings
  <1>8. RevisionsTypeOK'
    BY <1>3, <1>6, <1>7 DEF IInv, RevisionsTypeOK
  <1>9. row.generation <= g
    BY <1>1 DEF g
  <1>10. GenerationsAreKnown'
    <2>1. /\ runtime.accepted <= g /\ runtime.generation <= g /\ answer.generation <= g
          /\ runtime.desired => runtime.generation # 0
      BY <1>1, <1>9, Fields DEF IInv, GenerationsAreKnown, Generations
    <2>2. ASSUME NEW o \in Observers
          PROVE  /\ observers'[o].generation <= g
                 /\ observers'[o].pc # "idle" => observers'[o].generation # 0
                 /\ observers'[o].pc = "found" => observers'[o].previous \in 1..g
      <3>1. /\ observers[o].generation <= row.generation
            /\ observers[o].pc # "idle" => observers[o].generation # 0
            /\ observers[o].pc = "found" => observers[o].previous \in 1..row.generation
        BY DEF IInv, GenerationsAreKnown
      <3>2. observers[o].generation \in Nat /\ g \in Nat
        BY <1>1, Fields DEF Generations
      <3>3. \A x \in 1..row.generation : x \in 1..g
        BY <3>2, <1>1, <1>9
      <3> QED BY <3>1, <3>2, <3>3, <1>1, <1>9
    <2> QED BY <2>1, <2>2, <1>3 DEF GenerationsAreKnown
  <1>11. StatusesAreWitnessed'
    BY DEF IInv, StatusesAreWitnessed, Witnessed
  <1>12. HealthIsEarned'
    <2> SUFFICES ASSUME NEW h \in 1..g
                 PROVE  /\ revisions'[h].phase = "ready" <=> revisions'[h].readyAt
                        /\ revisions'[h].readyAt => h \in healthy /\ ~revisions'[h].settings.stopped
      BY <1>6 DEF HealthIsEarned, SettingsOf
    <2>1. CASE h = g
      BY <2>1, <1>4, <1>6
    <2>2. CASE h # g
      BY <2>2, <1>5, <1>6, Fields DEF IInv, HealthIsEarned, SettingsOf
    <2> QED BY <2>1, <2>2
  <1>13. SettingsStayCurrent'
    BY <1>3, <1>4, <1>6 DEF SettingsStayCurrent, SettingsOf
  <1> QED BY <1>8, <1>10, <1>11, <1>12, <1>13 DEF IInv

\* A change of the provider's side alone.
LEMMA RuntimeOnly ==
    ASSUME IInv, runtime' \in Runtime, healthy' \in SUBSET Generations, healthy \subseteq healthy',
           runtime'.accepted <= row.generation, runtime'.generation <= row.generation,
           runtime'.desired => runtime'.generation # 0,
           runtime'.ready => runtime'.generation \in healthy',
           UNCHANGED <<row, revisions, answer, observers, intent>>
    PROVE  IInv'
  <1>1. RevisionsTypeOK' /\ GenerationsAreKnown'
    BY DEF IInv, RevisionsTypeOK, GenerationsAreKnown
  <1>2. StatusesAreWitnessed'
    BY DEF IInv, StatusesAreWitnessed, Witnessed
  <1>3. HealthIsEarned' /\ SettingsStayCurrent'
    BY DEF IInv, HealthIsEarned, SettingsStayCurrent, SettingsOf
  <1> QED BY <1>1, <1>2, <1>3 DEF IInv

-----------------------------------------------------------------------------
(***************************************************************************)
(* Every step keeps the invariant.                                         *)
(***************************************************************************)

\* A service starts with the first revision, which nobody has run.
LEMMA InitInv == RevisionsInit => IInv
  <1> SUFFICES ASSUME RevisionsInit PROVE IInv
    OBVIOUS
  <1>1. PICK settings \in Requests : /\ revisions = [g \in {1} |-> Captured(settings)]
                                     /\ intent = Kept(settings)
    BY DEF RevisionsInit
  <1>2. /\ row = [generation |-> 1, deleting |-> FALSE, reported |-> 0]
        /\ runtime = [accepted |-> 0, generation |-> 0, desired |-> FALSE, ready |-> FALSE, disk |-> 0]
        /\ answer = NoAnswer /\ observers = [o \in Observers |-> RestingObserver] /\ healthy = {}
    BY DEF RevisionsInit
  <1>3. settings \in Settings /\ 1 \in Generations /\ 0 \in 0..MaxGeneration
    BY RevisionsAssumption DEF Generations
  <1>4. /\ Captured(settings) \in Revision /\ Captured(settings).settings = settings
        /\ Captured(settings).phase = "pending" /\ Captured(settings).readyAt = FALSE
    BY <1>3 DEF Captured, Revision
  <1>5. 1..1 = {1}
    OBVIOUS
  <1>6. row \in RowType /\ row.generation = 1 /\ runtime \in Runtime
    BY <1>2, <1>3 DEF RowType, Runtime
  <1>7. revisions \in [1..row.generation -> Revision] /\ DOMAIN revisions = {1}
        /\ revisions[1] = Captured(settings)
    BY <1>1, <1>4, <1>5, <1>6
  <1>8. intent \in [security : Securities, stopped : BOOLEAN]
    BY <1>1, <1>3 DEF Kept, Settings
  <1>9. RevisionsTypeOK
    BY <1>2, <1>6, <1>7, <1>8, RestingType DEF RevisionsTypeOK
  <1>10. GenerationsAreKnown /\ StatusesAreWitnessed
    BY <1>2, RestingType DEF GenerationsAreKnown, StatusesAreWitnessed, Witnessed
  <1>11. HealthIsEarned /\ SettingsStayCurrent
    BY <1>1, <1>4, <1>6, <1>7 DEF HealthIsEarned, SettingsStayCurrent, SettingsOf
  <1> QED BY <1>9, <1>10, <1>11 DEF IInv

\* The settings of the row are among those of its revisions.
LEMMA CurrentSettings ==
    ASSUME IInv
    PROVE  /\ row.generation \in 1..row.generation /\ SettingsOf(row.generation) \in Settings
           /\ Kept(SettingsOf(row.generation)) = intent
           /\ observers \in [Observers -> Observer]
  BY Fields, RevisionsAssumption DEF Generations, IInv, SettingsStayCurrent, RevisionsTypeOK

\* Writes of users.
LEMMA ApiStepInv == ASSUME IInv, ApiStep PROVE IInv'
  <1>0. /\ row.generation \in 1..row.generation /\ SettingsOf(row.generation) \in Settings
        /\ Kept(SettingsOf(row.generation)) = intent
        /\ observers \in [Observers -> Observer]
    BY CurrentSettings
  <1>1. ASSUME NEW settings \in Requests, UpdateService(settings) PROVE IInv'
    <2>1. /\ WriteRow(settings, FALSE) /\ intent' = Kept(settings)
          /\ UNCHANGED <<runtime, answer, observers, healthy>>
      BY <1>1 DEF UpdateService, UpdateServiceInstanceChecked
    <2>2. settings \in Settings
      BY RevisionsAssumption
    <2> QED BY <2>1, <2>2, <1>0, RowWritten
  <1>2. ASSUME NEW stopped \in BOOLEAN, SetFlashServiceStopped(stopped) PROVE IInv'
    <2> DEFINE old == SettingsOf(row.generation)
               new == [old EXCEPT !.stopped = stopped]
    <2>1. /\ WriteRow(new, FALSE) /\ intent' = [intent EXCEPT !.stopped = stopped]
          /\ UNCHANGED <<runtime, answer, observers, healthy>>
      BY <1>2 DEF SetFlashServiceStopped
    <2>2. new \in Settings
      BY <1>0 DEF Settings
    <2>3. Kept(new) = [Kept(old) EXCEPT !.stopped = stopped]
      BY <1>0 DEF Kept, Settings
    <2>4. intent' = Kept(new)
      BY <2>1, <2>3, <1>0
    <2> HIDE DEF new
    <2> QED BY <2>1, <2>2, <2>4, <1>0, RowWritten
  <1>3. ASSUME BeginDeleteServiceInstance PROVE IInv'
    <2>1. /\ WriteRow(SettingsOf(row.generation), TRUE)
          /\ UNCHANGED <<runtime, answer, observers, intent, healthy>>
      BY <1>3 DEF BeginDeleteServiceInstance
    <2>2. intent' = Kept(SettingsOf(row.generation))
      BY <2>1, <1>0
    <2> QED BY <2>1, <2>2, <1>0, RowWritten
  <1>4. ASSUME NEW target \in DOMAIN revisions, Rollback(target) PROVE IInv'
    <2> DEFINE new == RollbackSpec(SettingsOf(target), SettingsOf(row.generation))
    <2>1. WriteRow(new, FALSE) /\ UNCHANGED <<runtime, answer, observers, intent, healthy>>
      BY <1>4 DEF Rollback, UpdateServiceInstanceChecked
    <2>2. SettingsOf(target) \in Settings
      BY Fields
    <2>3. new \in Settings /\ Kept(new) = intent
      BY <2>2, <1>0, RollbackSpecType
    <2> HIDE DEF new
    <2> QED BY <2>1, <2>3, <1>0, RowWritten
  <1> QED BY <1>1, <1>2, <1>3, <1>4 DEF ApiStep

\* The worker's PUT and what it writes of the answer.
LEMMA WorkerStepInv == ASSUME IInv, WorkerStep PROVE IInv'
  <1>1. ASSUME NEW ready \in BOOLEAN, ProviderAnswersPut(ready) PROVE IInv'
    <2> DEFINE newAnswer == [generation |-> row.generation, status |-> Reported(ready)]
               newRuntime == [runtime EXCEPT !.accepted = row.generation]
    <2>1. /\ runtime' = newRuntime /\ answer' = newAnswer
          /\ UNCHANGED <<row, revisions, observers, intent, healthy>>
      BY <1>1 DEF ProviderAnswersPut
    <2>2. Reported(ready) \in Status /\ Witnessed(Reported(ready))
      BY ReportedIsWitnessed
    <2>3. row.generation \in 0..MaxGeneration
      BY Fields, RevisionsAssumption DEF Generations
    <2>4. newAnswer \in PutAnswer /\ newAnswer.generation = row.generation /\ newAnswer.status = Reported(ready)
      BY <2>2, <2>3 DEF PutAnswer
    <2>5. /\ newRuntime \in Runtime /\ newRuntime.accepted = row.generation
          /\ newRuntime.generation = runtime.generation /\ newRuntime.desired = runtime.desired
          /\ newRuntime.ready = runtime.ready
      BY <2>3 DEF IInv, RevisionsTypeOK, Runtime
    <2> HIDE DEF newAnswer, newRuntime
    <2>6. RevisionsTypeOK'
      BY <2>1, <2>4, <2>5 DEF IInv, RevisionsTypeOK
    <2>7. row.generation <= row.generation
      BY Fields
    <2>8. GenerationsAreKnown'
      BY <2>1, <2>4, <2>5, <2>7 DEF IInv, GenerationsAreKnown
    <2>9. StatusesAreWitnessed'
      BY <2>1, <2>2, <2>4, <2>5 DEF IInv, StatusesAreWitnessed, Witnessed
    <2>10. HealthIsEarned' /\ SettingsStayCurrent'
      BY <2>1 DEF IInv, HealthIsEarned, SettingsStayCurrent, SettingsOf
    <2> QED BY <2>6, <2>8, <2>9, <2>10 DEF IInv
  <1>2. ASSUME MarkServiceInstance PROVE IInv'
    <2> DEFINE g == answer.generation
               status == answer.status
    <2>1. answer' = NoAnswer /\ UNCHANGED <<runtime, observers, intent, healthy>>
      BY <1>2 DEF MarkServiceInstance
    <2>2. status \in Status /\ Witnessed(status) /\ status.disk \in Sizes \cup {0}
      BY Fields DEF IInv, StatusesAreWitnessed, Status
    <2>3. /\ row' \in RowType /\ row'.generation = row.generation
          /\ revisions' \in [1..row.generation -> Revision]
          /\ HealthIsEarned' /\ SettingsStayCurrent'
      <3>1. CASE row.generation = g
        <4> DEFINE new == CaptureFlashRevision(g, status)
        <4>1. row' = [row EXCEPT !.reported = status.disk] /\ revisions' = [revisions EXCEPT ![g] = new]
          BY <1>2, <3>1 DEF MarkServiceInstance
        <4>2. g \in 1..row.generation
          BY <3>1, CurrentSettings
        <4>3. /\ new \in Revision /\ new.settings = SettingsOf(g)
              /\ new.phase = "ready" <=> new.readyAt
              /\ new.readyAt => g \in healthy /\ ~SettingsOf(g).stopped
          BY <4>2, <2>2, CaptureIsEarned
        <4>4. row' \in RowType /\ row'.generation = row.generation
          BY <4>1, <2>2 DEF IInv, RevisionsTypeOK, RowType
        <4> HIDE DEF new, g, status
        <4> QED BY <4>1, <4>2, <4>3, <4>4, <2>1, RevisionWritten
      <3>2. CASE row.generation # g
        <4>1. UNCHANGED <<row, revisions>>
          BY <1>2, <3>2 DEF MarkServiceInstance
        <4> QED BY <4>1, <2>1 DEF IInv, RevisionsTypeOK, HealthIsEarned, SettingsStayCurrent, SettingsOf
      <3> QED BY <3>1, <3>2
    <2>4. RevisionsTypeOK'
      BY <2>1, <2>3, RestingType DEF IInv, RevisionsTypeOK
    <2>5. 0 <= row.generation
      BY Fields
    <2>6. GenerationsAreKnown' /\ StatusesAreWitnessed'
      BY <2>1, <2>3, <2>5, RestingType DEF IInv, GenerationsAreKnown, StatusesAreWitnessed, Witnessed
    <2> QED BY <2>3, <2>4, <2>6 DEF IInv
  <1> QED BY <1>1, <1>2 DEF WorkerStep

\* The provider rolls out, scales and turns ready.
LEMMA RuntimeStepInv == ASSUME IInv, RuntimeStep PROVE IInv'
  <1>0. /\ runtime \in Runtime /\ healthy \in SUBSET Generations
        /\ runtime.accepted <= row.generation /\ runtime.generation <= row.generation
        /\ runtime.desired => runtime.generation # 0
        /\ runtime.ready => runtime.generation \in healthy
        /\ runtime.accepted \in 0..MaxGeneration /\ runtime.generation \in 0..MaxGeneration
    BY Fields DEF IInv, RevisionsTypeOK, GenerationsAreKnown, StatusesAreWitnessed
  <1>1. ASSUME RuntimeRolls PROVE IInv'
    <2>1. PICK desired \in BOOLEAN, disk \in Sizes :
            runtime' = [runtime EXCEPT !.generation = runtime.accepted, !.desired = desired,
                                       !.ready = FALSE, !.disk = disk]
      BY <1>1 DEF RuntimeRolls
    <2>2. /\ runtime.accepted > runtime.generation
          /\ UNCHANGED <<row, revisions, answer, observers, intent, healthy>>
      BY <1>1 DEF RuntimeRolls
    <2>3. /\ runtime' \in Runtime /\ runtime'.accepted = runtime.accepted
          /\ runtime'.generation = runtime.accepted /\ runtime'.ready = FALSE
      BY <2>1, <1>0 DEF Runtime
    <2>4. runtime.accepted # 0
      BY <2>2, <1>0
    <2> QED BY <2>2, <2>3, <2>4, <1>0, RuntimeOnly
  <1>2. ASSUME RuntimeScales PROVE IInv'
    <2> DEFINE desired == ~runtime.desired
    <2>1. /\ runtime.generation > 0
          /\ runtime' = [runtime EXCEPT !.desired = desired, !.ready = FALSE]
          /\ UNCHANGED <<row, revisions, answer, observers, intent, healthy>>
      BY <1>2 DEF RuntimeScales
    <2>2. desired \in BOOLEAN
      OBVIOUS
    <2> HIDE DEF desired
    <2>3. /\ runtime' \in Runtime /\ runtime'.accepted = runtime.accepted
          /\ runtime'.generation = runtime.generation /\ runtime'.ready = FALSE
      BY <2>1, <2>2, <1>0 DEF Runtime
    <2>4. runtime.generation # 0
      BY <2>1, <1>0
    <2> QED BY <2>1, <2>3, <2>4, <1>0, RuntimeOnly
  <1>3. ASSUME NEW ready \in BOOLEAN, RuntimeTurns(ready) PROVE IInv'
    <2>1. /\ runtime.desired /\ runtime' = [runtime EXCEPT !.ready = ready]
          /\ healthy' = IF ready THEN healthy \cup {runtime.generation} ELSE healthy
          /\ UNCHANGED <<row, revisions, answer, observers, intent>>
      BY <1>3 DEF RuntimeTurns
    <2>2. /\ runtime' \in Runtime /\ runtime'.accepted = runtime.accepted
          /\ runtime'.generation = runtime.generation /\ runtime'.ready = ready
          /\ runtime'.desired = runtime.desired
      BY <2>1, <1>0 DEF Runtime
    <2>3. runtime.generation \in Generations
      BY <2>1, <1>0, RevisionsAssumption DEF Generations
    <2>4. /\ healthy' \in SUBSET Generations /\ healthy \subseteq healthy'
          /\ ready => runtime.generation \in healthy'
      BY <2>1, <2>3, <1>0
    <2> QED BY <2>1, <2>2, <2>4, <1>0, RuntimeOnly
  <1> QED BY <1>1, <1>2, <1>3 DEF RuntimeStep

\* An observer that rests is founded, whatever it did before.
LEMMA RestInv ==
    ASSUME IInv, NEW o \in Observers, ObserverRests(o),
           UNCHANGED <<row, revisions, runtime, answer, intent, healthy>>
    PROVE  IInv'
  <1>1. 0 <= row.generation
    BY Fields
  <1>2. Witnessed(NoStatus)
    BY RestingType DEF Witnessed
  <1> QED BY <1>1, <1>2, RestingType, ObserverOnly DEF ObserverRests

\* An observer records what it has seen.
LEMMA RecordInv ==
    ASSUME IInv, NEW o \in Observers, RecordFlashObservation(o)
    PROVE  IInv'
  <1> DEFINE g == observers[o].generation
             status == observers[o].status
  <1>1. observers[o].pc = "observed" /\ UNCHANGED <<runtime, answer, intent, healthy>>
    BY DEF RecordFlashObservation
  <1>2. /\ status \in Status /\ Witnessed(status) /\ status.disk \in Sizes \cup {0}
        /\ status.desired \in BOOLEAN
    BY Fields DEF IInv, StatusesAreWitnessed, Status
  <1>3. /\ row' \in RowType /\ row'.generation = row.generation
        /\ revisions' \in [1..row.generation -> Revision]
        /\ HealthIsEarned' /\ SettingsStayCurrent'
    <2>1. CASE Live /\ row.generation = g
      <3> DEFINE captured == CaptureFlashRevision(g, status)
                 activated == captured.activated \/ (status.desired /\ ~SettingsOf(g).stopped)
                 new == [captured EXCEPT !.activated = activated]
      <3>1. row' = [row EXCEPT !.reported = status.disk] /\ revisions' = [revisions EXCEPT ![g] = new]
        BY <2>1 DEF RecordFlashObservation
      <3>2. g \in 1..row.generation
        BY <2>1, CurrentSettings
      <3>3. /\ captured \in Revision /\ captured.settings = SettingsOf(g)
            /\ captured.phase = "ready" <=> captured.readyAt
            /\ captured.readyAt => g \in healthy /\ ~SettingsOf(g).stopped
        BY <3>2, <1>2, CaptureIsEarned
      <3>4. row' \in RowType /\ row'.generation = row.generation
        BY <3>1, <1>2 DEF IInv, RevisionsTypeOK, RowType
      <3>5. activated \in BOOLEAN
        <4>1. captured.activated \in BOOLEAN
          BY <3>3 DEF Revision
        <4> HIDE DEF captured
        <4> QED BY <4>1
      <3> HIDE DEF activated, captured
      <3>6. /\ new \in Revision /\ new.settings = captured.settings /\ new.phase = captured.phase
            /\ new.readyAt = captured.readyAt
        BY <3>3, <3>5 DEF Revision
      <3> HIDE DEF new, g, status
      <3> QED BY <3>1, <3>2, <3>3, <3>4, <3>6, <1>1, RevisionWritten
    <2>2. CASE ~(Live /\ row.generation = g)
      <3>1. UNCHANGED <<row, revisions>>
        BY <2>2 DEF RecordFlashObservation
      <3> QED BY <3>1, <1>1 DEF IInv, RevisionsTypeOK, HealthIsEarned, SettingsStayCurrent, SettingsOf
    <2> QED BY <2>1, <2>2
  <1>4. \E new \in Observer :
          /\ observers' = [observers EXCEPT ![o] = new]
          /\ new.generation <= row.generation
          /\ new.pc # "idle" => new.generation # 0
          /\ new.pc # "found" /\ Witnessed(new.status)
    <2>1. CASE SettingsOf(g).stopped
      <3>1. observers' = [observers EXCEPT ![o] = RestingObserver]
        BY <2>1 DEF RecordFlashObservation, ObserverRests
      <3>2. 0 <= row.generation
        BY Fields
      <3> QED BY <3>1, <3>2, RestingType DEF Witnessed
    <2>2. CASE ~SettingsOf(g).stopped
      <3> DEFINE new == [observers[o] EXCEPT !.pc = "recorded", !.status = NoStatus]
      <3>1. observers' = [observers EXCEPT ![o] = new]
        BY <2>2 DEF RecordFlashObservation
      <3>2. observers[o] \in Observer /\ g <= row.generation /\ g # 0
        BY <1>1, Fields DEF IInv, GenerationsAreKnown
      <3>3. new \in Observer /\ new.generation = g /\ new.pc = "recorded" /\ new.status = NoStatus
        BY <3>2, RestingType DEF Observer
      <3> HIDE DEF new
      <3> QED BY <3>1, <3>2, <3>3, RestingType DEF Witnessed
    <2> QED BY <2>1, <2>2
  <1>5. /\ observers' \in [Observers -> Observer]
        /\ \A p \in Observers :
             /\ observers'[p].generation <= row.generation
             /\ observers'[p].pc # "idle" => observers'[p].generation # 0
             /\ observers'[p].pc = "found" => observers'[p].previous \in 1..row.generation
             /\ Witnessed(observers'[p].status)
    BY <1>4, ObserverMoves
  <1>6. RevisionsTypeOK'
    BY <1>1, <1>3, <1>5 DEF IInv, RevisionsTypeOK
  <1>7. GenerationsAreKnown' /\ StatusesAreWitnessed'
    BY <1>1, <1>3, <1>5 DEF IInv, GenerationsAreKnown, StatusesAreWitnessed, Witnessed
  <1> QED BY <1>3, <1>6, <1>7 DEF IInv

\* An observer that has read a row goes on with the same generation.
LEMMA GotoInv ==
    ASSUME IInv, NEW o \in Observers, NEW pc \in {"due", "target", "recorded"}, ObserverGoes(o, pc),
           observers[o].pc # "idle",
           UNCHANGED <<row, revisions, runtime, answer, intent, healthy>>
    PROVE  IInv'
  <1> DEFINE new == [observers[o] EXCEPT !.pc = pc]
  <1>1. observers' = [observers EXCEPT ![o] = new]
    BY DEF ObserverGoes
  <1>2. /\ observers[o] \in Observer /\ observers[o].generation <= row.generation
        /\ observers[o].generation # 0 /\ Witnessed(observers[o].status)
    BY Fields DEF IInv, GenerationsAreKnown, StatusesAreWitnessed
  <1>3. /\ new \in Observer /\ new.pc = pc /\ new.generation = observers[o].generation
        /\ new.status = observers[o].status
    BY <1>2 DEF Observer
  <1> HIDE DEF new
  <1> QED BY <1>1, <1>2, <1>3, ObserverOnly

\* An automatic rollback: the fence makes the settings that it keeps the current ones.
LEMMA AutomaticRollbackInv ==
    ASSUME IInv, NEW o \in Observers, AutomaticRollback(o)
    PROVE  IInv'
  <1> DEFINE new == RollbackSpec(SettingsOf(observers[o].previous), SettingsOf(observers[o].generation))
  <1>1. observers[o].pc = "found" /\ UNCHANGED <<runtime, answer, intent, healthy>>
    BY DEF AutomaticRollback
  <1>2. CASE row.generation = observers[o].generation /\ Admissible(new)
    <2>1. WriteRow(new, FALSE) /\ ObserverGoes(o, "marking")
      BY <1>2 DEF AutomaticRollback, UpdateServiceInstanceChecked
    <2>2. SettingsOf(observers[o].previous) \in Settings
      BY <1>1, Fields DEF IInv, GenerationsAreKnown
    <2>3. new \in Settings /\ Kept(new) = intent
      BY <1>2, <2>2, CurrentSettings, RollbackSpecType
    <2> HIDE DEF new
    <2> DEFINE marking == [observers[o] EXCEPT !.pc = "marking"]
    <2>4. /\ marking \in Observer /\ marking.pc = "marking"
          /\ marking.generation = observers[o].generation /\ marking.status = observers[o].status
          /\ marking.previous = observers[o].previous
      BY Fields DEF Observer
    <2>5. observers' = [observers EXCEPT ![o] = marking]
      BY <2>1 DEF ObserverGoes
    <2> HIDE DEF marking
    <2>6. /\ observers' \in [Observers -> Observer] /\ observers'[o] = marking
          /\ \A p \in Observers : p # o => observers'[p] = observers[p]
      BY <2>4, <2>5 DEF IInv, RevisionsTypeOK
    <2>7. \A p \in Observers :
             /\ observers'[p].generation = observers[p].generation
             /\ observers'[p].status = observers[p].status
             /\ observers'[p].previous = observers[p].previous
             /\ observers'[p].pc = observers[p].pc
                  \/ (observers'[p].pc = "marking" /\ observers[p].pc # "idle")
      BY <1>1, <2>4, <2>6
    <2> QED BY <1>1, <2>1, <2>3, <2>6, <2>7, RowWritten
  <1>3. CASE ~(row.generation = observers[o].generation /\ Admissible(new))
    <2>1. ObserverRests(o) /\ UNCHANGED <<row, revisions>>
      BY <1>3 DEF AutomaticRollback
    <2> QED BY <2>1, <1>1, RestInv
  <1> QED BY <1>2, <1>3

\* The revision that was rolled back is marked, unless it has become healthy.
LEMMA MarkRolledBackInv ==
    ASSUME IInv, NEW o \in Observers, MarkFlashRevisionRolledBack(o)
    PROVE  IInv'
  <1> DEFINE g == observers[o].generation
             phase == IF revisions[g].readyAt THEN revisions[g].phase ELSE "rolled_back"
             new == [revisions[g] EXCEPT !.phase = phase]
  <1>1. /\ observers[o].pc = "marking" /\ revisions' = [revisions EXCEPT ![g] = new]
        /\ observers' = [observers EXCEPT ![o] = RestingObserver]
        /\ UNCHANGED <<row, runtime, answer, intent, healthy>>
    BY DEF MarkFlashRevisionRolledBack, ObserverRests
  <1>2. g \in 1..row.generation
    <2>1. g \in 0..MaxGeneration /\ g <= row.generation /\ g # 0
      BY <1>1, Fields DEF IInv, GenerationsAreKnown
    <2> QED BY <2>1, Fields
  <1>3. /\ revisions[g] \in Revision /\ SettingsOf(g) = revisions[g].settings
        /\ revisions[g].phase = "ready" <=> revisions[g].readyAt
        /\ revisions[g].readyAt => g \in healthy /\ ~SettingsOf(g).stopped
    BY <1>2, Fields DEF IInv, HealthIsEarned, SettingsOf
  <1>4. phase \in {"pending", "ready", "rolled_back"} /\ (phase = "ready" <=> revisions[g].readyAt)
    BY <1>3 DEF Revision
  <1> HIDE DEF phase
  <1>5. new \in Revision /\ new.settings = SettingsOf(g) /\ new.phase = phase
        /\ new.readyAt = revisions[g].readyAt
    BY <1>3, <1>4 DEF Revision
  <1> HIDE DEF new, g
  <1>6. /\ revisions' \in [1..row.generation -> Revision]
        /\ HealthIsEarned' /\ SettingsStayCurrent'
    BY <1>1, <1>2, <1>3, <1>4, <1>5, RevisionWritten
  <1>7. 0 <= row.generation /\ Witnessed(NoStatus)
    BY Fields, RestingType DEF Witnessed
  <1>8. /\ observers' \in [Observers -> Observer]
        /\ \A p \in Observers :
             /\ observers'[p].generation <= row.generation
             /\ observers'[p].pc # "idle" => observers'[p].generation # 0
             /\ observers'[p].pc = "found" => observers'[p].previous \in 1..row.generation
             /\ Witnessed(observers'[p].status)
    BY <1>1, <1>7, RestingType, ObserverMoves
  <1>9. RevisionsTypeOK'
    BY <1>1, <1>6, <1>8 DEF IInv, RevisionsTypeOK
  <1>10. GenerationsAreKnown' /\ StatusesAreWitnessed'
    BY <1>1, <1>8 DEF IInv, GenerationsAreKnown, StatusesAreWitnessed, Witnessed
  <1> QED BY <1>6, <1>9, <1>10 DEF IInv

\* Every step of an observer.
LEMMA ObserverStepInv ==
    ASSUME IInv, NEW o \in Observers, ReadTarget(o) \/ ObserverAdvances(o) \/ GiveUp(o)
    PROVE  IInv'
  <1>0. /\ observers[o] \in Observer /\ observers[o].generation <= row.generation
        /\ observers[o].pc # "idle" => observers[o].generation # 0
        /\ Witnessed(observers[o].status)
    BY Fields DEF IInv, GenerationsAreKnown, StatusesAreWitnessed
  <1>1. ASSUME ReadTarget(o) PROVE IInv'
    <2> DEFINE new == [observers[o] EXCEPT !.pc = "target", !.generation = row.generation]
    <2>1. /\ observers' = [observers EXCEPT ![o] = new]
          /\ UNCHANGED <<row, revisions, runtime, answer, intent, healthy>>
      BY <1>1 DEF ReadTarget
    <2>2. row.generation \in 0..MaxGeneration /\ row.generation # 0 /\ row.generation <= row.generation
      BY Fields, RevisionsAssumption DEF Generations
    <2>3. /\ new \in Observer /\ new.pc = "target" /\ new.generation = row.generation
          /\ new.status = observers[o].status
      BY <2>2, <1>0 DEF Observer
    <2> HIDE DEF new
    <2> QED BY <2>1, <2>2, <2>3, <1>0, ObserverOnly
  <1>2. ASSUME NEW ready \in BOOLEAN, GetStatus(o, ready) PROVE IInv'
    <2>1. observers[o].pc = "target" /\ UNCHANGED <<row, revisions, runtime, answer, intent, healthy>>
      BY <1>2 DEF GetStatus
    <2>2. CASE runtime.generation = observers[o].generation
      <3> DEFINE new == [observers[o] EXCEPT !.pc = "observed", !.status = Reported(ready)]
      <3>1. observers' = [observers EXCEPT ![o] = new]
        BY <1>2, <2>2 DEF GetStatus
      <3>2. Reported(ready) \in Status /\ Witnessed(Reported(ready))
        BY ReportedIsWitnessed
      <3>3. /\ new \in Observer /\ new.pc = "observed" /\ new.generation = observers[o].generation
            /\ new.status = Reported(ready)
        BY <3>2, <1>0 DEF Observer
      <3> HIDE DEF new
      <3> QED BY <2>1, <3>1, <3>2, <3>3, <1>0, ObserverOnly
    <2>3. CASE runtime.generation # observers[o].generation
      BY <1>2, <2>1, <2>3, RestInv DEF GetStatus
    <2> QED BY <2>2, <2>3
  <1>3. ASSUME CheckDeadline(o) PROVE IInv'
    <2>1. /\ observers[o].pc = "recorded" /\ (ObserverGoes(o, "due") \/ ObserverRests(o))
          /\ UNCHANGED <<row, revisions, runtime, answer, intent, healthy>>
      BY <1>3 DEF CheckDeadline
    <2> QED BY <2>1, GotoInv, RestInv
  <1>4. ASSUME FindPrevious(o) PROVE IInv'
    <2> DEFINE ready == {g \in Listed : g < observers[o].generation /\ revisions[g].phase = "ready"}
    <2>1. observers[o].pc = "due" /\ UNCHANGED <<row, revisions, runtime, answer, intent, healthy>>
      BY <1>4 DEF FindPrevious
    <2>2. CASE ready = {}
      <3>1. ObserverRests(o)
        BY <1>4, <2>2 DEF FindPrevious
      <3> QED BY <3>1, <2>1, RestInv
    <2>3. CASE ready # {}
      <3> DEFINE new == [observers[o] EXCEPT !.pc = "found", !.previous = Max(ready)]
      <3>1. observers' = [observers EXCEPT ![o] = new]
        BY <1>4, <2>3 DEF FindPrevious
      <3>2. ready \in SUBSET (0..row.generation) /\ ready \subseteq 1..row.generation /\ row.generation \in Nat
        BY Fields DEF Listed
      <3>3. Max(ready) \in ready
        <4> HIDE DEF ready
        <4> QED BY <2>3, <3>2, MaxIsMember
      <3> DEFINE previous == Max(ready)
      <3>4. previous \in 1..row.generation /\ previous \in 0..MaxGeneration
        <4>1. previous \in 1..row.generation
          BY <3>2, <3>3
        <4> HIDE DEF previous
        <4> QED BY <4>1, Fields, RevisionsAssumption DEF Generations
      <3> HIDE DEF previous, ready
      <3>5. /\ new \in Observer /\ new.pc = "found" /\ new.generation = observers[o].generation
            /\ new.status = observers[o].status /\ new.previous = previous
        BY <3>4, <1>0 DEF Observer, previous
      <3> HIDE DEF new
      <3> QED BY <2>1, <3>1, <3>4, <3>5, <1>0, ObserverOnly
    <2> QED BY <2>2, <2>3
  <1>5. ASSUME GiveUp(o) PROVE IInv'
    BY <1>5, RestInv DEF GiveUp
  <1> QED
    BY <1>1, <1>2, <1>3, <1>4, <1>5, RecordInv, AutomaticRollbackInv, MarkRolledBackInv
    DEF ObserverAdvances

\* Every step keeps the invariant.
LEMMA StepInv == IInv /\ [RevisionsNext]_revisionsVars => IInv'
  <1> SUFFICES ASSUME IInv, [RevisionsNext]_revisionsVars PROVE IInv'
    OBVIOUS
  <1>1. ASSUME UNCHANGED revisionsVars PROVE IInv'
    BY <1>1 DEF revisionsVars, IInv, RevisionsTypeOK, GenerationsAreKnown, StatusesAreWitnessed, Witnessed,
                HealthIsEarned, SettingsStayCurrent, SettingsOf
  <1> QED BY <1>1, ApiStepInv, WorkerStepInv, RuntimeStepInv, ObserverStepInv DEF RevisionsNext

-----------------------------------------------------------------------------
\* The columns and the processes' variables have their types.
THEOREM TypesHold == RevisionsSpec => []RevisionsTypeOK
  <1>1. IInv => RevisionsTypeOK
    BY DEF IInv
  <1> QED BY <1>1, InitInv, StepInv, PTL DEF RevisionsSpec

\* capture_flash_revision: a revision that is offered for rollback has run with ready
\* replicas, however late the answers and observations of any number of replicas are
\* written.
THEOREM HealthEarned == RevisionsSpec => []HealthIsEarned
  <1>1. IInv => HealthIsEarned
    BY DEF IInv
  <1> QED BY <1>1, InitInv, StepInv, PTL DEF RevisionsSpec

\* rollback_spec and the generation fence: no manual or automatic rollback undoes what
\* users last asked for of the security settings and of stopping the service.
THEOREM SettingsCurrent == RevisionsSpec => []SettingsStayCurrent
  <1>1. IInv => SettingsStayCurrent
    BY DEF IInv
  <1> QED BY <1>1, InitInv, StepInv, PTL DEF RevisionsSpec
=============================================================================
