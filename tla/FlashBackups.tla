---------------------------- MODULE FlashBackups ----------------------------
(***************************************************************************)
(* Disk backups of Flash services: the flash_backups table that owns user  *)
(* intent and quota, the reconcilers of the API replicas that carry the    *)
(* intent to the provider, restores into new services, and retention of    *)
(* scheduled backups.                                                      *)
(*                                                                         *)
(* Backups are numbered in the order of created_at.  A restore is known by *)
(* the backup it reads: one restore request per backup.  Sizes, names and  *)
(* destinations are left out; the three quota limits are one count.        *)
(***************************************************************************)
EXTENDS Naturals, FiniteSets

CONSTANTS
  MaxBackups,    \* bound on the backups ever requested
  Scheduled,     \* the ones that a backup policy requested
  Restorable,    \* the ones that users ask to restore
  Quota,         \* backups an organization may hold (100 in the code)
  Retention,     \* retention_count of the policy
  VerifyRestore, \* verify_restore of the policy
  MaxDelayed,    \* bound on the POSTs under way that nobody waits for
  Reconcilers    \* API replicas that run the backup reconciler

Backups == 1..MaxBackups

ASSUME BackupsAssumption ==
  /\ MaxBackups \in Nat
  /\ Scheduled \subseteq Backups
  /\ Restorable \subseteq Backups
  /\ Quota \in Nat
  /\ Retention \in Nat \ {0}
  /\ VerifyRestore \in BOOLEAN
  /\ MaxDelayed \in Nat

VARIABLES
  backups,      \* table flash_backups
  tombstones,   \* deleted backups whose deleted_at is less than a day old
  restores,     \* per backup, the service instance restored from it
  restoring,    \* the backups whose restore transaction is open
  reconcilers,  \* what each reconciler is doing
  stored,       \* what the provider holds of each backup
  delayed       \* backups with a POST under way that nobody waits for

vars == <<backups, tombstones, restores, restoring, reconcilers, stored, delayed>>
-----------------------------------------------------------------------------
(***************************************************************************)
(* State.                                                                  *)
(***************************************************************************)

Verifications == {"none", "passed", "failed"}

BackupPhases == {"none", "pending", "creating", "ready", "error", "deleting", "deleted"}

\* A row; phase "none": not requested yet.  Of the status column only
\* restore_verification.phase is read by the program.
BackupRow == [phase : BackupPhases, deleteRequested : BOOLEAN,
              verification : Verifications]

NoRow == [phase |-> "none", deleteRequested |-> FALSE, verification |-> "none"]

\* What the provider reports of a backup.
Report == [phase : {"absent", "creating", "ready", "error"}, verification : Verifications]

Nothing == [phase |-> "absent", verification |-> "none"]

\* States of the restored service; "reserved": its id is in
\* flash_backup_restore_requests but the row is not in service_instances.
RestoreStates == {"none", "reserved", "provisioning", "updating", "ready", "error", "deleting"}

\* A reconciler works on a copy of the row it has read.
Reconciler == [pc : {"idle", "read", "checking", "deleting", "deleted", "asking", "answered"},
               backup : Backups \cup {0}, row : BackupRow]

Resting == [pc |-> "idle", backup |-> 0, row |-> NoRow]

Init ==
  /\ backups = [b \in Backups |-> NoRow]
  /\ tombstones = {}
  /\ restores = [b \in Backups |-> "none"]
  /\ restoring = {}
  /\ reconcilers = [r \in Reconcilers |-> Resting]
  /\ stored = [b \in Backups |-> Nothing]
  /\ delayed = {}
-----------------------------------------------------------------------------
(***************************************************************************)
(* Requests of users.  The tenant's advisory lock serialises these         *)
(* transactions; all but the restore are one step, the restore holds the   *)
(* lock from its check to its commit.                                      *)
(***************************************************************************)

TenantLockFree == restoring = {}

SetRow(b, row) == backups' = [backups EXCEPT ![b] = row]

RequestFlashBackup(b) ==
  /\ TenantLockFree
  /\ backups[b].phase = "none"
  /\ \A c \in Backups : c < b => backups[c].phase # "none"
  /\ Cardinality({c \in Backups : backups[c].phase \notin {"none", "deleted"}}) < Quota
  /\ SetRow(b, [phase |-> "pending", deleteRequested |-> FALSE, verification |-> "none"])
  /\ UNCHANGED <<tombstones, restores, restoring, reconcilers, stored, delayed>>

RequestFlashBackupDelete(b) ==
  /\ TenantLockFree
  /\ backups[b].phase \notin {"none", "deleted"}
  /\ SetRow(b, [backups[b] EXCEPT !.deleteRequested = TRUE, !.phase = "deleting"])
  /\ UNCHANGED <<tombstones, restores, restoring, reconcilers, stored, delayed>>

Usable(b) == backups[b].phase = "ready" /\ ~backups[b].deleteRequested

\* restore_backup asks the provider first, whose answer may be out of date when
\* reserve_flash_restore looks at the row and reserves the id of the new service:
\* only the row counts.
ReserveFlashRestore(b) ==
  /\ TenantLockFree
  /\ b \in Restorable /\ restores[b] = "none"
  /\ Usable(b)
  /\ restores' = [restores EXCEPT ![b] = "reserved"]
  /\ UNCHANGED <<backups, tombstones, restoring, reconcilers, stored, delayed>>

\* create_service_instance_with_id_for_user: the transaction that inserts the
\* restored service looks at the backup first.
BeginRestore(b) ==
  /\ TenantLockFree
  /\ restores[b] = "reserved"
  /\ Usable(b)
  /\ restoring' = {b}
  /\ UNCHANGED <<backups, tombstones, restores, reconcilers, stored, delayed>>

\* The other checks passed and the row and its outbox event are committed, or
\* the transaction is rolled back.
EndRestore(b, state) ==
  /\ b \in restoring
  /\ state \in {"provisioning", "reserved"}
  /\ restoring' = {}
  /\ restores' = [restores EXCEPT ![b] = state]
  /\ UNCHANGED <<backups, tombstones, reconcilers, stored, delayed>>

\* The restored service lives on as in ServiceLifecycle: the provider settles
\* it, users update and delete it.
RestoreTransitions ==
  {<<"provisioning", "ready">>, <<"provisioning", "error">>, <<"provisioning", "deleting">>,
   <<"provisioning", "updating">>,
   <<"updating", "ready">>, <<"updating", "error">>, <<"updating", "deleting">>,
   <<"ready", "updating">>, <<"ready", "deleting">>,
   <<"error", "updating">>, <<"error", "deleting">>, <<"deleting", "reserved">>}

RestoredServiceMoves(b, state) ==
  /\ <<restores[b], state>> \in RestoreTransitions
  /\ restores' = [restores EXCEPT ![b] = state]
  /\ UNCHANGED <<backups, tombstones, restoring, reconcilers, stored, delayed>>

\* Mutant: retention does not look at the verification.
GoodUnverified(b) == b \in Scheduled /\ Usable(b)

\* Scheduled backups that count towards retention.
Good(b) == /\ b \in Scheduled
           /\ Usable(b)
           /\ VerifyRestore => backups[b].verification = "passed"

\* Beyond the newest Retention ones.
Outdated(b) == Good(b) /\ Cardinality({c \in Backups : c > b /\ Good(c)}) >= Retention

\* One UPDATE statement, without the tenant's lock.
ExpireScheduledBackups ==
  /\ \E b \in Backups : Outdated(b)
  /\ backups' = [b \in Backups |->
       IF Outdated(b)
         THEN [backups[b] EXCEPT !.deleteRequested = TRUE, !.phase = "deleting"]
         ELSE backups[b]]
  /\ UNCHANGED <<tombstones, restores, restoring, reconcilers, stored, delayed>>
-----------------------------------------------------------------------------
(***************************************************************************)
(* A reconciler takes the rows of pending_flash_backups one by one.        *)
(***************************************************************************)

Goto(r, pc) == reconcilers' = [reconcilers EXCEPT ![r].pc = pc]

Rest(r) == reconcilers' = [reconcilers EXCEPT ![r] = Resting]

\* Mutant: deleted rows are not visited again.
PendingWithoutTombstones == {b \in Backups : backups[b].phase \notin {"none", "deleted"}}

\* Everything except rows that were deleted more than a day ago.
PendingFlashBackups ==
  {b \in Backups : /\ backups[b].phase # "none"
                   /\ backups[b].phase = "deleted" => b \in tombstones}

ReadPending(r, b) ==
  /\ reconcilers[r].pc = "idle"
  /\ b \in PendingFlashBackups
  /\ reconcilers' = [reconcilers EXCEPT ![r] = [pc |-> "read", backup |-> b, row |-> backups[b]]]
  /\ UNCHANGED <<backups, tombstones, restores, restoring, stored, delayed>>

\* update_flash_backup_status: intent wins over what the provider reports.
WithStatus(row, phase, verification) ==
  [row EXCEPT !.phase = CASE row.phase = "deleted" -> "deleted"
                          [] row.phase # "deleted" /\ row.deleteRequested -> "deleting"
                          [] OTHER -> phase,
              !.verification = verification]

\* Mutant: failed backups are cleaned up at the provider.
RotateRowCleansUp(r) ==
  LET b == reconcilers[r].backup  row == reconcilers[r].row IN
  /\ reconcilers[r].pc = "read"
  /\ SetRow(b, WithStatus(backups[b], row.phase, row.verification))
  /\ Goto(r, IF row.deleteRequested \/ row.phase = "error" THEN "checking" ELSE "asking")
  /\ UNCHANGED <<tombstones, restores, restoring, stored, delayed>>

\* The row is written back as it was read, to move it to the end of the queue.
RotateRow(r) ==
  LET b == reconcilers[r].backup  row == reconcilers[r].row IN
  /\ reconcilers[r].pc = "read"
  /\ SetRow(b, WithStatus(backups[b], row.phase, row.verification))
  /\ Goto(r, IF row.deleteRequested THEN "checking" ELSE "asking")
  /\ UNCHANGED <<tombstones, restores, restoring, stored, delayed>>

\* Mutant: every restored service keeps its source.
RestoredServiceExists(b) == restores[b] \notin {"none", "reserved"}

\* A restore that is committed and has not reached the provider.
FlashBackupRestorePending(b) == restores[b] \in {"provisioning", "updating"}

\* Mutant: restores are not looked for.
SkipRestoreCheck(r) ==
  /\ reconcilers[r].pc = "checking"
  /\ Goto(r, "deleting")
  /\ UNCHANGED <<backups, tombstones, restores, restoring, stored, delayed>>

CheckRestorePending(r) ==
  /\ reconcilers[r].pc = "checking"
  /\ IF FlashBackupRestorePending(reconcilers[r].backup) THEN Rest(r) ELSE Goto(r, "deleting")
  /\ UNCHANGED <<backups, tombstones, restores, restoring, stored, delayed>>

\* {"deleted": true}: nothing of the backup is left.
ProviderDeletes(r) ==
  /\ reconcilers[r].pc = "deleting"
  /\ stored' = [stored EXCEPT ![reconcilers[r].backup] = Nothing]
  /\ Goto(r, "deleted")
  /\ UNCHANGED <<backups, tombstones, restores, restoring, delayed>>

\* An error, or {"deleted": false} while the data is still pinned.
ProviderDefersDelete(r) ==
  /\ reconcilers[r].pc = "deleting"
  /\ Rest(r)
  /\ UNCHANGED <<backups, tombstones, restores, restoring, stored, delayed>>

\* release_flash_backup, for rows with delete_requested: deleted_at is set once.
ReleaseFlashBackup(r) ==
  LET b == reconcilers[r].backup IN
  /\ reconcilers[r].pc = "deleted"
  /\ IF backups[b].deleteRequested
       THEN /\ SetRow(b, [backups[b] EXCEPT !.phase = "deleted", !.verification = "none"])
            /\ tombstones' = IF backups[b].phase = "deleted" THEN tombstones
                                                             ELSE tombstones \cup {b}
       ELSE UNCHANGED <<backups, tombstones>>
  /\ Rest(r)
  /\ UNCHANGED <<restores, restoring, stored, delayed>>

\* The answer to a POST or GET, kept in place of the row that was read.
Answer(r, phase, verification) ==
  reconcilers' = [reconcilers EXCEPT ![r].pc = "answered", ![r].row.phase = phase,
                                     ![r].row.verification = verification]

Created(report) == IF report = Nothing THEN [report EXCEPT !.phase = "creating"] ELSE report

\* POST for a row that was read as pending; it is idempotent in the id.
ProviderCreates(r) ==
  LET b == reconcilers[r].backup IN
  /\ reconcilers[r].pc = "asking" /\ reconcilers[r].row.phase = "pending"
  /\ stored' = [stored EXCEPT ![b] = Created(stored[b])]
  /\ Answer(r, Created(stored[b]).phase, Created(stored[b]).verification)
  /\ UNCHANGED <<backups, tombstones, restores, restoring, delayed>>

\* GET for any other row.
ProviderReports(r) ==
  LET b == reconcilers[r].backup IN
  /\ reconcilers[r].pc = "asking" /\ reconcilers[r].row.phase # "pending"
  /\ stored[b] # Nothing
  /\ Answer(r, stored[b].phase, stored[b].verification)
  /\ UNCHANGED <<backups, tombstones, restores, restoring, stored, delayed>>

\* 400, 403, 404 or 409: the source or the backup is not there.
ProviderRefuses(r) ==
  /\ reconcilers[r].pc = "asking"
  /\ Answer(r, "error", "none")
  /\ UNCHANGED <<backups, tombstones, restores, restoring, stored, delayed>>

\* Nobody waits for the answer any more: a POST may still be processed.
Abandon(r) ==
  \/ UNCHANGED delayed
  \/ /\ reconcilers[r].pc = "asking" /\ reconcilers[r].row.phase = "pending"
     /\ Cardinality(delayed) < MaxDelayed
     /\ delayed' = delayed \cup {reconcilers[r].backup}

\* Any other failure keeps what was read.
ProviderUnavailable(r) ==
  /\ reconcilers[r].pc = "asking"
  /\ Answer(r, reconcilers[r].row.phase, reconcilers[r].row.verification)
  /\ Abandon(r)
  /\ UNCHANGED <<backups, tombstones, restores, restoring, stored>>

UpdateFlashBackupStatus(r) ==
  LET b == reconcilers[r].backup  row == reconcilers[r].row IN
  /\ reconcilers[r].pc = "answered"
  /\ SetRow(b, WithStatus(backups[b], row.phase, row.verification))
  /\ Rest(r)
  /\ UNCHANGED <<tombstones, restores, restoring, stored, delayed>>

\* The replica stops, or a database call fails: the row is left to the next pass.
ReconcilerCrashes(r) ==
  /\ reconcilers[r].pc # "idle"
  /\ Abandon(r)
  /\ Rest(r)
  /\ UNCHANGED <<backups, tombstones, restores, restoring, stored>>
-----------------------------------------------------------------------------
(***************************************************************************)
(* The provider on its own, and time.                                      *)
(***************************************************************************)

DelayedPostEnds(b, arrives) ==
  /\ b \in delayed
  /\ delayed' = delayed \ {b}
  /\ stored' = [stored EXCEPT ![b] = IF arrives THEN Created(stored[b]) ELSE stored[b]]
  /\ UNCHANGED <<backups, tombstones, restores, restoring, reconcilers>>

\* The transfer ends, or stored data is lost.
ProviderMoves(b, phase) ==
  /\ <<stored[b].phase, phase>> \in {<<"creating", "ready">>, <<"creating", "error">>,
                                     <<"ready", "error">>}
  /\ stored' = [stored EXCEPT ![b].phase = phase]
  /\ UNCHANGED <<backups, tombstones, restores, restoring, reconcilers, delayed>>

\* The retention loop asks for a test restore of a scheduled backup until the
\* outcome is in the row; the provider runs it once.
VerifyBackup(b, outcome) ==
  /\ VerifyRestore /\ b \in Scheduled
  /\ backups[b].phase = "ready" /\ backups[b].verification = "none"
  /\ stored[b].phase = "ready" /\ stored[b].verification = "none"
  /\ stored' = [stored EXCEPT ![b].verification = outcome]
  /\ UNCHANGED <<backups, tombstones, restores, restoring, reconcilers, delayed>>

\* Somebody still acts on the row as it was before the delete.
StaleUse(b) ==
  \/ b \in delayed
  \/ \E r \in Reconcilers : reconcilers[r].backup = b /\ ~reconcilers[r].row.deleteRequested

\* A day after deleted_at, whatever the provider holds by then.  A day outlasts
\* every request that was under way ("longer than provider JWT/request
\* lifetimes"); that a pass gets through to the provider in that time, nobody
\* sees to.
TombstoneExpires(b) ==
  /\ b \in tombstones
  /\ ~StaleUse(b)
  /\ tombstones' = tombstones \ {b}
  /\ UNCHANGED <<backups, restores, restoring, reconcilers, stored, delayed>>
-----------------------------------------------------------------------------
UserStep ==
  \/ \E b \in Backups : \/ RequestFlashBackup(b)
                        \/ RequestFlashBackupDelete(b)
                        \/ ReserveFlashRestore(b)
                        \/ BeginRestore(b)
                        \/ \E state \in RestoreStates : EndRestore(b, state)
                        \/ \E state \in RestoreStates : RestoredServiceMoves(b, state)
  \/ ExpireScheduledBackups

\* The steps of a reconciler that has read a row, when nothing fails.
Advance(r) ==
  \/ RotateRow(r) \/ CheckRestorePending(r) \/ ProviderDeletes(r) \/ ReleaseFlashBackup(r)
  \/ ProviderCreates(r) \/ ProviderReports(r) \/ UpdateFlashBackupStatus(r)

ReconcilerStep(r) ==
  \/ \E b \in Backups : ReadPending(r, b)
  \/ Advance(r)
  \/ ProviderDefersDelete(r) \/ ProviderRefuses(r) \/ ProviderUnavailable(r)
  \/ ReconcilerCrashes(r)

ProviderStep ==
  \E b \in Backups :
    \/ \E arrives \in BOOLEAN : DelayedPostEnds(b, arrives)
    \/ \E phase \in {"ready", "error"} : ProviderMoves(b, phase)
    \/ \E outcome \in {"passed", "failed"} : VerifyBackup(b, outcome)
    \/ TombstoneExpires(b)

Next == UserStep \/ (\E r \in Reconcilers : ReconcilerStep(r)) \/ ProviderStep

Spec == Init /\ [][Next]_vars

(***************************************************************************)
(* Fairness.  The reconcilers tick for ever and updated_at makes them come *)
(* to every row; restore transactions, transfers and requests end.         *)
(* Failures stop.                                                          *)
(***************************************************************************)

\* The provider answers 404 to a GET when it has nothing.
ProviderHasNothing(r) ==
  /\ ProviderRefuses(r)
  /\ reconcilers[r].row.phase # "pending" /\ stored[reconcilers[r].backup] = Nothing

Progress(r) == Advance(r) \/ ProviderHasNothing(r)

Fault == \E r \in Reconcilers :
  ReconcilerCrashes(r) \/ ProviderDefersDelete(r) \/ ProviderRefuses(r) \/ ProviderUnavailable(r)

\* A step that leaves no trace of a fault is none.
Fairness ==
  /\ <>[][Fault => \E r \in Reconcilers : Progress(r)]_vars
  /\ \A r \in Reconcilers : WF_vars(Progress(r))
  /\ \A b \in Backups :
       /\ SF_vars(\E r \in Reconcilers : ReadPending(r, b))
       /\ WF_vars(\E state \in RestoreStates : EndRestore(b, state))
       /\ WF_vars(\E phase \in {"ready", "error"} : ProviderMoves(b, phase))
       /\ WF_vars(\E arrives \in BOOLEAN : DelayedPostEnds(b, arrives))

FairSpec == Spec /\ Fairness
-----------------------------------------------------------------------------
(***************************************************************************)
(* Properties.                                                             *)
(***************************************************************************)

\* The columns of flash_backups and the reconcilers' variables have their types.
TypeOK ==
  /\ backups \in [Backups -> BackupRow]
  /\ tombstones \in SUBSET Backups
  /\ restores \in [Backups -> RestoreStates]
  /\ restoring \in SUBSET Backups
  /\ reconcilers \in [Reconcilers -> Reconciler]
  /\ stored \in [Backups -> Report]
  /\ delayed \in SUBSET Backups

\* flash_backup_restore_pending: "A restore accepted by the API must reach the
\* provider before its source is deleted."
RestoreSourceKept ==
  \A b \in Backups : restores[b] = "provisioning" => stored[b].phase # "absent"

\* update_flash_backup_status: a backup that can be chosen for a restore has
\* reached the provider and nobody has had it deleted there, however stale the
\* copies are that the reconcilers write back.
UsableIsStored ==
  \A b \in Backups : Usable(b) => stored[b].phase # "absent"

\* flash-backups.md: old generations are pruned after the new one is stored and
\* its restore verification, if asked for, has finished.
PrunedAfterVerification ==
  \A b \in Backups : Outdated(b) =>
    \E c \in Scheduled : /\ c > b
                         /\ stored[c].phase # "absent"
                         /\ VerifyRestore => stored[c].verification = "passed"

\* The service restored from the backup comes to rest: each of its updates holds
\* a delete up again.
RestoredServiceRests(b) == <>[](restores[b] \notin {"provisioning", "updating"})

\* release_flash_backup: "A stale reconciler cannot permanently resurrect data
\* after quota is released", as far as the tombstone goes: what a late POST puts
\* back is deleted again for good, unless the day is over before a pass has got
\* to it.
DeletedDataIsPurged ==
  \A b \in Backups :
    RestoredServiceRests(b) =>
      (backups[b].phase = "deleted" ~> \/ [](stored[b] = Nothing)
                                       \/ b \notin tombstones /\ stored[b] # Nothing)

\* The same sentence as it stands.
DeletedStaysPurged ==
  \A b \in Backups :
    RestoredServiceRests(b) => (backups[b].phase = "deleted" ~> [](stored[b] = Nothing))

\* spawn_reconciler: a requested delete is eventually carried out and its quota
\* released, also when a restore holds it up.
DeleteCompletes ==
  \A b \in Backups :
    RestoredServiceRests(b) => (backups[b].deleteRequested ~> backups[b].phase = "deleted")
=============================================================================
