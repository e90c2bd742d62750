------------------------- MODULE FlashBackupsProofs -------------------------
(***************************************************************************)
(* What a row of flash_backups says is true of the provider, for every     *)
(* number of backups, replicas and delayed requests.                       *)
(*                                                                         *)
(* The reconcilers write rows from copies that may be old.  The invariant  *)
(* therefore speaks of every copy as well as of every row: as long as      *)
(* nobody has asked for the delete, "ready" and "passed" are facts about   *)
(* the provider wherever they are written; and a reconciler is on the      *)
(* delete path only for a row whose delete was asked for, which is never   *)
(* taken back.                                                             *)
(***************************************************************************)
EXTENDS FlashBackups, FiniteSetTheorems, TLAPS

USE DEF Backups

\* A row, or a copy of it, says no more than the provider holds, unless the
\* delete of the backup has been requested since; rows and reports are the
\* tables flash_backups and stored.
Witnessed(b, row, rows, reports) ==
  ~rows[b].deleteRequested =>
    /\ row.phase = "ready" => reports[b].phase # "absent"
    /\ row.verification = "passed" => reports[b].verification = "passed"

RowsAreWitnessed == \A b \in Backups : Witnessed(b, backups[b], backups, stored)

\* A reconciler at work holds an existing row, whose delete intent is at least
\* as old as its copy's, and only that intent leads it to the delete.
Founded(c, rows, reports) ==
  c.pc # "idle" =>
    /\ c.backup \in Backups
    /\ rows[c.backup].phase # "none"
    /\ c.row.phase # "none"
    /\ c.row.deleteRequested => rows[c.backup].deleteRequested
    /\ c.pc \in {"checking", "deleting", "deleted"} => c.row.deleteRequested
    /\ Witnessed(c.backup, c.row, rows, reports)

CopiesAreFounded == \A r \in Reconcilers : Founded(reconcilers[r], backups, stored)

\* The provider's report of a backup that it does not hold is empty.
AbsentIsNothing == \A b \in Backups : stored[b].phase = "absent" => stored[b] = Nothing

IInv ==
  /\ TypeOK
  /\ RowsAreWitnessed
  /\ CopiesAreFounded
  /\ AbsentIsNothing

\* Without retention the tenant's lock covers every delete: a source is not
\* deleted under an open restore, and no reconciler that has passed the check
\* for restores deletes the source of one that came after it.
SourceInv ==
  /\ RestoreSourceKept
  /\ \A b \in restoring : ~backups[b].deleteRequested /\ stored[b].phase # "absent"
  /\ \A r \in Reconcilers :
       reconcilers[r].pc = "deleting" => restores[reconcilers[r].backup] # "provisioning"
-----------------------------------------------------------------------------
(***************************************************************************)
(* Frames.  A step keeps the copies of the reconcilers that it does not    *)
(* touch when it takes no row away, no intent back, and nothing from the   *)
(* provider that is still wanted.                                          *)
(***************************************************************************)

Keeps(rows, rows2, reports, reports2) ==
  \A b \in Backups :
    /\ rows[b].phase # "none" =>
         rows2[b].phase # "none" /\ (rows[b].deleteRequested => rows2[b].deleteRequested)
    /\ ~rows2[b].deleteRequested =>
         /\ reports[b].phase # "absent" => reports2[b].phase # "absent"
         /\ reports[b].verification = "passed" => reports2[b].verification = "passed"

\* A copy that a step does not touch stays founded.
LEMMA CopyStands ==
  ASSUME NEW c, NEW rows, NEW rows2, NEW reports, NEW reports2,
         Founded(c, rows, reports), Keeps(rows, rows2, reports, reports2)
  PROVE  Founded(c, rows2, reports2)
BY DEF Founded, Witnessed, Keeps

\* All copies stay founded when no reconciler moves.
LEMMA CopiesStand ==
  ASSUME CopiesAreFounded, Keeps(backups, backups', stored, stored'), UNCHANGED reconcilers
  PROVE  CopiesAreFounded'
BY CopyStands DEF CopiesAreFounded

\* They stay founded when the one that moves takes a founded copy.
LEMMA CopyMoves ==
  ASSUME CopiesAreFounded, Keeps(backups, backups', stored, stored'),
         reconcilers \in [Reconcilers -> Reconciler],
         NEW r \in Reconcilers, NEW c, Founded(c, backups', stored'),
         reconcilers' = [reconcilers EXCEPT ![r] = c]
  PROVE  CopiesAreFounded'
BY CopyStands DEF CopiesAreFounded

\* Steps that change neither a row nor a report.
LEMMA NothingChanges == Keeps(backups, backups, stored, stored)
BY DEF Keeps

\* A row replaced by one that is witnessed leaves all rows witnessed.
LEMMA RowMoves ==
  ASSUME RowsAreWitnessed, backups \in [Backups -> BackupRow], UNCHANGED stored,
         NEW b \in Backups, NEW row \in BackupRow, backups[b].phase # "none",
         row.phase # "none", backups[b].deleteRequested => row.deleteRequested,
         ~row.deleteRequested =>
           /\ row.phase = "ready" => stored[b].phase # "absent"
           /\ row.verification = "passed" => stored[b].verification = "passed",
         SetRow(b, row)
  PROVE  /\ backups' \in [Backups -> BackupRow]
         /\ RowsAreWitnessed'
         /\ Keeps(backups, backups', stored, stored')
BY DEF RowsAreWitnessed, Witnessed, Keeps, SetRow

\* A report that keeps what the old one held leaves the rows witnessed.
LEMMA ReportMoves ==
  ASSUME RowsAreWitnessed, stored \in [Backups -> Report], AbsentIsNothing, UNCHANGED backups,
         NEW b \in Backups, NEW report \in Report,
         report.phase = "absent" => report = Nothing,
         ~backups[b].deleteRequested =>
           /\ stored[b].phase # "absent" => report.phase # "absent"
           /\ stored[b].verification = "passed" => report.verification = "passed",
         stored' = [stored EXCEPT ![b] = report]
  PROVE  /\ stored' \in [Backups -> Report]
         /\ RowsAreWitnessed'
         /\ AbsentIsNothing'
         /\ Keeps(backups, backups', stored, stored')
BY DEF RowsAreWitnessed, Witnessed, Keeps, AbsentIsNothing
-----------------------------------------------------------------------------
(***************************************************************************)
(* The operators the steps are made of.                                    *)
(***************************************************************************)

\* update_flash_backup_status writes what its caller has witnessed, and never
\* takes an intent back.
LEMMA WithStatusIsFounded ==
  ASSUME NEW row \in BackupRow, NEW phase \in BackupPhases \ {"none"},
         NEW verification \in Verifications
  PROVE  /\ WithStatus(row, phase, verification) \in BackupRow
         /\ WithStatus(row, phase, verification).phase # "none"
         /\ WithStatus(row, phase, verification).deleteRequested = row.deleteRequested
         /\ WithStatus(row, phase, verification).verification = verification
         /\ WithStatus(row, phase, verification).phase = "ready" => phase = "ready"
<1> DEFINE status == CASE row.phase = "deleted" -> "deleted"
                       [] row.phase # "deleted" /\ row.deleteRequested -> "deleting"
                       [] OTHER -> phase
<1>1. /\ status \in BackupPhases \ {"none"}
      /\ status = "ready" => phase = "ready"
  <2>1. CASE row.phase = "deleted"
    BY <2>1 DEF BackupPhases
  <2>2. CASE row.phase # "deleted" /\ row.deleteRequested
    BY <2>2 DEF BackupPhases
  <2>3. CASE row.phase # "deleted" /\ ~row.deleteRequested
    BY <2>3 DEF BackupPhases
  <2> QED
    BY <2>1, <2>2, <2>3
<1>2. WithStatus(row, phase, verification)
        = [row EXCEPT !.phase = status, !.verification = verification]
  BY DEF WithStatus
<1> HIDE DEF status
<1> QED
  BY <1>1, <1>2 DEF BackupRow

\* A POST leaves something at the provider and changes nothing that is there.
LEMMA CreatedKeeps ==
  ASSUME NEW report \in Report, report.phase = "absent" => report = Nothing
  PROVE  /\ Created(report) \in Report
         /\ Created(report).phase # "absent"
         /\ Created(report).phase \in BackupPhases \ {"none"}
         /\ report.verification = Created(report).verification
<1>1. CASE report = Nothing
  BY <1>1 DEF Created, Nothing, Report, Verifications, BackupPhases
<1>2. CASE report # Nothing
  BY <1>2 DEF Created, Report, BackupPhases
<1> QED
  BY <1>1, <1>2
\* A reconciler goes on with the copy it has.
LEMMA GotoMoves ==
  ASSUME CopiesAreFounded, Keeps(backups, backups', stored, stored'),
         reconcilers \in [Reconcilers -> Reconciler],
         NEW r \in Reconcilers, reconcilers[r].pc # "idle",
         NEW pc \in {"checking", "deleting", "deleted", "asking"},
         pc # "asking" => reconcilers[r].row.deleteRequested,
         Goto(r, pc)
  PROVE  reconcilers' \in [Reconcilers -> Reconciler] /\ CopiesAreFounded'
<1> DEFINE new == [reconcilers[r] EXCEPT !.pc = pc]
<1>1. /\ new \in Reconciler
      /\ new.pc = pc /\ new.backup = reconcilers[r].backup /\ new.row = reconcilers[r].row
  BY DEF Reconciler
<1>2. reconcilers' = [reconcilers EXCEPT ![r] = new]
  BY DEF Goto
<1>3. Founded(reconcilers[r], backups', stored')
  BY CopyStands DEF CopiesAreFounded
<1> HIDE DEF new
<1>4. Founded(new, backups', stored')
  BY <1>1, <1>3 DEF Founded
<1>5. CopiesAreFounded'
  BY <1>2, <1>4, CopyMoves
<1> QED
  BY <1>1, <1>2, <1>5

\* A reconciler is done with its row.
LEMMA RestMoves ==
  ASSUME CopiesAreFounded, Keeps(backups, backups', stored, stored'),
         reconcilers \in [Reconcilers -> Reconciler],
         NEW r \in Reconcilers, Rest(r)
  PROVE  reconcilers' \in [Reconcilers -> Reconciler] /\ CopiesAreFounded'
<1>1. Resting \in Reconciler /\ Resting.pc = "idle"
  BY DEF Resting, Reconciler, NoRow, BackupRow, BackupPhases, Verifications
<1>2. Founded(Resting, backups', stored')
  BY <1>1 DEF Founded
<1>3. reconcilers' = [reconcilers EXCEPT ![r] = Resting]
  BY DEF Rest
<1>4. CopiesAreFounded'
  BY <1>2, <1>3, CopyMoves
<1> QED
  BY <1>1, <1>3, <1>4

\* A reconciler keeps an answer that the provider's state bears out.
LEMMA AnswerMoves ==
  ASSUME CopiesAreFounded, Keeps(backups, backups', stored, stored'),
         reconcilers \in [Reconcilers -> Reconciler],
         NEW r \in Reconcilers, reconcilers[r].pc = "asking",
         NEW phase \in BackupPhases \ {"none"}, NEW verification \in Verifications,
         ~backups'[reconcilers[r].backup].deleteRequested =>
           /\ phase = "ready" => stored'[reconcilers[r].backup].phase # "absent"
           /\ verification = "passed" =>
                stored'[reconcilers[r].backup].verification = "passed",
         Answer(r, phase, verification)
  PROVE  reconcilers' \in [Reconcilers -> Reconciler] /\ CopiesAreFounded'
<1> DEFINE old == reconcilers[r]
           row == [old.row EXCEPT !.phase = phase, !.verification = verification]
           new == [old EXCEPT !.pc = "answered", !.row = row]
<1>1. /\ row \in BackupRow
      /\ row.phase = phase /\ row.verification = verification
      /\ row.deleteRequested = old.row.deleteRequested
  BY DEF Reconciler, BackupRow
<1>2. Founded(old, backups', stored')
  BY CopyStands DEF CopiesAreFounded
<1>3. reconcilers' = [reconcilers EXCEPT ![r] = new]
  BY DEF Answer, Reconciler, BackupRow
<1> HIDE DEF row
<1>4. /\ new \in Reconciler
      /\ new.pc = "answered" /\ new.backup = old.backup /\ new.row = row
  BY <1>1 DEF Reconciler
<1> HIDE DEF new
<1>5. Founded(new, backups', stored')
  BY <1>1, <1>2, <1>4 DEF Founded, Witnessed
<1>6. CopiesAreFounded'
  BY <1>3, <1>5, CopyMoves
<1> QED
  BY <1>3, <1>4, <1>6
-----------------------------------------------------------------------------
(***************************************************************************)
(* The invariant, one lemma per group of steps.                            *)
(***************************************************************************)

\* No row exists at first.
LEMMA InitHolds == Init => IInv
<1> SUFFICES ASSUME Init PROVE IInv
  OBVIOUS
<1>1. NoRow \in BackupRow /\ NoRow.phase = "none" /\ NoRow.verification = "none"
  BY DEF NoRow, BackupRow, BackupPhases, Verifications
<1>2. Nothing \in Report
  BY DEF Nothing, Report, Verifications
<1>3. Resting \in Reconciler /\ Resting.pc = "idle"
  BY <1>1 DEF Resting, Reconciler
<1>4. TypeOK
  BY <1>1, <1>2, <1>3 DEF Init, TypeOK, RestoreStates
<1>5. RowsAreWitnessed
  BY <1>1 DEF Init, RowsAreWitnessed, Witnessed
<1>6. CopiesAreFounded
  BY <1>3 DEF Init, CopiesAreFounded, Founded
<1>7. AbsentIsNothing
  BY DEF Init, AbsentIsNothing
<1> QED
  BY <1>4, <1>5, <1>6, <1>7 DEF IInv

\* Requests of users, restores and retention: rows gain intent and lose nothing.
LEMMA UsersKeep ==
  ASSUME IInv, UserStep
  PROVE  IInv'
<1> USE DEF IInv
<1>1. ASSUME NEW b \in Backups, RequestFlashBackup(b) PROVE IInv'
  <2> DEFINE new == [phase |-> "pending", deleteRequested |-> FALSE, verification |-> "none"]
  <2>1. /\ new \in BackupRow
        /\ new.phase = "pending" /\ new.verification = "none" /\ ~new.deleteRequested
    BY DEF BackupRow, BackupPhases, Verifications
  <2>2. backups' = [backups EXCEPT ![b] = new]
    BY <1>1 DEF RequestFlashBackup, SetRow
  <2>3. backups[b].phase = "none"
    BY <1>1 DEF RequestFlashBackup
  <2>4. UNCHANGED <<tombstones, restores, restoring, reconcilers, stored, delayed>>
    BY <1>1 DEF RequestFlashBackup
  <2> HIDE DEF new
  <2>5. Keeps(backups, backups', stored, stored')
    BY <2>1, <2>2, <2>3, <2>4 DEF Keeps, TypeOK
  <2>6. RowsAreWitnessed'
    BY <2>1, <2>2, <2>4 DEF RowsAreWitnessed, Witnessed, TypeOK
  <2>7. TypeOK'
    BY <2>1, <2>2, <2>4 DEF TypeOK
  <2>8. CopiesAreFounded'
    BY <2>4, <2>5, CopiesStand
  <2> QED
    BY <2>4, <2>6, <2>7, <2>8 DEF AbsentIsNothing
<1>2. ASSUME NEW b \in Backups, RequestFlashBackupDelete(b) PROVE IInv'
  <2> DEFINE new == [backups[b] EXCEPT !.deleteRequested = TRUE, !.phase = "deleting"]
  <2>1. new \in BackupRow /\ new.phase = "deleting" /\ new.deleteRequested
    BY DEF BackupRow, BackupPhases, TypeOK
  <2>2. SetRow(b, new) /\ backups[b].phase # "none"
    BY <1>2 DEF RequestFlashBackupDelete
  <2>3. UNCHANGED <<tombstones, restores, restoring, reconcilers, stored, delayed>>
    BY <1>2 DEF RequestFlashBackupDelete
  <2> HIDE DEF new
  <2>4. /\ backups' \in [Backups -> BackupRow]
        /\ RowsAreWitnessed'
        /\ Keeps(backups, backups', stored, stored')
    BY <2>1, <2>2, <2>3, RowMoves DEF TypeOK
  <2>5. CopiesAreFounded'
    BY <2>3, <2>4, CopiesStand
  <2> QED
    BY <2>3, <2>4, <2>5 DEF TypeOK, AbsentIsNothing
<1>3. ASSUME UNCHANGED <<backups, tombstones, reconcilers, stored, delayed>>,
             restores' \in [Backups -> RestoreStates], restoring' \in SUBSET Backups
      PROVE  IInv'
  <2>1. CopiesAreFounded'
    BY <1>3, NothingChanges, CopiesStand
  <2> QED
    BY <1>3, <2>1 DEF TypeOK, RowsAreWitnessed, AbsentIsNothing
<1>4. ASSUME NEW b \in Backups, ReserveFlashRestore(b) PROVE IInv'
  BY <1>3, <1>4 DEF ReserveFlashRestore, TypeOK, RestoreStates
<1>5. ASSUME NEW b \in Backups, BeginRestore(b) PROVE IInv'
  BY <1>3, <1>5 DEF BeginRestore, TypeOK
<1>6. ASSUME NEW b \in Backups, NEW state \in RestoreStates, EndRestore(b, state) PROVE IInv'
  BY <1>3, <1>6 DEF EndRestore, TypeOK
<1>7. ASSUME NEW b \in Backups, NEW state \in RestoreStates, RestoredServiceMoves(b, state)
      PROVE  IInv'
  BY <1>3, <1>7 DEF RestoredServiceMoves, TypeOK
<1>8. ASSUME ExpireScheduledBackups PROVE IInv'
  <2> DEFINE expired(b) == [backups[b] EXCEPT !.deleteRequested = TRUE, !.phase = "deleting"]
  <2>1. \A b \in Backups : /\ expired(b) \in BackupRow
                           /\ expired(b).phase = "deleting" /\ expired(b).deleteRequested
    BY DEF BackupRow, BackupPhases, TypeOK
  <2>2. backups' = [b \in Backups |-> IF Outdated(b) THEN expired(b) ELSE backups[b]]
    BY <1>8 DEF ExpireScheduledBackups
  <2>3. \A b \in Backups : Outdated(b) => backups[b].phase # "none"
    BY DEF Outdated, Good, Usable
  <2>4. UNCHANGED <<tombstones, restores, restoring, reconcilers, stored, delayed>>
    BY <1>8 DEF ExpireScheduledBackups
  <2> HIDE DEF expired
  <2>5. Keeps(backups, backups', stored, stored')
    BY <2>1, <2>2, <2>3, <2>4 DEF Keeps
  <2>6. RowsAreWitnessed'
    BY <2>1, <2>2, <2>4 DEF RowsAreWitnessed, Witnessed
  <2>7. TypeOK'
    BY <2>1, <2>2, <2>4 DEF TypeOK
  <2>8. CopiesAreFounded'
    BY <2>4, <2>5, CopiesStand
  <2> QED
    BY <2>4, <2>6, <2>7, <2>8 DEF AbsentIsNothing
<1> QED
  BY <1>1, <1>2, <1>4, <1>5, <1>6, <1>7, <1>8 DEF UserStep
\* A reconciler reads rows, carries intent to the provider and writes back what
\* it has witnessed.
LEMMA ReconcilersKeep ==
  ASSUME IInv, NEW r \in Reconcilers, ReconcilerStep(r)
  PROVE  IInv'
<1> USE DEF IInv
<1> DEFINE old == reconcilers[r]
<1>1. old.pc # "idle" =>
        /\ old.backup \in Backups /\ backups[old.backup].phase # "none"
        /\ old.row.phase \in BackupPhases \ {"none"}
        /\ old.row.verification \in Verifications
        /\ old.row.deleteRequested => backups[old.backup].deleteRequested
        /\ old.pc \in {"checking", "deleting", "deleted"} => old.row.deleteRequested
        /\ ~backups[old.backup].deleteRequested =>
             /\ old.row.phase = "ready" => stored[old.backup].phase # "absent"
             /\ old.row.verification = "passed" => stored[old.backup].verification = "passed"
  <2>1. old \in Reconciler /\ Founded(old, backups, stored)
    BY DEF TypeOK, CopiesAreFounded
  <2> QED
    BY <2>1 DEF Founded, Witnessed, Reconciler, BackupRow
<1>2. ASSUME UNCHANGED <<backups, tombstones, restores, restoring, stored>>,
             delayed' \in SUBSET Backups,
             reconcilers' \in [Reconcilers -> Reconciler], CopiesAreFounded'
      PROVE  IInv'
  BY <1>2 DEF TypeOK, RowsAreWitnessed, AbsentIsNothing
\* Both writes of the status: the row is written back, then reported.
<1>3. ASSUME old.pc # "idle",
             SetRow(old.backup, WithStatus(backups[old.backup], old.row.phase,
                                           old.row.verification)),
             UNCHANGED stored
      PROVE  /\ backups' \in [Backups -> BackupRow]
             /\ RowsAreWitnessed'
             /\ Keeps(backups, backups', stored, stored')
  <2> DEFINE b == old.backup
             new == WithStatus(backups[b], old.row.phase, old.row.verification)
  <2>1. /\ b \in Backups /\ backups[b] \in BackupRow /\ backups[b].phase # "none"
        /\ old.row.phase \in BackupPhases \ {"none"} /\ old.row.verification \in Verifications
    BY <1>1, <1>3 DEF TypeOK
  <2>2. /\ new \in BackupRow /\ new.phase # "none"
        /\ new.deleteRequested = backups[b].deleteRequested
        /\ new.verification = old.row.verification
        /\ new.phase = "ready" => old.row.phase = "ready"
    BY <2>1, WithStatusIsFounded
  <2>3. SetRow(b, new)
    BY <1>3
  <2>4. ~backups[b].deleteRequested =>
          /\ old.row.phase = "ready" => stored[b].phase # "absent"
          /\ old.row.verification = "passed" => stored[b].verification = "passed"
    BY <1>1, <1>3
  <2> HIDE DEF new
  <2> QED
    BY <1>3, <2>1, <2>2, <2>3, <2>4, RowMoves DEF TypeOK
<1>4. ASSUME NEW b \in Backups, ReadPending(r, b) PROVE IInv'
  <2> DEFINE new == [pc |-> "read", backup |-> b, row |-> backups[b]]
  <2>1. /\ new \in Reconciler
        /\ new.pc = "read" /\ new.backup = b /\ new.row = backups[b]
    BY DEF Reconciler, TypeOK
  <2>2. reconcilers' = [reconcilers EXCEPT ![r] = new] /\ backups[b].phase # "none"
    BY <1>4 DEF ReadPending, PendingFlashBackups
  <2>3. UNCHANGED <<backups, tombstones, restores, restoring, stored, delayed>>
    BY <1>4 DEF ReadPending
  <2>4. Witnessed(b, backups[b], backups, stored)
    BY DEF RowsAreWitnessed
  <2> HIDE DEF new
  <2>5. Founded(new, backups', stored')
    BY <2>1, <2>2, <2>3, <2>4 DEF Founded, Witnessed
  <2>6. CopiesAreFounded'
    BY <2>2, <2>3, <2>5, NothingChanges, CopyMoves DEF TypeOK
  <2>7. reconcilers' \in [Reconcilers -> Reconciler]
    BY <2>1, <2>2 DEF TypeOK
  <2> QED
    BY <1>2, <2>3, <2>6, <2>7 DEF TypeOK
<1>5. ASSUME RotateRow(r) PROVE IInv'
  <2> DEFINE pc == IF old.row.deleteRequested THEN "checking" ELSE "asking"
  <2>1. /\ old.pc = "read"
        /\ SetRow(old.backup, WithStatus(backups[old.backup], old.row.phase,
                                         old.row.verification))
        /\ Goto(r, pc)
        /\ UNCHANGED <<tombstones, restores, restoring, stored, delayed>>
    BY <1>5 DEF RotateRow
  <2>2. pc \in {"checking", "deleting", "deleted", "asking"}
        /\ (pc # "asking" => old.row.deleteRequested)
    OBVIOUS
  <2> HIDE DEF pc
  <2>3. /\ backups' \in [Backups -> BackupRow] /\ RowsAreWitnessed'
        /\ Keeps(backups, backups', stored, stored')
    BY <1>3, <2>1
  <2>4. reconcilers' \in [Reconcilers -> Reconciler] /\ CopiesAreFounded'
    BY <2>1, <2>2, <2>3, GotoMoves DEF TypeOK
  <2> QED
    BY <2>1, <2>3, <2>4 DEF TypeOK, AbsentIsNothing
<1>6. ASSUME Keeps(backups, backups', stored, stored'), Rest(r)
      PROVE  reconcilers' \in [Reconcilers -> Reconciler] /\ CopiesAreFounded'
  BY <1>6, RestMoves DEF TypeOK
<1>7. ASSUME CheckRestorePending(r) PROVE IInv'
  <2>1. /\ old.pc = "checking"
        /\ UNCHANGED <<backups, tombstones, restores, restoring, stored, delayed>>
        /\ Rest(r) \/ Goto(r, "deleting")
    BY <1>7 DEF CheckRestorePending
  <2>2. Keeps(backups, backups', stored, stored')
    BY <2>1, NothingChanges
  <2>3. CASE Rest(r)
    BY <1>2, <1>6, <2>1, <2>2, <2>3 DEF TypeOK
  <2>4. CASE Goto(r, "deleting")
    <3>1. reconcilers' \in [Reconcilers -> Reconciler] /\ CopiesAreFounded'
      BY <1>1, <2>1, <2>2, <2>4, GotoMoves DEF TypeOK
    <3> QED
      BY <1>2, <2>1, <3>1 DEF TypeOK
  <2> QED
    BY <2>1, <2>3, <2>4
<1>8. ASSUME ProviderDeletes(r) PROVE IInv'
  <2>1. /\ old.pc = "deleting"
        /\ stored' = [stored EXCEPT ![old.backup] = Nothing]
        /\ Goto(r, "deleted")
        /\ UNCHANGED <<backups, tombstones, restores, restoring, delayed>>
    BY <1>8 DEF ProviderDeletes
  <2>2. old.backup \in Backups /\ old.row.deleteRequested /\ backups[old.backup].deleteRequested
    BY <1>1, <2>1
  <2>3. Nothing \in Report
    BY DEF Nothing, Report, Verifications
  <2>4. /\ stored' \in [Backups -> Report] /\ RowsAreWitnessed' /\ AbsentIsNothing'
        /\ Keeps(backups, backups', stored, stored')
    BY <2>1, <2>2, <2>3, ReportMoves DEF TypeOK
  <2>5. reconcilers' \in [Reconcilers -> Reconciler] /\ CopiesAreFounded'
    BY <2>1, <2>2, <2>4, GotoMoves DEF TypeOK
  <2> QED
    BY <2>1, <2>4, <2>5 DEF TypeOK
<1>9. ASSUME ProviderDefersDelete(r) PROVE IInv'
  BY <1>2, <1>6, <1>9, NothingChanges DEF ProviderDefersDelete, TypeOK
<1>10. ASSUME ReleaseFlashBackup(r) PROVE IInv'
  <2> DEFINE b == old.backup
             new == [backups[b] EXCEPT !.phase = "deleted", !.verification = "none"]
  <2>1. /\ old.pc = "deleted" /\ Rest(r)
        /\ UNCHANGED <<restores, restoring, stored, delayed>>
    BY <1>10 DEF ReleaseFlashBackup
  <2>2. b \in Backups /\ backups[b].phase # "none" /\ backups[b].deleteRequested
    BY <1>1, <2>1
  <2>3. /\ SetRow(b, new)
        /\ tombstones' \in {tombstones, tombstones \cup {b}}
    BY <1>10, <2>2 DEF ReleaseFlashBackup
  <2>4. new \in BackupRow /\ new.phase = "deleted" /\ new.deleteRequested
    BY <2>2 DEF BackupRow, BackupPhases, Verifications, TypeOK
  <2> HIDE DEF new
  <2>5. /\ backups' \in [Backups -> BackupRow] /\ RowsAreWitnessed'
        /\ Keeps(backups, backups', stored, stored')
    BY <2>1, <2>2, <2>3, <2>4, RowMoves DEF TypeOK
  <2>6. reconcilers' \in [Reconcilers -> Reconciler] /\ CopiesAreFounded'
    BY <1>6, <2>1, <2>5
  <2>7. tombstones' \in SUBSET Backups
    BY <2>2, <2>3 DEF TypeOK
  <2> QED
    BY <2>1, <2>5, <2>6, <2>7 DEF TypeOK, AbsentIsNothing
\* The answers: each is about what the provider holds after it.
<1>11. ASSUME old.pc = "asking", Keeps(backups, backups', stored, stored'),
              NEW phase \in BackupPhases \ {"none"}, NEW verification \in Verifications,
              ~backups'[old.backup].deleteRequested =>
                /\ phase = "ready" => stored'[old.backup].phase # "absent"
                /\ verification = "passed" => stored'[old.backup].verification = "passed",
              Answer(r, phase, verification)
       PROVE  reconcilers' \in [Reconcilers -> Reconciler] /\ CopiesAreFounded'
  BY <1>11, AnswerMoves DEF TypeOK
<1>12. ASSUME ProviderCreates(r) PROVE IInv'
  <2> DEFINE b == old.backup
             new == Created(stored[b])
  <2>1. /\ old.pc = "asking"
        /\ stored' = [stored EXCEPT ![b] = new]
        /\ Answer(r, new.phase, new.verification)
        /\ UNCHANGED <<backups, tombstones, restores, restoring, delayed>>
    BY <1>12 DEF ProviderCreates
  <2>2. b \in Backups
    BY <1>1, <2>1
  <2>3. /\ new \in Report /\ new.phase # "absent" /\ new.phase \in BackupPhases \ {"none"}
        /\ new.verification = stored[b].verification
    BY <2>2, CreatedKeeps DEF TypeOK, AbsentIsNothing
  <2>4. new.verification \in Verifications
    BY <2>3 DEF Report
  <2> HIDE DEF new
  <2>5. /\ stored' \in [Backups -> Report] /\ RowsAreWitnessed' /\ AbsentIsNothing'
        /\ Keeps(backups, backups', stored, stored')
    BY <2>1, <2>2, <2>3, ReportMoves DEF TypeOK
  <2>6. stored'[b] = new
    BY <2>1, <2>2 DEF TypeOK
  <2>7. reconcilers' \in [Reconcilers -> Reconciler] /\ CopiesAreFounded'
    BY <1>11, <2>1, <2>3, <2>4, <2>5, <2>6
  <2> QED
    BY <2>1, <2>5, <2>7 DEF TypeOK
<1>13. ASSUME ProviderReports(r) PROVE IInv'
  <2> DEFINE b == old.backup
  <2>1. /\ old.pc = "asking" /\ stored[b] # Nothing
        /\ Answer(r, stored[b].phase, stored[b].verification)
        /\ UNCHANGED <<backups, tombstones, restores, restoring, stored, delayed>>
    BY <1>13 DEF ProviderReports
  <2>2. /\ stored[b] \in Report /\ stored[b].phase # "absent"
    BY <1>1, <2>1 DEF TypeOK, AbsentIsNothing
  <2>3. stored[b].phase \in BackupPhases \ {"none"} /\ stored[b].verification \in Verifications
    BY <2>2 DEF Report, BackupPhases
  <2>4. reconcilers' \in [Reconcilers -> Reconciler] /\ CopiesAreFounded'
    BY <1>11, <2>1, <2>2, <2>3, NothingChanges
  <2> QED
    BY <1>2, <2>1, <2>4 DEF TypeOK
<1>14. ASSUME ProviderRefuses(r) PROVE IInv'
  <2>1. /\ old.pc = "asking" /\ Answer(r, "error", "none")
        /\ UNCHANGED <<backups, tombstones, restores, restoring, stored, delayed>>
    BY <1>14 DEF ProviderRefuses
  <2>2. "error" \in BackupPhases \ {"none"} /\ "none" \in Verifications
    BY DEF BackupPhases, Verifications
  <2>3. reconcilers' \in [Reconcilers -> Reconciler] /\ CopiesAreFounded'
    BY <1>11, <2>1, <2>2, NothingChanges
  <2> QED
    BY <1>2, <2>1, <2>3 DEF TypeOK
<1>15. ASSUME old.pc # "idle", Abandon(r) PROVE delayed' \in SUBSET Backups
  BY <1>1, <1>15 DEF Abandon, TypeOK
<1>16. ASSUME ProviderUnavailable(r) PROVE IInv'
  <2>1. /\ old.pc = "asking" /\ Answer(r, old.row.phase, old.row.verification)
        /\ Abandon(r)
        /\ UNCHANGED <<backups, tombstones, restores, restoring, stored>>
    BY <1>16 DEF ProviderUnavailable
  <2>2. reconcilers' \in [Reconcilers -> Reconciler] /\ CopiesAreFounded'
    BY <1>1, <1>11, <2>1, NothingChanges
  <2> QED
    BY <1>2, <1>15, <2>1, <2>2
<1>17. ASSUME UpdateFlashBackupStatus(r) PROVE IInv'
  <2>1. /\ old.pc = "answered"
        /\ SetRow(old.backup, WithStatus(backups[old.backup], old.row.phase,
                                         old.row.verification))
        /\ Rest(r)
        /\ UNCHANGED <<tombstones, restores, restoring, stored, delayed>>
    BY <1>17 DEF UpdateFlashBackupStatus
  <2>2. /\ backups' \in [Backups -> BackupRow] /\ RowsAreWitnessed'
        /\ Keeps(backups, backups', stored, stored')
    BY <1>3, <2>1
  <2>3. reconcilers' \in [Reconcilers -> Reconciler] /\ CopiesAreFounded'
    BY <1>6, <2>1, <2>2
  <2> QED
    BY <2>1, <2>2, <2>3 DEF TypeOK, AbsentIsNothing
<1>18. ASSUME ReconcilerCrashes(r) PROVE IInv'
  <2>1. /\ old.pc # "idle" /\ Abandon(r) /\ Rest(r)
        /\ UNCHANGED <<backups, tombstones, restores, restoring, stored>>
    BY <1>18 DEF ReconcilerCrashes
  <2>2. reconcilers' \in [Reconcilers -> Reconciler] /\ CopiesAreFounded'
    BY <1>6, <2>1, NothingChanges
  <2> QED
    BY <1>2, <1>15, <2>1, <2>2
<1> QED
  BY <1>4, <1>5, <1>7, <1>8, <1>9, <1>10, <1>12, <1>13, <1>14, <1>16, <1>17, <1>18
     DEF ReconcilerStep, Advance

\* On its own the provider finishes, loses or verifies what it holds; it does not
\* forget that it held it.
LEMMA ProviderKeeps ==
  ASSUME IInv, ProviderStep
  PROVE  IInv'
<1> USE DEF IInv
<1>1. ASSUME NEW b \in Backups, NEW new \in Report,
             new.phase = "absent" => new = Nothing,
             stored[b].phase # "absent" => new.phase # "absent",
             stored[b].verification = "passed" => new.verification = "passed",
             stored' = [stored EXCEPT ![b] = new], delayed' \in SUBSET Backups,
             UNCHANGED <<backups, tombstones, restores, restoring, reconcilers>>
      PROVE  IInv'
  <2>1. /\ stored' \in [Backups -> Report] /\ RowsAreWitnessed' /\ AbsentIsNothing'
        /\ Keeps(backups, backups', stored, stored')
    BY <1>1, ReportMoves DEF TypeOK
  <2>2. CopiesAreFounded'
    BY <1>1, <2>1, CopiesStand
  <2> QED
    BY <1>1, <2>1, <2>2 DEF TypeOK
<1>2. ASSUME NEW b \in Backups, NEW arrives \in BOOLEAN, DelayedPostEnds(b, arrives)
      PROVE  IInv'
  <2> DEFINE new == IF arrives THEN Created(stored[b]) ELSE stored[b]
  <2>1. /\ stored[b] \in Report
        /\ stored[b].phase = "absent" => stored[b] = Nothing
    BY DEF TypeOK, AbsentIsNothing
  <2>2. /\ new \in Report
        /\ new.phase = "absent" => new = Nothing
        /\ stored[b].phase # "absent" => new.phase # "absent"
        /\ stored[b].verification = "passed" => new.verification = "passed"
    BY <2>1, CreatedKeeps
  <2>3. /\ stored' = [stored EXCEPT ![b] = new] /\ delayed' = delayed \ {b}
        /\ UNCHANGED <<backups, tombstones, restores, restoring, reconcilers>>
    BY <1>2 DEF DelayedPostEnds
  <2> HIDE DEF new
  <2> QED
    BY <1>1, <2>2, <2>3 DEF TypeOK
<1>3. ASSUME NEW b \in Backups, NEW phase \in {"ready", "error"}, ProviderMoves(b, phase)
      PROVE  IInv'
  <2> DEFINE new == [stored[b] EXCEPT !.phase = phase]
  <2>1. new \in Report /\ new.phase = phase /\ new.verification = stored[b].verification
    BY DEF TypeOK, Report
  <2>2. /\ stored' = [stored EXCEPT ![b] = new]
        /\ UNCHANGED <<backups, tombstones, restores, restoring, reconcilers, delayed>>
    BY <1>3 DEF ProviderMoves
  <2> HIDE DEF new
  <2> QED
    BY <1>1, <2>1, <2>2 DEF TypeOK
<1>4. ASSUME NEW b \in Backups, NEW outcome \in {"passed", "failed"}, VerifyBackup(b, outcome)
      PROVE  IInv'
  <2> DEFINE new == [stored[b] EXCEPT !.verification = outcome]
  <2>1. new \in Report /\ new.phase = stored[b].phase /\ new.verification = outcome
    BY DEF TypeOK, Report, Verifications
  <2>2. /\ stored' = [stored EXCEPT ![b] = new]
        /\ stored[b].phase = "ready" /\ stored[b].verification = "none"
        /\ UNCHANGED <<backups, tombstones, restores, restoring, reconcilers, delayed>>
    BY <1>4 DEF VerifyBackup
  <2> HIDE DEF new
  <2> QED
    BY <1>1, <2>1, <2>2 DEF TypeOK
<1>5. ASSUME NEW b \in Backups, TombstoneExpires(b) PROVE IInv'
  <2>1. /\ tombstones' = tombstones \ {b}
        /\ UNCHANGED <<backups, restores, restoring, reconcilers, stored, delayed>>
    BY <1>5 DEF TombstoneExpires
  <2>2. CopiesAreFounded'
    BY <2>1, NothingChanges, CopiesStand
  <2> QED
    BY <2>1, <2>2 DEF TypeOK, RowsAreWitnessed, AbsentIsNothing
<1> QED
  BY <1>2, <1>3, <1>4, <1>5 DEF ProviderStep
\* The invariant holds throughout.
LEMMA InvariantHolds == Spec => []IInv
<1>1. IInv /\ [Next]_vars => IInv'
  <2> SUFFICES ASSUME IInv, [Next]_vars PROVE IInv'
    OBVIOUS
  <2>1. CASE UNCHANGED vars
    <3>1. UNCHANGED <<backups, tombstones, restores, restoring, reconcilers, stored, delayed>>
      BY <2>1 DEF vars
    <3>2. CopiesAreFounded'
      BY <3>1, NothingChanges, CopiesStand DEF IInv
    <3> QED
      BY <3>1, <3>2 DEF IInv, TypeOK, RowsAreWitnessed, AbsentIsNothing
  <2> QED
    BY <2>1, UsersKeep, ReconcilersKeep, ProviderKeeps DEF Next
<1> QED
  BY <1>1, InitHolds, PTL DEF Spec
-----------------------------------------------------------------------------
(***************************************************************************)
(* What it shows.                                                          *)
(***************************************************************************)

\* The columns of flash_backups and the reconcilers' variables have their types.
THEOREM TypesHold == Spec => []TypeOK
<1>1. IInv => TypeOK
  BY DEF IInv
<1> QED
  BY <1>1, InvariantHolds, PTL

\* update_flash_backup_status: however stale the copies are that the reconcilers
\* write back, a backup that a user may choose for a restore has reached the
\* provider and nobody has had it deleted there.
THEOREM UsableStored == Spec => []UsableIsStored
<1>1. IInv => UsableIsStored
  BY DEF IInv, UsableIsStored, Usable, RowsAreWitnessed, Witnessed
<1> QED
  BY <1>1, InvariantHolds, PTL

\* expire_scheduled_backups: when a scheduled backup is pruned, a newer one is
\* stored at the provider and, if the policy asks for it, its test restore has
\* passed there.
THEOREM PrunedVerified == Spec => []PrunedAfterVerification
<1>1. IInv => PrunedAfterVerification
  <2> SUFFICES ASSUME IInv, NEW b \in Backups, Outdated(b)
               PROVE  \E c \in Scheduled : /\ c > b
                                           /\ stored[c].phase # "absent"
                                           /\ VerifyRestore => stored[c].verification = "passed"
    BY DEF PrunedAfterVerification
  <2> DEFINE newer == {c \in Backups : c > b /\ Good(c)}
  <2>1. Cardinality(newer) >= Retention
    BY DEF Outdated
  <2>2. newer # {}
    <3> HIDE DEF newer
    <3>1. Cardinality({}) = 0
      BY FS_EmptySet
    <3> QED
      BY <2>1, <3>1, BackupsAssumption
  <2>3. PICK c \in Backups : c > b /\ Good(c)
    BY <2>2
  <2>4. Usable(c) /\ (VerifyRestore => backups[c].verification = "passed") /\ c \in Scheduled
    BY <2>3 DEF Good
  <2>5. Witnessed(c, backups[c], backups, stored)
    BY DEF IInv, RowsAreWitnessed
  <2> QED
    BY <2>3, <2>4, <2>5 DEF Usable, Witnessed
<1> QED
  BY <1>1, InvariantHolds, PTL

\* The tenant's lock and the check for pending restores, while retention prunes
\* nothing: each step keeps the sources of the restores.
LEMMA UsersKeepSources ==
  ASSUME Scheduled = {}, IInv, SourceInv, UserStep
  PROVE  SourceInv'
<1> USE DEF IInv, SourceInv
<1>1. ASSUME NEW b \in Backups, RequestFlashBackup(b) \/ RequestFlashBackupDelete(b)
      PROVE  SourceInv'
  <2>1. restoring = {} /\ UNCHANGED <<restores, restoring, reconcilers, stored>>
    BY <1>1 DEF RequestFlashBackup, RequestFlashBackupDelete, TenantLockFree
  <2> QED
    BY <2>1 DEF RestoreSourceKept
<1>2. ASSUME NEW b \in Backups, ReserveFlashRestore(b) PROVE SourceInv'
  <2>1. /\ restores' = [restores EXCEPT ![b] = "reserved"]
        /\ UNCHANGED <<backups, restoring, reconcilers, stored>>
    BY <1>2 DEF ReserveFlashRestore
  <2>2. \A c : restores'[c] = "provisioning" => restores[c] = "provisioning"
    BY <2>1 DEF TypeOK
  <2> QED
    BY <2>1, <2>2 DEF RestoreSourceKept
<1>3. ASSUME NEW b \in Backups, BeginRestore(b) PROVE SourceInv'
  <2>1. /\ Usable(b) /\ restoring' = {b}
        /\ UNCHANGED <<backups, restores, reconcilers, stored>>
    BY <1>3 DEF BeginRestore
  <2>2. ~backups[b].deleteRequested /\ stored[b].phase # "absent"
    BY <2>1 DEF Usable, RowsAreWitnessed, Witnessed
  <2> QED
    BY <2>1, <2>2 DEF RestoreSourceKept
<1>4. ASSUME NEW b \in Backups, NEW state \in RestoreStates, EndRestore(b, state)
      PROVE  SourceInv'
  <2>1. /\ b \in restoring /\ restoring' = {}
        /\ restores' = [restores EXCEPT ![b] = state]
        /\ UNCHANGED <<backups, reconcilers, stored>>
    BY <1>4 DEF EndRestore
  <2>2. ~backups[b].deleteRequested /\ stored[b].phase # "absent"
    BY <2>1
  <2>3. \A r \in Reconcilers :
          reconcilers[r].pc = "deleting" => /\ reconcilers[r].backup # b
                                            /\ reconcilers[r].backup \in Backups
    <3> SUFFICES ASSUME NEW r \in Reconcilers, reconcilers[r].pc = "deleting"
                 PROVE  reconcilers[r].backup # b /\ reconcilers[r].backup \in Backups
      OBVIOUS
    <3>1. Founded(reconcilers[r], backups, stored)
      BY DEF CopiesAreFounded
    <3> QED
      BY <2>2, <3>1 DEF Founded
  <2>4. \A c \in Backups : c # b => restores'[c] = restores[c]
    BY <2>1 DEF TypeOK
  <2> QED
    BY <2>1, <2>2, <2>3, <2>4 DEF RestoreSourceKept
<1>5. ASSUME NEW b \in Backups, NEW state \in RestoreStates, RestoredServiceMoves(b, state)
      PROVE  SourceInv'
  <2>1. /\ state # "provisioning"
        /\ restores' = [restores EXCEPT ![b] = state]
        /\ UNCHANGED <<backups, restoring, reconcilers, stored>>
    BY <1>5 DEF RestoredServiceMoves, RestoreTransitions
  <2>2. \A c : restores'[c] = "provisioning" => restores[c] = "provisioning"
    BY <2>1 DEF TypeOK
  <2> QED
    BY <2>1, <2>2 DEF RestoreSourceKept
<1>6. ASSUME ExpireScheduledBackups PROVE FALSE
  BY <1>6 DEF ExpireScheduledBackups, Outdated, Good
<1> QED
  BY <1>1, <1>2, <1>3, <1>4, <1>5, <1>6 DEF UserStep

\* A reconciler that goes on to the delete has seen no pending restore, and the
\* intent behind the delete keeps later ones out.
LEMMA ReconcilersKeepSources ==
  ASSUME IInv, SourceInv, NEW r \in Reconcilers, ReconcilerStep(r)
  PROVE  SourceInv'
<1> USE DEF IInv, SourceInv
<1> DEFINE old == reconcilers[r]
<1>1. old.pc # "idle" =>
        /\ old.backup \in Backups
        /\ old.pc \in {"checking", "deleting", "deleted"} => backups[old.backup].deleteRequested
  <2>1. Founded(old, backups, stored)
    BY DEF CopiesAreFounded
  <2> QED
    BY <2>1 DEF Founded
<1>2. ASSUME \A b \in Backups : backups'[b].deleteRequested = backups[b].deleteRequested,
             \A b \in Backups : stored[b].phase # "absent" => stored'[b].phase # "absent",
             UNCHANGED <<restores, restoring>>,
             \A q \in Reconcilers \ {r} : reconcilers'[q] = reconcilers[q],
             reconcilers'[r].pc # "deleting"
      PROVE  SourceInv'
  <2>1. restoring \subseteq Backups
    BY DEF TypeOK
  <2> QED
    BY <1>2, <2>1 DEF RestoreSourceKept
<1>3. ASSUME Rest(r)
      PROVE  /\ \A q \in Reconcilers \ {r} : reconcilers'[q] = reconcilers[q]
             /\ reconcilers'[r].pc # "deleting"
  BY <1>3 DEF Rest, Resting, TypeOK
<1>4. ASSUME NEW pc, Goto(r, pc)
      PROVE  /\ \A q \in Reconcilers \ {r} : reconcilers'[q] = reconcilers[q]
             /\ reconcilers'[r].pc = pc /\ reconcilers'[r].backup = old.backup
  BY <1>4 DEF Goto, TypeOK, Reconciler
<1>5. ASSUME NEW phase, NEW verification, Answer(r, phase, verification)
      PROVE  /\ \A q \in Reconcilers \ {r} : reconcilers'[q] = reconcilers[q]
             /\ reconcilers'[r].pc # "deleting"
  BY <1>5 DEF Answer, TypeOK, Reconciler, BackupRow
<1>6. ASSUME old.pc # "idle",
             SetRow(old.backup, WithStatus(backups[old.backup], old.row.phase,
                                           old.row.verification))
      PROVE  \A b \in Backups : backups'[b].deleteRequested = backups[b].deleteRequested
  <2> DEFINE new == WithStatus(backups[old.backup], old.row.phase, old.row.verification)
  <2>1. backups[old.backup] \in BackupRow /\ old.row.phase \in BackupPhases \ {"none"}
        /\ old.row.verification \in Verifications
    <3>1. Founded(old, backups, stored) /\ old \in Reconciler
      BY DEF CopiesAreFounded, TypeOK
    <3> QED
      BY <1>1, <1>6, <3>1 DEF Founded, TypeOK, Reconciler, BackupRow
  <2>2. new.deleteRequested = backups[old.backup].deleteRequested
    BY <2>1, WithStatusIsFounded
  <2>3. backups' = [backups EXCEPT ![old.backup] = new]
    BY <1>6 DEF SetRow
  <2> HIDE DEF new
  <2> QED
    BY <1>1, <1>6, <2>2, <2>3 DEF TypeOK
<1>7. ASSUME NEW b \in Backups, ReadPending(r, b) PROVE SourceInv'
  <2>1. /\ \A q \in Reconcilers \ {r} : reconcilers'[q] = reconcilers[q]
        /\ reconcilers'[r].pc # "deleting"
    BY <1>7 DEF ReadPending, TypeOK
  <2> QED
    BY <1>2, <1>7, <2>1 DEF ReadPending
<1>8. ASSUME RotateRow(r) PROVE SourceInv'
  <2> DEFINE pc == IF old.row.deleteRequested THEN "checking" ELSE "asking"
  <2>1. pc # "deleting" /\ Goto(r, pc)
    BY <1>8 DEF RotateRow
  <2> HIDE DEF pc
  <2>2. /\ \A q \in Reconcilers \ {r} : reconcilers'[q] = reconcilers[q]
        /\ reconcilers'[r].pc # "deleting"
    BY <1>4, <2>1
  <2>3. \A b \in Backups : backups'[b].deleteRequested = backups[b].deleteRequested
    BY <1>6, <1>8 DEF RotateRow
  <2> QED
    BY <1>2, <1>8, <2>2, <2>3 DEF RotateRow
<1>9. ASSUME CheckRestorePending(r) PROVE SourceInv'
  <2>1. UNCHANGED <<backups, restores, restoring, stored>>
    BY <1>9 DEF CheckRestorePending
  <2>2. CASE FlashBackupRestorePending(old.backup)
    BY <1>2, <1>3, <1>9, <2>1, <2>2 DEF CheckRestorePending
  <2>3. CASE ~FlashBackupRestorePending(old.backup)
    <3>1. Goto(r, "deleting") /\ restores[old.backup] # "provisioning"
      BY <1>9, <2>3 DEF CheckRestorePending, FlashBackupRestorePending
    <3>2. /\ \A q \in Reconcilers \ {r} : reconcilers'[q] = reconcilers[q]
          /\ reconcilers'[r].backup = old.backup
      BY <1>4, <3>1
    <3> QED
      BY <2>1, <3>1, <3>2 DEF RestoreSourceKept
  <2> QED
    BY <2>2, <2>3
<1>10. ASSUME ProviderDeletes(r) PROVE SourceInv'
  <2>1. /\ old.pc = "deleting" /\ stored' = [stored EXCEPT ![old.backup] = Nothing]
        /\ Goto(r, "deleted") /\ UNCHANGED <<backups, restores, restoring>>
    BY <1>10 DEF ProviderDeletes
  <2>2. /\ \A q \in Reconcilers \ {r} : reconcilers'[q] = reconcilers[q]
        /\ reconcilers'[r].pc = "deleted"
    BY <1>4, <2>1
  <2>3. restores[old.backup] # "provisioning" /\ old.backup \notin restoring
    BY <1>1, <2>1
  <2>4. \A b \in Backups : b # old.backup => stored'[b] = stored[b]
    BY <2>1 DEF TypeOK
  <2>5. restoring \subseteq Backups
    BY DEF TypeOK
  <2> QED
    BY <2>1, <2>2, <2>3, <2>4, <2>5 DEF RestoreSourceKept
<1>11. ASSUME ProviderDefersDelete(r) PROVE SourceInv'
  BY <1>2, <1>3, <1>11 DEF ProviderDefersDelete
<1>12. ASSUME ReleaseFlashBackup(r) PROVE SourceInv'
  <2> DEFINE b == old.backup
             new == [backups[b] EXCEPT !.phase = "deleted", !.verification = "none"]
  <2>1. /\ old.pc = "deleted" /\ Rest(r) /\ UNCHANGED <<restores, restoring, stored>>
        /\ b \in Backups /\ backups[b].deleteRequested
    BY <1>1, <1>12 DEF ReleaseFlashBackup
  <2>2. backups' = [backups EXCEPT ![b] = new]
    BY <1>12, <2>1 DEF ReleaseFlashBackup, SetRow
  <2>3. new.deleteRequested = backups[b].deleteRequested
    BY <2>1 DEF TypeOK, BackupRow
  <2> HIDE DEF new
  <2>4. \A c \in Backups : backups'[c].deleteRequested = backups[c].deleteRequested
    BY <2>1, <2>2, <2>3 DEF TypeOK
  <2> QED
    BY <1>2, <1>3, <2>1, <2>4
<1>13. ASSUME ProviderCreates(r) PROVE SourceInv'
  <2> DEFINE b == old.backup
             new == Created(stored[b])
  <2>1. /\ old.pc = "asking" /\ stored' = [stored EXCEPT ![b] = new]
        /\ Answer(r, new.phase, new.verification)
        /\ UNCHANGED <<backups, restores, restoring>>
    BY <1>13 DEF ProviderCreates
  <2>2. b \in Backups /\ new.phase # "absent"
    BY <1>1, <2>1, CreatedKeeps DEF TypeOK, AbsentIsNothing
  <2> HIDE DEF new
  <2>3. \A c \in Backups : stored[c].phase # "absent" => stored'[c].phase # "absent"
    BY <2>1, <2>2 DEF TypeOK
  <2> QED
    BY <1>2, <1>5, <2>1, <2>3
<1>14. ASSUME ProviderReports(r) PROVE SourceInv'
  BY <1>2, <1>5, <1>14 DEF ProviderReports
<1>15. ASSUME ProviderRefuses(r) PROVE SourceInv'
  BY <1>2, <1>5, <1>15 DEF ProviderRefuses
<1>16. ASSUME ProviderUnavailable(r) PROVE SourceInv'
  BY <1>2, <1>5, <1>16 DEF ProviderUnavailable
<1>17. ASSUME UpdateFlashBackupStatus(r) PROVE SourceInv'
  BY <1>2, <1>3, <1>6, <1>17 DEF UpdateFlashBackupStatus
<1>18. ASSUME ReconcilerCrashes(r) PROVE SourceInv'
  BY <1>2, <1>3, <1>18 DEF ReconcilerCrashes
<1> QED
  BY <1>7, <1>8, <1>9, <1>10, <1>11, <1>12, <1>13, <1>14, <1>15, <1>16, <1>17, <1>18
     DEF ReconcilerStep, Advance

\* On its own the provider makes nothing absent.
LEMMA ProviderKeepsSources ==
  ASSUME IInv, SourceInv, ProviderStep
  PROVE  SourceInv'
<1> USE DEF IInv, SourceInv
<1>1. UNCHANGED <<backups, restores, restoring, reconcilers>>
  BY DEF ProviderStep, DelayedPostEnds, ProviderMoves, VerifyBackup, TombstoneExpires
<1>2. \A c \in Backups : stored[c].phase # "absent" => stored'[c].phase # "absent"
  <2>1. ASSUME NEW b \in Backups, NEW arrives \in BOOLEAN, DelayedPostEnds(b, arrives)
        PROVE  \A c \in Backups : stored[c].phase # "absent" => stored'[c].phase # "absent"
    <3> DEFINE new == IF arrives THEN Created(stored[b]) ELSE stored[b]
    <3>1. stored[b].phase # "absent" => new.phase # "absent"
      BY CreatedKeeps DEF TypeOK, AbsentIsNothing
    <3>2. stored' = [stored EXCEPT ![b] = new]
      BY <2>1 DEF DelayedPostEnds
    <3> HIDE DEF new
    <3> QED
      BY <3>1, <3>2 DEF TypeOK
  <2>2. ASSUME NEW b \in Backups, NEW phase \in {"ready", "error"}, ProviderMoves(b, phase)
        PROVE  \A c \in Backups : stored[c].phase # "absent" => stored'[c].phase # "absent"
    BY <2>2 DEF ProviderMoves, TypeOK, Report
  <2>3. ASSUME NEW b \in Backups, NEW outcome \in {"passed", "failed"}, VerifyBackup(b, outcome)
        PROVE  \A c \in Backups : stored[c].phase # "absent" => stored'[c].phase # "absent"
    BY <2>3 DEF VerifyBackup, TypeOK, Report
  <2>4. ASSUME NEW b \in Backups, TombstoneExpires(b)
        PROVE  \A c \in Backups : stored[c].phase # "absent" => stored'[c].phase # "absent"
    BY <2>4 DEF TombstoneExpires
  <2> QED
    BY <2>1, <2>2, <2>3, <2>4 DEF ProviderStep
<1>3. restoring \subseteq Backups
  BY DEF TypeOK
<1> QED
  BY <1>1, <1>2, <1>3 DEF RestoreSourceKept

\* flash_backup_restore_pending, for organizations whose backups are all
\* requested by hand: a restore that the API has accepted and the provider has
\* not seen finds its source there.  (With scheduled backups it may not: retention
\* deletes without the tenant's lock.)
THEOREM SourceKept == Scheduled = {} => (Spec => []RestoreSourceKept)
<1> SUFFICES ASSUME Scheduled = {} PROVE Spec => []RestoreSourceKept
  OBVIOUS
<1>1. Init => SourceInv
  BY DEF Init, SourceInv, RestoreSourceKept, Resting
<1>2. IInv /\ SourceInv /\ [Next]_vars => SourceInv'
  <2> SUFFICES ASSUME IInv, SourceInv, [Next]_vars PROVE SourceInv'
    OBVIOUS
  <2>1. CASE UNCHANGED vars
    BY <2>1 DEF vars, SourceInv, RestoreSourceKept
  <2> QED
    BY <2>1, UsersKeepSources, ReconcilersKeepSources, ProviderKeepsSources DEF Next
<1>3. SourceInv => RestoreSourceKept
  BY DEF SourceInv
<1> QED
  BY <1>1, <1>2, <1>3, InvariantHolds, PTL DEF Spec
=============================================================================
