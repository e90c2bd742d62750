------------------------ MODULE BackupSchedulerProofs ------------------------
(***************************************************************************)
(* For any number of API replicas, policies' owners, slots and edits: the  *)
(* backup that a policy shows is stored and scheduled, and an outcome is   *)
(* recorded only for the run and under the settings that are in force.     *)
(***************************************************************************)
EXTENDS BackupScheduler, TLAPS

\* What a scheduler has seen stays true: a backup row is never removed from the
\* table of this service, and a backup that was attached stays attached.
SchedulersSawBackups ==
  \A r \in Schedulers :
    /\ schedulers[r].pc # "idle" => schedulers[r].slot \in Slots
    /\ schedulers[r].pc \in {"requested", "succeeded"} => backups[schedulers[r].slot].exists
    /\ schedulers[r].pc = "succeeded" => backups[schedulers[r].slot].attached

\* A claim is a copy of an enabled row.  Whatever changes the row's slot, owner
\* or switch raises updated_at, so a copy of the same version is an equal one.
ClaimsAreCopies ==
  \A r \in Schedulers : schedulers[r].pc # "idle" =>
    /\ schedulers[r].version <= policy.version
    /\ schedulers[r].version = policy.version =>
         /\ schedulers[r].slot = policy.slot
         /\ schedulers[r].owner = policy.owner
         /\ policy.enabled

IInv == TypeOK /\ ShownBackupIsScheduled /\ SchedulersSawBackups /\ ClaimsAreCopies

\* The row and the schedulers' copies start with values of their types.
LEMMA InitIInv == Init => IInv
  <1> SUFFICES ASSUME Init PROVE IInv
    OBVIOUS
  <1>0. (CHOOSE o \in Owners : TRUE) \in Owners
    BY SchedulerAssumption
  <1>1. NoBackup \in Backup /\ Resting \in Scheduler /\ Resting.pc = "idle"
    BY <1>0, SchedulerAssumption DEF NoBackup, Backup, Resting, Scheduler
  <1>2. policy \in Policy /\ policy.last = 0
    BY SchedulerAssumption DEF Init, Policy, Slots
  <1>3. TypeOK
    BY <1>1, <1>2, SchedulerAssumption DEF TypeOK, Init
  <1>4. \A r \in Schedulers : schedulers[r].pc = "idle"
    BY <1>1 DEF Init
  <1> QED
    BY <1>2, <1>3, <1>4
    DEF IInv, ShownBackupIsScheduled, SchedulersSawBackups, ClaimsAreCopies

\* The fields of the row, of a backup and of a scheduler have their types.
LEMMA SchedulerFields ==
  ASSUME TypeOK
  PROVE  /\ policy.enabled \in BOOLEAN /\ policy.owner \in Owners /\ policy.slot \in Slots
         /\ policy.version \in Nat /\ policy.last \in 0..MaxSlots /\ policy.run \in Nat
         /\ \A r \in Schedulers :
              /\ schedulers[r] \in Scheduler
              /\ schedulers[r].slot \in 0..MaxSlots /\ schedulers[r].owner \in Owners
              /\ schedulers[r].version \in Nat /\ schedulers[r].run \in Nat
         /\ \A s \in Slots : backups[s] \in Backup
  BY DEF TypeOK, Policy, Scheduler

\* An edit is counted.
LEMMA EditIsCounted ==
  ASSUME TypeOK, Edit
  PROVE  edits' \in 0..MaxEdits
  BY SchedulerAssumption DEF TypeOK, Edit

\* Every step keeps the invariant.
LEMMA StepIInv == IInv /\ [Next]_vars => IInv'
  <1> SUFFICES ASSUME IInv, [Next]_vars PROVE IInv'
    OBVIOUS
  <1>typ. TypeOK
    BY DEF IInv
  <1>ne. Resting \in Scheduler /\ Resting.pc = "idle"
    <2>1. (CHOOSE o \in Owners : TRUE) \in Owners
      BY SchedulerAssumption
    <2> QED BY <2>1, SchedulerAssumption DEF Resting, Scheduler
  <1>1. CASE UNCHANGED vars
    BY <1>1 DEF IInv, TypeOK, ShownBackupIsScheduled, SchedulersSawBackups, ClaimsAreCopies, vars
  <1>2. ASSUME NEW enabled \in BOOLEAN, NEW owner \in Owners, PutFlashBackupPolicy(enabled, owner)
        PROVE  IInv'
    <2>0. edits' \in 0..MaxEdits
      BY <1>2, <1>typ, EditIsCounted DEF PutFlashBackupPolicy
    <2>1. policy' \in Policy
      <3>1. policy \in Policy /\ policy.version + 1 \in Nat
        BY <1>typ, SchedulerFields DEF TypeOK
      <3>2. policy' = [policy EXCEPT !.enabled = enabled, !.owner = owner, !.version = policy.version + 1]
        BY <1>2 DEF PutFlashBackupPolicy
      <3>3. [policy EXCEPT !.enabled = enabled, !.owner = owner, !.version = policy.version + 1] \in Policy
        BY <3>1 DEF Policy
      <3> QED BY <3>2, <3>3
    <2>2. /\ policy'.version = policy.version + 1 /\ policy'.last = policy.last
          /\ UNCHANGED <<backups, schedulers, live>>
      BY <1>2, <1>typ DEF PutFlashBackupPolicy, TypeOK, Policy
    <2>3. ClaimsAreCopies'
      BY <2>2, <1>typ, SchedulerFields DEF IInv, ClaimsAreCopies
    <2> QED BY <2>0, <2>1, <2>2, <2>3 DEF IInv, TypeOK, ShownBackupIsScheduled, SchedulersSawBackups
  <1>3. ASSUME RunFlashBackupPolicyNow PROVE IInv'
    <2>0. edits' \in 0..MaxEdits
      BY <1>3, <1>typ, EditIsCounted DEF RunFlashBackupPolicyNow
    <2>s. policy.slot + 1 \in Slots
      BY <1>3, <1>typ, SchedulerFields, SchedulerAssumption DEF RunFlashBackupPolicyNow, Slots
    <2>1. policy' \in Policy
      <3>1. policy \in Policy /\ policy.version + 1 \in Nat /\ policy.run + 1 \in Nat
        BY <1>typ, SchedulerFields DEF TypeOK
      <3>2. policy' = [policy EXCEPT !.slot = policy.slot + 1, !.due = TRUE, !.version = policy.version + 1,
                         !.run = policy.run + 1]
        BY <1>3 DEF RunFlashBackupPolicyNow
      <3>3. [policy EXCEPT !.slot = policy.slot + 1, !.due = TRUE, !.version = policy.version + 1,
               !.run = policy.run + 1] \in Policy
        BY <2>s, <3>1 DEF Policy
      <3> QED BY <3>2, <3>3
    <2>2. /\ policy'.version = policy.version + 1 /\ policy'.last = policy.last
          /\ UNCHANGED <<backups, schedulers, live>>
      BY <1>3, <1>typ DEF RunFlashBackupPolicyNow, TypeOK, Policy
    <2>3. ClaimsAreCopies'
      BY <2>2, <1>typ, SchedulerFields DEF IInv, ClaimsAreCopies
    <2> QED BY <2>0, <2>1, <2>2, <2>3 DEF IInv, TypeOK, ShownBackupIsScheduled, SchedulersSawBackups
  <1>4. ASSUME NEW s \in Slots, RequestFlashBackupDelete(s) PROVE IInv'
    <2>0. edits' \in 0..MaxEdits
      BY <1>4, <1>typ, EditIsCounted DEF RequestFlashBackupDelete
    <2>1. backups' \in [Slots -> Backup]
      BY <1>4, <1>typ DEF RequestFlashBackupDelete, TypeOK, Backup
    <2>2. \A t \in Slots : /\ backups'[t].exists = backups[t].exists
                           /\ backups'[t].attached = backups[t].attached
      BY <1>4, <1>typ DEF RequestFlashBackupDelete, TypeOK, Backup
    <2>3. UNCHANGED <<policy, schedulers, live>>
      BY <1>4 DEF RequestFlashBackupDelete
    <2>4. ShownBackupIsScheduled'
      BY <2>2, <2>3, <1>typ, SchedulerFields, SchedulerAssumption DEF IInv, ShownBackupIsScheduled, Slots
    <2>5. SchedulersSawBackups'
      BY <2>2, <2>3 DEF IInv, SchedulersSawBackups
    <2> QED BY <2>0, <2>1, <2>3, <2>4, <2>5 DEF IInv, TypeOK, ClaimsAreCopies
  <1>5. ASSUME BeginDeleteServiceInstance PROVE IInv'
    BY <1>5
    DEF IInv, TypeOK, ShownBackupIsScheduled, SchedulersSawBackups, ClaimsAreCopies, BeginDeleteServiceInstance
  <1>6. ASSUME RunBecomesDue \/ LeaseExpires PROVE IInv'
    <2>1. /\ policy' \in Policy /\ policy'.version = policy.version /\ policy'.last = policy.last
          /\ policy'.slot = policy.slot /\ policy'.owner = policy.owner /\ policy'.enabled = policy.enabled
      BY <1>6, <1>typ DEF RunBecomesDue, LeaseExpires, TypeOK, Policy
    <2>2. UNCHANGED <<backups, schedulers, live, edits>>
      BY <1>6 DEF RunBecomesDue, LeaseExpires
    <2> QED
      BY <2>1, <2>2 DEF IInv, TypeOK, ShownBackupIsScheduled, SchedulersSawBackups, ClaimsAreCopies
  <1>7. ASSUME NEW r \in Schedulers, ClaimBackupPolicies(r) PROVE IInv'
    <2>1. policy' \in Policy
      BY <1>7, <1>typ DEF ClaimBackupPolicies, TypeOK, Policy
    <2>2. /\ policy'.version = policy.version /\ policy'.last = policy.last
          /\ policy'.slot = policy.slot /\ policy'.owner = policy.owner /\ policy'.enabled = policy.enabled
          /\ UNCHANGED <<backups, live, edits>>
      BY <1>7, <1>typ DEF ClaimBackupPolicies, TypeOK, Policy
    <2>3. /\ schedulers'[r] = [pc |-> "claimed", slot |-> policy.slot, owner |-> policy.owner,
                               version |-> policy.version, run |-> policy.run]
          /\ \A q \in Schedulers : q # r => schedulers'[q] = schedulers[q]
      BY <1>7, <1>typ DEF ClaimBackupPolicies, TypeOK
    <2>4. schedulers' \in [Schedulers -> Scheduler]
      BY <1>7, <1>typ, SchedulerFields, SchedulerAssumption DEF ClaimBackupPolicies, TypeOK, Scheduler, Slots
    <2>5. ClaimsAreCopies'
      BY <1>7, <2>2, <2>3, <1>typ, SchedulerFields DEF IInv, ClaimsAreCopies, ClaimBackupPolicies
    <2>6. SchedulersSawBackups'
      BY <2>2, <2>3, <1>typ, SchedulerFields DEF IInv, SchedulersSawBackups
    <2> QED BY <2>1, <2>2, <2>4, <2>5, <2>6 DEF IInv, TypeOK, ShownBackupIsScheduled
  <1>8. ASSUME NEW r \in Schedulers, RunFails(r) PROVE IInv'
    <2>1. /\ schedulers' \in [Schedulers -> Scheduler]
          /\ schedulers'[r].pc = "failed" /\ schedulers[r].pc = "claimed"
          /\ schedulers'[r].slot = schedulers[r].slot /\ schedulers'[r].owner = schedulers[r].owner
          /\ schedulers'[r].version = schedulers[r].version
          /\ \A q \in Schedulers : q # r => schedulers'[q] = schedulers[q]
      BY <1>8, <1>typ DEF RunFails, Goto, TypeOK, Scheduler
    <2>2. UNCHANGED <<policy, backups, live, edits>>
      BY <1>8 DEF RunFails
    <2> QED
      BY <2>1, <2>2 DEF IInv, TypeOK, ShownBackupIsScheduled, SchedulersSawBackups, ClaimsAreCopies
  <1>9. ASSUME NEW r \in Schedulers, NEW answered \in BOOLEAN, RequestFlashBackup(r, answered)
        PROVE  IInv'
    <2> DEFINE slot == schedulers[r].slot
    <2>0. schedulers[r].pc = "claimed" /\ slot \in Slots /\ UNCHANGED <<policy, live, edits>>
      BY <1>9 DEF IInv, SchedulersSawBackups, RequestFlashBackup
    <2>1. PICK pc \in {"requested", "failed"} :
            /\ schedulers' = [schedulers EXCEPT ![r].pc = pc]
            /\ pc = "requested" => backups' = [backups EXCEPT ![slot] = Inserted(r)]
            /\ backups' = backups \/ backups' = [backups EXCEPT ![slot] = Inserted(r)]
      <3>1. CASE KeyConflicts(r)
        BY <1>9, <3>1 DEF RequestFlashBackup, Goto
      <3>2. CASE ~KeyConflicts(r)
        BY <1>9, <3>2 DEF RequestFlashBackup, Goto
      <3> QED BY <3>1, <3>2
    <2>2. /\ schedulers' \in [Schedulers -> Scheduler]
          /\ schedulers'[r].pc = pc
          /\ schedulers'[r].slot = schedulers[r].slot /\ schedulers'[r].owner = schedulers[r].owner
          /\ schedulers'[r].version = schedulers[r].version
          /\ \A q \in Schedulers : q # r => schedulers'[q] = schedulers[q]
      BY <2>1, <1>typ DEF TypeOK, Scheduler
    <2>b. backups[slot] \in Backup /\ schedulers[r].owner \in Owners /\ schedulers[r].run \in Nat
      BY <2>0, <1>typ, SchedulerFields
    <2>3. Inserted(r) \in Backup /\ Inserted(r).exists
      BY <2>b DEF Inserted, Backup
    <2>4. backups' \in [Slots -> Backup]
      BY <2>0, <2>1, <2>3, <1>typ DEF TypeOK
    <2>5. \A t \in Slots : backups[t].exists => backups'[t] = backups[t]
      BY <2>0, <2>1, <1>typ DEF TypeOK, Inserted
    <2>6. pc = "requested" => backups'[slot].exists
      BY <2>0, <2>1, <2>3, <1>typ DEF TypeOK
    <2>7. ShownBackupIsScheduled'
      BY <2>0, <2>5, <1>typ, SchedulerFields, SchedulerAssumption DEF IInv, ShownBackupIsScheduled, Slots
    <2>8. SchedulersSawBackups'
      <3> SUFFICES ASSUME NEW q \in Schedulers
          PROVE  /\ schedulers'[q].pc # "idle" => schedulers'[q].slot \in Slots
                 /\ schedulers'[q].pc \in {"requested", "succeeded"} => backups'[schedulers'[q].slot].exists
                 /\ schedulers'[q].pc = "succeeded" => backups'[schedulers'[q].slot].attached
        BY DEF SchedulersSawBackups
      <3>1. CASE q = r
        BY <3>1, <2>0, <2>1, <2>2, <2>6
      <3>2. CASE q # r
        BY <3>2, <2>2, <2>5 DEF IInv, SchedulersSawBackups
      <3> QED BY <3>1, <3>2
    <2>9. ClaimsAreCopies'
      BY <2>0, <2>2 DEF IInv, ClaimsAreCopies
    <2> QED BY <2>0, <2>2, <2>4, <2>7, <2>8, <2>9 DEF IInv, TypeOK
  <1>10. ASSUME NEW r \in Schedulers, NEW attached \in BOOLEAN, NEW answered \in BOOLEAN,
                AttachScheduledBackup(r, attached, answered)
         PROVE  IInv'
    <2> DEFINE slot == schedulers[r].slot
    <2>0. schedulers[r].pc = "requested" /\ slot \in Slots /\ backups[slot].exists
          /\ UNCHANGED <<policy, live, edits>>
      BY <1>10 DEF IInv, SchedulersSawBackups, AttachScheduledBackup
    <2>1. PICK pc \in {"succeeded", "failed"} :
            /\ schedulers' = [schedulers EXCEPT ![r].pc = pc]
            /\ pc = "succeeded" => attached
      BY <1>10 DEF AttachScheduledBackup, Goto
    <2>2. /\ schedulers' \in [Schedulers -> Scheduler]
          /\ schedulers'[r].pc = pc
          /\ schedulers'[r].slot = schedulers[r].slot /\ schedulers'[r].owner = schedulers[r].owner
          /\ schedulers'[r].version = schedulers[r].version
          /\ \A q \in Schedulers : q # r => schedulers'[q] = schedulers[q]
      BY <2>1, <1>typ DEF TypeOK, Scheduler
    <2>3. backups' \in [Slots -> Backup]
      BY <1>10, <2>0, <1>typ DEF TypeOK, AttachScheduledBackup, Backup
    <2>4. \A t \in Slots : /\ backups[t].exists => backups'[t].exists
                           /\ backups[t].attached => backups'[t].attached
      BY <1>10, <2>0, <1>typ DEF TypeOK, AttachScheduledBackup, Backup
    <2>5. pc = "succeeded" => backups'[slot].attached
      BY <1>10, <2>0, <2>1, <1>typ DEF TypeOK, AttachScheduledBackup, Backup
    <2>6. ShownBackupIsScheduled'
      BY <2>0, <2>4, <1>typ, SchedulerFields, SchedulerAssumption DEF IInv, ShownBackupIsScheduled, Slots
    <2>7. SchedulersSawBackups'
      <3> SUFFICES ASSUME NEW q \in Schedulers
          PROVE  /\ schedulers'[q].pc # "idle" => schedulers'[q].slot \in Slots
                 /\ schedulers'[q].pc \in {"requested", "succeeded"} => backups'[schedulers'[q].slot].exists
                 /\ schedulers'[q].pc = "succeeded" => backups'[schedulers'[q].slot].attached
        BY DEF SchedulersSawBackups
      <3>1. CASE q = r
        BY <3>1, <2>0, <2>1, <2>2, <2>4, <2>5
      <3>2. CASE q # r
        BY <3>2, <2>2, <2>4 DEF IInv, SchedulersSawBackups
      <3> QED BY <3>1, <3>2
    <2>8. ClaimsAreCopies'
      BY <2>0, <2>2 DEF IInv, ClaimsAreCopies
    <2> QED BY <2>0, <2>2, <2>3, <2>6, <2>7, <2>8 DEF IInv, TypeOK
  <1>11. ASSUME NEW r \in Schedulers, FinishBackupPolicy(r) PROVE IInv'
    <2>1. /\ schedulers' \in [Schedulers -> Scheduler] /\ schedulers'[r].pc = "idle"
          /\ \A q \in Schedulers : q # r => schedulers'[q] = schedulers[q]
          /\ UNCHANGED <<backups, live, edits>>
      BY <1>11, <1>typ, <1>ne DEF FinishBackupPolicy, Rest, TypeOK
    <2>2. /\ policy' \in Policy
          /\ \/ policy' = policy
             \/ /\ policy'.version = policy.version + 1
                /\ policy'.last = policy.last
                     \/ (schedulers[r].pc = "succeeded" /\ policy'.last = schedulers[r].slot)
      <3>1. CASE ~Fenced(r)
        BY <1>11, <3>1, <1>typ DEF FinishBackupPolicy, TypeOK
      <3>2. CASE Fenced(r)
        <4>1. policy.slot + 1 \in Slots /\ schedulers[r].slot \in 0..MaxSlots /\ policy.run + 1 \in Nat
          BY <1>11, <3>2, <1>typ, SchedulerFields, SchedulerAssumption DEF FinishBackupPolicy, Slots
        <4> DEFINE ok == schedulers[r].pc = "succeeded"
                   last == IF ok THEN schedulers[r].slot ELSE policy.last
                   run == IF ok THEN policy.run + 1 ELSE policy.run
                   failed == ~ok
        <4>2. last \in 0..MaxSlots /\ run \in Nat /\ failed \in BOOLEAN
          BY <4>1, <1>typ, SchedulerFields
        <4>3. policy' = [policy EXCEPT !.lease = "none", !.held = FALSE, !.slot = @ + 1, !.due = FALSE,
                           !.version = @ + 1, !.failed = failed, !.last = last, !.run = run]
          BY <1>11, <3>2 DEF FinishBackupPolicy
        <4>4. last = policy.last \/ (schedulers[r].pc = "succeeded" /\ last = schedulers[r].slot)
          OBVIOUS
        <4> HIDE DEF ok, last, run, failed
        <4>5. policy' \in Policy /\ policy'.version = policy.version + 1 /\ policy'.last = last
          <5>1. policy \in Policy /\ policy.version + 1 \in Nat
            BY <1>typ, SchedulerFields DEF TypeOK
          <5>3. policy' = [policy EXCEPT !.lease = "none", !.held = FALSE, !.slot = policy.slot + 1,
                             !.due = FALSE, !.version = policy.version + 1, !.failed = failed,
                             !.last = last, !.run = run]
            BY <4>3
          <5>4. [policy EXCEPT !.lease = "none", !.held = FALSE, !.slot = policy.slot + 1,
                   !.due = FALSE, !.version = policy.version + 1, !.failed = failed,
                   !.last = last, !.run = run] \in Policy
            BY <4>1, <4>2, <5>1 DEF Policy
          <5>5. policy'.version = policy.version + 1 /\ policy'.last = last
            BY <5>1, <5>3 DEF Policy
          <5> QED BY <5>3, <5>4, <5>5
        <4> QED BY <4>4, <4>5
      <3> QED BY <3>1, <3>2
    <2>3. ShownBackupIsScheduled'
      BY <2>1, <2>2 DEF IInv, ShownBackupIsScheduled, SchedulersSawBackups
    <2>4. SchedulersSawBackups'
      BY <2>1 DEF IInv, SchedulersSawBackups
    <2>5. ClaimsAreCopies'
      BY <2>1, <2>2, <1>typ, SchedulerFields DEF IInv, ClaimsAreCopies
    <2> QED BY <2>1, <2>2, <2>3, <2>4, <2>5 DEF IInv, TypeOK
  <1>12. ASSUME NEW r \in Schedulers, SchedulerCrashes(r) PROVE IInv'
    <2>1. /\ schedulers' \in [Schedulers -> Scheduler] /\ schedulers'[r].pc = "idle"
          /\ \A q \in Schedulers : q # r => schedulers'[q] = schedulers[q]
          /\ UNCHANGED <<policy, backups, live, edits>>
      BY <1>12, <1>typ, <1>ne DEF SchedulerCrashes, Rest, TypeOK
    <2> QED
      BY <2>1 DEF IInv, TypeOK, ShownBackupIsScheduled, SchedulersSawBackups, ClaimsAreCopies
  <1> QED
    BY <1>1, <1>2, <1>3, <1>4, <1>5, <1>6, <1>7, <1>8, <1>9, <1>10, <1>11, <1>12
    DEF Next, UserStep, Advance

\* finish_backup_policy: the backup that a policy shows is stored and attached to
\* the schedule, however many replicas run the schedule and wherever they stop.
THEOREM ShownBackup == Spec => []ShownBackupIsScheduled
  <1>1. IInv => ShownBackupIsScheduled
    BY DEF IInv
  <1> QED BY <1>1, InitIInv, StepIInv, PTL DEF Spec

\* A step that records an outcome does so for a claim that is still current.
LEMMA StepOutcome ==
  ASSUME IInv, [Next]_vars, NEW r \in Schedulers,
         schedulers[r].pc \in {"succeeded", "failed"}, policy'.slot # policy.slot,
         schedulers'[r].pc = "idle"
  PROVE  /\ schedulers[r].slot = policy.slot
         /\ schedulers[r].owner = policy.owner
         /\ policy.enabled
  <1>typ. TypeOK
    BY DEF IInv
  <1>1. schedulers' # schedulers /\ policy' # policy
    OBVIOUS
  <1>2. PICK q \in Schedulers : ClaimBackupPolicies(q) \/ FinishBackupPolicy(q)
    BY <1>1
    DEF Next, vars, UserStep, Advance, PutFlashBackupPolicy, RunFlashBackupPolicyNow,
        RequestFlashBackupDelete, BeginDeleteServiceInstance, RunBecomesDue, LeaseExpires,
        RunFails, RequestFlashBackup, AttachScheduledBackup, SchedulerCrashes
  <1>3. ~ClaimBackupPolicies(q)
    BY <1>typ DEF ClaimBackupPolicies, TypeOK, Policy
  <1>4. FinishBackupPolicy(q) /\ Fenced(q)
    BY <1>1, <1>2, <1>3 DEF FinishBackupPolicy
  <1>5. q = r
    BY <1>4, <1>typ DEF FinishBackupPolicy, Rest, TypeOK
  <1> QED BY <1>4, <1>5 DEF Fenced, IInv, ClaimsAreCopies

\* finish_backup_policy: its fence on the lease, the owner and updated_at admits
\* an outcome only for the run and the settings in force.
THEOREM OutcomeCurrent == Spec => OutcomeIsCurrent
  <1>1. IInv /\ [Next]_vars =>
          [\A r \in Schedulers :
             (schedulers[r].pc \in {"succeeded", "failed"} /\ policy'.slot # policy.slot
                /\ schedulers'[r].pc = "idle") =>
             /\ schedulers[r].slot = policy.slot
             /\ schedulers[r].owner = policy.owner
             /\ policy.enabled]_vars
    BY StepOutcome
  <1> QED BY <1>1, InitIInv, StepIInv, PTL DEF Spec, OutcomeIsCurrent
=============================================================================
