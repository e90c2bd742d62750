--------------------------- MODULE BackupScheduler ---------------------------
(***************************************************************************)
(* Scheduled backups of one Flash service: its flash_backup_policies row,  *)
(* users who edit it, and the schedulers of the API replicas that claim it *)
(* by a lease, request a backup under a key made from next_run_at, attach  *)
(* the backup to the schedule and record the outcome.                      *)
(*                                                                         *)
(* Times are abstract.  A slot is a value of next_run_at; now() gives a    *)
(* new one.  updated_at is a version.  A scheduler holds one claim at a    *)
(* time, so its name stands for the lease_until it was given.              *)
(***************************************************************************)
EXTENDS Naturals, FiniteSets

CONSTANTS
  Owners,      \* the principal and destination of a policy, which users edit
  Schedulers,  \* API replicas that run the scheduler
  MaxSlots,    \* bound on the values of next_run_at
  MaxEdits     \* bound on the edits of users

ASSUME SchedulerAssumption ==
  /\ Owners # {}
  /\ "none" \notin Schedulers
  /\ MaxSlots \in Nat \ {0}
  /\ MaxEdits \in Nat

VARIABLES
  policy,      \* the row of flash_backup_policies
  backups,     \* the scheduled backups, by the slot their key is made from
  schedulers,  \* what each scheduler is doing
  live,        \* the service is not being deleted
  edits        \* number of edits so far

vars == <<policy, backups, schedulers, live, edits>>
-----------------------------------------------------------------------------
(***************************************************************************)
(* State.                                                                  *)
(***************************************************************************)

Slots == 1..MaxSlots

\* due: next_run_at <= now(); held: lease_until >= now(); last: last_backup_id.
\* run numbers the runs that were asked for: a retry after an error has the
\* number of the run it retries.
Policy == [enabled : BOOLEAN, owner : Owners, slot : Slots, due : BOOLEAN,
           lease : Schedulers \cup {"none"}, held : BOOLEAN, version : Nat,
           failed : BOOLEAN, last : 0..MaxSlots, run : Nat]

\* The row of flash_backups that a slot's key has.
Backup == [exists : BOOLEAN, owner : Owners, run : Nat, attached : BOOLEAN,
           deleteRequested : BOOLEAN]

NoBackup == [exists |-> FALSE, owner |-> CHOOSE o \in Owners : TRUE, run |-> 0,
             attached |-> FALSE, deleteRequested |-> FALSE]

\* A scheduler works on the copy of the row that the claim returned.
Scheduler == [pc : {"idle", "claimed", "requested", "succeeded", "failed"},
              slot : 0..MaxSlots, owner : Owners, version : Nat, run : Nat]

Resting == [pc |-> "idle", slot |-> 0, owner |-> CHOOSE o \in Owners : TRUE,
            version |-> 0, run |-> 0]

\* The policy has just been inserted; its first run is due at once.
Init ==
  /\ \E owner \in Owners :
       policy = [enabled |-> TRUE, owner |-> owner, slot |-> 1, due |-> TRUE,
                 lease |-> "none", held |-> FALSE, version |-> 0,
                 failed |-> FALSE, last |-> 0, run |-> 1]
  /\ backups = [s \in Slots |-> NoBackup]
  /\ schedulers = [r \in Schedulers |-> Resting]
  /\ live = TRUE
  /\ edits = 0
-----------------------------------------------------------------------------
(***************************************************************************)
(* Users and time.                                                         *)
(***************************************************************************)

Edit == edits < MaxEdits /\ edits' = edits + 1

PutFlashBackupPolicy(enabled, owner) ==
  /\ live
  /\ Edit
  /\ policy' = [policy EXCEPT !.enabled = enabled, !.owner = owner, !.version = @ + 1]
  /\ UNCHANGED <<backups, schedulers, live>>

Unleased == policy.lease = "none" \/ ~policy.held

RunFlashBackupPolicyNow ==
  /\ live
  /\ policy.enabled /\ Unleased
  /\ policy.slot < MaxSlots
  /\ Edit
  /\ policy' = [policy EXCEPT !.slot = @ + 1, !.due = TRUE, !.version = @ + 1, !.run = @ + 1]
  /\ UNCHANGED <<backups, schedulers, live>>

RequestFlashBackupDelete(s) ==
  /\ backups[s].exists /\ ~backups[s].deleteRequested
  /\ Edit
  /\ backups' = [backups EXCEPT ![s].deleteRequested = TRUE]
  /\ UNCHANGED <<policy, schedulers, live>>

BeginDeleteServiceInstance ==
  /\ live
  /\ live' = FALSE
  /\ UNCHANGED <<policy, backups, schedulers, edits>>

RunBecomesDue ==
  /\ ~policy.due
  /\ policy' = [policy EXCEPT !.due = TRUE]
  /\ UNCHANGED <<backups, schedulers, live, edits>>

\* Two minutes after the claim.
LeaseExpires ==
  /\ policy.lease # "none" /\ policy.held
  /\ policy' = [policy EXCEPT !.held = FALSE]
  /\ UNCHANGED <<backups, schedulers, live, edits>>
-----------------------------------------------------------------------------
(***************************************************************************)
(* A scheduler: claim_backup_policies, run_backup_policy and               *)
(* finish_backup_policy.                                                   *)
(***************************************************************************)

Goto(r, pc) == schedulers' = [schedulers EXCEPT ![r].pc = pc]

Rest(r) == schedulers' = [schedulers EXCEPT ![r] = Resting]

\* Mutant: a lease must have been given back.
ClaimUnleased(r) ==
  /\ schedulers[r].pc = "idle"
  /\ policy.enabled /\ policy.due /\ policy.lease = "none" /\ live
  /\ policy' = [policy EXCEPT !.lease = r, !.held = TRUE]
  /\ schedulers' = [schedulers EXCEPT ![r] =
       [pc |-> "claimed", slot |-> policy.slot, owner |-> policy.owner,
        version |-> policy.version, run |-> policy.run]]
  /\ UNCHANGED <<backups, live, edits>>

ClaimBackupPolicies(r) ==
  /\ schedulers[r].pc = "idle"
  /\ policy.enabled /\ policy.due /\ Unleased /\ live
  /\ policy' = [policy EXCEPT !.lease = r, !.held = TRUE]
  /\ schedulers' = [schedulers EXCEPT ![r] =
       [pc |-> "claimed", slot |-> policy.slot, owner |-> policy.owner,
        version |-> policy.version, run |-> policy.run]]
  /\ UNCHANGED <<backups, live, edits>>

\* The owner has lost a permission, the source is not available, a destination
\* is not ready, the backup quota is exhausted: nothing is stored.
RunFails(r) ==
  /\ schedulers[r].pc = "claimed"
  /\ Goto(r, "failed")
  /\ UNCHANGED <<policy, backups, live, edits>>

\* The key is taken by a request with other settings, or one that is deleted.
KeyConflicts(r) ==
  LET b == backups[schedulers[r].slot] IN
  b.exists /\ (b.owner # schedulers[r].owner \/ b.deleteRequested)

\* The INSERT, unless the key is already there.
Inserted(r) ==
  LET b == backups[schedulers[r].slot] IN
  IF b.exists THEN b
    ELSE [exists |-> TRUE, owner |-> schedulers[r].owner, run |-> schedulers[r].run,
          attached |-> FALSE, deleteRequested |-> FALSE]

\* request_flash_backup_to.  answered: the outcome of the transaction reaches
\* the scheduler.
RequestFlashBackup(r, answered) ==
  /\ schedulers[r].pc = "claimed"
  /\ backups[schedulers[r].slot].exists \/ live
  /\ IF KeyConflicts(r)
       THEN UNCHANGED backups /\ Goto(r, "failed")
       ELSE /\ backups' = [backups EXCEPT ![schedulers[r].slot] = Inserted(r)]
            /\ Goto(r, IF answered THEN "requested" ELSE "failed")
  /\ UNCHANGED <<policy, live, edits>>

\* Mutant: the result of the UPDATE is ignored.
AttachIgnored(r, attached, answered) ==
  /\ schedulers[r].pc = "requested"
  /\ answered => attached
  /\ backups' = [backups EXCEPT ![schedulers[r].slot].attached = @ \/ attached]
  /\ Goto(r, "succeeded")
  /\ UNCHANGED <<policy, live, edits>>

\* The UPDATE may fail, or be committed without an answer.
AttachScheduledBackup(r, attached, answered) ==
  /\ schedulers[r].pc = "requested"
  /\ answered => attached
  /\ backups' = [backups EXCEPT ![schedulers[r].slot].attached = @ \/ attached]
  /\ Goto(r, IF answered THEN "succeeded" ELSE "failed")
  /\ UNCHANGED <<policy, live, edits>>

\* Mutant: the outcome is fenced by the lease alone.
LeaseIsMine(r) == policy.lease = r

\* WHERE lease_until = ... AND principal_id = ... AND updated_at = ...
Fenced(r) ==
  /\ policy.lease = r
  /\ policy.owner = schedulers[r].owner
  /\ policy.version = schedulers[r].version

\* next_run_at is an interval away, or at most 15 minutes after an error.
FinishBackupPolicy(r) ==
  LET ok == schedulers[r].pc = "succeeded" IN
  /\ schedulers[r].pc \in {"succeeded", "failed"}
  /\ IF Fenced(r)
       THEN /\ policy.slot < MaxSlots
            /\ policy' = [policy EXCEPT
                 !.lease = "none", !.held = FALSE, !.slot = @ + 1, !.due = FALSE,
                 !.version = @ + 1, !.failed = ~ok,
                 !.last = IF ok THEN schedulers[r].slot ELSE @,
                 !.run = IF ok THEN @ + 1 ELSE @]
       ELSE UNCHANGED policy
  /\ Rest(r)
  /\ UNCHANGED <<backups, live, edits>>

\* The replica stops, or the final write fails.
SchedulerCrashes(r) ==
  /\ schedulers[r].pc # "idle"
  /\ Rest(r)
  /\ UNCHANGED <<policy, backups, live, edits>>
-----------------------------------------------------------------------------
UserStep ==
  \/ \E enabled \in BOOLEAN, owner \in Owners : PutFlashBackupPolicy(enabled, owner)
  \/ RunFlashBackupPolicyNow
  \/ \E s \in Slots : RequestFlashBackupDelete(s)
  \/ BeginDeleteServiceInstance

Advance(r) ==
  \/ RunFails(r)
  \/ \E answered \in BOOLEAN : RequestFlashBackup(r, answered)
  \/ \E attached, answered \in BOOLEAN : AttachScheduledBackup(r, attached, answered)
  \/ FinishBackupPolicy(r)

Next ==
  \/ UserStep
  \/ RunBecomesDue \/ LeaseExpires
  \/ \E r \in Schedulers : ClaimBackupPolicies(r) \/ Advance(r) \/ SchedulerCrashes(r)

Spec == Init /\ [][Next]_vars

\* A lease that its scheduler outlives: the run took more than two minutes.
SlowRun == LeaseExpires /\ schedulers[policy.lease].pc # "idle"

\* The schedulers tick every 15 seconds for ever and carry a claimed run through;
\* time passes; some day they stop crashing and runs take less than their lease
\* (else two schedulers may overtake each other for ever).
FairSpec ==
  /\ Spec
  /\ <>[][\A r \in Schedulers : ~SchedulerCrashes(r) \/ FinishBackupPolicy(r)]_vars
  /\ <>[][~SlowRun]_vars
  /\ WF_vars(LeaseExpires)
  /\ \A r \in Schedulers : WF_vars(ClaimBackupPolicies(r)) /\ WF_vars(Advance(r))
-----------------------------------------------------------------------------
(***************************************************************************)
(* Properties.                                                             *)
(***************************************************************************)

\* The columns and the schedulers' copies have their types.
TypeOK ==
  /\ policy \in Policy
  /\ backups \in [Slots -> Backup]
  /\ schedulers \in [Schedulers -> Scheduler]
  /\ live \in BOOLEAN
  /\ edits \in 0..MaxEdits

\* run_backup_policy: the last backup that the policy shows exists and belongs
\* to the schedule, so that retention counts it.
ShownBackupIsScheduled ==
  policy.last # 0 => backups[policy.last].exists /\ backups[policy.last].attached

\* finish_backup_policy: an outcome is recorded only for the run and under the
\* settings that are in force, although a scheduler may be overtaken by an edit,
\* a run that users ask for, or another scheduler.
OutcomeIsCurrent ==
  [][\A r \in Schedulers :
       (schedulers[r].pc \in {"succeeded", "failed"} /\ policy'.slot # policy.slot
          /\ schedulers'[r].pc = "idle") =>
       /\ schedulers[r].slot = policy.slot
       /\ schedulers[r].owner = policy.owner
       /\ policy.enabled]_vars

\* claim_backup_policies: a due run of an enabled policy does not hang on a
\* scheduler that has gone away.
DueRunHappens ==
  \A s \in 1..(MaxSlots - 1) :
    (policy.slot = s /\ policy.due /\ policy.enabled /\ live)
      ~> (policy.slot # s \/ ~policy.enabled \/ ~live)
=============================================================================
