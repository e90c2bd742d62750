----------------------------- MODULE Allocation -----------------------------
(***************************************************************************)
(* The transactions that allocate: services created, changed, started,     *)
(* stopped and deleted, limits set, unassigned resources handed to members *)
(* and the GPU catalogue synchronized.                                     *)
(*                                                                         *)
(* A transaction takes PostgreSQL advisory locks one after the other, then *)
(* reads and decides, and commits in a later step, which releases them.    *)
(* Only the locks keep what it read true until then: READ COMMITTED lets   *)
(* any transaction that does not take the same lock commit in between.     *)
(* Authorization is the subject of other modules; here every member may    *)
(* ask, and every administrator.                                           *)
(***************************************************************************)
EXTENDS Quotas, Sequences

CONSTANTS
    Txns,      \* database sessions
    Catalogues,\* sets of users, or NoUser: what the provider may grant a GPU type to
    Idle,      \* a session without a transaction
    NoSpec,    \* nothing to write to a specification
    Unfetched  \* the provider has not answered yet

VARIABLES
    txn,    \* what each session is doing
    access  \* the Flash provider's own record of who may use the GPU type

allocationVars == <<quotaVars, txn, access>>

Robot == "service account"
DisplayedOnly == "list"

(***************************************************************************)
(* Locks                                                                   *)
(***************************************************************************)
Shared(name) == [name |-> name, shared |-> TRUE]
Exclusive(name) == [name |-> name, shared |-> FALSE]

\* Variant: the account alone is locked.
TenantLocksWithoutCloud(a) == <<Shared(<<"defaults">>), Exclusive(<<"account", a>>)>>

\* lock_tenant_allocations: the defaults in shared mode, the cloud organization, the account.
\* (Postgres grants a lock again to the session that has it: the second call in a creation
\* changes nothing.)
TenantLocks(a) ==
    <<Shared(<<"defaults">>), Exclusive(<<"cloud", CloudOf[a]>>), Exclusive(<<"account", a>>)>>

\* Variant: names are not locked.
NoNameLocks(s) == << >>

\* lock_flash_allocations, lock_syouyu_bucket_names
NameLocks(s) ==
    CASE ProviderOf[s] = "flash" -> <<Exclusive(<<"flash">>)>>
      [] ProviderOf[s] = "syouyu" -> <<Exclusive(<<"buckets">>)>>
      [] OTHER -> << >>

\* Variant: a creation locks names first.
LockPlanNamesFirst(r) ==
    IF r.op = "create" THEN NameLocks(r.svc) \o TenantLocks(AccountOf[r.svc])
    ELSE IF r.op \in {"update", "start", "stop"} THEN TenantLocks(AccountOf[r.svc]) \o NameLocks(r.svc)
    ELSE IF r.op = "delete" THEN TenantLocks(AccountOf[r.svc])
    ELSE IF r.op = "defaults" THEN <<Exclusive(<<"defaults">>)>>
    ELSE IF r.op = "sync" THEN <<Exclusive(<<"flash">>)>>
    ELSE TenantLocks(r.account)

\* Variant: the GPU catalogue has a lock of its own.
LockPlanCatalogue(r) ==
    IF r.op \in {"create", "update", "start", "stop"} THEN TenantLocks(AccountOf[r.svc]) \o NameLocks(r.svc)
    ELSE IF r.op = "delete" THEN TenantLocks(AccountOf[r.svc])
    ELSE IF r.op = "defaults" THEN <<Exclusive(<<"defaults">>)>>
    ELSE IF r.op = "sync" THEN <<Exclusive(<<"catalogue">>)>>
    ELSE TenantLocks(r.account)

\* The locks of a request, in the order in which it takes them.
LockPlan(r) ==
    CASE r.op \in {"create", "update", "start", "stop"} -> TenantLocks(AccountOf[r.svc]) \o NameLocks(r.svc)
      [] r.op = "delete" -> TenantLocks(AccountOf[r.svc])
      [] r.op \in {"quota", "member", "assign"} -> TenantLocks(r.account)
      [] r.op = "defaults" -> <<Exclusive(<<"defaults">>)>>
      [] r.op = "sync" -> <<Exclusive(<<"flash">>)>>

HeldBy(t) == IF txn[t] = Idle THEN {} ELSE {LockPlan(txn[t].req)[i] : i \in 1 .. txn[t].held}
Conflicting(l, m) == l.name = m.name /\ ~(l.shared /\ m.shared)

AllHeld(t) == txn[t] # Idle /\ txn[t].held = Len(LockPlan(txn[t].req))
NextLock(t) == LockPlan(txn[t].req)[txn[t].held + 1]
\* u has a lock that t is waiting for.
Blocks(u, t) == /\ u # t /\ txn[t] # Idle /\ ~AllHeld(t)
                /\ \E l \in HeldBy(u) : Conflicting(l, NextLock(t))

Begun(r) == [req |-> r, held |-> 0, checked |-> FALSE, spec |-> NoSpec]

TakeLock(t) ==
    /\ txn[t] # Idle /\ ~AllHeld(t)
    /\ txn[t].req.op = "sync" => txn[t].req.catalogue # Unfetched
    /\ \A u \in Txns : ~Blocks(u, t)
    /\ txn' = [txn EXCEPT ![t].held = @ + 1]
    /\ UNCHANGED <<quotaVars, access>>

(***************************************************************************)
(* Requests, as the routes hand them to the store                          *)
(***************************************************************************)
\* quota_user_for_actor: whom a creation is charged to, read before the transaction.  An API
\* key or a role acts for the service account, a workload for its service.
QuotaUser(a, actor) ==
    CASE actor \in Users -> actor
      [] actor = Robot -> robot[a]
      [] actor \in Services -> svc[actor].owner

\* The person behind the principal, whose private GPUs may be used.
PersonOf(actor) == IF actor \in Users THEN actor ELSE NoUser

\* quota_human_context, quota_administrator: members that are owner or admin.
QuotaAdministrator(a) == AdminsOf[a] # {}

\* What the validation of each kind of specification tells apart here: a bucket has a name, a
\* VPC has groups, and a Flash service names groups exactly when it is attached to a VPC.  Ports
\* are not asked for: the store assigns them.  The bounds on every other field are left out.
Plain(spec) == /\ spec.vpc = NoVpc
               /\ ~spec.public /\ ~spec.stopped /\ ~spec.gpu
ValidFlowSpec(spec) == Plain(spec) /\ spec.groups = {} /\ spec.bucket = NoBucket
ValidSyouyuSpec(spec) == Plain(spec) /\ spec.groups = {} /\ spec.bucket # NoBucket
ValidVpcSpec(spec) == /\ Plain(spec) /\ spec.bucket = NoBucket
                      /\ spec.groups # {} /\ spec.units = 1
ValidAttachment(spec) == (spec.groups # {}) <=> (spec.vpc # NoVpc)
ValidFlashSpec(spec) == spec.bucket = NoBucket /\ ValidAttachment(spec)

ValidSpecs == [s \in Services |->
    {spec \in SpecOf :
        /\ spec.port = NoPort
        /\ CASE ProviderOf[s] = "flow" -> ValidFlowSpec(spec)
             [] ProviderOf[s] = "flash" -> ValidFlashSpec(spec)
             [] ProviderOf[s] = "syouyu" -> ValidSyouyuSpec(spec)
             [] ProviderOf[s] = "vpc" -> ValidVpcSpec(spec)}]

\* A request for a GPU synchronizes the catalogue before anything else.
SyncThen(r) == [op |-> "sync", catalogue |-> Unfetched, then |-> r]
CreateFor(s, actor, spec) ==
    [op |-> "create", svc |-> s, person |-> PersonOf(actor),
     owner |-> QuotaUser(AccountOf[s], actor), spec |-> spec]

Begin(t, r) == txn[t] = Idle /\ txn' = [txn EXCEPT ![t] = Begun(r)]

\* create_realtime_service, create_flash_service, create_syouyu_bucket, create_vpc
CreateRealtimeService(t, s, actor, spec) ==
    /\ ProviderOf[s] = "flow" /\ ~Present(s)
    /\ actor \in Services => Live(actor)
    /\ Begin(t, CreateFor(s, actor, spec))
    /\ UNCHANGED <<quotaVars, access>>
CreateFlashService(t, s, actor, spec) ==
    /\ ProviderOf[s] = "flash" /\ ~Present(s)
    /\ actor \in Services => Live(actor)
    /\ Begin(t, IF spec.gpu THEN SyncThen([op |-> "create", svc |-> s, actor |-> actor, spec |-> spec])
                ELSE CreateFor(s, actor, spec))
    /\ UNCHANGED <<quotaVars, access>>
CreateSyouyuBucket(t, s, actor, spec) ==
    /\ ProviderOf[s] = "syouyu" /\ ~Present(s)
    /\ actor \in Services => Live(actor)
    /\ Begin(t, CreateFor(s, actor, spec))
    /\ UNCHANGED <<quotaVars, access>>
CreateVpc(t, s, actor, spec) ==
    /\ ProviderOf[s] = "vpc" /\ ~Present(s)
    /\ actor \in Services => Live(actor)
    /\ Begin(t, CreateFor(s, actor, spec))
    /\ UNCHANGED <<quotaVars, access>>

ChangeFor(s, actor, spec) == [op |-> "update", svc |-> s, person |-> PersonOf(actor), spec |-> spec]

\* update_realtime_service: the service is read first, and a request that names only a new name
\* writes the specification that was read, however old it is by then.
UpdateRealtimeService(t, s, actor, spec) ==
    /\ ProviderOf[s] = "flow" /\ Present(s)
    /\ \/ Begin(t, ChangeFor(s, actor, spec))
       \/ Begin(t, ChangeFor(s, actor, svc[s].spec))
    /\ UNCHANGED <<quotaVars, access>>
UpdateFlashService(t, s, actor, spec) ==
    /\ ProviderOf[s] = "flash" /\ Present(s)
    /\ Begin(t, IF spec.gpu THEN SyncThen(ChangeFor(s, actor, spec)) ELSE ChangeFor(s, actor, spec))
    /\ UNCHANGED <<quotaVars, access>>
UpdateSyouyuBucket(t, s, actor, spec) ==
    /\ ProviderOf[s] = "syouyu" /\ Present(s)
    /\ Begin(t, ChangeFor(s, actor, spec))
    /\ UNCHANGED <<quotaVars, access>>
UpdateVpc(t, s, actor, spec) ==
    /\ ProviderOf[s] = "vpc"
    /\ Begin(t, ChangeFor(s, actor, spec))
    /\ UNCHANGED <<quotaVars, access>>

\* start_flash_service, stop_flash_service
SetFlashServiceExecution(t, s, actor, op) ==
    /\ ProviderOf[s] = "flash" /\ op \in {"start", "stop"}
    /\ Begin(t, [op |-> op, svc |-> s, person |-> PersonOf(actor)])
    /\ UNCHANGED <<quotaVars, access>>

\* delete_realtime_service, delete_flash_service, delete_syouyu_bucket, delete_vpc
DeleteService(t, s) ==
    /\ ProviderOf[s] \in {"flash", "syouyu"} => Present(s)
    /\ Begin(t, [op |-> "delete", svc |-> s])
    /\ UNCHANGED <<quotaVars, access>>

\* update_owner_quota_defaults, update_owner_organization_quota, clear_owner_organization_quota
UpdateOwnerQuotaDefaults(t, limits) ==
    /\ ValidLimits(limits)
    /\ Begin(t, [op |-> "defaults", limits |-> limits])
    /\ UNCHANGED <<quotaVars, access>>
UpdateOwnerOrganizationQuota(t, a, limits) ==
    /\ limits # NoLimit => ValidLimits(limits)
    /\ Begin(t, [op |-> "quota", account |-> a, limits |-> limits])
    /\ UNCHANGED <<quotaVars, access>>

\* update_member_quota, clear_member_quota
UpdateMemberQuota(t, a, u, limits) ==
    /\ QuotaAdministrator(a)
    /\ Begin(t, [op |-> "member", account |-> a, user |-> u, limits |-> limits])
    /\ UNCHANGED <<quotaVars, access>>

\* assign_quota_resource; the target is a service or the service account
AssignQuotaResource(t, a, target, u) ==
    /\ QuotaAdministrator(a)
    /\ Begin(t, [op |-> "assign", account |-> a, target |-> target, user |-> u])
    /\ UNCHANGED <<quotaVars, access>>

\* list_owner_gpus, list_accessible_gpu_types: both synchronize before they answer.
ListGpus(t) ==
    /\ Begin(t, SyncThen([op |-> DisplayedOnly]))
    /\ UNCHANGED <<quotaVars, access>>

\* update_owner_gpu_access: the provider is changed, and what it then reports is synchronized.
UpdateOwnerGpuAccess(t, users) ==
    /\ users \subseteq ActiveUsers \/ users = {NoUser}
    /\ access' = users
    /\ Begin(t, SyncThen([op |-> DisplayedOnly]))
    /\ UNCHANGED quotaVars

\* sync_gpu_catalog_from_provider asks the provider before it opens the transaction.
FetchCatalogue(t) ==
    /\ txn[t] # Idle /\ txn[t].req.op = "sync" /\ txn[t].req.catalogue = Unfetched
    /\ txn' = [txn EXCEPT ![t].req.catalogue = access]
    /\ UNCHANGED <<quotaVars, access>>
ProviderUnavailable(t) ==
    /\ txn[t] # Idle /\ txn[t].req.op = "sync" /\ txn[t].req.catalogue = Unfetched
    /\ txn' = [txn EXCEPT ![t] = Idle]
    /\ UNCHANGED <<quotaVars, access>>

(***************************************************************************)
(* What the store decides under its locks: the specifications it would     *)
(* write (NoSpec where it writes none), or {} when it refuses.             *)
(***************************************************************************)
Metered(s) == ProviderOf[s] \in QuotaProviders

MaySpend(s, owner, spec, reduction) ==
    /\ Metered(s) => CloudAdmits(s, spec, reduction)
    /\ Metered(s) /\ owner # NoUser => MemberAdmits(s, owner, spec, reduction)
    /\ ProviderOf[s] = "flash" => AttachmentAccepted(s, spec)

\* Variant: member limits are not looked at.
CreateUnowned(r) ==
    {spec \in Prepared(r.svc, r.person, r.spec) :
        /\ ~Present(r.svc)
        /\ r.owner # NoUser => r.owner \in MembersOf[AccountOf[r.svc]]
        /\ MaySpend(r.svc, r.owner, spec, FALSE)}

CreateAccepted(r) ==
    {spec \in Prepared(r.svc, r.person, r.spec) :
        /\ ~Present(r.svc)
        /\ r.owner # NoUser => r.owner \in MembersOf[AccountOf[r.svc]]
        /\ Metered(r.svc) /\ r.owner = NoUser => ~HasMemberLimits(AccountOf[r.svc])
        /\ MaySpend(r.svc, r.owner, spec, FALSE)}

\* Starting a stopped service is not a reduction, whatever else changes.
UpdateAccepted(r) ==
    IF ~Live(r.svc) THEN {}
    ELSE LET starting == svc[r.svc].spec.stopped /\ ~r.spec.stopped
         IN  {spec \in Prepared(r.svc, r.person, r.spec) :
                 MaySpend(r.svc, svc[r.svc].owner, spec, ~starting)}

\* set_flash_service_stopped.  A stop asks for nothing.
StopAccepted(r) ==
    {[spec EXCEPT !.stopped = TRUE] :
        spec \in {row.spec : row \in {q \in {svc[r.svc]} : Live(r.svc) /\ ~q.spec.stopped}}}
StartAccepted(r) ==
    IF ~Live(r.svc) \/ ~svc[r.svc].spec.stopped THEN {}
    ELSE {spec \in Prepared(r.svc, r.person, [svc[r.svc].spec EXCEPT !.stopped = FALSE]) :
             MaySpend(r.svc, svc[r.svc].owner, spec, FALSE)}

\* Variant: attachments are not looked at.
DeleteLive(r) == {x \in {NoSpec} : Live(r.svc)}

DeleteAccepted(r) ==
    {x \in {NoSpec} : /\ ProviderOf[r.svc] = "vpc" => AttachedTo(r.svc) = {}
                      /\ Live(r.svc)}

\* set_member_resource_quota: a limit above the account's is refused, and so is any while
\* something in the account belongs to nobody.
MemberQuotaAccepted(r) ==
    {x \in {NoSpec} :
        /\ r.user \in MembersOf[r.account]
        /\ r.limits # NoLimit =>
              /\ ValidLimits(r.limits)
              /\ ~UnassignedResources(r.account)
              /\ CappedLimits(ResourceQuota(r.account), r.limits) = r.limits}

AssignAccepted(r) ==
    {x \in {NoSpec} :
        /\ r.user \in MembersOf[r.account]
        /\ IF r.target = Robot THEN robot[r.account] = NoUser
           ELSE r.target \in UnassignedServices(r.account)}

Accepted(r) ==
    CASE r.op = "create" -> CreateAccepted(r)
      [] r.op = "update" -> UpdateAccepted(r)
      [] r.op = "start" -> StartAccepted(r)
      [] r.op = "stop" -> StopAccepted(r)
      [] r.op = "delete" -> DeleteAccepted(r)
      [] r.op = "member" -> MemberQuotaAccepted(r)
      [] r.op = "assign" -> AssignAccepted(r)
      [] OTHER -> {NoSpec}

Check(t) ==
    /\ AllHeld(t) /\ ~txn[t].checked
    /\ \E spec \in Accepted(txn[t].req) :
          txn' = [txn EXCEPT ![t].checked = TRUE, ![t].spec = spec]
    /\ UNCHANGED <<quotaVars, access>>

\* The transaction is rolled back, and its locks are released.
Refuse(t) ==
    /\ AllHeld(t) /\ ~txn[t].checked
    /\ Accepted(txn[t].req) = {}
    /\ txn' = [txn EXCEPT ![t] = Idle]
    /\ UNCHANGED <<quotaVars, access>>

(***************************************************************************)
(* Commits                                                                 *)
(***************************************************************************)
Committing(t, ops) == txn[t] # Idle /\ txn[t].checked /\ txn[t].req.op \in ops
Finished(t) == txn' = [txn EXCEPT ![t] = Idle]

CommitCreate(t) ==
    /\ Committing(t, {"create"})
    /\ svc' = [svc EXCEPT ![txn[t].req.svc] =
                  [owner |-> txn[t].req.owner, state |-> "live", spec |-> txn[t].spec]]
    /\ Finished(t)
    /\ UNCHANGED <<defaults, override, member, robot, gpu, access>>

CommitChange(t) ==
    /\ Committing(t, {"update", "start", "stop"})
    /\ svc' = [svc EXCEPT ![txn[t].req.svc].spec = txn[t].spec]
    /\ Finished(t)
    /\ UNCHANGED <<defaults, override, member, robot, gpu, access>>

BeginDelete(t) ==
    /\ Committing(t, {"delete"})
    /\ svc' = [svc EXCEPT ![txn[t].req.svc].state = "deleting"]
    /\ Finished(t)
    /\ UNCHANGED <<defaults, override, member, robot, gpu, access>>

\* The worker removes the row when the provider has removed the service: no advisory lock.
CompleteDelete(s) ==
    /\ Present(s) /\ svc[s].state = "deleting"
    /\ svc' = [svc EXCEPT ![s] = Absent]
    /\ UNCHANGED <<defaults, override, member, robot, gpu, txn, access>>

CommitDefaults(t) ==
    /\ Committing(t, {"defaults"})
    /\ defaults' = txn[t].req.limits
    /\ Finished(t)
    /\ UNCHANGED <<svc, override, member, robot, gpu, access>>

CommitQuota(t) ==
    /\ Committing(t, {"quota"})
    /\ override' = [override EXCEPT ![txn[t].req.account] = txn[t].req.limits]
    /\ Finished(t)
    /\ UNCHANGED <<svc, defaults, member, robot, gpu, access>>

CommitMemberQuota(t) ==
    /\ Committing(t, {"member"})
    /\ member' = [member EXCEPT ![txn[t].req.account][txn[t].req.user] = txn[t].req.limits]
    /\ Finished(t)
    /\ UNCHANGED <<svc, defaults, override, robot, gpu, access>>

CommitAssign(t) ==
    /\ Committing(t, {"assign"})
    /\ IF txn[t].req.target = Robot
       THEN robot' = [robot EXCEPT ![txn[t].req.account] = txn[t].req.user] /\ UNCHANGED svc
       ELSE svc' = [svc EXCEPT ![txn[t].req.target].owner = txn[t].req.user] /\ UNCHANGED robot
    /\ Finished(t)
    /\ UNCHANGED <<defaults, override, member, gpu, access>>

\* sync_gpu_catalog keeps the active users of what was fetched.
KeptUsers(users) == users \cap (ActiveUsers \cup {NoUser})

\* A request for a GPU goes on with its own transaction.
CommitSync(t) ==
    LET next == txn[t].req.then
    IN  /\ Committing(t, {"sync"})
        /\ gpu' = KeptUsers(txn[t].req.catalogue)
        /\ txn' = [txn EXCEPT ![t] =
              CASE next.op = DisplayedOnly -> Idle
                [] next.op = "update" -> Begun(next)
                [] next.op = "create" ->
                      IF next.actor \in Services /\ ~Present(next.actor) THEN Idle
                      ELSE Begun(CreateFor(next.svc, next.actor, next.spec))]
        /\ UNCHANGED <<svc, defaults, override, member, robot, access>>

AllocationInit ==
    /\ svc = [s \in Services |-> Absent]
    /\ defaults \in Limits
    /\ override = [a \in Accounts |-> NoLimit]
    /\ member = [a \in Accounts |-> [u \in MembersOf[a] |-> NoLimit]]
    /\ robot = [a \in Accounts |-> NoUser]
    /\ access \in Catalogues
    /\ gpu = KeptUsers(access)
    /\ txn = [t \in Txns |-> Idle]

(***************************************************************************)
(* The steps of a session, and what it may be asked: operations Ops on the *)
(* services of S and the accounts of A, with the specifications Specs and  *)
(* by the actors By.                                                       *)
(***************************************************************************)
Transact(t) ==
    \/ FetchCatalogue(t) \/ ProviderUnavailable(t)
    \/ TakeLock(t) \/ Check(t) \/ Refuse(t)
    \/ CommitCreate(t) \/ CommitChange(t) \/ BeginDelete(t)
    \/ CommitDefaults(t) \/ CommitQuota(t) \/ CommitMemberQuota(t)
    \/ CommitAssign(t) \/ CommitSync(t)

AskCreate(t, s, actor, spec) ==
    \/ CreateRealtimeService(t, s, actor, spec)
    \/ CreateFlashService(t, s, actor, spec)
    \/ CreateSyouyuBucket(t, s, actor, spec)
    \/ CreateVpc(t, s, actor, spec)

AskUpdate(t, s, actor, spec) ==
    \/ UpdateRealtimeService(t, s, actor, spec)
    \/ UpdateFlashService(t, s, actor, spec)
    \/ UpdateSyouyuBucket(t, s, actor, spec)
    \/ UpdateVpc(t, s, actor, spec)

Ask(t, S, A, Specs, By, Ops) ==
    \/ \E s \in S, actor \in By :
          \/ "create" \in Ops /\ \E spec \in Specs[s] : AskCreate(t, s, actor, spec)
          \/ "update" \in Ops /\ \E spec \in Specs[s] : AskUpdate(t, s, actor, spec)
          \/ \E op \in Ops \cap {"start", "stop"} : SetFlashServiceExecution(t, s, actor, op)
    \/ \E s \in S : "delete" \in Ops /\ DeleteService(t, s)
    \/ "defaults" \in Ops /\ \E limits \in Limits : UpdateOwnerQuotaDefaults(t, limits)
    \/ \E a \in A, limits \in Limits \cup {NoLimit} :
          \/ "quota" \in Ops /\ UpdateOwnerOrganizationQuota(t, a, limits)
          \/ "member" \in Ops /\ \E u \in Users : UpdateMemberQuota(t, a, u, limits)
    \/ \E a \in A, u \in Users, target \in {s \in S : AccountOf[s] \in A} \cup {Robot} :
          "assign" \in Ops /\ AssignQuotaResource(t, a, target, u)
    \/ "sync" \in Ops /\ (ListGpus(t) \/ \E users \in Catalogues : UpdateOwnerGpuAccess(t, users))

AllocationNext(S, A, Specs, By, Ops) ==
    \/ \E t \in Txns : Transact(t) \/ (txn[t] = Idle /\ Ask(t, S, A, Specs, By, Ops))
    \/ \E s \in S : CompleteDelete(s)

\* Every request of every person, service account and workload.
Operations == {"create", "update", "start", "stop", "delete", "defaults", "quota", "member",
               "assign", "sync"}
Actors == Users \cup {Robot} \cup Services
AllocationSpec ==
    AllocationInit /\ [][AllocationNext(Services, Accounts, ValidSpecs, Actors, Operations)]_allocationVars

(***************************************************************************)
(* Properties                                                              *)
(***************************************************************************)
\* Rows, limits and transactions have their types; only active users are ever recorded with
\* access to a GPU (sync_gpu_catalog filters what the provider reports).
AllocationTypeOK ==
    /\ QuotasTypeOK
    /\ gpu \subseteq ActiveUsers \cup {NoUser}
    /\ \A t \in Txns :
          txn[t] # Idle => /\ txn[t].held \in 0 .. Len(LockPlan(txn[t].req))
                           /\ txn[t].checked => AllHeld(t)
                           /\ txn[t].spec \in SpecOf \cup {NoSpec}

\* A step after which an account, its organization or a member with limits of its own uses
\* more than before leaves it within the limits in force after the step.
GrowsWithinLimits ==
    svc' # svc => \A p \in QuotaProviders :
        /\ \A a \in Accounts :
              \A f \in {"services", "total"} :
                 /\ Usage(Allocated(a, p))'[f] > Usage(Allocated(a, p))[f] =>
                       Usage(Allocated(a, p))'[f] <= ResourceQuotaTenant(a, p)'.limits[f]
                 /\ \A u \in MembersOf[a] :
                       (member'[a][u] # NoLimit /\
                        OrganizationMemberQuota(a, p, u)'.usage[f] > OrganizationMemberQuota(a, p, u).usage[f]) =>
                          OrganizationMemberQuota(a, p, u)'.usage[f] <= OrganizationMemberQuota(a, p, u)'.limits[f]
        /\ \A c \in CloudOrganizations :
              \A f \in {"services", "total"} :
                 LET used == Usage(CloudAllocated(c, p))[f]
                 IN  ServiceQuotasEnabled /\ used' > used => used' <= CloudQuota(c)'[p][f]

\* No two commits, of one account, of two accounts of an organization or one of them a change
\* of the limits, together bring usage above a limit (create_service_instance_with_id_for_user
\* and update_service_instance_checked under lock_tenant_allocations).
AdmissionRespectsLimits == [][GrowsWithinLimits]_allocationVars

\* While a member of an account has limits of its own, every service of the account counts
\* towards some member: nothing can be created, assigned or left outside the limits
\* (set_member_resource_quota against a creation whose quota user was read earlier).
MemberLimitsCoverAll == \A a \in Accounts : HasMemberLimits(a) => UnassignedServices(a) = {}

\* Two services never share a public port, and two buckets never a name, whatever accounts and
\* organizations they are in (lock_flash_allocations, lock_syouyu_bucket_names).
NamesAreUnique ==
    \A r, s \in Services :
        /\ r # s /\ Present(r) /\ Present(s)
        => /\ svc[r].spec.bucket = svc[s].spec.bucket => svc[r].spec.bucket = NoBucket
           /\ Live(r) /\ Live(s) /\ svc[r].spec.port = svc[s].spec.port => svc[r].spec.port = NoPort

\* The VPC that a Flash service is attached to exists, is not being deleted and has the
\* service's security groups, even while the service itself is being deleted
\* (validate_vpc_attachment, prepare_vpc_spec, begin_delete_service_instance).
AttachmentIsValid ==
    \A s \in Services :
        Present(s) /\ ProviderOf[s] = "flash" /\ svc[s].spec.vpc # NoVpc =>
            Live(svc[s].spec.vpc) /\ svc[s].spec.groups \subseteq svc[svc[s].spec.vpc].spec.groups

\* What a transaction was granted it would be granted again in the state it commits in, limits,
\* names, attachments, owners and GPUs included; a service that is deleted meanwhile may only have
\* freed a lower port (the checks and the writes of create_service_instance_with_id_for_user,
\* update_service_instance_checked, set_flash_service_stopped, begin_delete_service_instance,
\* set_member_resource_quota and assign_quota_resource against one another and against
\* sync_gpu_catalog and the worker's complete_delete_service_instance, which takes no lock).
GrantsStand ==
    \A t \in Txns : txn[t] # Idle /\ txn[t].checked =>
        \E spec \in Accepted(txn[t].req) :
            txn[t].spec = spec \/ txn[t].spec = [spec EXCEPT !.port = txn[t].spec.port]

\* No set of transactions waits for one another (the order of lock_tenant_allocations,
\* lock_flash_allocations and lock_syouyu_bucket_names).
NoDeadlock ==
    \A T \in (SUBSET Txns) \ {{}} : \E t \in T : \A u \in T : ~Blocks(u, t)
=============================================================================
