------------------------------- MODULE Quotas -------------------------------
(***************************************************************************)
(* The service table as the allocation checks see it, the limits in force, *)
(* and the checks themselves: what prepare_flow_spec, prepare_flash_spec,  *)
(* prepare_syouyu_spec, prepare_vpc_spec, validate_member_allocation and   *)
(* validate_cloud_organization_allocation accept.                          *)
(*                                                                         *)
(* A provider's resources are one dimension, its units (rooms of Flow,     *)
(* reserved replicas of Flash, bytes of Syouyu), with the three limits the *)
(* code sets on it: the number of services, the units of one service and   *)
(* the units of all.  The other dimensions are compared in the same way.   *)
(***************************************************************************)
EXTENDS Integers, FiniteSets, FiniteSetsExt

CONSTANTS
    Services,     \* service identifiers
    Accounts,     \* the accounts (rows of table organizations)
    Users,        \* people
    Limits,       \* the values a ResourceQuotaLimits may be set to
    Ports,        \* MIN_FLASH_SERVICE_PORT .. MAX_FLASH_SERVICE_PORT
    Buckets,      \* bucket names
    Groups,       \* security groups
    MaxUnits,     \* bound: units of one service
    MaxVpcs,      \* VPCs per account
    AccountOf,    \* the account a service identifier is used in
    ProviderOf,   \* and its provider
    CloudOf,      \* the cloud organization of an account: never changes
    ManagementOf, \* the management account of a cloud organization
    MembersOf,    \* organization_memberships
    AdminsOf,     \* the members that are owner or admin
    ActiveUsers,  \* users with status 'active'
    ServiceQuotasEnabled, \* organization_service_quotas_enabled
    NoLimit,      \* no row in a table of limits
    Absent        \* no row in service_instances

QuotaProviders == {"flow", "flash", "syouyu"}
Providers == QuotaProviders \cup {"vpc"}
CloudOrganizations == {CloudOf[a] : a \in Accounts}

NoUser == "nobody"
NoBucket == "no bucket"
NoVpc == "no vpc"
NoPort == 0

Vpcs == {s \in Services : ProviderOf[s] = "vpc"}

\* The parts of a specification that an allocation decision reads.  For a VPC, groups are
\* its security groups; for a Flash service, the ones it is attached with.
SpecOf == [units: 1 .. MaxUnits, bucket: Buckets \cup {NoBucket}, vpc: Vpcs \cup {NoVpc},
           groups: SUBSET Groups, public: BOOLEAN, stopped: BOOLEAN, gpu: BOOLEAN,
           port: Ports \cup {NoPort}]
Row == [owner: Users \cup {NoUser}, state: {"live", "deleting"}, spec: SpecOf]
LimitsOf == [services: Nat, each: Nat, total: Nat]

\* ResourceQuotaLimits::validate
ValidLimits(limits) ==
    \A p \in QuotaProviders :
        /\ limits[p].services >= 1
        /\ limits[p].each >= 1
        /\ limits[p].total >= limits[p].each

ASSUME QuotasAssumption ==
    /\ \A limits \in Limits : limits \in [QuotaProviders -> LimitsOf]
    /\ AccountOf \in [Services -> Accounts] /\ ProviderOf \in [Services -> Providers]
    /\ IsFiniteSet(Services) /\ MaxUnits \in Nat /\ MaxVpcs \in Nat
    /\ \A a \in Accounts : /\ ManagementOf[CloudOf[a]] \in Accounts
                           /\ CloudOf[ManagementOf[CloudOf[a]]] = CloudOf[a]
    /\ \A a \in Accounts : AdminsOf[a] \subseteq MembersOf[a] /\ MembersOf[a] \subseteq Users
    /\ Ports \subseteq Nat \ {NoPort}
    /\ ActiveUsers \subseteq Users /\ NoUser \notin Users
    /\ NoVpc \notin Services /\ Absent \notin Row

VARIABLES
    svc,       \* table service_instances (with service_quota_owners)
    defaults,  \* table resource_quota_defaults
    override,  \* table organization_resource_quotas
    member,    \* table organization_member_resource_quotas
    robot,     \* quota_user_id of each account's service account
    gpu        \* who may use the GPU type: users, and NoUser when a device is open

quotaVars == <<svc, defaults, override, member, robot, gpu>>

QuotasTypeOK ==
    /\ svc \in [Services -> Row \cup {Absent}]
    /\ defaults \in Limits
    /\ override \in [Accounts -> Limits \cup {NoLimit}]
    /\ \A a \in Accounts : member[a] \in [MembersOf[a] -> Limits \cup {NoLimit}]
    /\ robot \in [Accounts -> Users \cup {NoUser}]
    /\ gpu \subseteq Users \cup {NoUser}

Present(s) == svc[s] # Absent
Live(s) == Present(s) /\ svc[s].state # "deleting"

(***************************************************************************)
(* Limits in force                                                         *)
(***************************************************************************)
\* resource_quota_in_transaction
ResourceQuota(a) == IF override[a] = NoLimit THEN defaults ELSE override[a]

\* A member's limits never exceed those of the account.
CappedLimits(account, own) ==
    [p \in QuotaProviders |->
        [f \in {"services", "each", "total"} |-> Min({account[p][f], own[p][f]})]]

\* member_quota_in_transaction
MemberQuota(a, u) ==
    IF member[a][u] = NoLimit THEN ResourceQuota(a)
    ELSE CappedLimits(ResourceQuota(a), member[a][u])

\* The limits of a cloud organization are those of its management account.
CloudQuota(c) == ResourceQuota(ManagementOf[c])

HasMemberLimits(a) == \E u \in MembersOf[a] : member[a][u] # NoLimit

(***************************************************************************)
(* Usage                                                                   *)
(***************************************************************************)
\* ResourceQuotaUsage::add_flow_spec, add_flash_spec and add_syouyu_spec, over a set of
\* services: every unit of each is counted.
UnitsOf(S) == UNION {{s} \X (1 .. svc[s].spec.units) : s \in S}
Usage(S) == [services |-> Cardinality(S), total |-> Cardinality(UnitsOf(S))]

Allocated(a, p) == {s \in Services : Live(s) /\ AccountOf[s] = a /\ ProviderOf[s] = p}
OwnedBy(a, p, u) == {s \in Allocated(a, p) : svc[s].owner = u}
\* All of an organization's accounts; unlike the others, services being deleted count.
CloudAllocated(c, p) ==
    {s \in Services : Present(s) /\ CloudOf[AccountOf[s]] = c /\ ProviderOf[s] = p}

\* Services and service accounts that count towards no member's limits.
UnassignedServices(a) ==
    {s \in Services : Live(s) /\ AccountOf[s] = a /\ ProviderOf[s] \in QuotaProviders
                              /\ svc[s].owner = NoUser}
UnassignedResources(a) == UnassignedServices(a) # {} \/ robot[a] = NoUser

\* list_resource_quota_tenants, organization_member_quotas: limits and usage as the console
\* shows them.  The former counts services that are being deleted, the latter does not.
ResourceQuotaTenant(a, p) ==
    [limits |-> ResourceQuota(a)[p],
     usage |-> Usage({s \in Services : Present(s) /\ AccountOf[s] = a /\ ProviderOf[s] = p})]
OrganizationMemberQuota(a, p, u) ==
    [limits |-> MemberQuota(a, u)[p], usage |-> Usage(OwnedBy(a, p, u))]

(***************************************************************************)
(* Admission                                                               *)
(***************************************************************************)
\* The account's limits: for new and changed services alike.
AccountAdmits(s, spec) ==
    LET p == ProviderOf[s]
        limits == ResourceQuota(AccountOf[s])[p]
        others == Usage(Allocated(AccountOf[s], p) \ {s})
    IN  /\ spec.units <= limits.each
        /\ others.services + 1 <= limits.services
        /\ others.total + spec.units <= limits.total

\* Above a limit that was reduced, a change may still leave or lower what exceeds it.
Over(after, limit, old, reducible) == after > limit /\ (~reducible \/ after > old)

Exceeds(S, s, spec, limits, previous) ==
    LET others == Usage(S \ {s})
        reducible == previous # {}
        old == Cardinality(UnitsOf(previous))
    IN  \/ Over(others.services + 1, limits.services, others.services + 1, reducible)
        \/ Over(others.total + spec.units, limits.total, others.total + old, reducible)
        \/ Over(spec.units, limits.each, old, reducible)

\* validate_member_allocation; reduction: the change may profit from Over's exception.
MemberAdmits(s, u, spec, reduction) ==
    LET mine == OwnedBy(AccountOf[s], ProviderOf[s], u)
    IN  ~Exceeds(mine, s, spec, MemberQuota(AccountOf[s], u)[ProviderOf[s]],
                 IF reduction THEN mine \cap {s} ELSE {})

\* validate_cloud_organization_allocation
CloudAdmits(s, spec, reduction) ==
    LET c == CloudOf[AccountOf[s]]
    IN  ServiceQuotasEnabled =>
            ~Exceeds(CloudAllocated(c, ProviderOf[s]), s, spec, CloudQuota(c)[ProviderOf[s]],
                     IF reduction /\ Live(s) THEN {s} ELSE {})

\* validate_flash_gpu_access: the person's devices, or the open ones
GpuAccess(user, spec) == spec.gpu => {user, NoUser} \cap gpu # {}

\* A service behind a VPC without public exposure takes no port of the shared range.
TakesPort(spec) == spec.public \/ spec.vpc = NoVpc
PortsTaken(s) ==
    {svc[r].spec.port : r \in {q \in Services \ {s} : /\ Live(q) /\ ProviderOf[q] = "flash"
                                                      /\ TakesPort(svc[q].spec)}}

\* The ports prepare_flash_spec may assign: the service's own if it is still free, or the
\* first free one.
AssignedPorts(s, spec) ==
    LET own == IF Present(s) THEN {svc[s].spec.port} \cap Ports ELSE {}
        free == Ports \ PortsTaken(s)
    IN  IF ~TakesPort(spec) THEN {NoPort}
        ELSE IF own \cap free # {} THEN own \cap free
        ELSE IF free # {} THEN {Min(free)} ELSE {}

\* The specifications these functions return for a request: none if it is refused.
PrepareFlowSpec(s, spec) == {new \in {spec} : AccountAdmits(s, spec)}

PrepareFlashSpec(s, user, spec) ==
    {[spec EXCEPT !.port = port] :
        port \in {n \in AssignedPorts(s, spec) : GpuAccess(user, spec) /\ AccountAdmits(s, spec)}}

\* The name must be no other bucket's, in any account and also while it is being deleted.
PrepareSyouyuSpec(s, spec) ==
    {new \in {spec} :
        /\ \A r \in Services \ {s} : Present(r) => svc[r].spec.bucket # spec.bucket
        /\ Present(s) => spec.bucket = svc[s].spec.bucket
        /\ AccountAdmits(s, spec)}

AttachedTo(v) == {s \in Services : Present(s) /\ ProviderOf[s] = "flash" /\ svc[s].spec.vpc = v}

PrepareVpcSpec(v, spec) ==
    {new \in {spec} :
        /\ ~Present(v) => Cardinality({w \in Vpcs : Present(w) /\ AccountOf[w] = AccountOf[v]}) < MaxVpcs
        /\ \A s \in AttachedTo(v) : svc[s].spec.groups \subseteq spec.groups}

Prepared(s, user, spec) ==
    CASE ProviderOf[s] = "flow" -> PrepareFlowSpec(s, spec)
      [] ProviderOf[s] = "flash" -> PrepareFlashSpec(s, user, spec)
      [] ProviderOf[s] = "syouyu" -> PrepareSyouyuSpec(s, spec)
      [] ProviderOf[s] = "vpc" -> PrepareVpcSpec(s, spec)

\* validate_vpc_attachment.  Project, region and the private name, which must fit
\* as well, are left out: they refuse more and no property is about them.
AttachmentAccepted(s, spec) ==
    spec.vpc # NoVpc =>
        /\ Live(spec.vpc)
        /\ AccountOf[spec.vpc] = AccountOf[s]
        /\ spec.groups \subseteq svc[spec.vpc].spec.groups
=============================================================================
