SPECIFICATION Spec
CONSTANTS
    a1 = a1
    a2 = a2
    a3 = a3
    u1 = u1
    u2 = u2
    Accounts = {a1, a2, a3}
    Users = {u1, u2}
    ActiveUsers = {u1}
    Services = {"f1", "f2", "f3", "b1", "b3", "r1", "r2", "v1"}
    Limits <- MCLimits
    Ports = {1, 2}
    Buckets = {"bucket"}
    Groups = {"g", "h"}
    MaxUnits = 2
    MaxVpcs = 2
    AccountOf <- MCAccountOf
    ProviderOf <- MCProviderOf
    CloudOf <- MCCloudOf
    ManagementOf <- MCManagementOf
    MembersOf <- MCMembersOf
    AdminsOf <- MCAdminsOf
    ServiceQuotasEnabled = TRUE
    NoLimit = NoLimit
    Absent = Absent
    Idle = Idle
    NoSpec = NoSpec
    Unfetched = Unfetched
    Txns = {t1, t2}
    Catalogues <- MCCatalogues
    Scenarios = {"organization", "rooms", "members", "names", "network", "gpu"}
SYMMETRY AllocationSymmetry
INVARIANTS
    MemberLimitsCoverAll
    GrantsStand
    NamesAreUnique
    AttachmentIsValid
    NoDeadlock
PROPERTY
    AdmissionRespectsLimits
