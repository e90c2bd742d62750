SPECIFICATION Spec
CONSTANTS
    alice = alice
    home = home
    branch = branch
    office = office
    c1 = c1
    c2 = c2
    c3 = c3
    task = task
    reader = reader
    granted = granted
    bound = bound
    inBranch = inBranch
    ofSet = ofSet
    unit = unit
    second = second
    Management = home
    Members = {branch, second}
    Units = {unit, inner}
    Root = root
    NoUnit = none
    ScpNames = {full, guard, other}
    FullAccess = full
    ScpDocument <- Controls
    Handlers = {k1, k2}
    Nobody = nobody
    MaxDepth = 2
    MaxAttached = 2
    Activated = {"scp", "roles", "browser_roles", "identity_center"}
    Humans = {olga, alice}
    Owner = olga
    Consoles = {c1, c2, c3}
    ConsoleUser <- Browsers
    Services = {task}
    Roles = {reader, office}
    HomeOf <- Homes
    PolicyIds = {granted, bound, inBranch, ofSet}
    PolicyHome <- PolicyHomes
    Texts = {"everything", "assume"}
    PolicyText <- Documents
    NoText = notext
    NoPolicy = nopolicy
    Trusts = {"everyone", "account", "owner"}
    TrustText <- TrustDocuments
    NoTrust = notrust
    Gone = gone
    GroupNames = {staff}
    MaxSessions = 2
    Sets = {readers}
    Crews = {team}
    ManagedRole <- SetRoles
    ManagedPolicy <- SetPolicies
    MaxGeneration = 2
    Callers = {q1, q2}
    MaxActive = 2
    Assigners = {w1}
    CenterTrust = "account"
    NoService = noservice
    Exchanges = {x1, x2}
    MaxPods = 1
    MaxWorkloadTokens = 2
    MaxKeys = 1
    PodTokens = 1
    SshUsers = {u1, u2}
    SshKeyIds = {k1, k2}
    Fingerprints = {f1}
    SshConnections = {s1}
    SshChannels = {l1}
    MaxKeysPerUser = 1
    MaxBindingsPerService = 1
    NoSshKey = NoSshKey
    NoIdentity = NoIdentity
    Hosts = {own, broken}
    FailingHosts = {broken}
    DomainServices = {v1}
    DomainReplicas = {b1, b2}
    TotalLimit = 2
    ServiceLimit = 2
    BatchSize = 1
    MaxBindings = 3
    MaxDeletes = 2
    NoBinding = NoBinding
INVARIANTS
    EveryLevelIsGoverned
    LeftRolesEnd
    ManagedRolesFollowTheirSet
    AssignmentsAreUsable
    DisabledTokensDie
PROPERTIES
    SessionWasTrusted
    EndedStaysEnded
    RevokedChannelEnds
    DomainIsReleased
CHECK_DEADLOCK FALSE
