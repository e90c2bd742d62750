----------------------------- MODULE IamTables -----------------------------
(***************************************************************************)
(* The tables of IAM, role sessions and Identity Center, and the two       *)
(* questions every request asks of them: who is calling, and is the call   *)
(* allowed.  IamRoles and IdentityCenter hold the operations.              *)
(*                                                                         *)
(* Principals of users are never removed or disabled by any operation, and *)
(* users stay active; their columns are left out.  A row of a role that    *)
(* was deleted is not used again: the next role has an id of its own.      *)
(***************************************************************************)
EXTENDS CloudOrganizations, Integers

CONSTANTS
    Humans,           \* users
    Owner,            \* the human who owns every account
    Consoles,         \* browser sessions
    ConsoleUser,      \* whose browser session it is
    Services,         \* service accounts
    Roles,            \* roles, those of Identity Center included
    HomeOf,           \* the account of each service account and role
    PolicyIds,        \* rows of iam_policies
    PolicyHome,       \* the account of each
    Texts,            \* documents, by name
    PolicyText,       \* what each says
    NoText, NoPolicy,
    Trusts,           \* trust policies, by name
    TrustText,        \* what each says
    NoTrust, Gone,    \* the trust of a role not yet created, and of a deleted one
    GroupNames,       \* iam_groups
    MaxSessions,      \* bound: role sessions
    Sets,             \* permission sets of Identity Center
    Crews,            \* groups of Identity Center
    ManagedRole,      \* the role of a permission set in an account
    ManagedPolicy,    \* and the policy of that role
    MaxGeneration     \* bound: times an assignment is made, and members are added

ASSUME IamAssumption ==
    /\ Owner \in Humans /\ ConsoleUser \in [Consoles -> Humans]
    /\ Services \cap Roles = {} /\ Humans \cap Crews = {}
    /\ NoText \notin Texts /\ Gone \notin Texts /\ NoText # Gone
    /\ NoTrust \notin Trusts /\ Gone \notin Trusts /\ NoTrust # Gone
    /\ NoPolicy \notin PolicyIds
    /\ MaxSessions \in Nat /\ MaxGeneration \in Nat
    /\ \A t \in Trusts : ValidTrust(TrustText[t])
    /\ \A d \in Texts : ValidDocument(PolicyText[d])

VARIABLES
    memberRole,       \* organization_memberships
    enabled,          \* principals.enabled
    iamPolicies,      \* iam_policies: the document of each row
    bindings,         \* iam_bindings
    iamGroups, groupMembers, groupPolicies,
    boundary,         \* principals.permissions_boundary_policy_id
    trust,            \* iam_roles.trust_policy
    roleSessions,     \* iam_role_sessions
    lastSession,      \* ids given to them so far
    active,           \* sessions.active_role_session_id: 0 is null
    permissionSets,   \* identity_center_permission_sets
    crews,            \* identity_center_groups
    crewMembers,      \* identity_center_group_members: the id of each row
    lastMembership,   \* ids given to them so far
    assignments       \* identity_center_assignments

iamVars == <<memberRole, enabled, iamPolicies, bindings, iamGroups, groupMembers,
             groupPolicies, boundary, trust, roleSessions, lastSession, active>>
centerVars == <<permissionSets, crews, crewMembers, lastMembership, assignments>>

AllAccounts == Members \cup {Management}
UserPrincipals == [human: Humans, account: AllAccounts]
Principals == UserPrincipals \cup Services \cup Roles
PrincipalAccount(p) == IF p \in Services \cup Roles THEN HomeOf[p] ELSE p.account
SessionIds == 1 .. MaxSessions

\* The row of sessions is deleted; the next login is another browser session.
LoggedOut == -1

Subjects == Humans \cup Crews

NoRow == [state |-> "none"]
NoAssignment == [generation |-> 0]
Assignment == [set: Sets, account: AllAccounts, subject: Subjects]
Lineage == [generation: 1 .. MaxGeneration, of: Assignment, human: Humans,
            membership: 0 .. MaxGeneration]
SessionRow == [state: {"live", "revoked", "expired"}, role: Roles, source: Principals,
               policy: Texts \cup {NoText}, console: BOOLEAN, held: BOOLEAN,
               lineage: {NoAssignment} \cup Lineage]

IamTypeOK ==
    /\ memberRole \in [UserPrincipals -> {"none", "member", "owner"}]
    /\ enabled \in [Services \cup Roles -> BOOLEAN]
    /\ iamPolicies \in [PolicyIds -> Texts \cup {NoText}]
    /\ bindings \subseteq Principals \X PolicyIds
    /\ iamGroups \subseteq GroupNames
    /\ groupMembers \subseteq iamGroups \X UserPrincipals
    /\ groupPolicies \subseteq iamGroups \X PolicyIds
    /\ boundary \in [Principals -> PolicyIds \cup {NoPolicy}]
    /\ trust \in [Roles -> Trusts \cup {NoTrust, Gone}]
    /\ roleSessions \in [SessionIds -> {NoRow} \cup SessionRow]
    /\ lastSession \in 0 .. MaxSessions
    /\ active \in [Consoles -> {0, LoggedOut} \cup SessionIds]
    /\ permissionSets \in [Sets -> Texts \cup {NoText, Gone}]
    /\ crews \in [Crews -> {"none", "live", "deleted"}]
    /\ crewMembers \in [Crews \X Humans -> 0 .. MaxGeneration]
    /\ lastMembership \in 0 .. MaxGeneration
    /\ assignments \in [Assignment -> [generation: 0 .. MaxGeneration, revoked: BOOLEAN]]

\* Accounts that exist, with their owner; every human is a member of the
\* management account.
IamInit ==
    /\ CloudInit
    /\ memberRole = [p \in UserPrincipals |->
           IF p.human = Owner /\ (p.account = Management \/ accountParent[p.account] # NoUnit)
           THEN "owner" ELSE IF p.account = Management THEN "member" ELSE "none"]
    /\ enabled = [p \in Services \cup Roles |-> TRUE]
    /\ iamPolicies = [p \in PolicyIds |-> NoText]
    /\ bindings = {}
    /\ iamGroups = {} /\ groupMembers = {} /\ groupPolicies = {}
    /\ boundary = [p \in Principals |-> NoPolicy]
    /\ trust = [r \in Roles |-> NoTrust]
    /\ roleSessions = [s \in SessionIds |-> NoRow]
    /\ lastSession = 0
    /\ active = [c \in Consoles |-> 0]
    /\ permissionSets = [s \in Sets |-> NoText]
    /\ crews = [g \in Crews |-> "none"]
    /\ crewMembers = [m \in Crews \X Humans |-> 0]
    /\ lastMembership = 0
    /\ assignments = [a \in Assignment |-> [generation |-> 0, revoked |-> FALSE]]

----------------------------------------------------------------------------
(* Who is calling.                                                         *)

RoleExists(r) == trust[r] \notin {NoTrust, Gone}

\* identity_center_account_roles: made with the first assignment, never removed.
Managed(r) == r \in Roles /\ RoleExists(r) /\ \E k \in DOMAIN ManagedRole : ManagedRole[k] = r

\* What the lineage of a session needs apart from being its own: the SQL
\* function identity_center_session_is_active.
LineageHolds(lineage) ==
    lineage = NoAssignment \/
    LET a == assignments[lineage.of] IN
    /\ ~a.revoked /\ a.generation = lineage.generation
    /\ permissionSets[lineage.of.set] \in Texts
    /\ memberRole[[human |-> lineage.human, account |-> Management]] # "none"
    /\ memberRole[[human |-> lineage.human, account |-> lineage.of.account]] # "none"
    /\ \/ lineage.of.subject = lineage.human /\ lineage.membership = 0
       \/ /\ lineage.of.subject \in Crews
          /\ crews[lineage.of.subject] = "live"
          /\ crewMembers[<<lineage.of.subject, lineage.human>>] = lineage.membership

\* authenticate_iam_role_session and authenticate_browser_role_session.
SessionIsLive(s) ==
    /\ roleSessions[s] # NoRow /\ roleSessions[s].state = "live"
    /\ enabled[roleSessions[s].role]
    /\ LineageHolds(roleSessions[s].lineage)

NoConsole == 0
UserActor(c) == [kind |-> "user", human |-> ConsoleUser[c], console |-> c]
RoleActor(s, c) == [kind |-> "role", session |-> s, console |-> c]
ServiceActor(p) == [kind |-> "service", principal |-> p, console |-> NoConsole]

\* A browser acts in its role for as long as its row refers to one.
BrowserActiveRole(c) == active[c] \in SessionIds /\ roleSessions[active[c]] # NoRow

\* Who the requests of a browser act as.  A role that has ended is an error.
ConsoleActors(c) ==
    IF active[c] = LoggedOut THEN {}
    ELSE IF ~BrowserActiveRole(c) THEN {UserActor(c)}
    ELSE IF SessionIsLive(active[c]) THEN {RoleActor(active[c], c)} ELSE {}

\* The secret of a session is handed out unless a browser switches to it.
TokenActors ==
    {RoleActor(s, NoConsole) : s \in {t \in SessionIds : SessionIsLive(t) /\ ~roleSessions[t].console}}

AuthenticatedActors == (UNION {ConsoleActors(c) : c \in Consoles}) \cup TokenActors

----------------------------------------------------------------------------
(* Is the call allowed.                                                    *)

\* Documents bound to a principal directly or through its groups.
PoliciesOf(p) ==
    {PolicyText[iamPolicies[d]] : d \in {d \in PolicyIds :
        \/ <<p, d>> \in bindings
        \/ \E g \in iamGroups : <<g, p>> \in groupMembers /\ <<g, d>> \in groupPolicies}}

PermissionsBoundary(p) ==
    IF boundary[p] = NoPolicy THEN {} ELSE {PolicyText[iamPolicies[boundary[p]]]}

\* authorization_context: of a member of the account.
MemberContext(human, account) ==
    LET p == [human |-> human, account |-> account] IN
    IF memberRole[p] = "none" THEN {}
    ELSE {[principal |-> p, role |-> memberRole[p], policies |-> PoliciesOf(p),
           boundary |-> PermissionsBoundary(p)]}

\* authorization_context_for_principal: of a service account or a role.
PrincipalContext(p, account) ==
    IF HomeOf[p] # account \/ ~enabled[p] THEN {}
    ELSE {[principal |-> p, role |-> "service_account", policies |-> PoliciesOf(p),
           boundary |-> PermissionsBoundary(p)]}

Context(actor, account) ==
    CASE actor.kind = "user" -> MemberContext(actor.human, account)
      [] actor.kind = "role" -> PrincipalContext(roleSessions[actor.session].role, account)
      [] actor.kind = "service" -> PrincipalContext(actor.principal, account)

SessionPolicy(actor) ==
    IF actor.kind # "role" \/ roleSessions[actor.session].policy = NoText THEN {}
    ELSE {PolicyText[roleSessions[actor.session].policy]}

EvaluateAccountPermissions(context, account, request, implicit) ==
    EnforceServiceControlPolicies(request,
        EnforcePermissionsBoundary(request,
            AuthorizeWithAdministrator(request, context.policies,
                                       implicit \/ context.role = "owner"),
            context.boundary),
        ServiceControlLevels(account))

AuthorizeActorWithImplicitAllow(actor, account, action, implicit) ==
    LET request == [same |-> TRUE, action |-> action, resource |-> <<"any">>, at |-> 0] IN
    {context \in Context(actor, account) :
        EnforceSessionPolicy(request,
            EvaluateAccountPermissions(context, account, request, implicit),
            SessionPolicy(actor)).decision = "allow"}

\* The contexts in which an actor may do something: none, or one.
AuthorizeActor(actor, account, action) ==
    AuthorizeActorWithImplicitAllow(actor, account, action, FALSE)

May(actor, account, action) == AuthorizeActor(actor, account, action) # {}
=============================================================================
