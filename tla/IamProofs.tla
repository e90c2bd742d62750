----------------------------- MODULE IamProofs -----------------------------
(***************************************************************************)
(* IAM, for any number of accounts, people, roles, sessions, permission    *)
(* sets, groups, requests under way and workloads.                         *)
(***************************************************************************)
EXTENDS MCAccount, FiniteSetTheorems, TLAPS

(***************************************************************************)
(* Types                                                                   *)
(***************************************************************************)
\* Kubernetes starts pods for a task role only.
PodsHaveRoles == \A p \in PodIds : pods[p].running => pods[p].role \in Services

TypeInv ==
    /\ CloudTypeOK /\ IamTypeOK /\ AssumeTypeOK /\ AssigningTypeOK /\ WorkloadTypeOK
    /\ PodsHaveRoles

(***************************************************************************)
(* Service control policies                                                *)
(***************************************************************************)
\* A request that counts policies holds the organization until it has used the count.
CountsAreCurrent ==
    \A h \in Handlers : orgRequests[h].step = "attachment" =>
        /\ orgLock = h
        /\ Exists(orgRequests[h].target)
        /\ orgRequests[h].count = Cardinality(attached[orgRequests[h].target])

\* The path of every unit that exists is of units that exist, reaches the root and is not too
\* long; accounts, and units about to be inserted, are below such a unit.
PathsAreRooted ==
    \A u \in Parents : Exists(u) =>
        /\ Ancestors(u) \subseteq {x \in Parents : Exists(x)}
        /\ Root \in Ancestors(u)
        /\ IsFiniteSet(Ancestors(u)) /\ Cardinality(Ancestors(u)) <= MaxDepth + 1

ParentsExist ==
    /\ \A a \in Members : accountParent[a] # NoUnit => Exists(accountParent[a])
    /\ \A h \in Handlers : orgRequests[h].step = "unit" =>
          /\ Exists(orgRequests[h].parent)
          /\ Cardinality(Ancestors(orgRequests[h].parent)) <= MaxDepth

LevelInv == LevelsHavePolicies /\ CountsAreCurrent
PathInv == PathsAreRooted /\ ParentsExist
GovernedInv == LevelInv /\ PathInv

(***************************************************************************)
(* Workload tokens                                                         *)
(***************************************************************************)
\* A mint has locked a service account that is enabled.
MintsAreEnabled ==
    \A x \in Exchanges : exchanges[x].step = "minting" => enabled[exchanges[x].role]

WorkloadInv == DisabledTokensDie /\ MintsAreEnabled

(***************************************************************************)
(* Role sessions and browsers                                              *)
(***************************************************************************)
\* Ids are given once, in order.
SessionsAreNumbered ==
    \A s \in SessionIds : roleSessions[s] # NoRow => s <= lastSession

\* A request that goes on to switch has a browser.
BrowsersSwitch ==
    \A q \in Callers : assumes[q].step = "created" => assumes[q].ask.console \in Consoles

\* A session that a browser has taken and not let go, and that has not ended, is the
\* role of a browser, also while its role is disabled.
HeldByABrowser ==
    \A s \in SessionIds :
        roleSessions[s] # NoRow /\ roleSessions[s].held /\ roleSessions[s].state = "live" =>
            \E c \in Consoles : active[c] = s

BrowserInv == SessionsAreNumbered /\ BrowsersSwitch /\ HeldByABrowser

(***************************************************************************)
(* Identity Center                                                         *)
(***************************************************************************)
\* Roles that Identity Center will make are nobody else's, and made for existing sets.
ManagedRolesWait ==
    \A k \in DOMAIN ManagedRole :
        /\ trust[ManagedRole[k]] \in {NoTrust, CenterTrust}
        /\ permissionSets[k[1]] = NoText => trust[ManagedRole[k]] = NoTrust
        /\ trust[ManagedRole[k]] = NoTrust =>
              /\ \A b \in bindings : b[1] # ManagedRole[k]
              /\ boundary[ManagedRole[k]] = NoPolicy

\* What an assignment has read is locked: its set, and its group with the members.
AssignersAreCurrent ==
    \A q \in Assigners : assigning[q] # NoRequest =>
        LET a == assigning[q].of IN
        /\ a \in Assignable
        /\ SetIsLive(a.set) /\ assigning[q].document = permissionSets[a.set]
        /\ a.subject \in Crews => crews[a.subject] = "live" /\ assigning[q].users = CrewOf(a.subject)
        /\ a.subject \notin Crews => assigning[q].users = {a.subject}
        /\ \A p \in Assigners \ {q} : assigning[p] # NoRequest =>
              /\ assigning[p].of.set # a.set
              /\ a.subject \in Crews => assigning[p].of.subject # a.subject

\* An assignment has the role of its set.
AssignmentsHaveRoles ==
    \A a \in Assignment : assignments[a].generation > 0 =>
        a \in Assignable /\ Managed(ManagedRole[<<a.set, a.account>>])

CenterInv ==
    /\ ManagedRolesWait
    /\ AssignersAreCurrent
    /\ AssignmentsHaveRoles
    /\ ManagedRolesFollowTheirSet
    /\ AssignmentsAreUsable

(***************************************************************************)
(* Where sessions come from                                                *)
(***************************************************************************)
\* The trust that a request goes on with permits its caller.
TrustsWereEvaluated ==
    \A q \in Callers : assumes[q].step = "trusted" =>
        TrustPermits(TrustText[assumes[q].trust], PrincipalAccount(assumes[q].ask.source),
                     assumes[q].ask.source)

\* Rows of members are numbered.
MembershipsAreNumbered ==
    \A m \in Crews \X Humans : crewMembers[m] <= lastMembership

\* A session refers to an assignment, a set, a group and a membership row that have existed.
LineageIsPast(lineage) ==
    lineage # NoAssignment =>
        /\ lineage.generation <= assignments[lineage.of].generation
        /\ permissionSets[lineage.of.set] # NoText
        /\ memberRole[[human |-> lineage.human, account |-> Management]] # "none"
        /\ memberRole[[human |-> lineage.human, account |-> lineage.of.account]] # "none"
        /\ lineage.of.subject = lineage.human => lineage.membership = 0
        /\ lineage.of.subject # lineage.human =>
              /\ lineage.of.subject \in Crews
              /\ crews[lineage.of.subject] # "none"
              /\ lineage.membership \in 1 .. lastMembership

LineagesArePast ==
    \A s \in SessionIds : roleSessions[s] # NoRow => LineageIsPast(roleSessions[s].lineage)

LineageInv == TrustsWereEvaluated /\ MembershipsAreNumbered /\ LineagesArePast

IInv == TypeInv /\ GovernedInv /\ WorkloadInv /\ BrowserInv /\ CenterInv /\ LineageInv
-----------------------------------------------------------------------------
(***************************************************************************)
(* What each kind of request leaves alone                                  *)
(***************************************************************************)
\* No operation takes a membership away.
MembersStay ==
    \A p \in UserPrincipals : memberRole[p] # "none" => memberRole'[p] # "none"

LEMMA OrganizationFootprint ==
    ASSUME IamTypeOK, OrganizationRequests
    PROVE  /\ UNCHANGED <<enabled, iamPolicies, bindings, iamGroups, groupMembers, groupPolicies,
                          boundary, trust, roleSessions, lastSession, active, assumes,
                          centerVars, assigning, workloadVars>>
           /\ memberRole' \in [UserPrincipals -> {"none", "member", "owner"}]
           /\ MembersStay
  <1>1. UNCHANGED <<assumes, centerVars, assigning, workloadVars>>
    BY DEF OrganizationRequests
  <1>2. \/ UNCHANGED iamVars
        \/ \E actor \in SystemActors, a \in Members, parent \in Parents :
              CreateCloudMemberAccount(actor, a, parent)
    BY DEF OrganizationRequests, CreateServiceControlPolicy, ModifyServiceControlPolicyAttachment,
           CreateCloudOrganizationalUnit, MoveCloudMemberAccount
  <1>3. CASE UNCHANGED iamVars
    BY <1>1, <1>3 DEF iamVars, MembersStay, IamTypeOK
  <1>4. ASSUME NEW actor \in SystemActors, NEW a \in Members, NEW parent \in Parents,
               CreateCloudMemberAccount(actor, a, parent)
        PROVE  /\ memberRole' \in [UserPrincipals -> {"none", "member", "owner"}] /\ MembersStay
               /\ UNCHANGED <<enabled, iamPolicies, bindings, iamGroups, groupMembers, groupPolicies,
                              boundary, trust, roleSessions, lastSession, active>>
    <2> DEFINE key == [human |-> actor.human, account |-> a]
    <2>1. /\ memberRole' = [memberRole EXCEPT ![key] = "owner"]
          /\ UNCHANGED <<enabled, iamPolicies, bindings, iamGroups, groupMembers, groupPolicies,
                         boundary, trust, roleSessions, lastSession, active>>
      BY <1>4 DEF CreateCloudMemberAccount
    <2> HIDE DEF key
    <2>2. /\ memberRole' \in [UserPrincipals -> {"none", "member", "owner"}]
          /\ \A p \in UserPrincipals : memberRole'[p] = memberRole[p] \/ memberRole'[p] = "owner"
      BY <2>1 DEF IamTypeOK
    <2> QED
      BY <2>1, <2>2 DEF MembersStay
  <1> QED
    BY <1>1, <1>2, <1>3, <1>4

LEMMA PolicyFootprint ==
    ASSUME PolicyRequests
    PROVE  UNCHANGED <<cloudVars, memberRole, enabled, trust, roleSessions, lastSession, active, assumes,
                       centerVars, assigning, workloadVars>>
  BY DEF PolicyRequests, CreatePolicy, CreatePolicyTx, CreateBinding, CreateBindingTx, DeleteBinding,
         DeleteBindingTx, CreateIamGroup, CreateIamGroupTx, DeleteIamGroup, DeleteIamGroupTx,
         ChangeIamGroupMember, ChangeIamGroupMemberTx, ChangeIamGroupPolicy, ChangeIamGroupPolicyTx,
         ChangePermissionsBoundary, SetPermissionsBoundaryTx

LEMMA RoleFootprint ==
    ASSUME RoleRequests
    PROVE  UNCHANGED <<cloudVars, memberRole, enabled, iamPolicies, bindings, iamGroups, groupMembers,
                       groupPolicies, centerVars, assigning, workloadVars>>
  <1>1. UNCHANGED <<cloudVars, centerVars, assigning, workloadVars>>
    BY DEF RoleRequests
  <1>2. ASSUME NEW q \in Callers,
               \/ AssumeFindRole(q) \/ AssumeCreate(q) \/ AssumeRejected(q)
               \/ AssumeSwitch(q) \/ AssumeRevoke(q) \/ AssumeAbandoned(q)
        PROVE  UNCHANGED <<memberRole, enabled, iamPolicies, bindings, iamGroups, groupMembers, groupPolicies>>
    BY <1>2 DEF AssumeFindRole, AssumeCreate, AssumeRejected, AssumeSwitch, AssumeRevoke,
                AssumeAbandoned, Step
  <1>3. ASSUME NEW q \in Callers, NEW actor, NEW account, NEW r, NEW text, NEW switch,
               AssumeAuthorize(q, actor, account, r, text, switch)
        PROVE  UNCHANGED <<memberRole, enabled, iamPolicies, bindings, iamGroups, groupMembers, groupPolicies>>
    BY <1>3 DEF AssumeAuthorize, Step
  <1>4. ASSUME NEW actor, NEW r, NEW t,
               CreateIamRole(actor, r, t) \/ UpdateIamRoleTrust(actor, r, t) \/ DeleteIamRole(actor, r)
        PROVE  UNCHANGED <<memberRole, enabled, iamPolicies, bindings, iamGroups, groupMembers, groupPolicies>>
    BY <1>4 DEF CreateIamRole, CreateIamRoleTx, UpdateIamRoleTrust, UpdateIamRoleTrustTx,
                DeleteIamRole, DeleteIamRoleTx
  <1>5. ASSUME NEW actor, NEW s, NEW c,
               RevokeIamRoleSession(actor, s) \/ ExpireRoleSession(s) \/ ExitBrowserRole(c) \/ Logout(c)
        PROVE  UNCHANGED <<memberRole, enabled, iamPolicies, bindings, iamGroups, groupMembers, groupPolicies>>
    BY <1>5 DEF RevokeIamRoleSession, ExpireRoleSession, ExitBrowserRole, ClearBrowserRole, Logout
  <1> QED
    BY <1>1, <1>2, <1>3, <1>4, <1>5 DEF RoleRequests

LEMMA CenterFootprint ==
    ASSUME CenterRequests
    PROVE  UNCHANGED <<cloudVars, enabled, iamGroups, groupMembers, groupPolicies, boundary, active,
                       workloadVars>>
  <1>1. UNCHANGED <<cloudVars, workloadVars>>
    BY DEF CenterRequests
  <1> USE DEF roleVars, iamVars
  <1>2. ASSUME NEW actor, NEW s, NEW text,
               \/ CreatePermissionSet(actor, s, text) \/ UpdatePermissionSet(actor, s, text)
               \/ DeletePermissionSet(actor, s)
        PROVE  UNCHANGED <<enabled, iamGroups, groupMembers, groupPolicies, boundary, active>>
    BY <1>2 DEF CreatePermissionSet, CreatePermissionSetTx, UpdatePermissionSet, UpdatePermissionSetTx,
                DeletePermissionSet, DeletePermissionSetTx
  <1>3. ASSUME NEW actor, NEW g, NEW human, NEW add,
               \/ CreateIdentityCenterGroup(actor, g) \/ DeleteIdentityCenterGroup(actor, g)
               \/ GroupUser(actor, g, human, add)
        PROVE  UNCHANGED <<enabled, iamGroups, groupMembers, groupPolicies, boundary, active>>
    BY <1>3 DEF CreateIdentityCenterGroup, CreateIdentityCenterGroupTx, DeleteIdentityCenterGroup,
                DeleteIdentityCenterGroupTx, GroupUser, ChangeIdentityCenterGroupMemberTx
  <1>4. ASSUME NEW actor, NEW a, NEW q,
               \/ CreateIdentityCenterAssignment(q, actor, a) \/ RevokeIdentityCenterAssignment(actor, a)
               \/ AssignmentInsert(q) \/ AssignmentRolledBack(q)
        PROVE  UNCHANGED <<enabled, iamGroups, groupMembers, groupPolicies, boundary, active>>
    BY <1>4 DEF CreateIdentityCenterAssignment, AssignmentLock, RevokeIdentityCenterAssignment,
                RevokeAssignmentTx, AssignmentInsert, AssignmentRolledBack
  <1>5. ASSUME NEW actor, NEW a, NEW q, NEW switch, StartIdentityCenterSession(q, actor, a, switch)
        PROVE  UNCHANGED <<enabled, iamGroups, groupMembers, groupPolicies, boundary, active>>
    BY <1>5 DEF StartIdentityCenterSession, CreateIdentityCenterSession
  <1> QED
    BY <1>1, <1>2, <1>3, <1>4, <1>5 DEF CenterRequests

LEMMA WorkloadFootprint ==
    ASSUME WorkloadRequests
    PROVE  UNCHANGED <<cloudVars, memberRole, iamPolicies, bindings, iamGroups, groupMembers, groupPolicies,
                       boundary, trust, roleSessions, lastSession, active, assumes, centerVars, assigning>>
  <1> USE DEF iamVars
  <1>1. UNCHANGED <<cloudVars, assumes, centerVars, assigning>>
    BY DEF WorkloadRequests
  <1>2. ASSUME NEW actor, NEW k, NEW p, NEW on,
               \/ CreateApiKey(actor, k, p) \/ RevokeApiKey(actor, k)
               \/ SetServiceAccountEnabled(actor, p, on) \/ AttachTaskRole(actor, p)
        PROVE  UNCHANGED <<memberRole, iamPolicies, bindings, iamGroups, groupMembers, groupPolicies,
                           boundary, trust, roleSessions, lastSession, active>>
    BY <1>2 DEF CreateApiKey, CreateApiKeyTx, RevokeApiKey, RevokeApiKeyTx, SetServiceAccountEnabled,
                SetServiceAccountEnabledTx, AttachTaskRole
  <1>3. ASSUME NEW state, NEW p, NEW x,
               \/ ChangeServiceState(state) \/ StartPod(p) \/ StopPod(p) \/ ReviewToken(x, p)
               \/ VerifyPod(x) \/ MintLock(x) \/ MintInsert(x) \/ ExchangeFails(x) \/ ExpireCredential
        PROVE  UNCHANGED iamVars
    BY <1>3 DEF ChangeServiceState, StartPod, StopPod, ReviewToken, VerifyPod, MintLock, MintInsert,
                ExchangeFails, ExpireCredential, Proceed
  <1> QED
    BY <1>1, <1>2, <1>3 DEF WorkloadRequests
-----------------------------------------------------------------------------
(***************************************************************************)
(* Actors and what they are authorized for                                 *)
(***************************************************************************)
LEMMA SessionFields ==
    ASSUME NEW row \in SessionRow
    PROVE  /\ row # NoRow
           /\ row.state \in {"live", "revoked", "expired"} /\ row.role \in Roles
           /\ row.source \in Principals /\ row.policy \in Texts \cup {NoText}
           /\ row.console \in BOOLEAN /\ row.held \in BOOLEAN
           /\ row.lineage \in {NoAssignment} \cup Lineage
  BY DEF SessionRow, NoRow

LEMMA ActorTypes ==
    ASSUME TypeInv, NEW actor \in SystemActors
    PROVE  \/ actor.kind = "user" /\ actor.human \in Humans /\ actor.console \in Consoles
           \/ /\ actor.kind = "role" /\ actor.session \in SessionIds
              /\ roleSessions[actor.session] \in SessionRow
              /\ actor.console \in Consoles \cup {NoConsole}
           \/ /\ actor.kind = "service" /\ actor.principal \in Services
              /\ actor.console = NoConsole
  <1>1. ASSUME NEW c \in Consoles, actor \in ConsoleActors(c), BrowserActiveRole(c)
        PROVE  /\ actor.kind = "role" /\ actor.session \in SessionIds
               /\ roleSessions[actor.session] \in SessionRow
               /\ actor.console \in Consoles \cup {NoConsole}
    <2>1. actor = RoleActor(active[c], c)
      BY <1>1 DEF ConsoleActors
    <2>2. active[c] \in SessionIds /\ roleSessions[active[c]] \in SessionRow
      BY <1>1 DEF TypeInv, IamTypeOK, BrowserActiveRole
    <2> QED
      BY <2>1, <2>2 DEF RoleActor
  <1>2. ASSUME NEW c \in Consoles, actor \in ConsoleActors(c), ~BrowserActiveRole(c)
        PROVE  actor.kind = "user" /\ actor.human \in Humans /\ actor.console \in Consoles
    BY <1>2, IamAssumption DEF ConsoleActors, UserActor
  <1>3. ASSUME actor \in TokenActors
        PROVE  /\ actor.kind = "role" /\ actor.session \in SessionIds
               /\ roleSessions[actor.session] \in SessionRow
               /\ actor.console \in Consoles \cup {NoConsole}
    BY <1>3 DEF TokenActors, RoleActor, SessionIsLive, TypeInv, IamTypeOK
  <1>4. ASSUME actor \in KeyActors \cup WorkloadActors
        PROVE  /\ actor.kind = "service" /\ actor.principal \in Services
               /\ actor.console = NoConsole
    <2>1. CASE actor \in KeyActors
      <3>1. PICK k \in 1 .. MaxKeys : apiKeys[k] # NoRow /\ actor = ServiceActor(apiKeys[k].principal)
        BY <2>1 DEF KeyActors
      <3>2. apiKeys[k].principal \in Services
        BY <3>1 DEF TypeInv, WorkloadTypeOK
      <3> QED
        BY <3>1, <3>2 DEF ServiceActor
    <2>2. CASE actor \in WorkloadActors
      <3>1. PICK t \in TokenIds : tokens[t] # NoRow /\ actor = ServiceActor(tokens[t].principal)
        BY <2>2 DEF WorkloadActors, TokenIsAccepted
      <3>2. tokens[t].principal \in Services
        BY <3>1 DEF TypeInv, WorkloadTypeOK
      <3> QED
        BY <3>1, <3>2 DEF ServiceActor
    <2> QED
      BY <1>4, <2>1, <2>2
  <1>5. \/ \E c \in Consoles : actor \in ConsoleActors(c)
        \/ actor \in TokenActors \/ actor \in KeyActors \cup WorkloadActors
    <2> DEFINE All == {ConsoleActors(c) : c \in Consoles}
    <2>1. \A S \in All : \E c \in Consoles : S = ConsoleActors(c)
      BY Zenon
    <2>2. actor \in ((UNION All) \cup TokenActors) \cup KeyActors \cup WorkloadActors
      BY Zenon DEF SystemActors, AuthenticatedActors
    <2> HIDE DEF All
    <2> QED
      BY <2>1, <2>2
  <1> QED
    BY <1>1, <1>2, <1>3, <1>4, <1>5

LEMMA ContextTypes ==
    ASSUME TypeInv, NEW actor \in SystemActors, NEW account \in AllAccounts, NEW action,
           NEW context \in AuthorizeActor(actor, account, action)
    PROVE  context.principal \in Principals
  <1>1. context \in Context(actor, account)
    BY DEF AuthorizeActor, AuthorizeActorWithImplicitAllow
  <1>2. CASE actor.kind = "user" /\ actor.human \in Humans
    <2>1. [human |-> actor.human, account |-> account] \in Principals
      BY <1>2 DEF Principals, UserPrincipals
    <2>2. context \in MemberContext(actor.human, account)
      BY <1>1, <1>2 DEF Context
    <2> QED
      BY <2>1, <2>2 DEF MemberContext
  <1>3. CASE actor.kind = "role" /\ roleSessions[actor.session] \in SessionRow
    <2>1. roleSessions[actor.session].role \in Principals
      BY <1>3, SessionFields DEF Principals
    <2>2. context \in PrincipalContext(roleSessions[actor.session].role, account)
      BY <1>1, <1>3 DEF Context
    <2> QED
      BY <2>1, <2>2 DEF PrincipalContext
  <1>4. CASE actor.kind = "service" /\ actor.principal \in Services
    <2>1. actor.principal \in Principals
      BY <1>4 DEF Principals
    <2>2. context \in PrincipalContext(actor.principal, account)
      BY <1>1, <1>4 DEF Context
    <2> QED
      BY <2>1, <2>2 DEF PrincipalContext
  <1> QED
    BY <1>2, <1>3, <1>4, ActorTypes

(***************************************************************************)
(* Requests to assume a role                                               *)
(***************************************************************************)
LEMMA AssumeFields ==
    ASSUME AssumeTypeOK, NEW q \in Callers
    PROVE  /\ assumes[q].step \in {"idle", "authorized", "trusted", "created", "revoking"}
           /\ assumes[q].step # "idle" => assumes[q] # NoAssume /\ assumes[q].ask \in Assumed
           /\ assumes[q].step = "trusted" => assumes[q].trust \in Trusts
           /\ assumes[q].step \in {"created", "revoking"} =>
                 /\ assumes[q].session \in SessionIds
                 /\ assumes[q] = [step |-> assumes[q].step, ask |-> assumes[q].ask,
                                  session |-> assumes[q].session]
  <1> DEFINE x == assumes[q]
  <1>1. x \in {NoAssume}
            \cup [step: {"authorized"}, ask: Assumed]
            \cup [step: {"trusted"}, ask: Assumed, trust: Trusts]
            \cup [step: {"created", "revoking"}, ask: Assumed, session: SessionIds]
    BY DEF AssumeTypeOK
  <1> HIDE DEF x
  <1>2. CASE x = NoAssume
    BY <1>2 DEF NoAssume, x
  <1>3. CASE x \in [step: {"authorized"}, ask: Assumed]
    BY <1>3 DEF NoAssume, x
  <1>4. CASE x \in [step: {"trusted"}, ask: Assumed, trust: Trusts]
    BY <1>4 DEF NoAssume, x
  <1>5. CASE x \in [step: {"created", "revoking"}, ask: Assumed, session: SessionIds]
    <2>1. PICK st \in {"created", "revoking"}, a \in Assumed, s \in SessionIds :
            x = [step |-> st, ask |-> a, session |-> s]
      BY <1>5
    <2> QED
      BY <2>1 DEF NoAssume, x
  <1> QED
    BY <1>1, <1>2, <1>3, <1>4, <1>5

LEMMA AskFields ==
    ASSUME NEW ask \in Assumed
    PROVE  /\ ask.source \in Principals /\ ask.role \in Roles /\ ask.policy \in Texts \cup {NoText}
           /\ ask.console \in Consoles \cup {NoConsole} /\ ask.previous \in {0} \cup SessionIds
  BY DEF Assumed

(***************************************************************************)
(* Rows of sessions                                                        *)
(***************************************************************************)
\* A row goes on: it may have ended, be taken by a browser or let go, and is otherwise the same.
GoesOn(old, new) ==
    /\ new.role = old.role /\ new.source = old.source /\ new.console = old.console
    /\ new.lineage = old.lineage
    /\ new.state = "live" => old.state = "live"

LEMMA EndedRow ==
    ASSUME NEW row \in SessionRow, NEW ended \in {"revoked", "expired"}
    PROVE  /\ [row EXCEPT !.state = ended] \in SessionRow
           /\ GoesOn(row, [row EXCEPT !.state = ended])
           /\ [row EXCEPT !.state = ended].held = row.held
           /\ [row EXCEPT !.state = ended].state # "live"
  BY DEF SessionRow, GoesOn

LEMMA HeldRow ==
    ASSUME NEW row \in SessionRow
    PROVE  /\ [row EXCEPT !.held = TRUE] \in SessionRow
           /\ GoesOn(row, [row EXCEPT !.held = TRUE])
           /\ [row EXCEPT !.held = TRUE].held
           /\ [row EXCEPT !.held = TRUE].state = row.state
  <1> DEFINE yes == TRUE
  <1> USE DEF SessionRow, GoesOn
  <1>1. yes \in BOOLEAN /\ yes
    OBVIOUS
  <1> HIDE DEF yes
  <1> DEFINE new == [row EXCEPT !.held = yes]
  <1>2. new \in SessionRow /\ new.held = yes /\ new.state = row.state /\ new.role = row.role
        /\ new.source = row.source /\ new.console = row.console /\ new.lineage = row.lineage
    BY <1>1
  <1>3. new = [row EXCEPT !.held = TRUE]
    BY DEF yes
  <1> HIDE DEF new
  <1>4. GoesOn(row, new) /\ new.held
    BY <1>1, <1>2
  <1> QED
    BY <1>2, <1>3, <1>4

\* What revoking a session does to the table.
RevokesOnly(s, rows) ==
    /\ rows \in [SessionIds -> {NoRow} \cup SessionRow]
    /\ \A t \in SessionIds :
          /\ rows[t] = NoRow <=> roleSessions[t] = NoRow
          /\ t # s => rows[t] = roleSessions[t]
          /\ rows[t] # NoRow =>
                /\ GoesOn(roleSessions[t], rows[t]) /\ rows[t].held = roleSessions[t].held
                /\ t = s => rows[t].state # "live"

LEMMA RevokedRows ==
    ASSUME IamTypeOK, NEW s
    PROVE  RevokesOnly(s, Revoked(s))
  <1>1. ASSUME NEW t \in SessionIds
        PROVE  /\ Revoked(s)[t] \in {NoRow} \cup SessionRow
               /\ Revoked(s)[t] = NoRow <=> roleSessions[t] = NoRow
               /\ t # s => Revoked(s)[t] = roleSessions[t]
               /\ Revoked(s)[t] # NoRow =>
                     /\ GoesOn(roleSessions[t], Revoked(s)[t])
                     /\ Revoked(s)[t].held = roleSessions[t].held
                     /\ t = s => Revoked(s)[t].state # "live"
    <2> DEFINE old == roleSessions[t]
               new == Revoked(s)[t]
    <2>1. old \in {NoRow} \cup SessionRow
      BY DEF IamTypeOK
    <2>2. new = IF t = s /\ old # NoRow /\ old.state = "live" THEN [old EXCEPT !.state = "revoked"] ELSE old
      BY DEF IamTypeOK, Revoked
    <2> HIDE DEF old, new
    <2>3. CASE old = NoRow
      BY <2>2, <2>3 DEF old, new
    <2>4. CASE old \in SessionRow
      <3>1. old # NoRow
        BY <2>4, SessionFields
      <3>2. CASE t = s /\ old.state = "live"
        <4>1. new = [old EXCEPT !.state = "revoked"]
          BY <2>2, <3>1, <3>2
        <4>2. new \in SessionRow /\ GoesOn(old, new) /\ new.held = old.held /\ new.state # "live"
          BY <4>1, <2>4, EndedRow
        <4> QED
          BY <4>2, <3>1, <3>2, SessionFields DEF old, new
      <3>3. CASE ~(t = s /\ old.state = "live")
        <4>1. new = old
          BY <2>2, <3>1, <3>3
        <4>2. GoesOn(old, new)
          BY <4>1 DEF GoesOn
        <4> QED
          BY <4>1, <4>2, <2>4, <3>1, <3>3 DEF old, new
      <3> QED
        BY <3>2, <3>3
    <2> QED
      BY <2>1, <2>3, <2>4
  <1>2. DOMAIN Revoked(s) = SessionIds /\ Revoked(s) = [t \in SessionIds |-> Revoked(s)[t]]
    BY DEF Revoked, IamTypeOK
  <1> QED
    BY <1>1, <1>2 DEF RevokesOnly
-----------------------------------------------------------------------------
(***************************************************************************)
(* The organization: types, and that every level has a policy              *)
(***************************************************************************)
LEMMA AttachmentFields ==
    ASSUME CloudTypeOK, NEW h \in Handlers
    PROVE  /\ orgRequests[h].step \in {"idle", "attachment", "unit"}
           /\ orgRequests[h].step = "attachment" =>
                 /\ orgRequests[h].target \in Targets /\ orgRequests[h].policy \in ScpNames
                 /\ orgRequests[h].attach \in BOOLEAN
                 /\ orgRequests[h].count \in 0 .. Cardinality(ScpNames)
           /\ orgRequests[h].step = "unit" => orgRequests[h].parent \in Parents
           /\ orgRequests[h] = NoChange => orgRequests[h].step = "idle"
  <1>1. orgRequests[h] \in {NoChange}
           \cup [step: {"attachment"}, target: Targets, policy: ScpNames,
                 attach: BOOLEAN, count: 0 .. Cardinality(ScpNames)]
           \cup [step: {"unit"}, parent: Parents]
    BY DEF CloudTypeOK
  <1> QED
    BY <1>1 DEF NoChange

LEMMA CardinalityOfPolicies ==
    ASSUME NEW S \in SUBSET ScpNames
    PROVE  /\ IsFiniteSet(S)
           /\ Cardinality(S) \in 0 .. Cardinality(ScpNames)
           /\ Cardinality(S) = 0 <=> S = {}
           /\ \A p \in S : Cardinality(S \ {p}) = Cardinality(S) - 1
  <1>1. IsFiniteSet(S) /\ Cardinality(S) <= Cardinality(ScpNames)
    BY CloudAssumption, FS_Subset, FS_Subset
  <1>2. Cardinality(S) \in Nat /\ Cardinality(ScpNames) \in Nat
    BY <1>1, CloudAssumption, FS_CardinalityType
  <1>3. Cardinality(S) = 0 <=> S = {}
    BY <1>1, FS_EmptySet
  <1>4. \A p \in S : Cardinality(S \ {p}) = Cardinality(S) - 1
    BY <1>1, FS_RemoveElement
  <1> QED
    BY <1>1, <1>2, <1>3, <1>4

\* What the transactions do to the tree and its policies.
LEMMA OrganizationTransactions ==
    ASSUME OrganizationRequests
    PROVE  \/ \E p \in ScpNames : CreateServiceControlPolicyTx(p)
           \/ \E h \in Handlers, t \in Targets, p \in ScpNames, attach \in BOOLEAN :
                 ChangeAttachmentBegin(h, t, p, attach)
           \/ \E h \in Handlers, parent \in Parents : CreateUnitCheck(h, parent)
           \/ \E a \in Members, parent \in Parents :
                 CreateMemberAccountTx(a, parent) \/ MoveMemberAccountTx(a, parent)
           \/ \E h \in Handlers : ChangeAttachmentCommit(h) \/ AbandonChange(h)
           \/ \E h \in Handlers, u \in Units : CreateUnitInsert(h, u)
  BY DEF OrganizationRequests, CreateServiceControlPolicy, ModifyServiceControlPolicyAttachment,
         CreateCloudOrganizationalUnit, CreateCloudMemberAccount, MoveCloudMemberAccount

LEMMA LevelStep ==
    ASSUME CloudTypeOK, LevelInv, OrganizationRequests
    PROVE  CloudTypeOK' /\ LevelInv'
  <1> USE DEF CloudTypeOK, LevelInv, LevelsHavePolicies, CountsAreCurrent
  <1>1. ASSUME NEW p \in ScpNames, CreateServiceControlPolicyTx(p)
        PROVE  CloudTypeOK' /\ LevelInv'
    BY <1>1 DEF CreateServiceControlPolicyTx, Exists
  <1>2. ASSUME NEW h \in Handlers, NEW t \in Targets, NEW p \in ScpNames, NEW attach \in BOOLEAN,
               ChangeAttachmentBegin(h, t, p, attach)
        PROVE  CloudTypeOK' /\ LevelInv'
    <2> DEFINE r == [step |-> "attachment", target |-> t, policy |-> p, attach |-> attach,
                     count |-> Cardinality(attached[t])]
    <2>1. Cardinality(attached[t]) \in 0 .. Cardinality(ScpNames)
      BY CardinalityOfPolicies
    <2>2. r \in [step: {"attachment"}, target: Targets, policy: ScpNames, attach: BOOLEAN,
                 count: 0 .. Cardinality(ScpNames)]
      BY <2>1
    <2>3. /\ orgRequests' = [orgRequests EXCEPT ![h] = r] /\ orgLock' = h
          /\ orgLock = Nobody /\ Exists(t)
          /\ UNCHANGED <<unitParent, accountParent, scps, attached>>
      BY <1>2 DEF ChangeAttachmentBegin, LockOrganization, CanLock
    <2>4. r.target = t /\ r.count = Cardinality(attached[t])
      OBVIOUS
    <2> HIDE DEF r
    <2>5. CloudTypeOK'
      BY <2>2, <2>3
    <2>6. \A g \in Handlers : g # h => orgRequests[g].step # "attachment"
      BY <2>3, CloudAssumption
    <2>7. CountsAreCurrent'
      BY <2>3, <2>4, <2>6 DEF Exists
    <2>8. LevelsHavePolicies'
      BY <2>3 DEF Exists
    <2> QED
      BY <2>5, <2>7, <2>8
  <1>3. ASSUME NEW h \in Handlers, NEW parent \in Parents, CreateUnitCheck(h, parent)
        PROVE  CloudTypeOK' /\ LevelInv'
    <2> DEFINE r == [step |-> "unit", parent |-> parent]
    <2>1. r \in [step: {"unit"}, parent: Parents] /\ r.step # "attachment"
      OBVIOUS
    <2>2. /\ orgRequests' = [orgRequests EXCEPT ![h] = r]
          /\ UNCHANGED <<unitParent, accountParent, scps, attached, orgLock>>
      BY <1>3 DEF CreateUnitCheck
    <2> HIDE DEF r
    <2>3. CloudTypeOK'
      BY <2>1, <2>2
    <2>4. LevelInv'
      BY <2>1, <2>2 DEF Exists
    <2> QED
      BY <2>3, <2>4
  <1>4. ASSUME NEW a \in Members, NEW parent \in Parents, CreateMemberAccountTx(a, parent)
        PROVE  CloudTypeOK' /\ LevelInv'
    <2>1. /\ orgLock = Nobody /\ ~Exists(a)
          /\ accountParent' = [accountParent EXCEPT ![a] = parent]
          /\ attached' = [attached EXCEPT ![a] = {FullAccess}]
          /\ UNCHANGED <<unitParent, scps, orgLock, orgRequests>>
      BY <1>4 DEF CreateMemberAccountTx
    <2>2. CloudTypeOK'
      BY <2>1, CloudAssumption DEF Targets
    <2>3. LevelsHavePolicies'
      BY <2>1 DEF Exists, Targets
    <2>4. \A h \in Handlers : orgRequests[h].step # "attachment"
      BY <2>1, CloudAssumption
    <2> QED
      BY <2>1, <2>2, <2>3, <2>4
  <1>5. ASSUME NEW a \in Members, NEW parent \in Parents, MoveMemberAccountTx(a, parent)
        PROVE  CloudTypeOK' /\ LevelInv'
    <2>1. /\ Exists(a) /\ accountParent' = [accountParent EXCEPT ![a] = parent]
          /\ UNCHANGED <<unitParent, scps, attached, orgLock, orgRequests>>
      BY <1>5 DEF MoveMemberAccountTx
    <2>2. CloudTypeOK'
      BY <2>1
    <2>3. \A t \in Targets : Exists(t)' <=> Exists(t)
      BY <2>1, CloudAssumption DEF Exists, Parents, Targets
    <2>4. LevelsHavePolicies'
      BY <2>1, <2>3
    <2>5. CountsAreCurrent'
      <3> SUFFICES ASSUME NEW h \in Handlers, orgRequests[h].step = "attachment"
                   PROVE  Exists(orgRequests[h].target)'
        BY <2>1
      <3>1. Exists(orgRequests[h].target) /\ orgRequests[h].target \in Targets
        BY AttachmentFields
      <3> QED
        BY <3>1, <2>1, CloudAssumption DEF Exists, Parents, Targets
    <2> QED
      BY <2>2, <2>4, <2>5
  <1>6. ASSUME NEW h \in Handlers, ChangeAttachmentCommit(h)
        PROVE  CloudTypeOK' /\ LevelInv'
    <2> DEFINE r == orgRequests[h]
    <2>1. /\ r.step = "attachment" /\ r.target \in Targets /\ r.policy \in ScpNames
          /\ r.attach \in BOOLEAN /\ orgLock = h /\ r.count = Cardinality(attached[r.target])
      BY <1>6, AttachmentFields DEF ChangeAttachmentCommit
    <2>2. /\ orgRequests' = [orgRequests EXCEPT ![h] = NoChange] /\ orgLock' = Nobody
          /\ UNCHANGED <<unitParent, accountParent, scps>>
      BY <1>6, <2>1 DEF ChangeAttachmentCommit
    <2>3. \/ attached' = [attached EXCEPT ![r.target] = @ \cup {r.policy}]
          \/ r.count > 1 /\ attached' = [attached EXCEPT ![r.target] = @ \ {r.policy}]
          \/ attached' = attached
      BY <1>6 DEF ChangeAttachmentCommit
    <2> HIDE DEF r
    <2>4. attached' \in [Targets -> SUBSET ScpNames]
      BY <2>1, <2>3
    <2>5. CloudTypeOK'
      BY <2>2, <2>4
    <2>6. r.count > 1 => attached[r.target] \ {r.policy} # {}
      <3>1. attached[r.target] \in SUBSET ScpNames
        BY <2>1
      <3>2. CASE r.policy \in attached[r.target]
        <4>1. /\ Cardinality(attached[r.target] \ {r.policy}) = Cardinality(attached[r.target]) - 1
              /\ Cardinality(attached[r.target]) \in Nat
          BY <3>1, <3>2, CardinalityOfPolicies
        <4>2. Cardinality({}) = 0
          BY FS_EmptySet
        <4>3. attached[r.target] \ {r.policy} = {} => Cardinality(attached[r.target] \ {r.policy}) = 0
          BY <4>2, Zenon
        <4>4. r.count = Cardinality(attached[r.target])
          BY <2>1
        <4> DEFINE n == Cardinality(attached[r.target])
                   m == Cardinality(attached[r.target] \ {r.policy})
        <4>5. m = n - 1 /\ n \in Nat /\ r.count = n
          BY <4>1, <4>4
        <4> HIDE DEF n, m
        <4>6. r.count > 1 => m # 0
          BY <4>5
        <4> QED
          BY <4>3, <4>6 DEF m
      <3>3. CASE r.policy \notin attached[r.target]
        <4>1. attached[r.target] = {} => Cardinality(attached[r.target]) = 0
          BY <3>1, CardinalityOfPolicies
        <4>2. attached[r.target] \ {r.policy} = attached[r.target]
          BY <3>3
        <4> QED
          BY <4>1, <4>2, <2>1
      <3> QED
        BY <3>2, <3>3
    <2>7. \A t \in Targets : attached[t] # {} => attached'[t] # {}
      BY <2>1, <2>3, <2>6
    <2>8. LevelsHavePolicies'
      BY <2>2, <2>7 DEF Exists
    <2>9. \A g \in Handlers : g # h => orgRequests[g].step # "attachment"
      BY <2>1
    <2>10. CountsAreCurrent'
      BY <2>2, <2>9 DEF NoChange
    <2> QED
      BY <2>5, <2>8, <2>10
  <1>7. ASSUME NEW h \in Handlers, AbandonChange(h)
        PROVE  CloudTypeOK' /\ LevelInv'
    <2>1. /\ orgRequests' = [orgRequests EXCEPT ![h] = NoChange]
          /\ orgLock' = IF orgLock = h THEN Nobody ELSE orgLock
          /\ UNCHANGED <<unitParent, accountParent, scps, attached>>
      BY <1>7 DEF AbandonChange
    <2>2. CloudTypeOK'
      BY <2>1
    <2>3. CountsAreCurrent'
      BY <2>1, CloudAssumption DEF NoChange, Exists
    <2>4. LevelsHavePolicies'
      BY <2>1 DEF Exists
    <2> QED
      BY <2>2, <2>3, <2>4
  <1>8. ASSUME NEW h \in Handlers, NEW u \in Units, CreateUnitInsert(h, u)
        PROVE  CloudTypeOK' /\ LevelInv'
    <2> DEFINE parent == orgRequests[h].parent
    <2>1. /\ parent \in Parents /\ ~Exists(u)
          /\ unitParent' = [unitParent EXCEPT ![u] = parent]
          /\ attached' = [attached EXCEPT ![u] = {FullAccess}]
          /\ orgRequests' = [orgRequests EXCEPT ![h] = NoChange]
          /\ UNCHANGED <<accountParent, scps, orgLock>>
      BY <1>8, AttachmentFields DEF CreateUnitInsert
    <2> HIDE DEF parent
    <2>2. CloudTypeOK'
      BY <2>1, CloudAssumption DEF Targets
    <2>3. LevelsHavePolicies'
      BY <2>1 DEF Exists, Targets
    <2>4. CountsAreCurrent'
      <3> SUFFICES ASSUME NEW g \in Handlers, (orgRequests[g].step = "attachment")'
                   PROVE  (/\ orgLock = g /\ Exists(orgRequests[g].target)
                           /\ orgRequests[g].count = Cardinality(attached[orgRequests[g].target]))'
        OBVIOUS
      <3>1. g # h /\ orgRequests'[g] = orgRequests[g]
        BY <2>1 DEF NoChange
      <3>2. PICK t \in Targets : t = orgRequests[g].target /\ Exists(t)
        BY <3>1, AttachmentFields
      <3>3. t # u
        BY <2>1, <3>2
      <3>4. attached'[t] = attached[t]
        BY <2>1, <3>2, <3>3
      <3>5. Exists(t)'
        BY <2>1, <3>2, <3>3, CloudAssumption DEF Exists, Parents, Targets
      <3>6. orgRequests'[g].target = t
        BY <3>1, <3>2
      <3> QED
        BY <2>1, <3>1, <3>2, <3>4, <3>5, <3>6 DEF Exists
    <2> QED
      BY <2>2, <2>3, <2>4
  <1> QED
    BY <1>1, <1>2, <1>3, <1>4, <1>5, <1>6, <1>7, <1>8, OrganizationTransactions

\* The path of a unit has the unit, has the parents of its units and is the least such set.
PathsAreLeast ==
    \A u \in Parents :
        /\ u \in Ancestors(u) /\ Ancestors(u) \in SUBSET Parents /\ Climbs(Ancestors(u))
        /\ \A S \in SUBSET Parents : u \in S /\ Climbs(S) => Ancestors(u) \subseteq S

LEMMA AncestorsLeast == CloudTypeOK => PathsAreLeast
  <1> SUFFICES ASSUME CloudTypeOK, NEW u \in Parents
               PROVE  /\ u \in Ancestors(u) /\ Ancestors(u) \in SUBSET Parents /\ Climbs(Ancestors(u))
                      /\ \A S \in SUBSET Parents : u \in S /\ Climbs(S) => Ancestors(u) \subseteq S
    BY DEF PathsAreLeast
  <1>1. u \in Ancestors(u) /\ Ancestors(u) \in SUBSET Parents
    BY DEF Ancestors
  <1>2. \A S \in SUBSET Parents : u \in S /\ Climbs(S) => Ancestors(u) \subseteq S
    BY DEF Ancestors
  <1>3. ASSUME NEW v \in Ancestors(u) \cap Units, unitParent[v] # NoUnit
        PROVE  unitParent[v] \in Ancestors(u)
    <2>1. unitParent[v] \in Parents
      BY <1>3 DEF CloudTypeOK
    <2>2. ASSUME NEW S \in SUBSET Parents, u \in S, Climbs(S)
          PROVE  unitParent[v] \in S
      BY <1>2, <1>3, <2>2 DEF Climbs
    <2> QED
      BY <2>1, <2>2 DEF Ancestors
  <1> QED
    BY <1>1, <1>2, <1>3 DEF Climbs

\* While no unit is inserted, paths and what exists stay.
LEMMA PathFrame ==
    ASSUME CloudTypeOK, CloudTypeOK', UNCHANGED unitParent
    PROVE  \A u \in Parents : Ancestors(u)' = Ancestors(u) /\ (Exists(u)' <=> Exists(u))
  <1>1. \A S : Climbs(S)' <=> Climbs(S)
    BY DEF Climbs
  <1>2. \A u \in Parents : Ancestors(u)' = Ancestors(u)
    BY <1>1 DEF Ancestors
  <1>3. \A u \in Parents : Exists(u)' <=> Exists(u)
    BY CloudAssumption DEF Exists, Parents
  <1> QED
    BY <1>2, <1>3

\* A unit inserted below one that exists gets that one's path, and changes no other.
LEMMA UnitInserted ==
    ASSUME CloudTypeOK, CloudTypeOK', PathsAreRooted,
           NEW u \in Units, NEW parent \in Parents, ~Exists(u), Exists(parent),
           unitParent' = [unitParent EXCEPT ![u] = parent]
    PROVE  /\ \A x \in Parents : Exists(x) => Exists(x)' /\ Ancestors(x)' = Ancestors(x)
           /\ \A x \in Parents : Exists(x)' => Exists(x) \/ x = u
           /\ Ancestors(u)' \subseteq Ancestors(parent) \cup {u}
           /\ Root \in Ancestors(u)'
  <1>1. (\A x \in Parents :
            /\ x \in Ancestors(x) /\ Ancestors(x) \in SUBSET Parents /\ Climbs(Ancestors(x))
            /\ \A S \in SUBSET Parents : x \in S /\ Climbs(S) => Ancestors(x) \subseteq S)'
    <2>1. CloudTypeOK'
      OBVIOUS
    <2>2. PathsAreLeast'
      BY <2>1, AncestorsLeast, PTL
    <2> QED
      BY <2>2 DEF PathsAreLeast
  <1>2. \A S \in SUBSET Parents : u \notin S => (Climbs(S)' <=> Climbs(S))
    BY DEF Climbs, CloudTypeOK
  <1>3. \A x \in Parents : (Exists(x)' <=> Exists(x) \/ x = u)
    <2>1. \A x \in Units : (unitParent'[x] # NoUnit <=> unitParent[x] # NoUnit \/ x = u)
      BY CloudAssumption DEF Parents, CloudTypeOK
    <2>2. \A x \in Parents : Exists(x) <=> (x = Root \/ (x \in Units /\ unitParent[x] # NoUnit))
      BY CloudAssumption DEF Exists, Parents
    <2>3. \A x \in Parents : Exists(x)' <=> (x = Root \/ (x \in Units /\ unitParent'[x] # NoUnit))
      BY CloudAssumption DEF Exists, Parents
    <2> QED
      BY <2>1, <2>2, <2>3
  <1>4. ASSUME NEW x \in Parents, Exists(x)
        PROVE  Ancestors(x)' = Ancestors(x)
    <2>1. u \notin Ancestors(x)
      BY <1>4 DEF PathsAreRooted
    <2>2. Ancestors(x)' \subseteq Ancestors(x)
      BY <1>1, <1>2, <2>1, AncestorsLeast DEF PathsAreLeast
    <2>3. Climbs(Ancestors(x)')
      BY <1>1, <1>2, <2>1, <2>2
    <2>4. Ancestors(x) \subseteq Ancestors(x)'
      BY <1>1, <2>3, AncestorsLeast DEF PathsAreLeast
    <2> QED
      BY <2>2, <2>4
  <1>5. Ancestors(u)' \subseteq Ancestors(parent) \cup {u}
    <2>1. PICK A \in SUBSET Parents : A = Ancestors(parent)
      BY AncestorsLeast DEF PathsAreLeast
    <2>2. parent \in A /\ Climbs(A)'
      BY <1>1, <1>4, <2>1
    <2>3. A \cup {u} \in SUBSET Parents /\ u \in Parents
      BY DEF Parents
    <2>4. Climbs(A \cup {u})'
      BY <2>2 DEF Climbs, CloudTypeOK
    <2> QED
      BY <1>1, <2>1, <2>3, <2>4
  <1>6. Root \in Ancestors(u)'
    <2>1. u \in Ancestors(u)' /\ Climbs(Ancestors(u))'
      BY <1>1 DEF Parents
    <2>2. parent \in Ancestors(u)'
      BY <2>1, CloudAssumption DEF Climbs, CloudTypeOK, Parents
    <2>3. Ancestors(parent)' \subseteq Ancestors(u)'
      BY <1>1, <2>2 DEF Parents
    <2>4. Root \in Ancestors(parent)
      BY DEF PathsAreRooted
    <2> QED
      BY <1>4, <2>3, <2>4
  <1> QED
    BY <1>3, <1>4, <1>5, <1>6

\* Below units that exist, and to units that exist, accounts may be created and moved.
LEMMA AccountPlaced ==
    ASSUME CloudTypeOK, CloudTypeOK', PathInv, UNCHANGED <<unitParent, orgRequests>>,
           NEW a \in Members, NEW parent \in Parents, Exists(parent),
           accountParent' = [accountParent EXCEPT ![a] = parent]
    PROVE  PathInv'
  <1>1. \A u \in Parents : Ancestors(u)' = Ancestors(u) /\ (Exists(u)' <=> Exists(u))
    BY PathFrame
  <1>2. PathsAreRooted'
    BY <1>1 DEF PathInv, PathsAreRooted
  <1>3. ASSUME NEW b \in Members, accountParent'[b] # NoUnit
        PROVE  Exists(accountParent[b])'
    <2>1. accountParent'[b] \in Parents
      BY <1>3 DEF CloudTypeOK
    <2>2. PICK x \in Parents : x = accountParent'[b]
      BY <2>1
    <2>3. Exists(x)
      BY <1>3, <2>2 DEF PathInv, ParentsExist, CloudTypeOK
    <2>4. Exists(x)'
      BY <1>1, <2>3
    <2> QED
      BY <2>2, <2>4 DEF Exists
  <1>4. ASSUME NEW h \in Handlers, (orgRequests[h].step = "unit")'
        PROVE  (Exists(orgRequests[h].parent) /\ Cardinality(Ancestors(orgRequests[h].parent)) <= MaxDepth)'
    <2>1. PICK x \in Parents : x = orgRequests[h].parent
      BY <1>4, AttachmentFields
    <2>2. Exists(x) /\ Cardinality(Ancestors(x)) <= MaxDepth
      BY <1>4, <2>1 DEF PathInv, ParentsExist
    <2>3. Exists(x)' /\ (Cardinality(Ancestors(x)) <= MaxDepth)'
      BY <1>1, <2>2
    <2> QED
      BY <2>1, <2>3
  <1> QED
    BY <1>2, <1>3, <1>4 DEF PathInv, ParentsExist

\* Neither the tree nor the accounts in it change; a request to insert a unit has just looked
\* at its parent, or is no newer.
LEMMA PathsWait ==
    ASSUME CloudTypeOK, CloudTypeOK', PathInv, UNCHANGED <<unitParent, accountParent>>,
           \A h \in Handlers : orgRequests'[h].step = "unit" =>
               \/ orgRequests'[h] = orgRequests[h]
               \/ /\ Exists(orgRequests'[h].parent)
                  /\ Cardinality(Ancestors(orgRequests'[h].parent)) <= MaxDepth
    PROVE  PathInv'
  <1>1. \A u \in Parents : Ancestors(u)' = Ancestors(u) /\ (Exists(u)' <=> Exists(u))
    BY PathFrame
  <1>2. PathsAreRooted'
    BY <1>1 DEF PathInv, PathsAreRooted
  <1>3. ASSUME NEW b \in Members, accountParent'[b] # NoUnit
        PROVE  Exists(accountParent[b])'
    BY <1>3 DEF PathInv, ParentsExist, Exists
  <1>4. ASSUME NEW h \in Handlers, (orgRequests[h].step = "unit")'
        PROVE  (Exists(orgRequests[h].parent) /\ Cardinality(Ancestors(orgRequests[h].parent)) <= MaxDepth)'
    <2>1. PICK x \in Parents : x = orgRequests'[h].parent
      <3>1. orgRequests'[h] \in {NoChange}
               \cup [step: {"attachment"}, target: Targets, policy: ScpNames,
                     attach: BOOLEAN, count: 0 .. Cardinality(ScpNames)]
               \cup [step: {"unit"}, parent: Parents]
        BY DEF CloudTypeOK
      <3> QED
        BY <1>4, <3>1 DEF NoChange
    <2>2. Exists(x) /\ Cardinality(Ancestors(x)) <= MaxDepth
      BY <1>4, <2>1 DEF PathInv, ParentsExist
    <2>3. Exists(x)' /\ (Cardinality(Ancestors(x)) <= MaxDepth)'
      BY <1>1, <2>2
    <2> QED
      BY <2>1, <2>3
  <1> QED
    BY <1>2, <1>3, <1>4 DEF PathInv, ParentsExist

\* A path that has grown by one unit.
LEMMA LongerPath ==
    ASSUME NEW A, IsFiniteSet(A), Cardinality(A) <= MaxDepth, NEW u,
           NEW B, B \subseteq A \cup {u}
    PROVE  IsFiniteSet(B) /\ Cardinality(B) <= MaxDepth + 1
  <1>1. /\ IsFiniteSet(A \cup {u})
        /\ Cardinality(A \cup {u}) = IF u \in A THEN Cardinality(A) ELSE Cardinality(A) + 1
    BY FS_AddElement
  <1>2. Cardinality(A) \in Nat
    BY FS_CardinalityType
  <1>3. Cardinality(A \cup {u}) \in Nat /\ Cardinality(A \cup {u}) <= MaxDepth + 1
    <2> DEFINE n == Cardinality(A)
               m == Cardinality(A \cup {u})
    <2>1. n \in Nat /\ (m = n \/ m = n + 1) /\ n <= MaxDepth
      BY <1>1, <1>2
    <2> HIDE DEF n, m
    <2>2. m \in Nat /\ m <= MaxDepth + 1
      BY <2>1, CloudAssumption
    <2> QED
      BY <2>2 DEF m
  <1>4. IsFiniteSet(B) /\ Cardinality(B) <= Cardinality(A \cup {u})
    BY <1>1, FS_Subset
  <1>5. Cardinality(B) \in Nat
    BY <1>4, FS_CardinalityType
  <1> DEFINE m == Cardinality(A \cup {u})
             k == Cardinality(B)
  <1>6. k \in Nat /\ m \in Nat /\ k <= m /\ m <= MaxDepth + 1
    BY <1>3, <1>4, <1>5
  <1> HIDE DEF k, m
  <1>7. k <= MaxDepth + 1
    BY <1>6, CloudAssumption
  <1> QED
    BY <1>4, <1>7 DEF k

LEMMA PathStep ==
    ASSUME CloudTypeOK, CloudTypeOK', PathInv, OrganizationRequests
    PROVE  PathInv'
  <1>1. ASSUME NEW p \in ScpNames, CreateServiceControlPolicyTx(p)
        PROVE  PathInv'
    BY <1>1, PathsWait DEF CreateServiceControlPolicyTx
  <1>2. ASSUME NEW h \in Handlers, NEW t \in Targets, NEW p \in ScpNames, NEW attach \in BOOLEAN,
               ChangeAttachmentBegin(h, t, p, attach)
        PROVE  PathInv'
    <2>1. \A g \in Handlers : orgRequests'[g].step = "unit" => orgRequests'[g] = orgRequests[g]
      BY <1>2 DEF ChangeAttachmentBegin, CloudTypeOK
    <2> QED
      BY <1>2, <2>1, PathsWait DEF ChangeAttachmentBegin
  <1>3. ASSUME NEW h \in Handlers, NEW parent \in Parents, CreateUnitCheck(h, parent)
        PROVE  PathInv'
    <2>1. /\ Exists(parent) /\ Cardinality(Ancestors(parent)) <= MaxDepth
          /\ UNCHANGED <<unitParent, accountParent>>
          /\ orgRequests' = [orgRequests EXCEPT ![h] = [step |-> "unit", parent |-> parent]]
      BY <1>3 DEF CreateUnitCheck
    <2>2. orgRequests'[h].parent = parent /\ \A g \in Handlers \ {h} : orgRequests'[g] = orgRequests[g]
      BY <2>1 DEF CloudTypeOK
    <2> QED
      BY <2>1, <2>2, PathsWait
  <1>4. ASSUME NEW a \in Members, NEW parent \in Parents, CreateMemberAccountTx(a, parent)
        PROVE  PathInv'
    BY <1>4, AccountPlaced DEF CreateMemberAccountTx
  <1>5. ASSUME NEW a \in Members, NEW parent \in Parents, MoveMemberAccountTx(a, parent)
        PROVE  PathInv'
    BY <1>5, AccountPlaced DEF MoveMemberAccountTx
  <1>6. ASSUME NEW h \in Handlers, ChangeAttachmentCommit(h) \/ AbandonChange(h)
        PROVE  PathInv'
    <2>1. /\ orgRequests' = [orgRequests EXCEPT ![h] = NoChange]
          /\ UNCHANGED <<unitParent, accountParent>>
      BY <1>6 DEF ChangeAttachmentCommit, AbandonChange
    <2>2. \A g \in Handlers : orgRequests'[g].step = "unit" => orgRequests'[g] = orgRequests[g]
      BY <2>1 DEF NoChange, CloudTypeOK
    <2> QED
      BY <2>1, <2>2, PathsWait
  <1>7. ASSUME NEW h \in Handlers, NEW u \in Units, CreateUnitInsert(h, u)
        PROVE  PathInv'
    <2>1. PICK parent \in Parents : parent = orgRequests[h].parent
      BY <1>7, AttachmentFields DEF CreateUnitInsert
    <2>2. /\ ~Exists(u) /\ Exists(parent) /\ Cardinality(Ancestors(parent)) <= MaxDepth
          /\ unitParent' = [unitParent EXCEPT ![u] = parent]
          /\ orgRequests' = [orgRequests EXCEPT ![h] = NoChange]
          /\ UNCHANGED accountParent
      BY <1>7, <2>1 DEF CreateUnitInsert, PathInv, ParentsExist
    <2>3. /\ \A x \in Parents : Exists(x) => Exists(x)' /\ Ancestors(x)' = Ancestors(x)
          /\ \A x \in Parents : Exists(x)' => Exists(x) \/ x = u
          /\ Ancestors(u)' \subseteq Ancestors(parent) \cup {u}
          /\ Root \in Ancestors(u)'
      BY <2>2, UnitInserted DEF PathInv
    <2>4. PathsAreRooted'
      <3>1. ASSUME NEW x \in Parents, Exists(x)
            PROVE  (/\ Ancestors(x) \subseteq {y \in Parents : Exists(y)}
                    /\ Root \in Ancestors(x)
                    /\ IsFiniteSet(Ancestors(x)) /\ Cardinality(Ancestors(x)) <= MaxDepth + 1)'
        BY <2>3, <3>1 DEF PathInv, PathsAreRooted
      <3>2. (/\ Ancestors(u) \subseteq {y \in Parents : Exists(y)}
             /\ Root \in Ancestors(u)
             /\ IsFiniteSet(Ancestors(u)) /\ Cardinality(Ancestors(u)) <= MaxDepth + 1)'
        <4>1. IsFiniteSet(Ancestors(parent)) /\ Ancestors(parent) \subseteq {y \in Parents : Exists(y)}
          BY <2>2 DEF PathInv, PathsAreRooted
        <4>2. (IsFiniteSet(Ancestors(u)) /\ Cardinality(Ancestors(u)) <= MaxDepth + 1)'
          BY <2>2, <2>3, <4>1, LongerPath
        <4>3. Exists(u)'
          BY <2>2, CloudAssumption DEF Exists, CloudTypeOK, Parents
        <4>4. (Ancestors(u) \subseteq {y \in Parents : Exists(y)})'
          BY <2>3, <4>1, <4>3 DEF Parents
        <4> QED
          BY <2>3, <4>2, <4>4
      <3> QED
        BY <2>3, <3>1, <3>2 DEF PathsAreRooted
    <2>5. ASSUME NEW b \in Members, accountParent'[b] # NoUnit
          PROVE  Exists(accountParent[b])'
      <3>1. PICK x \in Parents : x = accountParent[b]
        BY <2>2, <2>5 DEF CloudTypeOK
      <3>2. Exists(x)'
        BY <2>2, <2>3, <2>5, <3>1 DEF PathInv, ParentsExist
      <3> QED
        BY <2>2, <3>1, <3>2
    <2>6. ASSUME NEW g \in Handlers, (orgRequests[g].step = "unit")'
          PROVE  (Exists(orgRequests[g].parent) /\ Cardinality(Ancestors(orgRequests[g].parent)) <= MaxDepth)'
      <3>1. orgRequests'[g] = orgRequests[g]
        BY <2>2, <2>6 DEF NoChange, CloudTypeOK
      <3>2. PICK x \in Parents : x = orgRequests[g].parent
        BY <2>6, <3>1, AttachmentFields
      <3>3. Exists(x) /\ Cardinality(Ancestors(x)) <= MaxDepth
        BY <2>6, <3>1, <3>2 DEF PathInv, ParentsExist
      <3>4. Exists(x)' /\ (Cardinality(Ancestors(x)) <= MaxDepth)'
        BY <2>3, <3>3
      <3> QED
        BY <3>1, <3>2, <3>4
    <2> QED
      BY <2>4, <2>5, <2>6 DEF PathInv, ParentsExist
  <1> QED
    BY <1>1, <1>2, <1>3, <1>4, <1>5, <1>6, <1>7, OrganizationTransactions

LEMMA CloudStep ==
    ASSUME CloudTypeOK, GovernedInv, OrganizationRequests
    PROVE  CloudTypeOK' /\ GovernedInv'
  BY LevelStep, PathStep DEF GovernedInv
-----------------------------------------------------------------------------
(***************************************************************************)
(* Workloads: types, and tokens of disabled accounts                       *)
(***************************************************************************)
LEMMA ExchangeFields ==
    ASSUME WorkloadTypeOK, NEW x \in Exchanges
    PROVE  /\ exchanges[x].step \in {"idle", "reviewed", "verified", "minting"}
           /\ exchanges[x].step # "idle" => exchanges[x] # NoExchange /\ exchanges[x].pod \in PodIds
           /\ exchanges[x].step \in {"verified", "minting"} =>
                 /\ exchanges[x].role \in Services
                 /\ exchanges[x] = [step |-> exchanges[x].step, pod |-> exchanges[x].pod,
                                    role |-> exchanges[x].role]
  <1> DEFINE e == exchanges[x]
  <1>1. e \in {NoExchange} \cup [step: {"reviewed"}, pod: PodIds]
                \cup [step: {"verified", "minting"}, pod: PodIds, role: Services]
    BY DEF WorkloadTypeOK
  <1> HIDE DEF e
  <1>2. CASE e \in {NoExchange} \cup [step: {"reviewed"}, pod: PodIds]
    BY <1>2 DEF NoExchange, e
  <1>3. CASE e \in [step: {"verified", "minting"}, pod: PodIds, role: Services]
    <2>1. PICK st \in {"verified", "minting"}, p \in PodIds, r \in Services :
            e = [step |-> st, pod |-> p, role |-> r]
      BY <1>3
    <2> QED
      BY <2>1 DEF NoExchange, e
  <1> QED
    BY <1>1, <1>2, <1>3

\* An exchange goes on, and the other variables stay.
LEMMA ExchangeProceeds ==
    ASSUME WorkloadTypeOK, PodsHaveRoles, WorkloadInv, enabled \in [Services \cup Roles -> BOOLEAN],
           NEW x \in Exchanges, NEW e,
           e \in {NoExchange} \cup [step: {"reviewed"}, pod: PodIds]
                   \cup [step: {"verified", "minting"}, pod: PodIds, role: Services],
           e.step = "minting" => enabled[e.role],
           Proceed(x, e), UNCHANGED <<tokens, lastToken>>
    PROVE  WorkloadTypeOK' /\ PodsHaveRoles' /\ WorkloadInv'
  <1>1. /\ exchanges' = [exchanges EXCEPT ![x] = e]
        /\ UNCHANGED <<enabled, taskRole, serviceState, pods, apiKeys, tokens, lastToken>>
    BY DEF Proceed, iamVars
  <1>2. WorkloadTypeOK'
    BY <1>1 DEF WorkloadTypeOK
  <1>3. PodsHaveRoles' /\ DisabledTokensDie'
    BY <1>1 DEF PodsHaveRoles, WorkloadInv, DisabledTokensDie
  <1>4. MintsAreEnabled'
    BY <1>1 DEF WorkloadInv, MintsAreEnabled, WorkloadTypeOK
  <1> QED
    BY <1>2, <1>3, <1>4 DEF WorkloadInv

LEMMA WorkloadProgress ==
    ASSUME TypeInv, WorkloadInv, WorkloadRequests
    PROVE  /\ WorkloadTypeOK' /\ PodsHaveRoles' /\ WorkloadInv'
           /\ enabled' \in [Services \cup Roles -> BOOLEAN]
  <1> DEFINE Goal == /\ WorkloadTypeOK' /\ PodsHaveRoles' /\ WorkloadInv'
                     /\ enabled' \in [Services \cup Roles -> BOOLEAN]
  <1>0. /\ WorkloadTypeOK /\ PodsHaveRoles /\ DisabledTokensDie /\ MintsAreEnabled
        /\ enabled \in [Services \cup Roles -> BOOLEAN]
    BY DEF TypeInv, IamTypeOK, WorkloadInv
  <1> USE DEF WorkloadTypeOK, PodsHaveRoles, WorkloadInv, DisabledTokensDie, MintsAreEnabled
  <1>1. ASSUME NEW k \in 1 .. MaxKeys, NEW p \in Services, CreateApiKeyTx(k, p)
        PROVE  Goal
    <2>1. /\ apiKeys' = [apiKeys EXCEPT ![k] = [state |-> "live", principal |-> p]]
          /\ UNCHANGED <<enabled, taskRole, serviceState, pods, tokens, lastToken, exchanges>>
      BY <1>1 DEF CreateApiKeyTx, iamVars
    <2>2. WorkloadTypeOK'
      BY <1>0, <2>1
    <2> QED
      BY <1>0, <2>1, <2>2
  <1>2. ASSUME NEW k \in 1 .. MaxKeys, apiKeys[k] # NoRow, RevokeApiKeyTx(k)
        PROVE  Goal
    <2>1. /\ apiKeys' = [apiKeys EXCEPT ![k].state = "revoked"]
          /\ UNCHANGED <<enabled, taskRole, serviceState, pods, tokens, lastToken, exchanges>>
      BY <1>2 DEF RevokeApiKeyTx, iamVars
    <2>2. WorkloadTypeOK'
      BY <1>0, <1>2, <2>1
    <2> QED
      BY <1>0, <2>1, <2>2
  <1>3. ASSUME NEW p \in Services \cup Roles, NEW on \in BOOLEAN, SetServiceAccountEnabledTx(p, on)
        PROVE  Goal
    <2>1. /\ enabled' = [enabled EXCEPT ![p] = on]
          /\ tokens' = IF on THEN tokens
                 ELSE [t \in TokenIds |-> IF tokens[t] # NoRow /\ tokens[t].principal = p
                                          THEN NoRow ELSE tokens[t]]
          /\ UNCHANGED <<taskRole, serviceState, pods, lastToken, apiKeys, exchanges>>
          /\ \A x \in Exchanges : exchanges[x].step = "minting" => exchanges[x].role # p
      BY <1>3 DEF SetServiceAccountEnabledTx, LockAccount, AccountUnlocked
    <2>2. enabled' \in [Services \cup Roles -> BOOLEAN]
      BY <1>0, <2>1
    <2>3. WorkloadTypeOK'
      BY <1>0, <2>1
    <2>4. DisabledTokensDie'
      <3> SUFFICES ASSUME NEW t \in TokenIds, tokens'[t] # NoRow
                   PROVE  enabled'[tokens'[t].principal]
        OBVIOUS
      <3>1. tokens'[t] = tokens[t]
        BY <2>1, <1>0
      <3>2. tokens[t].principal \in Services /\ enabled[tokens[t].principal]
        BY <1>0, <3>1
      <3>3. CASE on
        <4>1. enabled'[tokens[t].principal]
          BY <1>0, <2>1, <3>2, <3>3
        <4> QED
          BY <3>1, <4>1
      <3>4. CASE ~on
        <4>1. tokens[t].principal # p
          BY <1>0, <2>1, <3>4, <3>1
        <4>2. enabled'[tokens[t].principal]
          BY <1>0, <2>1, <3>2, <4>1
        <4> QED
          BY <3>1, <4>2
      <3> QED
        BY <3>3, <3>4
    <2>5. MintsAreEnabled'
      BY <1>0, <2>1, ExchangeFields
    <2> QED
      BY <1>0, <2>1, <2>2, <2>3, <2>4, <2>5
  <1>4. ASSUME NEW actor, NEW p \in Services \cup {NoService}, AttachTaskRole(actor, p)
        PROVE  Goal
    BY <1>0, <1>4 DEF AttachTaskRole, iamVars
  <1>5. ASSUME NEW state \in {"running", "stopped", "deleting"}, ChangeServiceState(state)
        PROVE  Goal
    BY <1>0, <1>5 DEF ChangeServiceState, iamVars
  <1>6. ASSUME NEW p \in PodIds, StartPod(p)
        PROVE  Goal
    <2> DEFINE yes == TRUE
    <2>1. yes \in BOOLEAN
      OBVIOUS
    <2>2. /\ pods' = [pods EXCEPT ![p] = [running |-> yes, role |-> taskRole]]
          /\ taskRole \in Services
          /\ UNCHANGED <<enabled, taskRole, serviceState, tokens, lastToken, apiKeys, exchanges>>
      BY <1>0, <1>6 DEF StartPod, iamVars
    <2> HIDE DEF yes
    <2>3. WorkloadTypeOK' /\ PodsHaveRoles'
      BY <1>0, <2>1, <2>2
    <2> QED
      BY <1>0, <2>2, <2>3
  <1>7. ASSUME NEW p \in PodIds, StopPod(p)
        PROVE  Goal
    <2> DEFINE no == FALSE
    <2>1. no \in BOOLEAN
      OBVIOUS
    <2>2. /\ pods' = [pods EXCEPT ![p].running = no] /\ pods[p].running
          /\ UNCHANGED <<enabled, taskRole, serviceState, tokens, lastToken, apiKeys, exchanges>>
      BY <1>0, <1>7 DEF StopPod, iamVars
    <2> HIDE DEF no
    <2>3. WorkloadTypeOK' /\ PodsHaveRoles'
      BY <1>0, <2>1, <2>2
    <2> QED
      BY <1>0, <2>2, <2>3
  <1>8. ASSUME NEW x \in Exchanges, NEW p \in PodIds, ReviewToken(x, p)
        PROVE  Goal
    <2> DEFINE e == [step |-> "reviewed", pod |-> p]
    <2>1. Proceed(x, e) /\ UNCHANGED <<tokens, lastToken, enabled>>
      BY <1>8 DEF ReviewToken, Proceed, iamVars
    <2>2. e \in [step: {"reviewed"}, pod: PodIds] /\ e.step # "minting"
      OBVIOUS
    <2> HIDE DEF e
    <2> QED
      BY <1>0, <2>1, <2>2, ExchangeProceeds
  <1>9. ASSUME NEW x \in Exchanges, VerifyPod(x)
        PROVE  Goal
    <2> DEFINE pod == exchanges[x].pod
               e == [step |-> "verified", pod |-> pod, role |-> pods[pod].role]
    <2>1. pod \in PodIds
      BY <1>0, <1>9, ExchangeFields DEF VerifyPod
    <2>2. /\ (Proceed(x, e) /\ pods[pod].running) \/ Proceed(x, NoExchange)
          /\ UNCHANGED <<tokens, lastToken, enabled>>
      BY <1>9 DEF VerifyPod, Proceed, iamVars
    <2>3. pods[pod].running => pods[pod].role \in Services
      BY <1>0, <2>1
    <2> HIDE DEF pod
    <2>4. pods[pod].running =>
            e \in [step: {"verified", "minting"}, pod: PodIds, role: Services] /\ e.step # "minting"
      BY <2>1, <2>3
    <2>5. NoExchange.step # "minting"
      BY DEF NoExchange
    <2> HIDE DEF e
    <2>6. CASE Proceed(x, e) /\ pods[pod].running
      BY <1>0, <2>2, <2>4, <2>6, ExchangeProceeds
    <2>7. CASE Proceed(x, NoExchange)
      BY <1>0, <2>2, <2>5, <2>7, ExchangeProceeds
    <2> QED
      BY <2>2, <2>6, <2>7
  <1>10. ASSUME NEW x \in Exchanges, MintLock(x)
         PROVE  Goal
    <2> DEFINE role == exchanges[x].role
               e == [exchanges[x] EXCEPT !.step = "minting"]
    <2>1. exchanges[x].step = "verified"
      BY <1>10 DEF MintLock
    <2>2. PICK pod \in PodIds, r \in Services : exchanges[x] = [step |-> "verified", pod |-> pod, role |-> r]
      BY <1>0, <2>1, ExchangeFields
    <2>3. e = [step |-> "minting", pod |-> pod, role |-> r] /\ role = r
      BY <2>2
    <2>4. /\ (Proceed(x, e) /\ enabled[role]) \/ Proceed(x, NoExchange)
          /\ UNCHANGED <<tokens, lastToken, enabled>>
      BY <1>10 DEF MintLock, Proceed, iamVars
    <2> HIDE DEF e, role
    <2>5. e \in [step: {"verified", "minting"}, pod: PodIds, role: Services] /\ e.role = r
      BY <2>3
    <2>6. NoExchange.step # "minting"
      BY DEF NoExchange
    <2>7. CASE Proceed(x, e) /\ enabled[role]
      BY <1>0, <2>3, <2>4, <2>5, <2>7, ExchangeProceeds
    <2>8. CASE Proceed(x, NoExchange)
      BY <1>0, <2>4, <2>6, <2>8, ExchangeProceeds
    <2> QED
      BY <2>4, <2>7, <2>8
  <1>11. ASSUME NEW x \in Exchanges, MintInsert(x)
         PROVE  Goal
    <2> DEFINE role == exchanges[x].role
               pod == exchanges[x].pod
               kept == [t \in TokenIds |-> IF tokens[t] # NoRow /\ tokens[t].state = "expired"
                                           THEN NoRow ELSE tokens[t]]
               row == [state |-> "live", principal |-> role, pod |-> pod]
    <2>1. /\ exchanges[x].step = "minting" /\ lastToken < MaxWorkloadTokens
          /\ \/ tokens' = [kept EXCEPT ![lastToken + 1] = row] /\ lastToken' = lastToken + 1
             \/ UNCHANGED <<tokens, lastToken>>
          /\ exchanges' = [exchanges EXCEPT ![x] = NoExchange]
          /\ UNCHANGED <<enabled, taskRole, serviceState, pods, apiKeys>>
      BY <1>11 DEF MintInsert, Proceed, iamVars
    <2>2. role \in Services /\ pod \in PodIds /\ enabled[role]
      BY <1>0, <2>1, ExchangeFields
    <2> HIDE DEF role, pod
    <2>3. /\ row \in [state: {"live", "expired"}, principal: Services, pod: PodIds]
          /\ row.principal = role
      BY <2>2
    <2> HIDE DEF row
    <2>4. /\ kept \in [TokenIds -> {NoRow} \cup [state: {"live", "expired"}, principal: Services, pod: PodIds]]
          /\ \A t \in TokenIds : kept[t] # NoRow => kept[t] = tokens[t]
      BY <1>0
    <2> HIDE DEF kept
    <2>5. /\ tokens' \in [TokenIds -> {NoRow} \cup [state: {"live", "expired"}, principal: Services, pod: PodIds]]
          /\ lastToken' \in 0 .. MaxWorkloadTokens
      BY <1>0, <2>1, <2>3, <2>4, WorkloadAssumption
    <2>6. WorkloadTypeOK'
      BY <1>0, <2>1, <2>5
    <2>7. DisabledTokensDie'
      <3> SUFFICES ASSUME NEW t \in TokenIds, tokens'[t] # NoRow
                   PROVE  enabled'[tokens'[t].principal]
        OBVIOUS
      <3>1. tokens'[t] = tokens[t] \/ tokens'[t] = row
        BY <1>0, <2>1, <2>4
      <3> QED
        BY <1>0, <2>1, <2>2, <2>3, <3>1
    <2>8. MintsAreEnabled'
      BY <1>0, <2>1 DEF NoExchange
    <2> QED
      BY <1>0, <2>1, <2>6, <2>7, <2>8
  <1>12. ASSUME NEW x \in Exchanges, ExchangeFails(x)
         PROVE  Goal
    <2>1. Proceed(x, NoExchange) /\ UNCHANGED <<tokens, lastToken, enabled>>
      BY <1>12 DEF ExchangeFails, Proceed, iamVars
    <2>2. NoExchange.step # "minting"
      BY DEF NoExchange
    <2> QED
      BY <1>0, <2>1, <2>2, ExchangeProceeds
  <1>13. ASSUME ExpireCredential
         PROVE  Goal
    <2>1. UNCHANGED <<enabled, taskRole, serviceState, pods, lastToken, exchanges>>
      BY <1>13 DEF ExpireCredential, iamVars
    <2>2. CASE \E t \in TokenIds : /\ tokens[t] # NoRow /\ tokens[t].state = "live"
                                   /\ tokens' = [tokens EXCEPT ![t].state = "expired"]
                                   /\ UNCHANGED apiKeys
      <3>1. PICK t \in TokenIds : /\ tokens[t] # NoRow /\ tokens' = [tokens EXCEPT ![t].state = "expired"]
                                  /\ UNCHANGED apiKeys
        BY <2>2
      <3>2. WorkloadTypeOK'
        BY <1>0, <2>1, <3>1
      <3>3. \A u \in TokenIds : tokens'[u] # NoRow =>
              tokens[u] # NoRow /\ tokens'[u].principal = tokens[u].principal
        BY <1>0, <3>1
      <3> QED
        BY <1>0, <2>1, <3>2, <3>3
    <2>3. CASE \E k \in 1 .. MaxKeys : /\ apiKeys[k] # NoRow /\ apiKeys[k].state = "live"
                                       /\ apiKeys' = [apiKeys EXCEPT ![k].state = "expired"]
                                       /\ UNCHANGED tokens
      <3>1. PICK k \in 1 .. MaxKeys : /\ apiKeys[k] # NoRow
                                      /\ apiKeys' = [apiKeys EXCEPT ![k].state = "expired"]
                                      /\ UNCHANGED tokens
        BY <2>3
      <3>2. WorkloadTypeOK'
        BY <1>0, <2>1, <3>1
      <3> QED
        BY <1>0, <2>1, <3>1, <3>2
    <2> QED
      BY <1>13, <2>2, <2>3 DEF ExpireCredential
  <1> HIDE DEF Goal
  <1>20. Goal
    BY <1>1, <1>2, <1>3, <1>4, <1>5, <1>6, <1>7, <1>8, <1>9, <1>10, <1>11, <1>12, <1>13
    DEF WorkloadRequests, CreateApiKey, RevokeApiKey, SetServiceAccountEnabled
  <1> QED
    BY <1>20 DEF Goal
-----------------------------------------------------------------------------
(***************************************************************************)
(* Policies, bindings, groups and boundaries: types, and managed roles     *)
(***************************************************************************)
LEMMA ManagedMeans ==
    ASSUME IamTypeOK, NEW k \in DOMAIN ManagedRole
    PROVE  /\ ManagedRole[k] \in Roles /\ ManagedRole[k] \in Principals
           /\ ManagedPolicy[k] \in PolicyIds
           /\ Managed(ManagedRole[k]) <=> RoleExists(ManagedRole[k])
           /\ RoleExists(ManagedRole[k]) <=> trust[ManagedRole[k]] \notin {NoTrust, Gone}
           /\ CenterTrust \notin {NoTrust, Gone}
  BY CenterAssumption, IamAssumption DEF Managed, RoleExists, Principals

\* Whom administrators may bind or bound is no role of Identity Center, made or not.
LEMMA NotManaged ==
    ASSUME IamTypeOK, ManagedRolesWait, NEW p \in Principals, ~Managed(p),
           PrincipalExists(p) \/ (\E b \in bindings : b[1] = p),
           NEW k \in DOMAIN ManagedRole
    PROVE  p # ManagedRole[k]
  <1> SUFFICES ASSUME p = ManagedRole[k]
               PROVE  FALSE
    OBVIOUS
  <1>1. p \in Roles /\ ~RoleExists(p)
    BY ManagedMeans
  <1>2. PrincipalExists(p) => RoleExists(p)
    <2>1. p \notin Services
      BY <1>1, IamAssumption
    <2> QED
      BY <1>1, <2>1 DEF PrincipalExists
  <1>3. trust[p] = NoTrust
    BY <1>1, ManagedMeans DEF ManagedRolesWait
  <1> QED
    BY <1>1, <1>2, <1>3 DEF ManagedRolesWait

\* Nothing about the managed roles changes.
ManagedStay ==
    \A k \in DOMAIN ManagedRole :
        LET r == ManagedRole[k] IN
        /\ trust'[r] = trust[r] /\ boundary'[r] = boundary[r]
        /\ iamPolicies'[ManagedPolicy[k]] = iamPolicies[ManagedPolicy[k]]
        /\ \A b : b[1] = r => (b \in bindings' <=> b \in bindings)

LEMMA ManagedFrame ==
    ASSUME IamTypeOK, ManagedRolesWait, ManagedRolesFollowTheirSet, ManagedStay,
           \A k \in DOMAIN ManagedRole :
              /\ trust[ManagedRole[k]] # NoTrust /\ permissionSets'[k[1]] \in Texts =>
                    permissionSets'[k[1]] = permissionSets[k[1]]
              /\ permissionSets'[k[1]] = NoText => permissionSets[k[1]] = NoText
    PROVE  ManagedRolesWait' /\ ManagedRolesFollowTheirSet'
  <1> SUFFICES ASSUME NEW k \in DOMAIN ManagedRole
               PROVE  LET r == ManagedRole[k] IN
                      /\ trust'[r] \in {NoTrust, CenterTrust}
                      /\ permissionSets'[k[1]] = NoText => trust'[r] = NoTrust
                      /\ trust'[r] = NoTrust =>
                            /\ \A b \in bindings' : b[1] # r
                            /\ boundary'[r] = NoPolicy
                      /\ Managed(r)' =>
                            /\ SetIsLive(k[1])' => iamPolicies'[ManagedPolicy[k]] = permissionSets'[k[1]]
                            /\ {b \in bindings' : b[1] = r} = {<<r, ManagedPolicy[k]>>}
                            /\ boundary'[r] = NoPolicy
                            /\ trust'[r] = CenterTrust
    BY DEF ManagedRolesWait, ManagedRolesFollowTheirSet
  <1> DEFINE r == ManagedRole[k]
  <1>1. /\ trust'[r] = trust[r] /\ boundary'[r] = boundary[r]
        /\ iamPolicies'[ManagedPolicy[k]] = iamPolicies[ManagedPolicy[k]]
        /\ {b \in bindings' : b[1] = r} = {b \in bindings : b[1] = r}
    BY DEF ManagedStay
  <1>2. /\ r \in Roles
        /\ Managed(r) <=> RoleExists(r)
        /\ RoleExists(r) <=> trust[r] \notin {NoTrust, Gone}
        /\ CenterTrust \notin {NoTrust, Gone}
    BY ManagedMeans
  <1>3. Managed(r)' => trust'[r] \notin {NoTrust, Gone}
    BY DEF Managed, RoleExists
  <1>4. /\ trust[r] \in {NoTrust, CenterTrust}
        /\ permissionSets[k[1]] = NoText => trust[r] = NoTrust
        /\ trust[r] = NoTrust => (\A b \in bindings : b[1] # r) /\ boundary[r] = NoPolicy
        /\ Managed(r) =>
              /\ SetIsLive(k[1]) => iamPolicies[ManagedPolicy[k]] = permissionSets[k[1]]
              /\ {b \in bindings : b[1] = r} = {<<r, ManagedPolicy[k]>>}
              /\ boundary[r] = NoPolicy
              /\ trust[r] = CenterTrust
    BY DEF ManagedRolesWait, ManagedRolesFollowTheirSet
  <1>5. permissionSets'[k[1]] = NoText => trust'[r] = NoTrust
    BY <1>1, <1>4
  <1>6. Managed(r)' /\ SetIsLive(k[1])' =>
            SetIsLive(k[1]) /\ permissionSets'[k[1]] = permissionSets[k[1]]
    BY <1>1, <1>3 DEF SetIsLive
  <1> HIDE DEF r
  <1>7. trust'[r] = NoTrust => (\A b \in bindings' : b[1] # r) /\ boundary'[r] = NoPolicy
    BY <1>1, <1>4
  <1>8. Managed(r)' => Managed(r)
    BY <1>1, <1>2, <1>3
  <1>9. Managed(r)' =>
            /\ SetIsLive(k[1])' => iamPolicies'[ManagedPolicy[k]] = permissionSets'[k[1]]
            /\ {b \in bindings' : b[1] = r} = {<<r, ManagedPolicy[k]>>}
            /\ boundary'[r] = NoPolicy
            /\ trust'[r] = CenterTrust
    BY <1>1, <1>4, <1>6, <1>8
  <1> QED
    BY <1>1, <1>4, <1>5, <1>7, <1>9 DEF r

LEMMA PolicyStep ==
    ASSUME TypeInv, ManagedRolesWait, ManagedRolesFollowTheirSet, PolicyRequests
    PROVE  IamTypeOK' /\ ManagedRolesWait' /\ ManagedRolesFollowTheirSet'
  <1> DEFINE Goal == IamTypeOK' /\ ManagedRolesWait' /\ ManagedRolesFollowTheirSet'
  <1>0. /\ IamTypeOK
        /\ UNCHANGED <<memberRole, enabled, trust, roleSessions, lastSession, active>>
        /\ UNCHANGED <<permissionSets, crews, crewMembers, lastMembership, assignments>>
    BY PolicyFootprint DEF TypeInv, centerVars
  <1>a. ASSUME IamTypeOK', ManagedStay
        PROVE  Goal
    BY <1>0, <1>a, ManagedFrame
  <1>1. ASSUME NEW actor, NEW d \in PolicyIds, NEW text \in Texts, CreatePolicy(actor, d, text)
        PROVE  Goal
    <2>1. /\ iamPolicies' = [iamPolicies EXCEPT ![d] = text]
          /\ UNCHANGED <<bindings, iamGroups, groupMembers, groupPolicies, boundary>>
          /\ \A k \in DOMAIN ManagedPolicy : ManagedPolicy[k] # d
      BY <1>1 DEF CreatePolicy, CreatePolicyTx
    <2>2. IamTypeOK'
      BY <1>0, <2>1 DEF IamTypeOK
    <2>3. ManagedStay
      BY <1>0, <2>1, CenterAssumption DEF IamTypeOK, ManagedStay
    <2> QED
      BY <2>2, <2>3, <1>a
  <1>2. ASSUME NEW p \in Principals, NEW d \in PolicyIds, CreateBindingTx(p, d)
        PROVE  Goal
    <2>1. /\ bindings' = bindings \cup {<<p, d>>} /\ PrincipalExists(p) /\ ~Managed(p)
          /\ UNCHANGED <<iamPolicies, iamGroups, groupMembers, groupPolicies, boundary>>
      BY <1>2 DEF CreateBindingTx, BindingAccepted, CanBind
    <2>2. IamTypeOK'
      BY <1>0, <2>1 DEF IamTypeOK
    <2>3. \A k \in DOMAIN ManagedRole : p # ManagedRole[k]
      BY <1>0, <2>1, NotManaged
    <2>4. ManagedStay
      BY <1>0, <2>1, <2>3 DEF ManagedStay
    <2> QED
      BY <2>2, <2>4, <1>a
  <1>3. ASSUME NEW p \in Principals, NEW d \in PolicyIds, DeleteBindingTx(p, d)
        PROVE  Goal
    <2>1. /\ bindings' = bindings \ {<<p, d>>} /\ <<p, d>> \in bindings /\ ~Managed(p)
          /\ UNCHANGED <<iamPolicies, iamGroups, groupMembers, groupPolicies, boundary>>
      BY <1>3 DEF DeleteBindingTx
    <2>2. IamTypeOK'
      BY <1>0, <2>1 DEF IamTypeOK
    <2>3. \E b \in bindings : b[1] = p
      BY <2>1
    <2>4. \A k \in DOMAIN ManagedRole : p # ManagedRole[k]
      BY <1>0, <2>1, <2>3, NotManaged
    <2>5. ManagedStay
      BY <1>0, <2>1, <2>4 DEF ManagedStay
    <2> QED
      BY <2>2, <2>5, <1>a
  <1>4. ASSUME NEW g \in GroupNames, CreateIamGroupTx(g) \/ DeleteIamGroupTx(g)
        PROVE  Goal
    <2>1. UNCHANGED <<iamPolicies, bindings, groupMembers, groupPolicies, boundary>>
      BY <1>4 DEF CreateIamGroupTx, DeleteIamGroupTx
    <2>2. /\ iamGroups' \subseteq GroupNames
          /\ groupMembers \subseteq iamGroups' \X UserPrincipals
          /\ groupPolicies \subseteq iamGroups' \X PolicyIds
      <3>1. CASE CreateIamGroupTx(g)
        BY <1>0, <3>1 DEF CreateIamGroupTx, IamTypeOK
      <3>2. CASE DeleteIamGroupTx(g)
        <4>1. /\ iamGroups' = iamGroups \ {g}
              /\ \A m \in groupMembers \cup groupPolicies : m[1] # g
          BY <3>2 DEF DeleteIamGroupTx
        <4> QED
          BY <1>0, <4>1 DEF IamTypeOK
      <3> QED
        BY <1>4, <3>1, <3>2
    <2>3. IamTypeOK'
      BY <1>0, <2>1, <2>2 DEF IamTypeOK
    <2>4. ManagedStay
      BY <1>0, <2>1 DEF ManagedStay
    <2> QED
      BY <2>3, <2>4, <1>a
  <1>5. ASSUME NEW g \in GroupNames, NEW p \in UserPrincipals, NEW add \in BOOLEAN,
               ChangeIamGroupMemberTx(g, p, add)
        PROVE  Goal
    <2>1. /\ UNCHANGED <<iamPolicies, bindings, iamGroups, groupPolicies, boundary>>
          /\ add => g \in iamGroups
          /\ groupMembers' = IF add THEN groupMembers \cup {<<g, p>>} ELSE groupMembers \ {<<g, p>>}
      BY <1>5 DEF ChangeIamGroupMemberTx, Toggle
    <2>2. IamTypeOK'
      BY <1>0, <2>1 DEF IamTypeOK
    <2>3. ManagedStay
      BY <1>0, <2>1 DEF ManagedStay
    <2> QED
      BY <2>2, <2>3, <1>a
  <1>6. ASSUME NEW g \in GroupNames, NEW d \in PolicyIds, NEW attach \in BOOLEAN,
               ChangeIamGroupPolicyTx(g, d, attach)
        PROVE  Goal
    <2>1. /\ UNCHANGED <<iamPolicies, bindings, iamGroups, groupMembers, boundary>>
          /\ attach => g \in iamGroups
          /\ groupPolicies' = IF attach THEN groupPolicies \cup {<<g, d>>} ELSE groupPolicies \ {<<g, d>>}
      BY <1>6 DEF ChangeIamGroupPolicyTx, Toggle
    <2>2. IamTypeOK'
      BY <1>0, <2>1 DEF IamTypeOK
    <2>3. ManagedStay
      BY <1>0, <2>1 DEF ManagedStay
    <2> QED
      BY <2>2, <2>3, <1>a
  <1>7. ASSUME NEW p \in Principals, NEW d \in PolicyIds \cup {NoPolicy}, SetPermissionsBoundaryTx(p, d)
        PROVE  Goal
    <2>1. /\ boundary' = [boundary EXCEPT ![p] = d] /\ PrincipalExists(p) /\ ~Managed(p)
          /\ UNCHANGED <<iamPolicies, bindings, iamGroups, groupMembers, groupPolicies>>
      BY <1>7 DEF SetPermissionsBoundaryTx
    <2>2. IamTypeOK'
      BY <1>0, <2>1 DEF IamTypeOK
    <2>3. \A k \in DOMAIN ManagedRole : p # ManagedRole[k] /\ ManagedRole[k] \in Principals
      BY <1>0, <2>1, NotManaged, ManagedMeans
    <2>4. ManagedStay
      BY <1>0, <2>1, <2>3 DEF ManagedStay, IamTypeOK
    <2> QED
      BY <2>2, <2>4, <1>a
  <1> HIDE DEF Goal
  <1>8. Goal
    BY <1>1, <1>2, <1>3, <1>4, <1>5, <1>6, <1>7
    DEF PolicyRequests, CreateBinding, DeleteBinding, CreateIamGroup, DeleteIamGroup,
        ChangeIamGroupMember, ChangeIamGroupPolicy, ChangePermissionsBoundary
  <1> QED
    BY <1>8 DEF Goal
-----------------------------------------------------------------------------
(***************************************************************************)
(* Role sessions: what the steps do to the table                           *)
(***************************************************************************)
SessionTable == [SessionIds -> {NoRow} \cup SessionRow]
AssumeRecord == {NoAssume}
    \cup [step: {"authorized"}, ask: Assumed]
    \cup [step: {"trusted"}, ask: Assumed, trust: Trusts]
    \cup [step: {"created", "revoking"}, ask: Assumed, session: SessionIds]

\* A row with the next id; old ones of the same role may be discarded.
Inserts(row, r) ==
    /\ lastSession + 1 \in SessionIds /\ lastSession' = lastSession + 1
    /\ \E old \in Discarded(r) :
          roleSessions' = [t \in SessionIds |-> IF t = lastSession + 1 THEN row
                               ELSE IF t \in old THEN NoRow ELSE roleSessions[t]]

LEMMA InsertedRows ==
    ASSUME IamTypeOK, NEW row \in SessionRow, NEW r, Inserts(row, r)
    PROVE  /\ roleSessions' \in SessionTable /\ lastSession' \in 0 .. MaxSessions
           /\ lastSession + 1 \in SessionIds /\ lastSession' = lastSession + 1
           /\ roleSessions'[lastSession + 1] = row
           /\ \A t \in SessionIds \ {lastSession + 1} :
                 \/ roleSessions'[t] = roleSessions[t]
                 \/ /\ roleSessions'[t] = NoRow /\ roleSessions[t].state # "live"
                    /\ \A c \in Consoles : active[c] # t
  <1> USE DEF SessionTable
  <1>1. PICK old \in Discarded(r) :
          roleSessions' = [t \in SessionIds |-> IF t = lastSession + 1 THEN row
                               ELSE IF t \in old THEN NoRow ELSE roleSessions[t]]
    BY DEF Inserts
  <1>2. lastSession + 1 \in SessionIds /\ lastSession' = lastSession + 1
    BY DEF Inserts
  <1>3. \A t \in old : roleSessions[t].state # "live" /\ \A c \in Consoles : active[c] # t
    BY <1>1 DEF Discarded
  <1>4. roleSessions' \in SessionTable
    BY <1>1 DEF IamTypeOK
  <1>5. lastSession' \in 0 .. MaxSessions
    BY <1>2 DEF IamTypeOK, SessionIds
  <1> QED
    BY <1>1, <1>2, <1>3, <1>4, <1>5

LEMMA ExpiredRows ==
    ASSUME IamTypeOK, NEW s \in SessionIds, roleSessions[s] # NoRow,
           roleSessions' = [roleSessions EXCEPT ![s].state = "expired"]
    PROVE  RevokesOnly(s, roleSessions')
  <1> DEFINE old == roleSessions[s]
             new == [old EXCEPT !.state = "expired"]
  <1>1. old \in SessionRow
    BY DEF IamTypeOK
  <1>2. roleSessions' = [roleSessions EXCEPT ![s] = new]
    OBVIOUS
  <1> HIDE DEF old, new
  <1>3. new \in SessionRow /\ GoesOn(old, new) /\ new.held = old.held /\ new.state # "live" /\ new # NoRow
    BY <1>1, EndedRow, SessionFields DEF new
  <1>4. \A t \in SessionIds : GoesOn(roleSessions[t], roleSessions[t])
    BY DEF GoesOn
  <1>5. roleSessions' \in [SessionIds -> {NoRow} \cup SessionRow]
    BY <1>2, <1>3 DEF IamTypeOK
  <1>6. ASSUME NEW t \in SessionIds
        PROVE  /\ roleSessions'[t] = NoRow <=> roleSessions[t] = NoRow
               /\ t # s => roleSessions'[t] = roleSessions[t]
               /\ roleSessions'[t] # NoRow =>
                     /\ GoesOn(roleSessions[t], roleSessions'[t])
                     /\ roleSessions'[t].held = roleSessions[t].held
                     /\ t = s => roleSessions'[t].state # "live"
    <2>1. CASE t = s
      <3>1. roleSessions'[t] = new
        BY <1>2, <2>1 DEF IamTypeOK
      <3> QED
        BY <1>3, <2>1, <3>1 DEF old
    <2>2. CASE t # s
      <3>1. roleSessions'[t] = roleSessions[t]
        BY <1>2, <2>2 DEF IamTypeOK
      <3> QED
        BY <1>4, <2>2, <3>1
    <2> QED
      BY <2>1, <2>2
  <1> QED
    BY <1>5, <1>6 DEF RevokesOnly

\* A browser takes a session and ends the one it was in.
Switches(c, expected, s, rows) ==
    /\ rows \in SessionTable
    /\ rows[s] # NoRow /\ rows[s].held
    /\ \A t \in SessionIds :
          /\ rows[t] = NoRow <=> roleSessions[t] = NoRow
          /\ rows[t] # NoRow =>
                /\ GoesOn(roleSessions[t], rows[t])
                /\ t # s => rows[t].held = roleSessions[t].held
                /\ t # s /\ t = expected => rows[t].state # "live"

LEMMA SwitchedRows ==
    ASSUME IamTypeOK, NEW c \in Consoles, NEW expected \in {0} \cup SessionIds, NEW s \in SessionIds,
           roleSessions[s] # NoRow, Switched(c, expected, s)
    PROVE  /\ Switches(c, expected, s, roleSessions')
           /\ active' = [active EXCEPT ![c] = s]
  <1> DEFINE ended == IF expected = 0 THEN roleSessions ELSE Revoked(expected)
  <1>1. active' = [active EXCEPT ![c] = s] /\ roleSessions' = [ended EXCEPT ![s].held = TRUE]
    BY DEF Switched
  <1>2. /\ ended \in SessionTable
        /\ \A t \in SessionIds :
              /\ ended[t] = NoRow <=> roleSessions[t] = NoRow
              /\ ended[t] # NoRow =>
                    /\ GoesOn(roleSessions[t], ended[t]) /\ ended[t].held = roleSessions[t].held
                    /\ t = expected => ended[t].state # "live"
    <2>1. CASE expected = 0
      <3>1. ended = roleSessions
        BY <2>1
      <3>2. \A t \in SessionIds : t # expected
        BY <2>1 DEF SessionIds
      <3> HIDE DEF ended
      <3> QED
        BY <3>1, <3>2 DEF IamTypeOK, GoesOn, SessionTable
    <2>2. CASE expected # 0
      <3>1. ended = Revoked(expected) /\ RevokesOnly(expected, Revoked(expected))
        BY <2>2, RevokedRows
      <3> HIDE DEF ended
      <3> QED
        BY <3>1 DEF RevokesOnly, SessionTable
    <2> QED
      BY <2>1, <2>2
  <1> HIDE DEF ended
  <1> DEFINE new == [ended[s] EXCEPT !.held = TRUE]
  <1>3. ended[s] \in SessionRow
    BY <1>2 DEF SessionTable
  <1>4. /\ new \in SessionRow /\ new # NoRow /\ GoesOn(ended[s], new) /\ new.held
        /\ new.state = ended[s].state
    BY <1>3, HeldRow, SessionFields
  <1>5. roleSessions' = [ended EXCEPT ![s] = new]
    BY <1>1
  <1> HIDE DEF new
  <1>6. roleSessions' \in SessionTable /\ roleSessions'[s] = new
        /\ \A t \in SessionIds \ {s} : roleSessions'[t] = ended[t]
    BY <1>2, <1>4, <1>5 DEF SessionTable
  <1>7. GoesOn(roleSessions[s], new)
    <2>1. GoesOn(roleSessions[s], ended[s]) /\ GoesOn(ended[s], new)
      BY <1>2, <1>3, <1>4
    <2> QED
      BY <2>1 DEF GoesOn
  <1>8. Switches(c, expected, s, roleSessions')
    BY <1>2, <1>3, <1>4, <1>6, <1>7 DEF Switches
  <1> QED
    BY <1>1, <1>8
\* A browser that logs out lets its session go, which stays as live as it was.
LetsGo(s, rows) ==
    /\ rows \in SessionTable
    /\ \A t \in SessionIds :
          /\ rows[t] = NoRow <=> roleSessions[t] = NoRow
          /\ rows[t] # NoRow =>
                /\ GoesOn(roleSessions[t], rows[t])
                /\ rows[t].held => roleSessions[t].held /\ t # s

LEMMA LetGoRow ==
    ASSUME NEW row \in SessionRow
    PROVE  /\ [row EXCEPT !.held = FALSE] \in SessionRow
           /\ GoesOn(row, [row EXCEPT !.held = FALSE])
           /\ ~[row EXCEPT !.held = FALSE].held
  <1> DEFINE no == FALSE
  <1> USE DEF SessionRow, GoesOn
  <1>1. no \in BOOLEAN /\ ~no
    OBVIOUS
  <1> HIDE DEF no
  <1> DEFINE new == [row EXCEPT !.held = no]
  <1>2. new \in SessionRow /\ new.held = no /\ new.state = row.state /\ new.role = row.role
        /\ new.source = row.source /\ new.console = row.console /\ new.lineage = row.lineage
    BY <1>1
  <1>3. new = [row EXCEPT !.held = FALSE]
    BY DEF no
  <1> HIDE DEF new
  <1>4. GoesOn(row, new) /\ ~new.held
    BY <1>1, <1>2
  <1> QED
    BY <1>2, <1>3, <1>4

LEMMA LetGoRows ==
    ASSUME IamTypeOK, NEW c, Logout(c)
    PROVE  LetsGo(active[c], roleSessions')
  <1> DEFINE s == active[c]
             Off(row) == [row EXCEPT !.held = FALSE]
  <1>1. roleSessions' = [t \in SessionIds |-> IF t = s /\ roleSessions[t] # NoRow
                             THEN Off(roleSessions[t]) ELSE roleSessions[t]]
    BY DEF Logout
  <1>2. \A row \in SessionRow : /\ Off(row) \in SessionRow /\ Off(row) # NoRow
                                /\ GoesOn(row, Off(row)) /\ ~Off(row).held
    BY LetGoRow, SessionFields
  <1> HIDE DEF Off, s
  <1>3. \A t \in SessionIds : roleSessions[t] \in {NoRow} \cup SessionRow
    BY DEF IamTypeOK
  <1>4. \A t \in SessionIds : roleSessions'[t] = IF t = s /\ roleSessions[t] # NoRow
                                                 THEN Off(roleSessions[t]) ELSE roleSessions[t]
    BY <1>1
  <1>5. roleSessions' \in SessionTable
    BY <1>1, <1>2, <1>3 DEF SessionTable
  <1>6. \A x : GoesOn(x, x)
    BY DEF GoesOn
  <1>7. ASSUME NEW t \in SessionIds
        PROVE  /\ roleSessions'[t] = NoRow <=> roleSessions[t] = NoRow
               /\ roleSessions'[t] # NoRow =>
                     /\ GoesOn(roleSessions[t], roleSessions'[t])
                     /\ roleSessions'[t].held => roleSessions[t].held /\ t # s
    BY <1>2, <1>3, <1>4, <1>6
  <1> QED
    BY <1>5, <1>7 DEF LetsGo, s

-----------------------------------------------------------------------------
(***************************************************************************)
(* The effects that a step has on sessions, browsers and the requests      *)
(* under way                                                               *)
(***************************************************************************)
SessionsStay == UNCHANGED <<roleSessions, lastSession, active, assumes>>

Permitted(t, source) == TrustPermits(TrustText[t], PrincipalAccount(source), source)

\* A request goes on without touching a session.
AssumeMoves(q, e) ==
    /\ assumes' = [assumes EXCEPT ![q] = e] /\ UNCHANGED <<roleSessions, lastSession, active>>
    /\ e.step # "created"
    /\ e.step = "revoking" => assumes[q].step = "created" /\ e.session = assumes[q].session
    /\ e.step = "trusted" => Permitted(e.trust, e.ask.source)

SessionEnds(s) ==
    /\ RevokesOnly(s, roleSessions') /\ UNCHANGED <<lastSession, active>>
    /\ \/ UNCHANGED assumes
       \/ \E q \in Callers : assumes' = [assumes EXCEPT ![q] = NoAssume]

RoleGoes(r) ==
    /\ ~InUse(r)
    /\ roleSessions' = [s \in SessionIds |-> IF s \in SessionsOf(r) THEN NoRow ELSE roleSessions[s]]
    /\ UNCHANGED <<lastSession, active, assumes>>

SessionStarts(q, row, e) ==
    /\ Inserts(row, row.role) /\ UNCHANGED active
    /\ ~row.held
    /\ assumes' = [assumes EXCEPT ![q] = e]
    /\ \/ e = NoAssume
       \/ e.step = "created" /\ e.session = lastSession + 1 /\ e.ask.console \in Consoles
    /\ Permitted(trust[row.role], row.source) /\ UNCHANGED trust
    /\ LineageIsPast(row.lineage) /\ UNCHANGED <<memberRole, centerVars>>

BrowserSwitches(q) ==
    LET ask == assumes[q].ask IN
    /\ assumes[q].step = "created"
    /\ active[ask.console] = ask.previous
    /\ roleSessions[assumes[q].session] # NoRow
    /\ Switched(ask.console, ask.previous, assumes[q].session)
    /\ assumes' = [assumes EXCEPT ![q] = NoAssume] /\ UNCHANGED lastSession

BrowserLeaves(c) ==
    /\ active[c] \in SessionIds /\ active' = [active EXCEPT ![c] = 0]
    /\ roleSessions' = Revoked(active[c]) /\ UNCHANGED <<lastSession, assumes>>

BrowserLogsOut(c) ==
    /\ active' = [active EXCEPT ![c] = LoggedOut]
    /\ LetsGo(active[c], roleSessions') /\ UNCHANGED <<lastSession, assumes>>

Effects ==
    \/ SessionsStay
    \/ \E q \in Callers, e \in AssumeRecord : AssumeMoves(q, e)
    \/ \E s \in SessionIds : SessionEnds(s)
    \/ \E r \in Roles : RoleGoes(r)
    \/ \E q \in Callers, row \in SessionRow, e \in AssumeRecord : SessionStarts(q, row, e)
    \/ \E q \in Callers : BrowserSwitches(q)
    \/ \E c \in Consoles : BrowserLeaves(c)
    \/ \E c \in Consoles : BrowserLogsOut(c)

\* Rows go on or are gone, unless one is new.
RowsGoOn ==
    \A t \in SessionIds : roleSessions'[t] # NoRow =>
        roleSessions[t] # NoRow /\ GoesOn(roleSessions[t], roleSessions'[t])

SessionTypes ==
    /\ roleSessions \in SessionTable /\ lastSession \in 0 .. MaxSessions
    /\ active \in [Consoles -> {0, LoggedOut} \cup SessionIds] /\ assumes \in [Callers -> AssumeRecord]

LEMMA TypesOfSessions ==
    ASSUME TypeInv
    PROVE  SessionTypes
  BY DEF TypeInv, IamTypeOK, AssumeTypeOK, SessionTypes, SessionTable, AssumeRecord

LEMMA IdleAssume == NoAssume \in AssumeRecord /\ NoAssume.step = "idle"
  BY DEF NoAssume, AssumeRecord

LEMMA EffectStep ==
    ASSUME TypeInv, BrowserInv, Effects
    PROVE  /\ SessionTypes' /\ BrowserInv'
           /\ \/ RowsGoOn
              \/ \E q \in Callers, row \in SessionRow, e \in AssumeRecord : SessionStarts(q, row, e)
  <1> DEFINE Goal ==
        /\ SessionTypes' /\ BrowserInv'
        /\ \/ RowsGoOn
           \/ \E q \in Callers, row \in SessionRow, e \in AssumeRecord : SessionStarts(q, row, e)
  <1>0. SessionTypes /\ IamTypeOK /\ AssumeTypeOK
    BY TypesOfSessions DEF TypeInv
  <1>a. \A x : GoesOn(x, x)
    BY DEF GoesOn
  <1> USE DEF BrowserInv, SessionsAreNumbered, BrowsersSwitch, HeldByABrowser
  <1>1. CASE SessionsStay
    <2>1. SessionTypes' /\ BrowserInv'
      BY <1>0, <1>1 DEF SessionsStay, SessionTypes
    <2>2. RowsGoOn
      BY <1>a, <1>1 DEF SessionsStay, RowsGoOn
    <2> QED
      BY <2>1, <2>2
  <1>2. ASSUME NEW q \in Callers, NEW e \in AssumeRecord, AssumeMoves(q, e)
        PROVE  Goal
    <2>1. /\ assumes' = [assumes EXCEPT ![q] = e] /\ UNCHANGED <<roleSessions, lastSession, active>>
          /\ e.step # "created"
      BY <1>2 DEF AssumeMoves
    <2>2. SessionTypes'
      BY <1>0, <2>1 DEF SessionTypes
    <2>3. \A p \in Callers : assumes'[p] = IF p = q THEN e ELSE assumes[p]
      BY <1>0, <2>1 DEF SessionTypes
    <2>4. BrowserInv'
      BY <2>1, <2>3
    <2>5. RowsGoOn
      BY <1>a, <2>1 DEF RowsGoOn
    <2> QED
      BY <2>2, <2>4, <2>5
  <1>3. ASSUME NEW s \in SessionIds, SessionEnds(s)
        PROVE  Goal
    <2>1. /\ RevokesOnly(s, roleSessions') /\ UNCHANGED <<lastSession, active>>
          /\ \A p \in Callers : assumes'[p] = assumes[p] \/ assumes'[p] = NoAssume
          /\ assumes' \in [Callers -> AssumeRecord]
      BY <1>0, <1>3, IdleAssume DEF SessionEnds, SessionTypes
    <2>2. SessionTypes'
      BY <1>0, <2>1 DEF SessionTypes, RevokesOnly, SessionTable
    <2>3. SessionsAreNumbered' /\ BrowsersSwitch'
      BY <2>1, IdleAssume DEF RevokesOnly
    <2>4. HeldByABrowser'
      <3>1. \A t \in SessionIds : roleSessions'[t] # NoRow =>
              /\ roleSessions[t] # NoRow /\ roleSessions'[t].held = roleSessions[t].held
              /\ roleSessions'[t].state = "live" => roleSessions[t].state = "live"
        BY <2>1 DEF RevokesOnly, GoesOn
      <3> QED
        BY <2>1, <3>1
    <2>5. RowsGoOn
      BY <2>1 DEF RowsGoOn, RevokesOnly
    <2> QED
      BY <2>2, <2>3, <2>4, <2>5
  <1>4. ASSUME NEW r \in Roles, RoleGoes(r)
        PROVE  Goal
    <2>1. /\ UNCHANGED <<lastSession, active, assumes>>
          /\ \A t \in SessionIds : roleSessions'[t] = IF t \in SessionsOf(r) THEN NoRow ELSE roleSessions[t]
          /\ roleSessions' \in SessionTable
      BY <1>0, <1>4 DEF RoleGoes, SessionTypes, SessionTable
    <2>2. SessionTypes'
      BY <1>0, <2>1 DEF SessionTypes
    <2>3. BrowserInv'
      BY <2>1
    <2>4. RowsGoOn
      BY <1>a, <2>1 DEF RowsGoOn
    <2> QED
      BY <2>2, <2>3, <2>4
  <1>5. ASSUME NEW q \in Callers, NEW row \in SessionRow, NEW e \in AssumeRecord, SessionStarts(q, row, e)
        PROVE  Goal
    <2> DEFINE s == lastSession + 1
    <2>1. /\ Inserts(row, row.role) /\ UNCHANGED active /\ ~row.held
          /\ assumes' = [assumes EXCEPT ![q] = e]
          /\ e = NoAssume \/ e.ask.console \in Consoles
      BY <1>5 DEF SessionStarts
    <2>2. /\ roleSessions' \in SessionTable /\ lastSession' \in 0 .. MaxSessions
          /\ s \in SessionIds /\ lastSession' = s /\ roleSessions'[s] = row
          /\ \A t \in SessionIds \ {s} : roleSessions'[t] = roleSessions[t] \/ roleSessions'[t] = NoRow
      BY <1>0, <2>1, InsertedRows
    <2>3. lastSession \in Nat /\ s = lastSession + 1
      BY <1>0 DEF SessionTypes
    <2> HIDE DEF s
    <2>4. SessionTypes'
      BY <1>0, <2>1, <2>2 DEF SessionTypes
    <2>5. \A p \in Callers : assumes'[p] = IF p = q THEN e ELSE assumes[p]
      BY <1>0, <2>1 DEF SessionTypes
    <2>6. SessionsAreNumbered'
      BY <2>2, <2>3 DEF SessionIds
    <2>7. BrowsersSwitch'
      BY <2>1, <2>5, IdleAssume
    <2>8. HeldByABrowser'
      <3>1. \A t \in SessionIds :
              roleSessions'[t] # NoRow /\ roleSessions'[t].held => roleSessions'[t] = roleSessions[t]
        BY <2>1, <2>2
      <3> QED
        BY <2>1, <3>1
    <2> QED
      BY <1>5, <2>4, <2>6, <2>7, <2>8
  <1>6. ASSUME NEW q \in Callers, BrowserSwitches(q)
        PROVE  Goal
    <2> DEFINE c == assumes[q].ask.console
               was == assumes[q].ask.previous
               s == assumes[q].session
    <2>1. /\ assumes[q].step = "created" /\ active[c] = was /\ roleSessions[s] # NoRow
          /\ Switched(c, was, s)
          /\ assumes' = [assumes EXCEPT ![q] = NoAssume] /\ UNCHANGED lastSession
      BY <1>6 DEF BrowserSwitches
    <2>2. c \in Consoles /\ was \in {0} \cup SessionIds /\ s \in SessionIds
      BY <1>0, <2>1, AssumeFields, AskFields
    <2> HIDE DEF c, was, s
    <2>3. Switches(c, was, s, roleSessions') /\ active' = [active EXCEPT ![c] = s]
      BY <1>0, <2>1, <2>2, SwitchedRows
    <2>4. \A p \in Callers : assumes'[p] = IF p = q THEN NoAssume ELSE assumes[p]
      BY <1>0, <2>1 DEF SessionTypes
    <2>5. SessionTypes'
      BY <1>0, <2>1, <2>2, <2>3, IdleAssume DEF SessionTypes, Switches
    <2>6. SessionsAreNumbered' /\ BrowsersSwitch'
      BY <2>1, <2>3, <2>4, IdleAssume DEF Switches
    <2>7. HeldByABrowser'
      <3> SUFFICES ASSUME NEW t \in SessionIds,
                          roleSessions'[t] # NoRow, roleSessions'[t].held, roleSessions'[t].state = "live"
                   PROVE  \E d \in Consoles : active'[d] = t
        OBVIOUS
      <3>1. CASE t = s
        BY <1>0, <2>2, <2>3, <3>1 DEF SessionTypes
      <3>2. CASE t # s
        <4>1. roleSessions[t] # NoRow /\ roleSessions[t].held /\ roleSessions[t].state = "live" /\ t # was
          BY <2>3, <3>2 DEF Switches, GoesOn
        <4>2. PICK d \in Consoles : active[d] = t
          BY <4>1
        <4>3. d # c
          BY <2>1, <4>1, <4>2
        <4> QED
          BY <1>0, <2>3, <4>2, <4>3 DEF SessionTypes
      <3> QED
        BY <3>1, <3>2
    <2>8. RowsGoOn
      BY <2>3 DEF Switches, RowsGoOn
    <2> QED
      BY <2>5, <2>6, <2>7, <2>8
  <1>7. ASSUME NEW c \in Consoles, BrowserLeaves(c)
        PROVE  Goal
    <2> DEFINE s == active[c]
    <2>1. /\ active' = [active EXCEPT ![c] = 0] /\ UNCHANGED <<lastSession, assumes>>
          /\ RevokesOnly(s, roleSessions')
      BY <1>0, <1>7, RevokedRows DEF BrowserLeaves
    <2>2. \A d \in Consoles : active'[d] = IF d = c THEN 0 ELSE active[d]
      BY <1>0, <2>1 DEF SessionTypes
    <2>3. SessionTypes'
      BY <1>0, <2>1 DEF SessionTypes, RevokesOnly, SessionTable
    <2>4. SessionsAreNumbered' /\ BrowsersSwitch'
      BY <2>1 DEF RevokesOnly
    <2>5. HeldByABrowser'
      <3>1. \A t \in SessionIds : roleSessions'[t] # NoRow =>
              /\ roleSessions[t] # NoRow /\ roleSessions'[t].held = roleSessions[t].held
              /\ roleSessions'[t].state = "live" => roleSessions[t].state = "live" /\ t # s
        BY <2>1 DEF RevokesOnly, GoesOn
      <3>2. \A t \in SessionIds : t # s => \A d \in Consoles : active[d] = t => active'[d] = t
        BY <2>2
      <3> QED
        BY <3>1, <3>2
    <2>6. RowsGoOn
      BY <2>1 DEF RowsGoOn, RevokesOnly
    <2> QED
      BY <2>3, <2>4, <2>5, <2>6
  <1>8. ASSUME NEW c \in Consoles, BrowserLogsOut(c)
        PROVE  Goal
    <2> DEFINE s == active[c]
    <2>1. /\ active' = [active EXCEPT ![c] = LoggedOut] /\ UNCHANGED <<lastSession, assumes>>
          /\ LetsGo(s, roleSessions')
      BY <1>8 DEF BrowserLogsOut
    <2>2. \A d \in Consoles : active'[d] = IF d = c THEN LoggedOut ELSE active[d]
      BY <1>0, <2>1 DEF SessionTypes
    <2>3. SessionTypes'
      BY <1>0, <2>1 DEF SessionTypes, LetsGo
    <2>4. SessionsAreNumbered' /\ BrowsersSwitch'
      BY <2>1 DEF LetsGo
    <2>5. HeldByABrowser'
      <3>1. \A t \in SessionIds : roleSessions'[t] # NoRow =>
              /\ roleSessions[t] # NoRow
              /\ roleSessions'[t].held => roleSessions[t].held /\ t # s
              /\ roleSessions'[t].state = "live" => roleSessions[t].state = "live"
        BY <2>1 DEF LetsGo, GoesOn
      <3>2. \A t \in SessionIds : t # s => \A d \in Consoles : active[d] = t => active'[d] = t
        BY <2>2
      <3> QED
        BY <3>1, <3>2
    <2>6. RowsGoOn
      BY <2>1 DEF RowsGoOn, LetsGo
    <2> QED
      BY <2>3, <2>4, <2>5, <2>6
  <1> HIDE DEF Goal
  <1>9. Goal
    <2>1. CASE SessionsStay
      BY <1>1, <2>1 DEF Goal
    <2> QED
      BY <2>1, <1>2, <1>3, <1>4, <1>5, <1>6, <1>7, <1>8 DEF Effects
  <1> QED
    BY <1>9 DEF Goal
-----------------------------------------------------------------------------
(***************************************************************************)
(* Roles: the effects of their requests                                    *)
(***************************************************************************)
LEMMA RoleEffects ==
    ASSUME TypeInv, BrowserInv, ManagedRolesWait, TrustsWereEvaluated, RoleRequests
    PROVE  /\ Effects /\ ManagedStay
           /\ trust' \in [Roles -> Trusts \cup {NoTrust, Gone}]
           /\ boundary' \in [Principals -> PolicyIds \cup {NoPolicy}]
  <1> DEFINE Kept == UNCHANGED <<trust, boundary>>
             Goal == /\ Effects /\ ManagedStay
                     /\ trust' \in [Roles -> Trusts \cup {NoTrust, Gone}]
                     /\ boundary' \in [Principals -> PolicyIds \cup {NoPolicy}]
  <1>0. /\ IamTypeOK /\ AssumeTypeOK /\ SessionTypes
        /\ UNCHANGED <<memberRole, iamPolicies, bindings, centerVars>>
    BY RoleFootprint, TypesOfSessions DEF TypeInv
  <1>a. ASSUME Kept, Effects
        PROVE  Goal
    BY <1>0, <1>a DEF ManagedStay, IamTypeOK
  <1>b. \A k \in DOMAIN ManagedRole : ManagedRole[k] \in Roles /\ ManagedRole[k] \in Principals
    BY <1>0, ManagedMeans
  <1>1. ASSUME NEW actor, NEW r \in Roles, NEW t \in Trusts,
               CreateIamRole(actor, r, t) \/ UpdateIamRoleTrust(actor, r, t)
        PROVE  Goal
    <2>1. /\ trust' = [trust EXCEPT ![r] = t]
          /\ UNCHANGED <<boundary, roleSessions, lastSession, active, assumes>>
      BY <1>1 DEF CreateIamRole, CreateIamRoleTx, UpdateIamRoleTrust, UpdateIamRoleTrustTx
    <2>2. \A k \in DOMAIN ManagedRole : ManagedRole[k] # r
      <3>1. CASE CreateIamRole(actor, r, t)
        BY <3>1 DEF CreateIamRole
      <3>2. CASE UpdateIamRoleTrust(actor, r, t)
        BY <1>0, <3>2, ManagedMeans DEF UpdateIamRoleTrust, UpdateIamRoleTrustTx
      <3> QED
        BY <1>1, <3>1, <3>2
    <2>3. ManagedStay
      BY <1>0, <1>b, <2>1, <2>2 DEF ManagedStay, IamTypeOK
    <2>4. Effects
      BY <2>1 DEF Effects, SessionsStay
    <2> QED
      BY <1>0, <2>1, <2>3, <2>4 DEF IamTypeOK
  <1>2. ASSUME NEW actor, NEW r \in Roles, DeleteIamRole(actor, r)
        PROVE  Goal
    <2>1. /\ RoleExists(r) /\ ~Managed(r) /\ RoleGoes(r)
          /\ trust' = [trust EXCEPT ![r] = Gone] /\ boundary' = [boundary EXCEPT ![r] = NoPolicy]
      BY <1>2 DEF DeleteIamRole, DeleteIamRoleTx, RoleGoes
    <2>2. \A k \in DOMAIN ManagedRole : ManagedRole[k] # r
      BY <1>0, <2>1, ManagedMeans
    <2>3. ManagedStay
      BY <1>0, <1>b, <2>1, <2>2 DEF ManagedStay, IamTypeOK
    <2>4. Effects
      BY <2>1 DEF Effects
    <2> QED
      BY <1>0, <2>1, <2>3, <2>4 DEF IamTypeOK
  <1>3. ASSUME NEW actor, NEW s \in SessionIds, RevokeIamRoleSession(actor, s) \/ ExpireRoleSession(s)
        PROVE  Goal
    <2>1. Kept /\ UNCHANGED <<lastSession, active, assumes>>
      BY <1>3 DEF RevokeIamRoleSession, ExpireRoleSession
    <2>2. RevokesOnly(s, roleSessions')
      <3>1. CASE RevokeIamRoleSession(actor, s)
        BY <1>0, <3>1, RevokedRows DEF RevokeIamRoleSession
      <3>2. CASE ExpireRoleSession(s)
        BY <1>0, <3>2, ExpiredRows DEF ExpireRoleSession
      <3> QED
        BY <1>3, <3>1, <3>2
    <2>3. Effects
      BY <2>1, <2>2 DEF Effects, SessionEnds
    <2> QED
      BY <1>a, <2>1, <2>3
  <1>4. ASSUME NEW q \in Callers, NEW actor \in SystemActors, NEW account \in AllAccounts, NEW r \in Roles,
               NEW text \in Texts \cup {NoText}, NEW switch \in BOOLEAN,
               AssumeAuthorize(q, actor, account, r, text, switch)
        PROVE  Goal
    <2> DEFINE Ask(context) ==
                 [source |-> context.principal, role |-> r, policy |-> text,
                  console |-> IF switch THEN actor.console ELSE NoConsole,
                  previous |-> IF switch /\ actor.kind = "role" THEN actor.session ELSE 0]
    <2>1. PICK context \in AuthorizeActor(actor, account, <<"sts", "AssumeRole">>) :
            Step(q, [step |-> "authorized", ask |-> Ask(context)])
      BY <1>4 DEF AssumeAuthorize
    <2>2. /\ switch => actor.console # NoConsole
          /\ UNCHANGED <<roleSessions, active>>
      BY <1>4 DEF AssumeAuthorize
    <2>3. context.principal \in Principals
      BY <2>1, ContextTypes
    <2>4. /\ actor.kind = "role" => actor.session \in SessionIds
          /\ switch => actor.console \in Consoles \cup {NoConsole}
      BY ActorTypes
    <2> DEFINE ask == Ask(context)
               e == [step |-> "authorized", ask |-> ask]
    <2>5. ask \in Assumed
      BY <2>3, <2>4 DEF Assumed
    <2> HIDE DEF ask
    <2>6. e \in AssumeRecord /\ e.step = "authorized"
      BY <2>5 DEF AssumeRecord
    <2>7. /\ assumes' = [assumes EXCEPT ![q] = e] /\ Kept /\ UNCHANGED <<roleSessions, lastSession, active>>
      BY <2>1, <2>2 DEF Step, ask
    <2> HIDE DEF e
    <2>8. AssumeMoves(q, e)
      BY <2>6, <2>7 DEF AssumeMoves
    <2>9. Effects
      BY <2>6, <2>8 DEF Effects
    <2> QED
      BY <1>a, <2>7, <2>9
  <1>5. ASSUME NEW q \in Callers, AssumeFindRole(q)
        PROVE  Goal
    <2> DEFINE ask == assumes[q].ask
               r == ask.role
               e == [step |-> "trusted", ask |-> ask, trust |-> trust[r]]
    <2>1. assumes[q].step = "authorized" /\ UNCHANGED <<roleSessions, active>>
      BY <1>5 DEF AssumeFindRole
    <2>2. \/ RoleExists(r) /\ Permitted(trust[r], ask.source) /\ Step(q, e)
          \/ Step(q, NoAssume)
      BY <1>5 DEF AssumeFindRole, Permitted
    <2>3. ask \in Assumed /\ r \in Roles
      BY <1>0, <2>1, AssumeFields, AskFields
    <2> HIDE DEF ask
    <2>4. CASE RoleExists(r) /\ Permitted(trust[r], ask.source) /\ Step(q, e)
      <3>1. trust[r] \in Trusts
        BY <1>0, <2>3, <2>4 DEF RoleExists, IamTypeOK
      <3>2. e \in AssumeRecord /\ e.step = "trusted" /\ e.trust = trust[r] /\ e.ask = ask
        BY <2>3, <3>1 DEF AssumeRecord
      <3> HIDE DEF e
      <3>3. AssumeMoves(q, e) /\ Kept
        BY <2>1, <2>4, <3>2 DEF AssumeMoves, Step
      <3>4. Effects
        BY <3>2, <3>3 DEF Effects
      <3> QED
        BY <1>a, <3>3, <3>4
    <2>5. CASE Step(q, NoAssume)
      <3>1. AssumeMoves(q, NoAssume) /\ Kept
        BY <2>1, <2>5, IdleAssume DEF AssumeMoves, Step
      <3>2. Effects
        BY <3>1, IdleAssume DEF Effects
      <3> QED
        BY <1>a, <3>1, <3>2
    <2> QED
      BY <2>2, <2>4, <2>5
  <1>6. ASSUME NEW q \in Callers, AssumeRejected(q) \/ AssumeAbandoned(q)
        PROVE  Goal
    <2>1. AssumeMoves(q, NoAssume) /\ Kept
      BY <1>6, IdleAssume DEF AssumeRejected, AssumeAbandoned, AssumeMoves, Step
    <2>2. Effects
      BY <2>1, IdleAssume DEF Effects
    <2> QED
      BY <1>a, <2>1, <2>2
  <1>7. ASSUME NEW q \in Callers, AssumeCreate(q)
        PROVE  Goal
    <2> DEFINE ask == assumes[q].ask
               console == ask.console # NoConsole
               held == FALSE
               row == [state |-> "live", role |-> ask.role, source |-> ask.source, policy |-> ask.policy,
                       console |-> console, held |-> held, lineage |-> NoAssignment]
               new == [step |-> "created", ask |-> ask, session |-> lastSession + 1]
               e == IF ask.console = NoConsole THEN NoAssume ELSE new
    <2>1. /\ assumes[q].step = "trusted" /\ lastSession + 1 \in SessionIds
          /\ trust[ask.role] = assumes[q].trust
          /\ lastSession' = lastSession + 1
          /\ assumes' = [assumes EXCEPT ![q] = e]
          /\ Kept /\ UNCHANGED active
      BY <1>7 DEF AssumeCreate, SessionAccepted, TrustIsExpected, TrustUnchanged
    <2>2. \E old \in Discarded(ask.role) :
            roleSessions' = [t \in SessionIds |-> IF t = lastSession + 1 THEN row
                                 ELSE IF t \in old THEN NoRow ELSE roleSessions[t]]
      BY <1>7 DEF AssumeCreate
    <2>3. /\ ask \in Assumed /\ ask.role \in Roles /\ ask.source \in Principals
          /\ ask.policy \in Texts \cup {NoText} /\ ask.console \in Consoles \cup {NoConsole}
      BY <1>0, <2>1, AssumeFields, AskFields
    <2>4. Permitted(assumes[q].trust, ask.source)
      BY <2>1 DEF TrustsWereEvaluated, Permitted
    <2>5. console \in BOOLEAN /\ held \in BOOLEAN /\ ~held
      OBVIOUS
    <2> HIDE DEF ask, console, held
    <2>6. row \in SessionRow /\ row.role = ask.role /\ row.source = ask.source /\ row.held = held
          /\ row.lineage = NoAssignment
      BY <2>3, <2>5 DEF SessionRow
    <2> HIDE DEF row
    <2>7. new \in AssumeRecord /\ new.step = "created" /\ new.session = lastSession + 1 /\ new.ask = ask
      BY <2>1, <2>3 DEF AssumeRecord
    <2> HIDE DEF new
    <2>8. /\ e \in AssumeRecord
          /\ \/ e = NoAssume
             \/ e.step = "created" /\ e.session = lastSession + 1 /\ e.ask.console \in Consoles
      BY <2>3, <2>7, IdleAssume
    <2> HIDE DEF e
    <2>9. Inserts(row, row.role)
      BY <2>1, <2>2, <2>6 DEF Inserts
    <2>10. LineageIsPast(row.lineage)
      BY <2>6 DEF LineageIsPast
    <2>11. SessionStarts(q, row, e)
      BY <1>0, <2>1, <2>4, <2>5, <2>6, <2>8, <2>9, <2>10 DEF SessionStarts
    <2>12. Effects
      BY <2>6, <2>8, <2>11 DEF Effects
    <2> QED
      BY <1>a, <2>1, <2>12
  <1>8. ASSUME NEW q \in Callers, AssumeSwitch(q)
        PROVE  Goal
    <2> DEFINE ask == assumes[q].ask
               s == assumes[q].session
               e == [assumes[q] EXCEPT !.step = "revoking"]
    <2>1. /\ assumes[q].step = "created"
          /\ \/ /\ CanSwitch(ask.console, ask.previous, s)
                /\ Switched(ask.console, ask.previous, s) /\ Step(q, NoAssume)
             \/ UNCHANGED <<roleSessions, active>> /\ Step(q, e)
      BY <1>8 DEF AssumeSwitch
    <2>2. CASE /\ CanSwitch(ask.console, ask.previous, s)
               /\ Switched(ask.console, ask.previous, s) /\ Step(q, NoAssume)
      <3>1. BrowserSwitches(q) /\ Kept
        BY <2>1, <2>2 DEF BrowserSwitches, CanSwitch, SwitchAccepted, Usable, Step
      <3>2. Effects
        BY <3>1 DEF Effects
      <3> QED
        BY <1>a, <3>1, <3>2
    <2>3. CASE UNCHANGED <<roleSessions, active>> /\ Step(q, e)
      <3>1. PICK a \in Assumed, n \in SessionIds : assumes[q] = [step |-> "created", ask |-> a, session |-> n]
        BY <1>0, <2>1, AssumeFields
      <3>2. e = [step |-> "revoking", ask |-> a, session |-> n] /\ s = n
        BY <3>1
      <3>3. assumes' = [assumes EXCEPT ![q] = e] /\ Kept /\ UNCHANGED <<roleSessions, active, lastSession>>
        BY <2>3 DEF Step
      <3> HIDE DEF e, s
      <3>4. e \in AssumeRecord /\ e.step = "revoking" /\ e.session = n
        BY <3>2 DEF AssumeRecord
      <3>5. AssumeMoves(q, e)
        BY <2>1, <3>1, <3>3, <3>4 DEF AssumeMoves
      <3>6. Effects
        BY <3>4, <3>5 DEF Effects
      <3> QED
        BY <1>a, <3>3, <3>6
    <2> QED
      BY <2>1, <2>2, <2>3
  <1>9. ASSUME NEW q \in Callers, AssumeRevoke(q)
        PROVE  Goal
    <2>1. /\ assumes[q].step = "revoking" /\ roleSessions' = Revoked(assumes[q].session)
          /\ assumes' = [assumes EXCEPT ![q] = NoAssume] /\ Kept /\ UNCHANGED <<active, lastSession>>
      BY <1>9 DEF AssumeRevoke, Step
    <2>2. assumes[q].session \in SessionIds
      BY <1>0, <2>1, AssumeFields
    <2>3. SessionEnds(assumes[q].session)
      BY <1>0, <2>1, RevokedRows DEF SessionEnds
    <2>4. Effects
      BY <2>2, <2>3 DEF Effects
    <2> QED
      BY <1>a, <2>1, <2>4
  <1>10. ASSUME NEW c \in Consoles, ExitBrowserRole(c)
         PROVE  Goal
    <2>1. BrowserLeaves(c) /\ Kept
      BY <1>10 DEF ExitBrowserRole, ClearBrowserRole, BrowserLeaves
    <2>2. Effects
      BY <2>1 DEF Effects
    <2> QED
      BY <1>a, <2>1, <2>2
  <1>11. ASSUME NEW c \in Consoles, Logout(c)
         PROVE  Goal
    <2>1. BrowserLogsOut(c) /\ Kept
      BY <1>0, <1>11, LetGoRows DEF Logout, BrowserLogsOut
    <2>2. Effects
      BY <2>1 DEF Effects
    <2> QED
      BY <1>a, <2>1, <2>2
  <1> HIDE DEF Goal
  <1>12. Goal
    BY <1>1, <1>2, <1>3, <1>4, <1>5, <1>6, <1>7, <1>8, <1>9, <1>10, <1>11 DEF RoleRequests
  <1> QED
    BY <1>12 DEF Goal
-----------------------------------------------------------------------------
(***************************************************************************)
(* Identity Center                                                         *)
(***************************************************************************)
CenterTypes ==
    /\ memberRole \in [UserPrincipals -> {"none", "member", "owner"}]
    /\ iamPolicies \in [PolicyIds -> Texts \cup {NoText}]
    /\ bindings \subseteq Principals \X PolicyIds
    /\ trust \in [Roles -> Trusts \cup {NoTrust, Gone}]
    /\ permissionSets \in [Sets -> Texts \cup {NoText, Gone}]
    /\ crews \in [Crews -> {"none", "live", "deleted"}]
    /\ crewMembers \in [Crews \X Humans -> 0 .. MaxGeneration]
    /\ lastMembership \in 0 .. MaxGeneration
    /\ assignments \in [Assignment -> [generation: 0 .. MaxGeneration, revoked: BOOLEAN]]
    /\ AssigningTypeOK

\* What sessions remember lies further and further back.
PastGrows ==
    /\ \A a \in Assignment :
          \/ assignments'[a] = assignments[a]
          \/ assignments'[a].generation = assignments[a].generation /\ assignments'[a].revoked
          \/ assignments'[a].generation > assignments[a].generation
    /\ \A s \in Sets : permissionSets[s] # NoText =>
          permissionSets'[s] # NoText /\ (permissionSets'[s] \in Texts => permissionSets[s] \in Texts)
    /\ MembersStay
    /\ \A g \in Crews : crews[g] # "none" =>
          crews'[g] # "none" /\ (crews'[g] = "live" => crews[g] = "live")
    /\ lastMembership' >= lastMembership
    /\ \A m \in Crews \X Humans :
          \/ crewMembers'[m] = crewMembers[m] \/ crewMembers'[m] = 0
          \/ crewMembers'[m] > lastMembership

LEMMA NothingPasses ==
    ASSUME IamTypeOK, UNCHANGED centerVars, MembersStay
    PROVE  PastGrows
  BY DEF PastGrows, centerVars, IamTypeOK

LEMMA LineageFields ==
    ASSUME NEW lineage \in {NoAssignment} \cup Lineage, lineage # NoAssignment
    PROVE  /\ lineage.of \in Assignment /\ lineage.human \in Humans
           /\ lineage.generation \in Nat \ {0} /\ lineage.membership \in Nat
           /\ lineage.of.set \in Sets /\ lineage.of.account \in AllAccounts
           /\ lineage.of.subject \in Subjects
           /\ [human |-> lineage.human, account |-> Management] \in UserPrincipals
           /\ [human |-> lineage.human, account |-> lineage.of.account] \in UserPrincipals
  <1>1. /\ lineage.of \in Assignment /\ lineage.human \in Humans
        /\ lineage.generation \in Nat \ {0} /\ lineage.membership \in Nat
    BY DEF Lineage
  <1>2. /\ lineage.of.set \in Sets /\ lineage.of.account \in AllAccounts
        /\ lineage.of.subject \in Subjects
    BY <1>1 DEF Assignment
  <1> QED
    BY <1>1, <1>2 DEF UserPrincipals, AllAccounts

LEMMA LineageFrame ==
    ASSUME IamTypeOK, CenterTypes', PastGrows,
           NEW lineage \in {NoAssignment} \cup Lineage, LineageIsPast(lineage)
    PROVE  LineageIsPast(lineage)' /\ (LineageHolds(lineage)' => LineageHolds(lineage))
  <1>1. CASE lineage = NoAssignment
    BY <1>1 DEF LineageIsPast, LineageHolds
  <1>2. CASE lineage # NoAssignment
    <2> DEFINE a == lineage.of
               mine == [human |-> lineage.human, account |-> Management]
               there == [human |-> lineage.human, account |-> a.account]
               m == <<a.subject, lineage.human>>
    <2>1. /\ a \in Assignment /\ lineage.human \in Humans /\ a.set \in Sets
          /\ lineage.generation \in Nat \ {0} /\ lineage.membership \in Nat
          /\ mine \in UserPrincipals /\ there \in UserPrincipals
      BY <1>2, LineageFields
    <2>2. /\ lineage.generation <= assignments[a].generation
          /\ permissionSets[a.set] # NoText
          /\ memberRole[mine] # "none" /\ memberRole[there] # "none"
          /\ a.subject = lineage.human => lineage.membership = 0
          /\ a.subject # lineage.human =>
                /\ a.subject \in Crews /\ crews[a.subject] # "none"
                /\ lineage.membership \in 1 .. lastMembership
      BY <1>2 DEF LineageIsPast
    <2>3. /\ assignments[a] \in [generation: 0 .. MaxGeneration, revoked: BOOLEAN]
          /\ assignments'[a] \in [generation: 0 .. MaxGeneration, revoked: BOOLEAN]
          /\ lastMembership \in Nat /\ lastMembership' \in Nat
      BY <2>1 DEF IamTypeOK, CenterTypes
    <2>4. memberRole'[mine] # "none" /\ memberRole'[there] # "none"
      BY <2>1, <2>2 DEF PastGrows, MembersStay
    <2>5. /\ assignments'[a].generation >= assignments[a].generation
          /\ ~assignments'[a].revoked /\ assignments'[a].generation = lineage.generation =>
                assignments'[a] = assignments[a]
      <3>1. \/ assignments'[a] = assignments[a]
            \/ assignments'[a].generation = assignments[a].generation /\ assignments'[a].revoked
            \/ assignments'[a].generation > assignments[a].generation
        BY <2>1 DEF PastGrows
      <3>2. assignments[a].generation \in Nat /\ assignments'[a].generation \in Nat
        BY <2>3
      <3> QED
        BY <2>1, <2>2, <3>1, <3>2
    <2>6. /\ permissionSets'[a.set] # NoText
          /\ permissionSets'[a.set] \in Texts => permissionSets[a.set] \in Texts
      BY <2>1, <2>2 DEF PastGrows
    <2>7. a.subject # lineage.human =>
            /\ crews'[a.subject] # "none"
            /\ crews'[a.subject] = "live" => crews[a.subject] = "live"
            /\ lineage.membership \in 1 .. lastMembership'
            /\ crewMembers'[m] = lineage.membership => crewMembers[m] = lineage.membership
      <3> SUFFICES ASSUME a.subject # lineage.human
                   PROVE  /\ crews'[a.subject] # "none"
                          /\ crews'[a.subject] = "live" => crews[a.subject] = "live"
                          /\ lineage.membership \in 1 .. lastMembership'
                          /\ crewMembers'[m] = lineage.membership => crewMembers[m] = lineage.membership
        OBVIOUS
      <3>1. a.subject \in Crews /\ crews[a.subject] # "none" /\ lineage.membership \in 1 .. lastMembership
        BY <2>2
      <3>2. m \in Crews \X Humans
        BY <2>1, <3>1
      <3>3. \/ crewMembers'[m] = crewMembers[m] \/ crewMembers'[m] = 0
            \/ crewMembers'[m] > lastMembership
        BY <3>2 DEF PastGrows
      <3>4. crews'[a.subject] # "none" /\ (crews'[a.subject] = "live" => crews[a.subject] = "live")
        BY <3>1 DEF PastGrows
      <3>5. lastMembership' >= lastMembership
        BY DEF PastGrows
      <3> HIDE DEF m
      <3>6. crewMembers'[m] \in Nat
        BY <3>2 DEF CenterTypes
      <3> QED
        BY <2>3, <3>1, <3>3, <3>4, <3>5, <3>6
    <2>8. a.subject = lineage.human => a.subject \notin Crews
      BY <2>1, IamAssumption
    <2>9. LineageIsPast(lineage)'
      <3>1. lineage.generation <= assignments'[a].generation
        BY <2>1, <2>2, <2>3, <2>5
      <3> QED
        BY <2>2, <2>4, <2>6, <2>7, <3>1 DEF LineageIsPast
    <2>10. ASSUME LineageHolds(lineage)'
           PROVE  LineageHolds(lineage)
      <3>1. /\ ~assignments'[a].revoked /\ assignments'[a].generation = lineage.generation
            /\ permissionSets'[a.set] \in Texts
            /\ \/ a.subject = lineage.human /\ lineage.membership = 0
               \/ /\ a.subject \in Crews /\ crews'[a.subject] = "live"
                  /\ crewMembers'[m] = lineage.membership
        BY <1>2, <2>10 DEF LineageHolds
      <3>2. assignments'[a] = assignments[a] /\ permissionSets[a.set] \in Texts
        BY <2>5, <2>6, <3>1
      <3>3. \/ a.subject = lineage.human /\ lineage.membership = 0
            \/ /\ a.subject \in Crews /\ crews[a.subject] = "live"
               /\ crewMembers[m] = lineage.membership
        BY <2>7, <2>8, <3>1
      <3> QED
        BY <2>2, <3>1, <3>2, <3>3 DEF LineageHolds
    <2> QED
      BY <2>9, <2>10
  <1> QED
    BY <1>1, <1>2

LEMMA AssignFields ==
    ASSUME AssigningTypeOK, NEW q \in Assigners, assigning[q] # NoRequest
    PROVE  /\ assigning[q].of \in Assignment /\ assigning[q].document \in Texts
           /\ assigning[q].users \subseteq Humans
           /\ assigning[q].of.set \in Sets /\ assigning[q].of.account \in AllAccounts
           /\ assigning[q].of.subject \in Subjects
  <1>1. /\ assigning[q].of \in Assignment /\ assigning[q].document \in Texts
        /\ assigning[q].users \subseteq Humans
    BY DEF AssigningTypeOK
  <1> QED
    BY <1>1 DEF Assignment

LEMMA AssignmentFields ==
    ASSUME NEW a \in Assignment
    PROVE  a.set \in Sets /\ a.account \in AllAccounts /\ a.subject \in Subjects
  BY DEF Assignment

\* People are made members, and stay.
LEMMA EnsuredUsers ==
    ASSUME IamTypeOK, NEW accounts, NEW people, memberRole' = EnsureAccountUser(accounts, people)
    PROVE  /\ memberRole' \in [UserPrincipals -> {"none", "member", "owner"}]
           /\ MembersStay
           /\ \A human \in Humans, account \in AllAccounts :
                 human \in people /\ account \in accounts =>
                     memberRole'[[human |-> human, account |-> account]] # "none"
  <1>1. /\ memberRole' \in [UserPrincipals -> {"none", "member", "owner"}]
        /\ \A p \in UserPrincipals : memberRole'[p] =
              IF p.account \in accounts /\ p.human \in people /\ memberRole[p] = "none"
              THEN "member" ELSE memberRole[p]
    BY DEF EnsureAccountUser, IamTypeOK
  <1>2. MembersStay
    BY <1>1 DEF MembersStay
  <1>3. ASSUME NEW human \in people \cap Humans, NEW account \in accounts \cap AllAccounts
        PROVE  memberRole'[[human |-> human, account |-> account]] # "none"
    <2> DEFINE p == [human |-> human, account |-> account]
    <2>1. p \in UserPrincipals /\ p.human = human /\ p.account = account
      BY DEF UserPrincipals
    <2> HIDE DEF p
    <2>2. memberRole'[p] # "none"
      BY <1>1, <2>1
    <2> QED
      BY <2>2 DEF p
  <1> QED
    BY <1>1, <1>2, <1>3
-----------------------------------------------------------------------------
\* What an assignment under way has read.
HasRead(x) ==
    LET a == x.of IN
    /\ a \in Assignable
    /\ SetIsLive(a.set) /\ x.document = permissionSets[a.set]
    /\ a.subject \in Crews => crews[a.subject] = "live" /\ x.users = CrewOf(a.subject)
    /\ a.subject \notin Crews => x.users = {a.subject}

Apart(x, y) ==
    /\ x.of.set # y.of.set
    /\ y.of.subject \in Crews => x.of.subject # y.of.subject

LEMMA AssignersMeans ==
    AssignersAreCurrent <=>
        \A p \in Assigners : assigning[p] # NoRequest =>
            /\ HasRead(assigning[p])
            /\ \A o \in Assigners \ {p} : assigning[o] # NoRequest => Apart(assigning[o], assigning[p])
  BY DEF AssignersAreCurrent, HasRead, Apart

CenterGoal == CenterTypes' /\ PastGrows /\ MembershipsAreNumbered' /\ CenterInv'

\* Steps that concern no managed role and no assignment.
LEMMA CenterFrame ==
    ASSUME IamTypeOK, CenterInv, ManagedStay, MembersStay, UNCHANGED <<centerVars, assigning>>
    PROVE  CenterInv'
  <1> USE DEF CenterInv, centerVars
  <1>1. ManagedRolesWait' /\ ManagedRolesFollowTheirSet'
    BY ManagedFrame
  <1>2. AssignersAreCurrent'
    BY DEF AssignersAreCurrent, SetIsLive, CrewOf
  <1>3. AssignmentsHaveRoles'
    BY DEF AssignmentsHaveRoles, Managed, RoleExists, Assignable, ManagedStay
  <1>4. AssignmentsAreUsable'
    <2> SUFFICES ASSUME NEW a \in Assignment, InForce(a)'
                 PROVE  /\ SetIsLive(a.set)'
                        /\ a.subject \in Crews => crews'[a.subject] = "live"
                        /\ \A human \in Humans : Through(a, human)' # {} =>
                              memberRole'[[human |-> human, account |-> a.account]] # "none"
      BY DEF AssignmentsAreUsable
    <2>1. InForce(a) /\ \A human \in Humans : Through(a, human)' = Through(a, human)
      BY DEF InForce, Through
    <2>2. \A human \in Humans : [human |-> human, account |-> a.account] \in UserPrincipals
      BY AssignmentFields DEF UserPrincipals
    <2> QED
      BY <2>1, <2>2 DEF AssignmentsAreUsable, SetIsLive, MembersStay
  <1> QED
    BY <1>1, <1>2, <1>3, <1>4

\* Managed roles as the assignments need them.
LEMMA RolesRemain ==
    ASSUME IamTypeOK, AssignmentsHaveRoles, UNCHANGED assignments,
           \A k \in DOMAIN ManagedRole : trust'[ManagedRole[k]] = trust[ManagedRole[k]]
    PROVE  AssignmentsHaveRoles'
  BY DEF AssignmentsHaveRoles, Managed, RoleExists, Assignable

LEMMA SetCreated ==
    ASSUME TypeInv, CenterInv, MembershipsAreNumbered, NEW s \in Sets, NEW text \in Texts,
           CreatePermissionSetTx(s, text)
    PROVE  CenterGoal
  <1>0. IamTypeOK /\ AssigningTypeOK
    BY DEF TypeInv
  <1> USE DEF CenterInv
  <1>1. /\ permissionSets[s] = NoText /\ permissionSets' = [permissionSets EXCEPT ![s] = text]
        /\ UNCHANGED <<memberRole, iamPolicies, bindings, boundary, trust>>
        /\ UNCHANGED <<crews, crewMembers, lastMembership, assignments, assigning>>
    BY DEF CreatePermissionSetTx, roleVars, iamVars
  <1>2. CenterTypes'
    BY <1>0, <1>1 DEF CenterTypes, IamTypeOK, AssigningTypeOK
  <1>3. \A z \in Sets : z # s => permissionSets'[z] = permissionSets[z]
    BY <1>0, <1>1 DEF IamTypeOK
  <1>4. permissionSets'[s] = text /\ text # NoText /\ NoText \notin Texts
    BY <1>0, <1>1, IamAssumption DEF IamTypeOK
  <1>5. PastGrows
    BY <1>0, <1>1, <1>3 DEF PastGrows, IamTypeOK, MembersStay
  <1>6. ManagedRolesWait' /\ ManagedRolesFollowTheirSet'
    <2>1. ManagedStay
      BY <1>1 DEF ManagedStay
    <2>2. ASSUME NEW k \in DOMAIN ManagedRole
          PROVE  /\ trust[ManagedRole[k]] # NoTrust /\ permissionSets'[k[1]] \in Texts =>
                       permissionSets'[k[1]] = permissionSets[k[1]]
                 /\ permissionSets'[k[1]] = NoText => permissionSets[k[1]] = NoText
      <3>1. k[1] \in Sets
        BY CenterAssumption
      <3>2. CASE k[1] = s
        <4>1. trust[ManagedRole[k]] = NoTrust
          BY <1>1, <3>2 DEF ManagedRolesWait
        <4> QED
          BY <1>1, <3>2, <4>1
      <3> QED
        BY <1>3, <3>1, <3>2
    <2> QED
      BY <1>0, <2>1, <2>2, ManagedFrame
  <1>7. AssignersAreCurrent'
    <2>1. \A q \in Assigners : assigning[q] # NoRequest =>
            assigning[q].of.set \in Sets \ {s}
      BY <1>0, <1>1, <1>4, AssignFields DEF AssignersAreCurrent, SetIsLive
    <2>2. \A q \in Assigners : assigning[q] # NoRequest =>
            permissionSets'[assigning[q].of.set] = permissionSets[assigning[q].of.set]
      BY <1>3, <2>1
    <2> QED
      BY <1>1, <2>2 DEF AssignersAreCurrent, SetIsLive, CrewOf
  <1>8. AssignmentsHaveRoles'
    BY <1>0, <1>1, RolesRemain
  <1>9. AssignmentsAreUsable'
    <2>1. \A a \in Assignment : InForce(a) => a.set \in Sets \ {s}
      BY <1>1, <1>4, AssignmentFields DEF AssignmentsAreUsable, SetIsLive
    <2>2. \A a \in Assignment : InForce(a)' => InForce(a) /\ SetIsLive(a.set)'
      BY <1>1, <1>3, <2>1 DEF AssignmentsAreUsable, SetIsLive, InForce
    <2>3. \A a \in Assignment, human \in Humans : Through(a, human)' = Through(a, human)
      BY <1>1 DEF Through
    <2> QED
      BY <1>1, <2>2, <2>3 DEF AssignmentsAreUsable
  <1>10. MembershipsAreNumbered'
    BY <1>1 DEF MembershipsAreNumbered
  <1> QED
    BY <1>2, <1>5, <1>6, <1>7, <1>8, <1>9, <1>10 DEF CenterGoal

LEMMA SetUpdated ==
    ASSUME TypeInv, CenterInv, MembershipsAreNumbered, NEW s \in Sets, NEW text \in Texts,
           UpdatePermissionSetTx(s, text)
    PROVE  CenterGoal
  <1>0. IamTypeOK /\ AssigningTypeOK
    BY DEF TypeInv
  <1> USE DEF CenterInv
  <1>1. /\ permissionSets[s] \in Texts /\ permissionSets' = [permissionSets EXCEPT ![s] = text]
        /\ \A q \in Assigners : assigning[q] # NoRequest => assigning[q].of.set # s
        /\ UNCHANGED <<memberRole, bindings, boundary, trust>>
        /\ UNCHANGED <<crews, crewMembers, lastMembership, assignments, assigning>>
    BY DEF UpdatePermissionSetTx, LockSet, SetUnlocked, SetIsLive
  <1>2. iamPolicies' = [d \in PolicyIds |->
           IF \E k \in DOMAIN ManagedPolicy :
                  k[1] = s /\ ManagedPolicy[k] = d /\ Managed(ManagedRole[k])
           THEN text ELSE iamPolicies[d]]
    BY DEF UpdatePermissionSetTx
  <1>3. CenterTypes'
    <2>1. iamPolicies' \in [PolicyIds -> Texts \cup {NoText}]
      BY <1>0, <1>2 DEF IamTypeOK
    <2> QED
      BY <1>0, <1>1, <2>1 DEF CenterTypes, IamTypeOK, AssigningTypeOK
  <1>4. /\ \A z \in Sets : z # s => permissionSets'[z] = permissionSets[z]
        /\ permissionSets'[s] = text /\ text # NoText
    BY <1>0, <1>1, IamAssumption DEF IamTypeOK
  <1>5. PastGrows
    BY <1>0, <1>1, <1>4 DEF PastGrows, IamTypeOK, MembersStay
  <1>6. \A k \in DOMAIN ManagedRole : Managed(ManagedRole[k])' <=> Managed(ManagedRole[k])
    BY <1>1 DEF Managed, RoleExists
  <1>7. ManagedRolesWait'
    <2>1. \A k \in DOMAIN ManagedRole : permissionSets'[k[1]] = NoText => permissionSets[k[1]] = NoText
      BY <1>4, CenterAssumption
    <2> QED
      BY <1>1, <2>1 DEF ManagedRolesWait
  <1>8. ManagedRolesFollowTheirSet'
    <2> SUFFICES ASSUME NEW k \in DOMAIN ManagedRole, Managed(ManagedRole[k]), permissionSets'[k[1]] \in Texts
                 PROVE  iamPolicies'[ManagedPolicy[k]] = permissionSets'[k[1]]
      BY <1>1, <1>6 DEF ManagedRolesFollowTheirSet, SetIsLive
    <2>1. k[1] \in Sets /\ k \in DOMAIN ManagedPolicy /\ ManagedPolicy[k] \in PolicyIds
      BY CenterAssumption
    <2>2. CASE k[1] = s
      <3>1. iamPolicies'[ManagedPolicy[k]] = text
        BY <1>2, <2>1, <2>2
      <3> QED
        BY <1>4, <2>2, <3>1
    <2>3. CASE k[1] # s
      <3>1. ~\E l \in DOMAIN ManagedPolicy :
               l[1] = s /\ ManagedPolicy[l] = ManagedPolicy[k] /\ Managed(ManagedRole[l])
        BY <2>1, <2>3, CenterAssumption
      <3>2. iamPolicies'[ManagedPolicy[k]] = iamPolicies[ManagedPolicy[k]]
        BY <1>2, <2>1, <3>1
      <3>3. permissionSets'[k[1]] = permissionSets[k[1]]
        BY <1>4, <2>1, <2>3
      <3> QED
        BY <3>2, <3>3 DEF ManagedRolesFollowTheirSet, SetIsLive
    <2> QED
      BY <2>2, <2>3
  <1>9. AssignersAreCurrent'
    <2>1. \A q \in Assigners : assigning[q] # NoRequest =>
            permissionSets'[assigning[q].of.set] = permissionSets[assigning[q].of.set]
      BY <1>0, <1>1, <1>4, AssignFields
    <2> QED
      BY <1>1, <2>1 DEF AssignersAreCurrent, SetIsLive, CrewOf
  <1>10. AssignmentsHaveRoles'
    BY <1>0, <1>1, RolesRemain
  <1>11. AssignmentsAreUsable'
    <2>1. \A z \in Sets : SetIsLive(z) => SetIsLive(z)'
      BY <1>4 DEF SetIsLive
    <2>2. \A a \in Assignment : InForce(a)' => InForce(a) /\ SetIsLive(a.set)'
      BY <1>1, <2>1, AssignmentFields DEF AssignmentsAreUsable, InForce
    <2>3. \A a \in Assignment, human \in Humans : Through(a, human)' = Through(a, human)
      BY <1>1 DEF Through
    <2> QED
      BY <1>1, <2>2, <2>3 DEF AssignmentsAreUsable
  <1>12. MembershipsAreNumbered'
    BY <1>1 DEF MembershipsAreNumbered
  <1> QED
    BY <1>3, <1>5, <1>7, <1>8, <1>9, <1>10, <1>11, <1>12 DEF CenterGoal

LEMMA SetDeleted ==
    ASSUME TypeInv, CenterInv, MembershipsAreNumbered, NEW s \in Sets, DeletePermissionSetTx(s)
    PROVE  CenterGoal
  <1>0. IamTypeOK /\ AssigningTypeOK
    BY DEF TypeInv
  <1> USE DEF CenterInv
  <1>1. /\ permissionSets[s] \in Texts /\ permissionSets' = [permissionSets EXCEPT ![s] = Gone]
        /\ \A q \in Assigners : assigning[q] # NoRequest => assigning[q].of.set # s
        /\ \A a \in Assignment : InForce(a) => a.set # s
        /\ UNCHANGED <<memberRole, iamPolicies, bindings, boundary, trust>>
        /\ UNCHANGED <<crews, crewMembers, lastMembership, assignments, assigning>>
    BY DEF DeletePermissionSetTx, LockSet, SetUnlocked, SetIsLive, roleVars, iamVars
  <1>2. CenterTypes'
    BY <1>0, <1>1 DEF CenterTypes, IamTypeOK, AssigningTypeOK
  <1>3. /\ \A z \in Sets : z # s => permissionSets'[z] = permissionSets[z]
        /\ permissionSets'[s] = Gone /\ Gone \notin Texts /\ Gone # NoText
    BY <1>0, <1>1, IamAssumption DEF IamTypeOK
  <1>4. PastGrows
    BY <1>0, <1>1, <1>3 DEF PastGrows, IamTypeOK, MembersStay
  <1>5. ManagedRolesWait' /\ ManagedRolesFollowTheirSet'
    <2>1. ManagedStay
      BY <1>1 DEF ManagedStay
    <2>2. \A k \in DOMAIN ManagedRole :
              /\ trust[ManagedRole[k]] # NoTrust /\ permissionSets'[k[1]] \in Texts =>
                    permissionSets'[k[1]] = permissionSets[k[1]]
              /\ permissionSets'[k[1]] = NoText => permissionSets[k[1]] = NoText
      BY <1>3, CenterAssumption
    <2> QED
      BY <1>0, <2>1, <2>2, ManagedFrame
  <1>6. AssignersAreCurrent'
    <2>1. \A q \in Assigners : assigning[q] # NoRequest =>
            permissionSets'[assigning[q].of.set] = permissionSets[assigning[q].of.set]
      BY <1>0, <1>1, <1>3, AssignFields
    <2> QED
      BY <1>1, <2>1 DEF AssignersAreCurrent, SetIsLive, CrewOf
  <1>7. AssignmentsHaveRoles'
    BY <1>0, <1>1, RolesRemain
  <1>8. AssignmentsAreUsable'
    <2>1. \A a \in Assignment : InForce(a)' => InForce(a) /\ SetIsLive(a.set)'
      BY <1>1, <1>3, AssignmentFields DEF AssignmentsAreUsable, SetIsLive, InForce
    <2>2. \A a \in Assignment, human \in Humans : Through(a, human)' = Through(a, human)
      BY <1>1 DEF Through
    <2> QED
      BY <1>1, <2>1, <2>2 DEF AssignmentsAreUsable
  <1>9. MembershipsAreNumbered'
    BY <1>1 DEF MembershipsAreNumbered
  <1> QED
    BY <1>2, <1>4, <1>5, <1>6, <1>7, <1>8, <1>9 DEF CenterGoal
-----------------------------------------------------------------------------
LEMMA GroupCreated ==
    ASSUME TypeInv, CenterInv, MembershipsAreNumbered, NEW g \in Crews, CreateIdentityCenterGroupTx(g)
    PROVE  CenterGoal
  <1>0. IamTypeOK /\ AssigningTypeOK
    BY DEF TypeInv
  <1> USE DEF CenterInv
  <1>1. /\ crews[g] = "none" /\ crews' = [crews EXCEPT ![g] = "live"]
        /\ UNCHANGED <<memberRole, iamPolicies, bindings, boundary, trust>>
        /\ UNCHANGED <<permissionSets, crewMembers, lastMembership, assignments, assigning>>
    BY DEF CreateIdentityCenterGroupTx, roleVars, iamVars
  <1>2. CenterTypes'
    BY <1>0, <1>1 DEF CenterTypes, IamTypeOK, AssigningTypeOK
  <1>3. \A h \in Crews : h # g => crews'[h] = crews[h]
    BY <1>0, <1>1 DEF IamTypeOK
  <1>4. PastGrows
    BY <1>0, <1>1, <1>3 DEF PastGrows, IamTypeOK, MembersStay
  <1>5. ManagedRolesWait' /\ ManagedRolesFollowTheirSet'
    <2>1. ManagedStay
      BY <1>1 DEF ManagedStay
    <2> QED
      BY <1>0, <1>1, <2>1, ManagedFrame
  <1>6. AssignersAreCurrent'
    <2>1. \A q \in Assigners : assigning[q] # NoRequest /\ assigning[q].of.subject \in Crews =>
            crews'[assigning[q].of.subject] = crews[assigning[q].of.subject]
      BY <1>1, <1>3 DEF AssignersAreCurrent
    <2> QED
      BY <1>1, <2>1 DEF AssignersAreCurrent, SetIsLive, CrewOf
  <1>7. AssignmentsHaveRoles'
    BY <1>0, <1>1, RolesRemain
  <1>8. AssignmentsAreUsable'
    <2>1. \A a \in Assignment : InForce(a)' => InForce(a) /\ a.subject # g
      BY <1>1 DEF AssignmentsAreUsable, InForce
    <2>2. \A a \in Assignment, human \in Humans : a.subject # g => Through(a, human)' = Through(a, human)
      BY <1>1, <1>3 DEF Through
    <2> QED
      BY <1>1, <1>3, <2>1, <2>2 DEF AssignmentsAreUsable, SetIsLive
  <1>9. MembershipsAreNumbered'
    BY <1>1 DEF MembershipsAreNumbered
  <1> QED
    BY <1>2, <1>4, <1>5, <1>6, <1>7, <1>8, <1>9 DEF CenterGoal

LEMMA GroupDeleted ==
    ASSUME TypeInv, CenterInv, MembershipsAreNumbered, NEW g \in Crews, DeleteIdentityCenterGroupTx(g)
    PROVE  CenterGoal
  <1>0. IamTypeOK /\ AssigningTypeOK
    BY DEF TypeInv
  <1> USE DEF CenterInv
  <1>1. /\ crews[g] = "live" /\ crews' = [crews EXCEPT ![g] = "deleted"]
        /\ crewMembers' = [m \in Crews \X Humans |-> IF m[1] = g THEN 0 ELSE crewMembers[m]]
        /\ \A q \in Assigners : assigning[q] # NoRequest => assigning[q].of.subject # g
        /\ \A a \in Assignment : InForce(a) => a.subject # g
        /\ UNCHANGED <<memberRole, iamPolicies, bindings, boundary, trust>>
        /\ UNCHANGED <<permissionSets, lastMembership, assignments, assigning>>
    BY DEF DeleteIdentityCenterGroupTx, LockCrew, CrewUnlocked, roleVars, iamVars
  <1>2. crewMembers' \in [Crews \X Humans -> 0 .. MaxGeneration]
    BY <1>0, <1>1, IamAssumption DEF IamTypeOK
  <1>3. CenterTypes'
    BY <1>0, <1>1, <1>2 DEF CenterTypes, IamTypeOK, AssigningTypeOK
  <1>4. /\ \A h \in Crews : h # g =>
              crews'[h] = crews[h] /\ \A human \in Humans : crewMembers'[<<h, human>>] = crewMembers[<<h, human>>]
        /\ \A m \in Crews \X Humans : crewMembers'[m] = crewMembers[m] \/ crewMembers'[m] = 0
    BY <1>0, <1>1 DEF IamTypeOK
  <1>5. PastGrows
    BY <1>0, <1>1, <1>4 DEF PastGrows, IamTypeOK, MembersStay
  <1>6. ManagedRolesWait' /\ ManagedRolesFollowTheirSet'
    <2>1. ManagedStay
      BY <1>1 DEF ManagedStay
    <2> QED
      BY <1>0, <1>1, <2>1, ManagedFrame
  <1>7. AssignersAreCurrent'
    <2>1. \A h \in Crews : h # g => CrewOf(h)' = CrewOf(h)
      BY <1>4 DEF CrewOf
    <2>2. ASSUME NEW x, HasRead(x), x.of.subject # g
          PROVE  HasRead(x)'
      <3>1. x.of.subject \in Crews => CrewOf(x.of.subject)' = CrewOf(x.of.subject)
        BY <2>1, <2>2
      <3> QED
        BY <1>1, <1>4, <2>2, <3>1 DEF HasRead, SetIsLive, Assignable
    <2> QED
      BY <1>1, <2>2, AssignersMeans DEF Apart, AssignersAreCurrent, HasRead
  <1>8. AssignmentsHaveRoles'
    BY <1>0, <1>1, RolesRemain
  <1>9. AssignmentsAreUsable'
    <2>1. \A a \in Assignment : InForce(a)' => InForce(a) /\ a.subject # g
      BY <1>1 DEF InForce
    <2>2. \A a \in Assignment, human \in Humans : a.subject # g => Through(a, human)' = Through(a, human)
      BY <1>1, <1>4 DEF Through
    <2> QED
      BY <1>1, <1>4, <2>1, <2>2 DEF AssignmentsAreUsable, SetIsLive
  <1>10. MembershipsAreNumbered'
    BY <1>0, <1>1, <1>4 DEF MembershipsAreNumbered, IamTypeOK
  <1> QED
    BY <1>3, <1>5, <1>6, <1>7, <1>8, <1>9, <1>10 DEF CenterGoal

LEMMA MemberChanged ==
    ASSUME TypeInv, CenterInv, MembershipsAreNumbered, NEW g \in Crews, NEW human \in Humans,
           NEW add \in BOOLEAN, ChangeIdentityCenterGroupMemberTx(g, human, add)
    PROVE  CenterGoal
  <1>0. IamTypeOK /\ AssigningTypeOK
    BY DEF TypeInv
  <1> USE DEF CenterInv
  <1> DEFINE places == {a.account : a \in {b \in Assignment : b.subject = g /\ InForce(b)}}
             m == <<g, human>>
             n == IF add THEN lastMembership + 1 ELSE 0
  <1>1. /\ crews[g] = "live"
        /\ \A q \in Assigners : assigning[q] # NoRequest => assigning[q].of.subject # g
        /\ UNCHANGED <<iamPolicies, bindings, boundary, trust>>
        /\ UNCHANGED <<permissionSets, crews, assignments, assigning>>
        /\ crewMembers' = [crewMembers EXCEPT ![m] = n]
    BY DEF ChangeIdentityCenterGroupMemberTx, LockCrew, CrewUnlocked
  <1>2. \/ /\ add /\ memberRole' = EnsureAccountUser(places, {human})
           /\ lastMembership < MaxGeneration /\ lastMembership' = lastMembership + 1
        \/ ~add /\ UNCHANGED <<memberRole, lastMembership>>
    BY DEF ChangeIdentityCenterGroupMemberTx
  <1>3. /\ memberRole' \in [UserPrincipals -> {"none", "member", "owner"}] /\ MembersStay
        /\ add => \A account \in AllAccounts : account \in places =>
                     memberRole'[[human |-> human, account |-> account]] # "none"
    <2>1. CASE memberRole' = EnsureAccountUser(places, {human})
      <3> HIDE DEF places
      <3> QED
        BY <1>0, <2>1, EnsuredUsers
    <2>2. CASE ~add /\ UNCHANGED memberRole
      BY <1>0, <2>2 DEF IamTypeOK, MembersStay
    <2> QED
      BY <1>2, <2>1, <2>2
  <1>4. \A a \in Assignment : a.subject = g /\ InForce(a) => a.account \in places
    OBVIOUS
  <1> HIDE DEF places
  <1>5. /\ lastMembership' \in 0 .. MaxGeneration /\ lastMembership' >= lastMembership
        /\ n \in 0 .. MaxGeneration /\ n <= lastMembership' /\ (n = 0 \/ n > lastMembership)
        /\ lastMembership \in Nat
    BY <1>0, <1>2, IamAssumption DEF IamTypeOK
  <1>6. m \in Crews \X Humans
    OBVIOUS
  <1> HIDE DEF n
  <1>7. /\ crewMembers' \in [Crews \X Humans -> 0 .. MaxGeneration]
        /\ \A l \in Crews \X Humans : crewMembers'[l] = IF l = m THEN n ELSE crewMembers[l]
    BY <1>0, <1>1, <1>5, <1>6 DEF IamTypeOK
  <1>8. CenterTypes'
    BY <1>0, <1>1, <1>3, <1>5, <1>7 DEF CenterTypes, IamTypeOK, AssigningTypeOK
  <1>9. PastGrows
    BY <1>0, <1>1, <1>3, <1>5, <1>7 DEF PastGrows, IamTypeOK
  <1>10. ManagedRolesWait' /\ ManagedRolesFollowTheirSet'
    <2>1. ManagedStay
      BY <1>1 DEF ManagedStay
    <2> QED
      BY <1>0, <1>1, <2>1, ManagedFrame
  <1>11. \A h \in Crews, u \in Humans : h # g \/ u # human => crewMembers'[<<h, u>>] = crewMembers[<<h, u>>]
    BY <1>7
  <1>12. AssignersAreCurrent'
    <2>1. \A h \in Crews : h # g => CrewOf(h)' = CrewOf(h)
      BY <1>11 DEF CrewOf
    <2>2. ASSUME NEW x, HasRead(x), x.of.subject # g
          PROVE  HasRead(x)'
      <3>1. x.of.subject \in Crews => CrewOf(x.of.subject)' = CrewOf(x.of.subject)
        BY <2>1, <2>2
      <3> QED
        BY <1>1, <2>2, <3>1 DEF HasRead, SetIsLive, Assignable
    <2> QED
      BY <1>1, <2>2, AssignersMeans DEF Apart, AssignersAreCurrent, HasRead
  <1>13. AssignmentsHaveRoles'
    BY <1>0, <1>1, RolesRemain
  <1>14. AssignmentsAreUsable'
    <2> SUFFICES ASSUME NEW a \in Assignment, InForce(a)'
                 PROVE  /\ SetIsLive(a.set)'
                        /\ a.subject \in Crews => crews'[a.subject] = "live"
                        /\ \A u \in Humans : Through(a, u)' # {} =>
                              memberRole'[[human |-> u, account |-> a.account]] # "none"
      BY DEF AssignmentsAreUsable
    <2>1. InForce(a)
      BY <1>1 DEF InForce
    <2>2. ASSUME NEW u \in Humans, Through(a, u)' # {}
          PROVE  memberRole'[[human |-> u, account |-> a.account]] # "none"
      <3> DEFINE p == [human |-> u, account |-> a.account]
      <3>1. p \in UserPrincipals /\ a.account \in AllAccounts
        BY AssignmentFields DEF UserPrincipals
      <3>2. CASE Through(a, u) # {}
        <4>1. memberRole[p] # "none"
          BY <2>1, <3>2 DEF AssignmentsAreUsable
        <4> QED
          BY <1>3, <3>1, <4>1 DEF MembersStay
      <3>3. CASE Through(a, u) = {}
        <4>1. a.subject = g /\ u = human /\ n # 0
          <5>1. a.subject # u /\ a.subject \in Crews /\ crews'[a.subject] = "live"
                /\ crewMembers'[<<a.subject, u>>] # 0
            BY <2>2, <3>3 DEF Through
          <5>2. crewMembers[<<a.subject, u>>] = 0
            BY <1>1, <3>3, <5>1 DEF Through
          <5>3. a.subject = g /\ u = human
            BY <1>11, <5>1, <5>2
          <5> QED
            BY <1>7, <5>1, <5>3
        <4>2. add
          BY <4>1 DEF n
        <4> QED
          BY <1>3, <1>4, <2>1, <3>1, <4>1, <4>2
      <3> QED
        BY <3>2, <3>3
    <2> QED
      BY <1>1, <2>1, <2>2 DEF AssignmentsAreUsable, SetIsLive
  <1>15. MembershipsAreNumbered'
    BY <1>0, <1>5, <1>7 DEF MembershipsAreNumbered, IamTypeOK
  <1> QED
    BY <1>8, <1>9, <1>10, <1>12, <1>13, <1>14, <1>15 DEF CenterGoal
-----------------------------------------------------------------------------
LEMMA AssignmentLocked ==
    ASSUME TypeInv, CenterInv, MembershipsAreNumbered, NEW q \in Assigners, NEW a \in Assignable,
           AssignmentLock(q, a)
    PROVE  CenterGoal
  <1>0. IamTypeOK /\ AssigningTypeOK
    BY DEF TypeInv
  <1> USE DEF CenterInv
  <1> DEFINE x == [of |-> a, document |-> permissionSets[a.set],
                   users |-> IF a.subject \in Crews THEN CrewOf(a.subject) ELSE {a.subject}]
  <1>1. /\ assigning[q] = NoRequest /\ permissionSets[a.set] \in Texts
        /\ \A p \in Assigners : assigning[p] # NoRequest => assigning[p].of.set # a.set
        /\ a.subject \in Crews =>
              /\ crews[a.subject] = "live"
              /\ \A p \in Assigners : assigning[p] # NoRequest => assigning[p].of.subject # a.subject
        /\ assigning' = [assigning EXCEPT ![q] = x]
        /\ UNCHANGED <<memberRole, iamPolicies, bindings, boundary, trust, centerVars>>
    BY DEF AssignmentLock, LockSet, SetUnlocked, SetIsLive, LockCrew, CrewUnlocked, roleVars, iamVars
  <1>2. /\ a \in Assignment /\ a.set \in Sets /\ a.subject \in Subjects
    BY AssignmentFields DEF Assignable
  <1>3. /\ x.of = a /\ x.document = permissionSets[a.set]
        /\ x.users = IF a.subject \in Crews THEN CrewOf(a.subject) ELSE {a.subject}
        /\ x \in [of: Assignment, document: Texts, users: SUBSET Humans]
    <2>1. CrewOf(a.subject) \subseteq Humans
      BY DEF CrewOf
    <2>2. a.subject \notin Crews => {a.subject} \subseteq Humans
      BY <1>2 DEF Subjects
    <2> QED
      BY <1>1, <1>2, <2>1, <2>2
  <1> HIDE DEF x
  <1>4. HasRead(x)
    BY <1>1, <1>3 DEF HasRead, SetIsLive
  <1>5. /\ \A p \in Assigners : assigning'[p] = IF p = q THEN x ELSE assigning[p]
        /\ AssigningTypeOK'
    BY <1>0, <1>1, <1>3 DEF AssigningTypeOK
  <1>6. CenterTypes'
    BY <1>0, <1>1, <1>5 DEF CenterTypes, IamTypeOK, centerVars
  <1>7. MembersStay /\ ManagedStay
    BY <1>1 DEF MembersStay, ManagedStay
  <1>8. PastGrows
    BY <1>0, <1>1, <1>7, NothingPasses
  <1>9. ManagedRolesWait' /\ ManagedRolesFollowTheirSet'
    BY <1>0, <1>1, <1>7, ManagedFrame DEF centerVars
  <1>10. AssignersAreCurrent'
    <2>1. \A y : HasRead(y)' <=> HasRead(y)
      BY <1>1 DEF HasRead, SetIsLive, CrewOf, Assignable, centerVars
    <2>2. \A p \in Assigners : assigning[p] # NoRequest =>
            Apart(assigning[p], x) /\ Apart(x, assigning[p])
      BY <1>1, <1>3 DEF Apart
    <2>3. \A p \in Assigners : assigning[p] # NoRequest =>
            /\ HasRead(assigning[p])
            /\ \A o \in Assigners \ {p} : assigning[o] # NoRequest => Apart(assigning[o], assigning[p])
      BY AssignersMeans
    <2>4. ASSUME NEW p \in Assigners, assigning'[p] # NoRequest
          PROVE  /\ HasRead(assigning'[p])
                 /\ \A o \in Assigners \ {p} : assigning'[o] # NoRequest =>
                       Apart(assigning'[o], assigning'[p])
      <3>1. CASE p = q
        BY <1>4, <1>5, <2>2, <3>1
      <3>2. CASE p # q
        BY <1>5, <2>2, <2>3, <2>4, <3>2
      <3> QED
        BY <3>1, <3>2
    <2>5. \A p \in Assigners : assigning'[p] # NoRequest =>
            /\ HasRead(assigning'[p])
            /\ \A o \in Assigners \ {p} : assigning'[o] # NoRequest =>
                  Apart(assigning'[o], assigning'[p])
      BY <2>4
    <2> QED
      BY <2>1, <2>5, <1>1 DEF AssignersAreCurrent, HasRead, Apart, SetIsLive, CrewOf, centerVars, Assignable
  <1>11. AssignmentsHaveRoles'
    BY <1>0, <1>1, RolesRemain DEF centerVars
  <1>12. AssignmentsAreUsable'
    BY <1>1 DEF AssignmentsAreUsable, InForce, SetIsLive, Through, centerVars
  <1>13. MembershipsAreNumbered'
    BY <1>1 DEF MembershipsAreNumbered, centerVars
  <1> QED
    BY <1>6, <1>8, <1>9, <1>10, <1>11, <1>12, <1>13 DEF CenterGoal

LEMMA AssignmentGivenUp ==
    ASSUME TypeInv, CenterInv, MembershipsAreNumbered, NEW q \in Assigners, AssignmentRolledBack(q)
    PROVE  CenterGoal
  <1>0. IamTypeOK /\ AssigningTypeOK
    BY DEF TypeInv
  <1> USE DEF CenterInv
  <1>1. /\ assigning' = [assigning EXCEPT ![q] = NoRequest]
        /\ UNCHANGED <<memberRole, iamPolicies, bindings, boundary, trust, centerVars>>
    BY DEF AssignmentRolledBack, roleVars, iamVars
  <1>2. /\ \A p \in Assigners : assigning'[p] = IF p = q THEN NoRequest ELSE assigning[p]
        /\ AssigningTypeOK'
    BY <1>0, <1>1 DEF AssigningTypeOK
  <1>3. CenterTypes'
    BY <1>0, <1>1, <1>2 DEF CenterTypes, IamTypeOK, centerVars
  <1>4. MembersStay /\ ManagedStay
    BY <1>1 DEF MembersStay, ManagedStay
  <1>5. PastGrows
    BY <1>0, <1>1, <1>4, NothingPasses
  <1>6. ManagedRolesWait' /\ ManagedRolesFollowTheirSet'
    BY <1>0, <1>1, <1>4, ManagedFrame DEF centerVars
  <1>7. AssignersAreCurrent'
    BY <1>1, <1>2 DEF AssignersAreCurrent, SetIsLive, CrewOf, centerVars
  <1>8. AssignmentsHaveRoles'
    BY <1>0, <1>1, RolesRemain DEF centerVars
  <1>9. AssignmentsAreUsable'
    BY <1>1 DEF AssignmentsAreUsable, InForce, SetIsLive, Through, centerVars
  <1>10. MembershipsAreNumbered'
    BY <1>1 DEF MembershipsAreNumbered, centerVars
  <1> QED
    BY <1>3, <1>5, <1>6, <1>7, <1>8, <1>9, <1>10 DEF CenterGoal

LEMMA AssignmentRevoked ==
    ASSUME TypeInv, CenterInv, MembershipsAreNumbered, NEW a \in Assignment, RevokeAssignmentTx(a)
    PROVE  CenterGoal
  <1>0. IamTypeOK /\ AssigningTypeOK
    BY DEF TypeInv
  <1> USE DEF CenterInv
  <1> DEFINE old == assignments[a]
             new == [old EXCEPT !.revoked = TRUE]
  <1>1. /\ assignments' = [assignments EXCEPT ![a] = new]
        /\ UNCHANGED <<memberRole, iamPolicies, bindings, boundary, trust>>
        /\ UNCHANGED <<permissionSets, crews, crewMembers, lastMembership, assigning>>
    BY DEF RevokeAssignmentTx, roleVars, iamVars
  <1>2. /\ new \in [generation: 0 .. MaxGeneration, revoked: BOOLEAN]
        /\ new.generation = assignments[a].generation /\ new.revoked
    BY <1>0 DEF IamTypeOK
  <1> HIDE DEF old, new
  <1>3. /\ assignments' \in [Assignment -> [generation: 0 .. MaxGeneration, revoked: BOOLEAN]]
        /\ \A b \in Assignment : assignments'[b] = IF b = a THEN new ELSE assignments[b]
    BY <1>0, <1>1, <1>2 DEF IamTypeOK
  <1>4. CenterTypes'
    BY <1>0, <1>1, <1>3 DEF CenterTypes, IamTypeOK, AssigningTypeOK
  <1>5. MembersStay /\ ManagedStay
    BY <1>1 DEF MembersStay, ManagedStay
  <1>6. PastGrows
    <2>1. \A b \in Assignment :
            \/ assignments'[b] = assignments[b]
            \/ assignments'[b].generation = assignments[b].generation /\ assignments'[b].revoked
      BY <1>2, <1>3
    <2> QED
      BY <1>0, <1>1, <1>5, <2>1 DEF PastGrows, IamTypeOK
  <1>7. ManagedRolesWait' /\ ManagedRolesFollowTheirSet'
    BY <1>0, <1>1, <1>5, ManagedFrame
  <1>8. AssignersAreCurrent'
    BY <1>1 DEF AssignersAreCurrent, SetIsLive, CrewOf
  <1>9. AssignmentsHaveRoles'
    <2>1. \A b \in Assignment : assignments'[b].generation = assignments[b].generation
      BY <1>2, <1>3
    <2> QED
      BY <1>1, <2>1 DEF AssignmentsHaveRoles, Managed, RoleExists, Assignable
  <1>10. AssignmentsAreUsable'
    <2>1. \A b \in Assignment : InForce(b)' => InForce(b)
      BY <1>2, <1>3 DEF InForce
    <2>2. \A b \in Assignment, human \in Humans : Through(b, human)' = Through(b, human)
      BY <1>1 DEF Through
    <2> QED
      BY <1>1, <2>1, <2>2 DEF AssignmentsAreUsable, SetIsLive
  <1>11. MembershipsAreNumbered'
    BY <1>1 DEF MembershipsAreNumbered
  <1> QED
    BY <1>4, <1>6, <1>7, <1>8, <1>9, <1>10, <1>11 DEF CenterGoal

LEMMA Replaced ==
    ASSUME NEW D, NEW R, NEW f \in [D -> R], NEW d, NEW v \in R
    PROVE  [f EXCEPT ![d] = v] \in [D -> R]
  OBVIOUS

\* The role of a set in an account is made with the set's document, and with its policy alone.
LEMMA RoleMade ==
    ASSUME TypeInv, CenterInv, NEW k \in DOMAIN ManagedRole, permissionSets[k[1]] \in Texts,
           ~Managed(ManagedRole[k]),
           trust' = [trust EXCEPT ![ManagedRole[k]] = CenterTrust],
           iamPolicies' = [iamPolicies EXCEPT ![ManagedPolicy[k]] = permissionSets[k[1]]],
           bindings' = bindings \cup {<<ManagedRole[k], ManagedPolicy[k]>>},
           UNCHANGED <<boundary, permissionSets>>
    PROVE  /\ iamPolicies' \in [PolicyIds -> Texts \cup {NoText}]
           /\ bindings' \subseteq Principals \X PolicyIds
           /\ trust' \in [Roles -> Trusts \cup {NoTrust, Gone}]
           /\ ManagedRolesWait' /\ ManagedRolesFollowTheirSet'
           /\ \A l \in DOMAIN ManagedRole :
                 Managed(ManagedRole[l])' <=> l = k \/ Managed(ManagedRole[l])
  <1> DEFINE r == ManagedRole[k]
             d == ManagedPolicy[k]
  <1>0. IamTypeOK /\ ManagedRolesWait /\ ManagedRolesFollowTheirSet
    BY DEF TypeInv, CenterInv
  <1>1. r \in Roles /\ r \in Principals /\ d \in PolicyIds /\ CenterTrust \in Trusts
    BY <1>0, ManagedMeans, CenterAssumption
  <1>2. trust[r] = NoTrust /\ (\A b \in bindings : b[1] # r) /\ boundary[r] = NoPolicy
    BY <1>0, ManagedMeans DEF ManagedRolesWait
  <1>3. \A l \in DOMAIN ManagedRole : l # k =>
          /\ ManagedRole[l] # r /\ ManagedPolicy[l] # d
          /\ ManagedRole[l] \in Roles /\ ManagedPolicy[l] \in PolicyIds
    BY CenterAssumption
  <1>4. /\ trust' = [trust EXCEPT ![r] = CenterTrust]
        /\ iamPolicies' = [iamPolicies EXCEPT ![d] = permissionSets[k[1]]]
        /\ bindings' = bindings \cup {<<r, d>>}
    OBVIOUS
  <1>a. r = ManagedRole[k] /\ d = ManagedPolicy[k]
    OBVIOUS
  <1> HIDE DEF r, d
  <1>5. /\ iamPolicies' \in [PolicyIds -> Texts \cup {NoText}]
        /\ bindings' \subseteq Principals \X PolicyIds
        /\ trust' \in [Roles -> Trusts \cup {NoTrust, Gone}]
    <2> DEFINE text == permissionSets[k[1]]
    <2>a. text \in Texts /\ iamPolicies' = [iamPolicies EXCEPT ![d] = text]
      BY <1>4
    <2> HIDE DEF text
    <2>b. /\ iamPolicies \in [PolicyIds -> Texts \cup {NoText}]
          /\ trust \in [Roles -> Trusts \cup {NoTrust, Gone}]
      BY <1>0 DEF IamTypeOK
    <2>c. text \in Texts \cup {NoText} /\ CenterTrust \in Trusts \cup {NoTrust, Gone}
      BY <1>1, <2>a
    <2>d. [iamPolicies EXCEPT ![d] = text] \in [PolicyIds -> Texts \cup {NoText}]
      BY <2>b, <2>c, Replaced, Zenon
    <2>e. [trust EXCEPT ![r] = CenterTrust] \in [Roles -> Trusts \cup {NoTrust, Gone}]
      BY <2>b, <2>c, Replaced, Zenon
    <2>1. /\ iamPolicies' \in [PolicyIds -> Texts \cup {NoText}]
          /\ trust' \in [Roles -> Trusts \cup {NoTrust, Gone}]
      BY <1>4, <2>a, <2>d, <2>e, Zenon
    <2>2. bindings' \subseteq Principals \X PolicyIds
      BY <1>0, <1>1, <1>4 DEF IamTypeOK
    <2> QED
      BY <2>1, <2>2
  <1>6. /\ trust'[r] = CenterTrust /\ iamPolicies'[d] = permissionSets[k[1]]
        /\ \A z \in Roles : z # r => trust'[z] = trust[z]
        /\ \A z \in PolicyIds : z # d => iamPolicies'[z] = iamPolicies[z]
    BY <1>0, <1>1, <1>4 DEF IamTypeOK
  <1>7. CenterTrust \notin {NoTrust, Gone} /\ NoText \notin Texts
    BY CenterAssumption, IamAssumption
  <1>8. {b \in bindings' : b[1] = r} = {<<r, d>>}
    BY <1>2, <1>4
  <1>9. \A z : z # r => {b \in bindings' : b[1] = z} = {b \in bindings : b[1] = z}
    BY <1>4
  <1>10. ManagedRolesWait'
    <2> SUFFICES ASSUME NEW l \in DOMAIN ManagedRole
                 PROVE  /\ trust'[ManagedRole[l]] \in {NoTrust, CenterTrust}
                        /\ permissionSets[l[1]] = NoText => trust'[ManagedRole[l]] = NoTrust
                        /\ trust'[ManagedRole[l]] = NoTrust =>
                              /\ \A b \in bindings' : b[1] # ManagedRole[l]
                              /\ boundary[ManagedRole[l]] = NoPolicy
      BY DEF ManagedRolesWait
    <2>1. CASE l = k
      BY <1>6, <1>7, <1>a, <2>1
    <2>2. CASE l # k
      <3>1. trust'[ManagedRole[l]] = trust[ManagedRole[l]]
        BY <1>3, <1>6, <2>2
      <3>2. (\A b \in bindings : b[1] # ManagedRole[l]) => \A b \in bindings' : b[1] # ManagedRole[l]
        BY <1>3, <1>4, <2>2
      <3> QED
        BY <1>0, <3>1, <3>2 DEF ManagedRolesWait
    <2> QED
      BY <2>1, <2>2
  <1>11. \A l \in DOMAIN ManagedRole : Managed(ManagedRole[l])' <=> l = k \/ Managed(ManagedRole[l])
    <2> SUFFICES ASSUME NEW l \in DOMAIN ManagedRole
                 PROVE  Managed(ManagedRole[l])' <=> l = k \/ Managed(ManagedRole[l])
      OBVIOUS
    <2>1. ManagedRole[l] \in Roles
      BY CenterAssumption
    <2>2. CASE l = k
      BY <1>6, <1>7, <1>a, <2>1, <2>2 DEF Managed, RoleExists
    <2>3. CASE l # k
      <3>1. trust'[ManagedRole[l]] = trust[ManagedRole[l]]
        BY <1>3, <1>6, <2>3
      <3> QED
        BY <2>3, <3>1 DEF Managed, RoleExists
    <2> QED
      BY <2>2, <2>3
  <1>12. ManagedRolesFollowTheirSet'
    <2> SUFFICES ASSUME NEW l \in DOMAIN ManagedRole, Managed(ManagedRole[l])'
                 PROVE  /\ permissionSets[l[1]] \in Texts => iamPolicies'[ManagedPolicy[l]] = permissionSets[l[1]]
                        /\ {b \in bindings' : b[1] = ManagedRole[l]} = {<<ManagedRole[l], ManagedPolicy[l]>>}
                        /\ boundary[ManagedRole[l]] = NoPolicy
                        /\ trust'[ManagedRole[l]] = CenterTrust
      BY DEF ManagedRolesFollowTheirSet, SetIsLive
    <2>1. CASE l = k
      BY <1>2, <1>6, <1>8, <1>a, <2>1
    <2>2. CASE l # k
      <3>1. /\ permissionSets[l[1]] \in Texts => iamPolicies[ManagedPolicy[l]] = permissionSets[l[1]]
            /\ {b \in bindings : b[1] = ManagedRole[l]} = {<<ManagedRole[l], ManagedPolicy[l]>>}
            /\ boundary[ManagedRole[l]] = NoPolicy
            /\ trust[ManagedRole[l]] = CenterTrust
        BY <1>0, <1>11, <2>2 DEF ManagedRolesFollowTheirSet, SetIsLive
      <3>2. /\ iamPolicies'[ManagedPolicy[l]] = iamPolicies[ManagedPolicy[l]]
            /\ trust'[ManagedRole[l]] = trust[ManagedRole[l]]
            /\ {b \in bindings' : b[1] = ManagedRole[l]} = {b \in bindings : b[1] = ManagedRole[l]}
        BY <1>3, <1>6, <1>9, <2>2
      <3> QED
        BY <3>1, <3>2
    <2> QED
      BY <2>1, <2>2
  <1> QED
    BY <1>5, <1>10, <1>11, <1>12

LEMMA AssignmentMade ==
    ASSUME TypeInv, CenterInv, MembershipsAreNumbered, NEW q \in Assigners, AssignmentInsert(q)
    PROVE  CenterGoal
  <1>0. IamTypeOK /\ AssigningTypeOK /\ assigning[q] # NoRequest
    BY DEF TypeInv, AssignmentInsert
  <1> USE DEF CenterInv
  <1> DEFINE x == assigning[q]
             a == x.of
             k == <<a.set, a.account>>
             r == ManagedRole[k]
             new == [generation |-> assignments[a].generation + 1, revoked |-> FALSE]
  <1>1. /\ assignments[a].generation + 1 <= MaxGeneration
        /\ memberRole' = EnsureAccountUser({a.account}, x.users)
        /\ assignments' = [assignments EXCEPT ![a] = new]
        /\ assigning' = [assigning EXCEPT ![q] = NoRequest]
        /\ UNCHANGED <<boundary, permissionSets, crews, crewMembers, lastMembership>>
    BY DEF AssignmentInsert, NextGeneration, LaterGeneration
  <1>2. \/ Managed(r) /\ UNCHANGED <<trust, iamPolicies, bindings>>
        \/ /\ ~Managed(r) /\ trust' = [trust EXCEPT ![r] = CenterTrust]
           /\ iamPolicies' = [iamPolicies EXCEPT ![ManagedPolicy[k]] = x.document]
           /\ bindings' = bindings \cup {<<r, ManagedPolicy[k]>>}
    BY DEF AssignmentInsert
  <1>3. /\ a \in Assignment /\ x.users \subseteq Humans
        /\ a.set \in Sets /\ a.account \in AllAccounts /\ a.subject \in Subjects
    BY <1>0, AssignFields
  <1>4. HasRead(x) /\ k \in DOMAIN ManagedRole /\ k[1] = a.set /\ permissionSets[k[1]] \in Texts
        /\ x.document = permissionSets[k[1]]
    <2>1. HasRead(x)
      BY <1>0, AssignersMeans
    <2> QED
      BY <2>1 DEF HasRead, Assignable, SetIsLive
  <1>5. /\ assignments[a].generation \in Nat /\ new.generation = assignments[a].generation + 1
        /\ ~new.revoked /\ new \in [generation: 0 .. MaxGeneration, revoked: BOOLEAN]
    <2>1. assignments[a].generation \in Nat
      BY <1>0, <1>3 DEF IamTypeOK
    <2> DEFINE n == assignments[a].generation + 1
    <2>2. n \in 0 .. MaxGeneration
      BY <1>1, <2>1, IamAssumption
    <2> HIDE DEF n
    <2>3. /\ [generation |-> n, revoked |-> FALSE] \in [generation: 0 .. MaxGeneration, revoked: BOOLEAN]
          /\ [generation |-> n, revoked |-> FALSE].generation = n
          /\ ~[generation |-> n, revoked |-> FALSE].revoked
      BY <2>2
    <2> QED
      BY <2>1, <2>3 DEF n
  <1> HIDE DEF new
  <1>6. /\ memberRole' \in [UserPrincipals -> {"none", "member", "owner"}] /\ MembersStay
        /\ \A human \in x.users : memberRole'[[human |-> human, account |-> a.account]] # "none"
    BY <1>0, <1>1, <1>3, EnsuredUsers
  <1>7. /\ assignments' \in [Assignment -> [generation: 0 .. MaxGeneration, revoked: BOOLEAN]]
        /\ \A b \in Assignment : assignments'[b] = IF b = a THEN new ELSE assignments[b]
    BY <1>0, <1>1, <1>3, <1>5 DEF IamTypeOK
  <1>8. /\ \A p \in Assigners : assigning'[p] = IF p = q THEN NoRequest ELSE assigning[p]
        /\ AssigningTypeOK'
    BY <1>0, <1>1 DEF AssigningTypeOK
  <1>9. /\ iamPolicies' \in [PolicyIds -> Texts \cup {NoText}]
        /\ bindings' \subseteq Principals \X PolicyIds
        /\ trust' \in [Roles -> Trusts \cup {NoTrust, Gone}]
        /\ ManagedRolesWait' /\ ManagedRolesFollowTheirSet'
        /\ \A l \in DOMAIN ManagedRole :
              Managed(ManagedRole[l])' <=> l = k \/ Managed(ManagedRole[l])
    <2>1. CASE Managed(r) /\ UNCHANGED <<trust, iamPolicies, bindings>>
      <3>1. ManagedStay
        BY <1>1, <2>1 DEF ManagedStay
      <3>2. ManagedRolesWait' /\ ManagedRolesFollowTheirSet'
        BY <1>0, <1>1, <3>1, ManagedFrame
      <3>3. \A l \in DOMAIN ManagedRole : Managed(ManagedRole[l])' <=> Managed(ManagedRole[l])
        BY <2>1 DEF Managed, RoleExists
      <3> QED
        BY <1>0, <2>1, <3>2, <3>3 DEF IamTypeOK
    <2>2. CASE /\ ~Managed(r) /\ trust' = [trust EXCEPT ![r] = CenterTrust]
               /\ iamPolicies' = [iamPolicies EXCEPT ![ManagedPolicy[k]] = x.document]
               /\ bindings' = bindings \cup {<<r, ManagedPolicy[k]>>}
      <3>1. iamPolicies' = [iamPolicies EXCEPT ![ManagedPolicy[k]] = permissionSets[k[1]]]
        BY <1>4, <2>2
      <3> HIDE DEF k
      <3> QED
        BY <1>1, <1>4, <2>2, <3>1, RoleMade
    <2> QED
      BY <1>2, <2>1, <2>2
  <1>10. CenterTypes'
    BY <1>0, <1>1, <1>6, <1>7, <1>8, <1>9 DEF CenterTypes, IamTypeOK
  <1>11. PastGrows
    <2>1. \A b \in Assignment :
            \/ assignments'[b] = assignments[b]
            \/ assignments'[b].generation > assignments[b].generation
      BY <1>5, <1>7
    <2> QED
      BY <1>0, <1>1, <1>6, <2>1 DEF PastGrows, IamTypeOK
  <1>12. AssignersAreCurrent'
    BY <1>1, <1>8 DEF AssignersAreCurrent, SetIsLive, CrewOf
  <1>13. AssignmentsHaveRoles'
    <2> SUFFICES ASSUME NEW b \in Assignment, assignments'[b].generation > 0
                 PROVE  b \in Assignable /\ Managed(ManagedRole[<<b.set, b.account>>])'
      BY DEF AssignmentsHaveRoles, Assignable
    <2>1. CASE b = a
      BY <1>4, <1>9, <2>1 DEF HasRead
    <2>2. CASE b # a
      <3>1. b \in Assignable /\ Managed(ManagedRole[<<b.set, b.account>>])
        BY <1>7, <2>2 DEF AssignmentsHaveRoles
      <3> QED
        BY <1>9, <3>1 DEF Assignable
    <2> QED
      BY <2>1, <2>2
  <1>14. AssignmentsAreUsable'
    <2> SUFFICES ASSUME NEW b \in Assignment, InForce(b)'
                 PROVE  /\ SetIsLive(b.set)'
                        /\ b.subject \in Crews => crews'[b.subject] = "live"
                        /\ \A u \in Humans : Through(b, u)' # {} =>
                              memberRole'[[human |-> u, account |-> b.account]] # "none"
      BY DEF AssignmentsAreUsable
    <2>1. CASE b = a
      <3>1. SetIsLive(b.set)' /\ (b.subject \in Crews => crews'[b.subject] = "live")
        BY <1>1, <1>4, <2>1 DEF HasRead, SetIsLive
      <3>2. ASSUME NEW u \in Humans, Through(b, u)' # {}
            PROVE  u \in x.users
        <4>1. \/ a.subject = u
              \/ a.subject \in Crews /\ crewMembers[<<a.subject, u>>] # 0
          BY <1>1, <2>1, <3>2 DEF Through
        <4>2. CASE a.subject = u
          BY <1>4, <4>2, IamAssumption DEF HasRead
        <4>3. CASE a.subject \in Crews /\ crewMembers[<<a.subject, u>>] # 0
          BY <1>4, <4>3 DEF HasRead, CrewOf
        <4> QED
          BY <4>1, <4>2, <4>3
      <3> QED
        BY <1>6, <2>1, <3>1, <3>2
    <2>2. CASE b # a
      <3>1. InForce(b)
        BY <1>7, <2>2 DEF InForce
      <3>2. \A u \in Humans : Through(b, u)' = Through(b, u)
        BY <1>1 DEF Through
      <3>3. \A u \in Humans : [human |-> u, account |-> b.account] \in UserPrincipals
        BY AssignmentFields DEF UserPrincipals
      <3> QED
        BY <1>1, <1>6, <3>1, <3>2, <3>3 DEF AssignmentsAreUsable, SetIsLive, MembersStay
    <2> QED
      BY <2>1, <2>2
  <1>15. MembershipsAreNumbered'
    BY <1>1 DEF MembershipsAreNumbered
  <1> QED
    BY <1>9, <1>10, <1>11, <1>12, <1>13, <1>14, <1>15 DEF CenterGoal
-----------------------------------------------------------------------------
\* A session of Identity Center is one that its role's trust permits, and remembers
\* an assignment in force and a membership that is there.
LEMMA CenterSession ==
    ASSUME TypeInv, CenterInv, MembershipsAreNumbered, NEW q \in Callers, NEW actor \in SystemActors,
           NEW a \in Assignable, NEW switch \in BOOLEAN, StartIdentityCenterSession(q, actor, a, switch)
    PROVE  Effects /\ CenterGoal
  <1>0. IamTypeOK /\ AssigningTypeOK /\ AssumeTypeOK
    BY DEF TypeInv
  <1> DEFINE human == actor.human
             c == IF switch THEN actor.console ELSE NoConsole
             s == lastSession + 1
             r == ManagedRole[<<a.set, a.account>>]
             source == [human |-> human, account |-> Management]
             browser == c # NoConsole
             generation == assignments[a].generation
             Row(membership) ==
                 [state |-> "live", role |-> r, source |-> source, policy |-> NoText,
                  console |-> browser, held |-> FALSE,
                  lineage |-> [generation |-> generation, of |-> a, human |-> human,
                               membership |-> membership]]
             ask == [source |-> source, role |-> r, policy |-> NoText, console |-> c, previous |-> 0]
             e == IF c = NoConsole THEN NoAssume ELSE [step |-> "created", session |-> s, ask |-> ask]
  <1>1. actor.kind = "user" /\ human \in Humans /\ actor.console \in Consoles
    BY ActorTypes DEF StartIdentityCenterSession, RequireHuman
  <1>2. /\ s \in SessionIds /\ memberRole[source] # "none"
        /\ InForce(a) /\ SetIsLive(a.set)
        /\ memberRole[[human |-> human, account |-> a.account]] # "none"
        /\ lastSession' = s
        /\ assumes' = [assumes EXCEPT ![q] = e]
        /\ UNCHANGED <<memberRole, iamPolicies, bindings, boundary, trust, active, centerVars, assigning>>
    BY DEF StartIdentityCenterSession, CreateIdentityCenterSession, InDirectory
  <1>3. \E membership \in Through(a, human), old \in Discarded(r) :
            roleSessions' = [t \in SessionIds |-> IF t = s THEN Row(membership)
                                 ELSE IF t \in old THEN NoRow ELSE roleSessions[t]]
    BY DEF StartIdentityCenterSession, CreateIdentityCenterSession
  <1>4. PICK membership \in Through(a, human) : \E old \in Discarded(r) :
            roleSessions' = [t \in SessionIds |-> IF t = s THEN Row(membership)
                                 ELSE IF t \in old THEN NoRow ELSE roleSessions[t]]
    BY <1>3
  <1>5. /\ a \in Assignment /\ a.set \in Sets /\ a.account \in AllAccounts /\ a.subject \in Subjects
        /\ <<a.set, a.account>> \in DOMAIN ManagedRole
    BY AssignmentFields DEF Assignable
  <1>6. Managed(r) /\ r \in Roles /\ trust[r] = CenterTrust
    <2>1. generation > 0
      BY <1>2 DEF InForce
    <2>2. Managed(r)
      BY <1>5, <2>1 DEF CenterInv, AssignmentsHaveRoles
    <2> QED
      BY <1>5, <2>2 DEF CenterInv, ManagedRolesFollowTheirSet, Managed
  <1>7. /\ generation \in 1 .. MaxGeneration
        /\ membership \in 0 .. MaxGeneration
        /\ a.subject = human => membership = 0
        /\ a.subject # human =>
              /\ a.subject \in Crews /\ crews[a.subject] # "none"
              /\ membership \in 1 .. lastMembership
    <2>1. generation \in 1 .. MaxGeneration
      BY <1>0, <1>2, <1>5 DEF IamTypeOK, InForce
    <2>2. CASE a.subject = human
      BY <2>1, <2>2, IamAssumption DEF Through
    <2>3. CASE a.subject # human
      <3> DEFINE m == <<a.subject, human>>
      <3>1. a.subject \in Crews /\ crews[a.subject] = "live" /\ membership = crewMembers[m] /\ membership # 0
        BY <2>3 DEF Through
      <3>2. m \in Crews \X Humans
        BY <1>1, <3>1
      <3> HIDE DEF m
      <3>3. crewMembers[m] \in 0 .. MaxGeneration /\ crewMembers[m] <= lastMembership /\ lastMembership \in Nat
        BY <1>0, <3>2 DEF IamTypeOK, MembershipsAreNumbered
      <3> QED
        BY <2>1, <2>3, <3>1, <3>3, IamAssumption
    <2> QED
      BY <2>2, <2>3
  <1>8. source \in UserPrincipals /\ source \in Principals /\ Permitted(trust[r], source)
    <2>1. source \in UserPrincipals /\ source.account = Management
      BY <1>1 DEF UserPrincipals, AllAccounts
    <2>2. source \notin Services \cup Roles
      BY <2>1, CenterAssumption
    <2>3. PrincipalAccount(source) = Management
      BY <2>1, <2>2 DEF PrincipalAccount
    <2>4. TrustPermits(TrustText[CenterTrust], Management, source)
      BY <1>1, CenterAssumption
    <2> HIDE DEF source
    <2> QED
      BY <1>6, <2>1, <2>3, <2>4 DEF Permitted, Principals
  <1> DEFINE lineage == [generation |-> generation, of |-> a, human |-> human, membership |-> membership]
  <1>9. /\ lineage \in Lineage /\ lineage.generation = generation /\ lineage.of = a
        /\ lineage.human = human /\ lineage.membership = membership
    <2> HIDE DEF generation, human
    <2> QED
      BY <1>1, <1>5, <1>7 DEF Lineage
  <1>10. LineageIsPast(lineage)
    <2>1. /\ generation <= assignments[a].generation /\ permissionSets[a.set] # NoText
      BY <1>0, <1>2, <1>5, <1>7, IamAssumption DEF SetIsLive
    <2> HIDE DEF lineage
    <2> QED
      BY <1>2, <1>7, <1>9, <2>1 DEF LineageIsPast
  <1> DEFINE row == Row(membership)
  <1>11. row = [state |-> "live", role |-> r, source |-> source, policy |-> NoText,
                console |-> browser, held |-> FALSE, lineage |-> lineage]
    OBVIOUS
  <1>12. /\ row \in SessionRow /\ row.role = r /\ row.source = source /\ row.lineage = lineage /\ ~row.held
    <2> DEFINE no == FALSE
    <2>1. browser \in BOOLEAN /\ no \in BOOLEAN /\ ~no
      OBVIOUS
    <2>2. row = [state |-> "live", role |-> r, source |-> source, policy |-> NoText,
                 console |-> browser, held |-> no, lineage |-> lineage]
      BY <1>11
    <2> HIDE DEF browser, no, r, source, lineage, row
    <2> QED
      BY <1>6, <1>8, <1>9, <2>1, <2>2 DEF SessionRow
  <1>13. ask \in Assumed /\ ask.console = c
    <2>1. c \in Consoles \cup {NoConsole}
      BY <1>1
    <2> HIDE DEF c, r, source
    <2> QED
      BY <1>6, <1>8, <2>1 DEF Assumed
  <1>14. /\ e \in AssumeRecord
         /\ \/ e = NoAssume
            \/ e.step = "created" /\ e.session = s /\ e.ask.console \in Consoles
    <2>1. CASE c = NoConsole
      <3>1. e = NoAssume
        BY <2>1
      <3> HIDE DEF e
      <3> QED
        BY <3>1, IdleAssume
    <2>2. CASE c # NoConsole
      <3>1. c \in Consoles /\ e = [step |-> "created", session |-> s, ask |-> ask]
        BY <1>1, <2>2
      <3> HIDE DEF e, s, c, ask
      <3> QED
        BY <1>2, <1>13, <3>1 DEF AssumeRecord
    <2> QED
      BY <2>1, <2>2
  <1>15. Inserts(row, row.role)
    <2>1. s = lastSession + 1
      OBVIOUS
    <2>2. \E old \in Discarded(r) :
            roleSessions' = [t \in SessionIds |-> IF t = s THEN row
                                 ELSE IF t \in old THEN NoRow ELSE roleSessions[t]]
      BY <1>4
    <2> HIDE DEF row, s, r
    <2> QED
      BY <1>2, <1>12, <2>1, <2>2 DEF Inserts
  <1> HIDE DEF row, e, lineage, source, r
  <1>16. SessionStarts(q, row, e)
    BY <1>2, <1>8, <1>10, <1>12, <1>14, <1>15 DEF SessionStarts
  <1>17. Effects
    BY <1>12, <1>14, <1>16 DEF Effects
  <1>18. MembersStay /\ ManagedStay
    BY <1>2 DEF MembersStay, ManagedStay
  <1>19. CenterInv' /\ PastGrows
    BY <1>0, <1>2, <1>18, CenterFrame, NothingPasses
  <1>20. CenterTypes' /\ MembershipsAreNumbered'
    BY <1>0, <1>2 DEF CenterTypes, IamTypeOK, AssigningTypeOK, MembershipsAreNumbered, centerVars
  <1> QED
    BY <1>17, <1>19, <1>20 DEF CenterGoal

LEMMA CenterProgress ==
    ASSUME TypeInv, CenterInv, MembershipsAreNumbered, CenterRequests
    PROVE  Effects /\ CenterGoal
  <1> DEFINE Goal == Effects /\ CenterGoal
  <1>a. ASSUME SessionsStay, CenterGoal
        PROVE  Goal
    BY <1>a DEF Effects
  <1>b. ASSUME UNCHANGED roleVars
        PROVE  SessionsStay
    BY <1>b DEF roleVars, iamVars, SessionsStay
  <1> HIDE DEF Goal
  <1>1. ASSUME NEW actor \in SystemActors, NEW s \in Sets, NEW text \in Texts, CreatePermissionSet(actor, s, text)
        PROVE  Goal
    BY <1>a, <1>b, <1>1, SetCreated DEF CreatePermissionSet, CreatePermissionSetTx
  <1>2. ASSUME NEW actor \in SystemActors, NEW s \in Sets, NEW text \in Texts, UpdatePermissionSet(actor, s, text)
        PROVE  Goal
    <2>1. UpdatePermissionSetTx(s, text)
      BY <1>2 DEF UpdatePermissionSet
    <2>2. SessionsStay
      BY <2>1 DEF UpdatePermissionSetTx, SessionsStay
    <2> QED
      BY <1>a, <2>1, <2>2, SetUpdated
  <1>3. ASSUME NEW actor \in SystemActors, NEW s \in Sets, DeletePermissionSet(actor, s)
        PROVE  Goal
    BY <1>a, <1>b, <1>3, SetDeleted DEF DeletePermissionSet, DeletePermissionSetTx
  <1>4. ASSUME NEW actor \in SystemActors, NEW g \in Crews, CreateIdentityCenterGroup(actor, g)
        PROVE  Goal
    BY <1>a, <1>b, <1>4, GroupCreated DEF CreateIdentityCenterGroup, CreateIdentityCenterGroupTx
  <1>5. ASSUME NEW actor \in SystemActors, NEW g \in Crews, DeleteIdentityCenterGroup(actor, g)
        PROVE  Goal
    BY <1>a, <1>b, <1>5, GroupDeleted DEF DeleteIdentityCenterGroup, DeleteIdentityCenterGroupTx
  <1>6. ASSUME NEW actor \in SystemActors, NEW g \in Crews, NEW human \in Humans, NEW add \in BOOLEAN,
               GroupUser(actor, g, human, add)
        PROVE  Goal
    <2>1. ChangeIdentityCenterGroupMemberTx(g, human, add)
      BY <1>6 DEF GroupUser
    <2>2. SessionsStay
      BY <2>1 DEF ChangeIdentityCenterGroupMemberTx, SessionsStay
    <2> QED
      BY <1>a, <2>1, <2>2, MemberChanged
  <1>7. ASSUME NEW actor \in SystemActors, NEW a \in Assignable, NEW q \in Assigners,
               CreateIdentityCenterAssignment(q, actor, a)
        PROVE  Goal
    BY <1>a, <1>b, <1>7, AssignmentLocked DEF CreateIdentityCenterAssignment, AssignmentLock
  <1>8. ASSUME NEW actor \in SystemActors, NEW a \in Assignable, RevokeIdentityCenterAssignment(actor, a)
        PROVE  Goal
    <2>1. RevokeAssignmentTx(a) /\ a \in Assignment
      BY <1>8 DEF RevokeIdentityCenterAssignment, Assignable
    <2>2. SessionsStay
      BY <1>b, <2>1 DEF RevokeAssignmentTx
    <2> QED
      BY <1>a, <2>1, <2>2, AssignmentRevoked
  <1>9. ASSUME NEW actor \in SystemActors, NEW a \in Assignable, NEW q \in Callers, NEW switch \in BOOLEAN,
               StartIdentityCenterSession(q, actor, a, switch)
        PROVE  Goal
    BY <1>9, CenterSession DEF Goal
  <1>10. ASSUME NEW q \in Assigners, AssignmentInsert(q)
         PROVE  Goal
    <2>1. SessionsStay
      BY <1>10 DEF AssignmentInsert, SessionsStay
    <2> QED
      BY <1>a, <1>10, <2>1, AssignmentMade
  <1>11. ASSUME NEW q \in Assigners, AssignmentRolledBack(q)
         PROVE  Goal
    BY <1>a, <1>b, <1>11, AssignmentGivenUp DEF AssignmentRolledBack
  <1>12. Goal
    BY <1>1, <1>2, <1>3, <1>4, <1>5, <1>6, <1>7, <1>8, <1>9, <1>10, <1>11 DEF CenterRequests
  <1> QED
    BY <1>12 DEF Goal
-----------------------------------------------------------------------------
(***************************************************************************)
(* Where sessions come from                                                *)
(***************************************************************************)
LEMMA EffectTrusts ==
    ASSUME TypeInv, TrustsWereEvaluated, Effects
    PROVE  TrustsWereEvaluated'
  <1>0. assumes \in [Callers -> AssumeRecord]
    BY TypesOfSessions DEF SessionTypes
  <1> SUFFICES ASSUME NEW p \in Callers, assumes'[p].step = "trusted"
               PROVE  Permitted(assumes'[p].trust, assumes'[p].ask.source)
    BY DEF TrustsWereEvaluated, Permitted
  <1>a. assumes'[p] = assumes[p] => Permitted(assumes'[p].trust, assumes'[p].ask.source)
    BY DEF TrustsWereEvaluated, Permitted
  <1>b. ASSUME NEW q \in Callers, NEW e, assumes' = [assumes EXCEPT ![q] = e]
        PROVE  assumes'[p] = assumes[p] \/ assumes'[p] = e
    BY <1>0, <1>b
  <1>1. CASE UNCHANGED assumes
    BY <1>a, <1>1
  <1>2. ASSUME NEW q \in Callers, NEW e \in AssumeRecord, AssumeMoves(q, e)
        PROVE  Permitted(assumes'[p].trust, assumes'[p].ask.source)
    BY <1>a, <1>b, <1>2 DEF AssumeMoves
  <1>3. ASSUME NEW q \in Callers, assumes' = [assumes EXCEPT ![q] = NoAssume]
        PROVE  Permitted(assumes'[p].trust, assumes'[p].ask.source)
    BY <1>a, <1>b, <1>3, IdleAssume
  <1>4. ASSUME NEW q \in Callers, NEW row \in SessionRow, NEW e \in AssumeRecord, SessionStarts(q, row, e)
        PROVE  Permitted(assumes'[p].trust, assumes'[p].ask.source)
    BY <1>a, <1>b, <1>4, IdleAssume DEF SessionStarts
  <1> QED
    BY <1>1, <1>2, <1>3, <1>4
       DEF Effects, SessionsStay, SessionEnds, RoleGoes, BrowserSwitches, BrowserLeaves, BrowserLogsOut

LEMMA EffectLineages ==
    ASSUME TypeInv, BrowserInv, LineagesArePast, Effects, CenterTypes', PastGrows
    PROVE  /\ LineagesArePast'
           /\ \A s \in SessionIds :
                 roleSessions[s] # NoRow /\ roleSessions'[s] # NoRow
                     /\ ~LineageHolds(roleSessions[s].lineage)
                 => ~LineageHolds(roleSessions[s].lineage)'
  <1>0. IamTypeOK /\ SessionTypes
    BY TypesOfSessions DEF TypeInv
  <1>1. \A s \in SessionIds : roleSessions[s] # NoRow =>
          roleSessions[s].lineage \in {NoAssignment} \cup Lineage /\ LineageIsPast(roleSessions[s].lineage)
    BY <1>0, SessionFields DEF SessionTypes, SessionTable, LineagesArePast
  <1>2. ASSUME NEW l \in {NoAssignment} \cup Lineage, LineageIsPast(l)
        PROVE  LineageIsPast(l)' /\ (LineageHolds(l)' => LineageHolds(l))
    BY <1>0, <1>2, LineageFrame
  <1>3. ASSUME NEW s \in SessionIds, roleSessions'[s] # NoRow
        PROVE  \/ roleSessions[s] # NoRow /\ roleSessions'[s].lineage = roleSessions[s].lineage
               \/ /\ roleSessions[s] = NoRow /\ roleSessions'[s].lineage \in {NoAssignment} \cup Lineage
                  /\ LineageIsPast(roleSessions'[s].lineage)
    <2>1. CASE RowsGoOn
      BY <1>3, <2>1 DEF RowsGoOn, GoesOn
    <2>2. ASSUME NEW q \in Callers, NEW row \in SessionRow, NEW e \in AssumeRecord, SessionStarts(q, row, e)
          PROVE  \/ roleSessions[s] # NoRow /\ roleSessions'[s].lineage = roleSessions[s].lineage
                 \/ /\ roleSessions[s] = NoRow /\ roleSessions'[s].lineage \in {NoAssignment} \cup Lineage
                    /\ LineageIsPast(roleSessions'[s].lineage)
      <3>1. Inserts(row, row.role) /\ LineageIsPast(row.lineage)
        BY <2>2 DEF SessionStarts
      <3>2. /\ roleSessions'[lastSession + 1] = row
            /\ s # lastSession + 1 => roleSessions'[s] = roleSessions[s]
        BY <1>0, <1>3, <3>1, InsertedRows
      <3>3. s = lastSession + 1 => roleSessions[s] = NoRow
        BY <1>0 DEF SessionTypes, BrowserInv, SessionsAreNumbered
      <3>4. row.lineage \in {NoAssignment} \cup Lineage
        BY SessionFields
      <3> QED
        BY <1>3, <3>1, <3>2, <3>3, <3>4
    <2> QED
      BY <2>1, <2>2, EffectStep
  <1>4. ASSUME NEW s \in SessionIds, roleSessions'[s] # NoRow
        PROVE  LineageIsPast(roleSessions[s].lineage)'
    <2>1. PICK l \in {NoAssignment} \cup Lineage : l = roleSessions'[s].lineage /\ LineageIsPast(l)
      BY <1>1, <1>3, <1>4
    <2>2. LineageIsPast(l)'
      BY <1>2, <2>1
    <2> QED
      BY <2>1, <2>2 DEF LineageIsPast
  <1>5. ASSUME NEW s \in SessionIds, roleSessions[s] # NoRow, roleSessions'[s] # NoRow,
               ~LineageHolds(roleSessions[s].lineage)
        PROVE  ~LineageHolds(roleSessions[s].lineage)'
    <2>1. PICK l \in {NoAssignment} \cup Lineage :
            l = roleSessions[s].lineage /\ l = roleSessions'[s].lineage /\ LineageIsPast(l)
      BY <1>1, <1>3, <1>5
    <2>2. ~LineageHolds(l)
      BY <1>5, <2>1
    <2>3. ~LineageHolds(l)'
      BY <1>2, <2>1, <2>2
    <2> QED
      BY <2>1, <2>3 DEF LineageHolds
  <1> QED
    BY <1>4, <1>5 DEF LineagesArePast

(***************************************************************************)
(* The induction                                                           *)
(***************************************************************************)
\* Rows of IAM that neither Identity Center nor a session has.
PolicyTypes ==
    /\ enabled \in [Services \cup Roles -> BOOLEAN]
    /\ iamGroups \subseteq GroupNames
    /\ groupMembers \subseteq iamGroups \X UserPrincipals
    /\ groupPolicies \subseteq iamGroups \X PolicyIds
    /\ boundary \in [Principals -> PolicyIds \cup {NoPolicy}]

LEMMA AllTypes ==
    /\ TypeInv <=> /\ CloudTypeOK /\ WorkloadTypeOK /\ PodsHaveRoles
                   /\ SessionTypes /\ CenterTypes /\ PolicyTypes
  BY DEF TypeInv, IamTypeOK, AssumeTypeOK, SessionTypes, SessionTable, AssumeRecord, CenterTypes, PolicyTypes

\* What a step has to show of its own: the rest follows.
Progress ==
    /\ CloudTypeOK' /\ GovernedInv' /\ WorkloadTypeOK' /\ PodsHaveRoles' /\ WorkloadInv'
    /\ PolicyTypes' /\ Effects /\ CenterGoal

LEMMA Conclude ==
    ASSUME IInv, Progress
    PROVE  IInv'
  <1>1. /\ TypeInv /\ BrowserInv /\ CenterInv
        /\ TrustsWereEvaluated /\ LineagesArePast
    BY DEF IInv, LineageInv
  <1>2. /\ CloudTypeOK' /\ GovernedInv' /\ WorkloadTypeOK' /\ PodsHaveRoles' /\ WorkloadInv'
        /\ PolicyTypes' /\ Effects
        /\ CenterTypes' /\ PastGrows /\ MembershipsAreNumbered' /\ CenterInv'
    BY DEF Progress, CenterGoal
  <1>3. SessionTypes' /\ BrowserInv'
    BY <1>1, <1>2, EffectStep
  <1>4. TrustsWereEvaluated'
    BY <1>1, <1>2, EffectTrusts
  <1>5. LineagesArePast'
    BY <1>1, <1>2, EffectLineages
  <1>6. TypeInv'
    BY <1>2, <1>3, AllTypes, PTL
  <1> QED
    BY <1>2, <1>3, <1>4, <1>5, <1>6 DEF IInv, LineageInv

\* Steps outside workload identity, and outside the organization.
LEMMA WorkloadFrame ==
    ASSUME WorkloadTypeOK, PodsHaveRoles, WorkloadInv, UNCHANGED <<enabled, workloadVars>>
    PROVE  WorkloadTypeOK' /\ PodsHaveRoles' /\ WorkloadInv'
  BY DEF WorkloadTypeOK, PodsHaveRoles, WorkloadInv, DisabledTokensDie, MintsAreEnabled, workloadVars

LEMMA CloudFrame ==
    ASSUME CloudTypeOK, GovernedInv, UNCHANGED cloudVars
    PROVE  CloudTypeOK' /\ GovernedInv'
  <1>1. CloudTypeOK' /\ LevelInv'
    BY DEF CloudTypeOK, GovernedInv, LevelInv, LevelsHavePolicies, CountsAreCurrent, Exists, cloudVars
  <1>2. PathInv'
    BY <1>1, PathsWait DEF GovernedInv, cloudVars
  <1> QED
    BY <1>1, <1>2 DEF GovernedInv

LEMMA RequestsProgress ==
    ASSUME IInv, SystemNext
    PROVE  Progress
  <1>1. /\ TypeInv /\ GovernedInv /\ WorkloadInv /\ BrowserInv /\ CenterInv
        /\ TrustsWereEvaluated /\ MembershipsAreNumbered /\ LineagesArePast
        /\ ManagedRolesWait /\ ManagedRolesFollowTheirSet
    BY DEF IInv, LineageInv, CenterInv
  <1>2. /\ CloudTypeOK /\ WorkloadTypeOK /\ PodsHaveRoles /\ IamTypeOK
        /\ SessionTypes /\ CenterTypes /\ PolicyTypes /\ AssigningTypeOK
    BY <1>1, AllTypes DEF TypeInv
  <1>3. CASE OrganizationRequests
    <2>1. /\ UNCHANGED <<enabled, iamPolicies, bindings, iamGroups, groupMembers, groupPolicies>>
          /\ UNCHANGED <<boundary, trust, roleSessions, lastSession, active, assumes>>
          /\ UNCHANGED <<centerVars, assigning, workloadVars>>
          /\ memberRole' \in [UserPrincipals -> {"none", "member", "owner"}]
          /\ MembersStay
      BY <1>2, <1>3, OrganizationFootprint
    <2>2. CloudTypeOK' /\ GovernedInv'
      BY <1>1, <1>2, <1>3, CloudStep
    <2>3. WorkloadTypeOK' /\ PodsHaveRoles' /\ WorkloadInv'
      BY <1>1, <1>2, <2>1, WorkloadFrame
    <2>4. PolicyTypes'
      BY <1>2, <2>1 DEF PolicyTypes
    <2>5. Effects
      BY <2>1 DEF Effects, SessionsStay
    <2>6. ManagedStay
      BY <2>1 DEF ManagedStay
    <2>7. CenterTypes' /\ MembershipsAreNumbered'
      BY <1>1, <1>2, <2>1 DEF CenterTypes, centerVars, AssigningTypeOK, MembershipsAreNumbered
    <2>8. PastGrows /\ CenterInv'
      BY <1>1, <1>2, <2>1, <2>6, NothingPasses, CenterFrame
    <2> QED
      BY <2>2, <2>3, <2>4, <2>5, <2>7, <2>8 DEF Progress, CenterGoal
  <1>4. CASE PolicyRequests
    <2>1. /\ UNCHANGED <<cloudVars, memberRole, enabled, trust, roleSessions, lastSession, active, assumes>>
          /\ UNCHANGED <<centerVars, assigning, workloadVars>>
      BY <1>4, PolicyFootprint
    <2>2. CloudTypeOK' /\ GovernedInv'
      BY <1>1, <1>2, <2>1, CloudFrame
    <2>3. WorkloadTypeOK' /\ PodsHaveRoles' /\ WorkloadInv'
      BY <1>1, <1>2, <2>1, WorkloadFrame
    <2>4. IamTypeOK' /\ ManagedRolesWait' /\ ManagedRolesFollowTheirSet'
      BY <1>1, <1>4, PolicyStep
    <2>5. PolicyTypes' /\ CenterTypes'
      BY <1>2, <2>1, <2>4 DEF PolicyTypes, CenterTypes, IamTypeOK, AssigningTypeOK
    <2>6. Effects
      BY <2>1 DEF Effects, SessionsStay
    <2>7. MembersStay
      BY <2>1 DEF MembersStay
    <2>8. PastGrows /\ MembershipsAreNumbered'
      BY <1>1, <1>2, <2>1, <2>7, NothingPasses DEF MembershipsAreNumbered, centerVars
    <2>9. AssignersAreCurrent' /\ AssignmentsHaveRoles' /\ AssignmentsAreUsable'
      <3>1. AssignersAreCurrent'
        BY <1>1, <2>1 DEF CenterInv, AssignersAreCurrent, SetIsLive, CrewOf, centerVars
      <3>2. AssignmentsHaveRoles'
        BY <1>1, <1>2, <2>1, RolesRemain DEF CenterInv, centerVars
      <3>3. AssignmentsAreUsable'
        BY <1>1, <2>1 DEF CenterInv, AssignmentsAreUsable, InForce, SetIsLive, Through, centerVars
      <3> QED
        BY <3>1, <3>2, <3>3
    <2> QED
      BY <2>2, <2>3, <2>4, <2>5, <2>6, <2>8, <2>9 DEF Progress, CenterGoal, CenterInv
  <1>5. CASE RoleRequests
    <2>1. /\ UNCHANGED <<cloudVars, memberRole, enabled, iamPolicies, bindings, iamGroups, groupMembers>>
          /\ UNCHANGED <<groupPolicies, centerVars, assigning, workloadVars>>
      BY <1>5, RoleFootprint
    <2>2. /\ Effects /\ ManagedStay
          /\ trust' \in [Roles -> Trusts \cup {NoTrust, Gone}]
          /\ boundary' \in [Principals -> PolicyIds \cup {NoPolicy}]
      BY <1>1, <1>5, RoleEffects
    <2>3. CloudTypeOK' /\ GovernedInv'
      BY <1>1, <1>2, <2>1, CloudFrame
    <2>4. WorkloadTypeOK' /\ PodsHaveRoles' /\ WorkloadInv'
      BY <1>1, <1>2, <2>1, WorkloadFrame
    <2>5. PolicyTypes' /\ CenterTypes' /\ MembershipsAreNumbered'
      BY <1>1, <1>2, <2>1, <2>2
         DEF PolicyTypes, CenterTypes, AssigningTypeOK, MembershipsAreNumbered, centerVars
    <2>6. MembersStay
      BY <2>1 DEF MembersStay
    <2>7. PastGrows /\ CenterInv'
      BY <1>1, <1>2, <2>1, <2>2, <2>6, NothingPasses, CenterFrame
    <2> QED
      BY <2>2, <2>3, <2>4, <2>5, <2>7 DEF Progress, CenterGoal
  <1>6. CASE CenterRequests
    <2>1. UNCHANGED <<cloudVars, enabled, iamGroups, groupMembers, groupPolicies, boundary, workloadVars>>
      BY <1>6, CenterFootprint
    <2>2. Effects /\ CenterGoal
      BY <1>1, <1>6, CenterProgress
    <2>3. CloudTypeOK' /\ GovernedInv'
      BY <1>1, <1>2, <2>1, CloudFrame
    <2>4. WorkloadTypeOK' /\ PodsHaveRoles' /\ WorkloadInv'
      BY <1>1, <1>2, <2>1, WorkloadFrame
    <2>5. PolicyTypes'
      BY <1>2, <2>1 DEF PolicyTypes
    <2> QED
      BY <2>2, <2>3, <2>4, <2>5 DEF Progress
  <1>7. CASE WorkloadRequests
    <2>1. /\ UNCHANGED <<cloudVars, memberRole, iamPolicies, bindings, iamGroups, groupMembers, groupPolicies>>
          /\ UNCHANGED <<boundary, trust, roleSessions, lastSession, active, assumes, centerVars, assigning>>
      BY <1>7, WorkloadFootprint
    <2>2. /\ WorkloadTypeOK' /\ PodsHaveRoles' /\ WorkloadInv'
          /\ enabled' \in [Services \cup Roles -> BOOLEAN]
      BY <1>1, <1>7, WorkloadProgress
    <2>3. CloudTypeOK' /\ GovernedInv'
      BY <1>1, <1>2, <2>1, CloudFrame
    <2>4. PolicyTypes' /\ CenterTypes' /\ MembershipsAreNumbered'
      BY <1>1, <1>2, <2>1, <2>2
         DEF PolicyTypes, CenterTypes, AssigningTypeOK, MembershipsAreNumbered, centerVars
    <2>5. Effects
      BY <2>1 DEF Effects, SessionsStay
    <2>6. MembersStay /\ ManagedStay
      BY <2>1 DEF MembersStay, ManagedStay
    <2>7. PastGrows /\ CenterInv'
      BY <1>1, <1>2, <2>1, <2>6, NothingPasses, CenterFrame
    <2> QED
      BY <2>2, <2>3, <2>4, <2>5, <2>7 DEF Progress, CenterGoal
  <1> QED
    BY <1>3, <1>4, <1>5, <1>6, <1>7 DEF SystemNext

LEMMA StutterProgress ==
    ASSUME IInv, UNCHANGED systemVars
    PROVE  Progress
  <1>1. /\ TypeInv /\ GovernedInv /\ WorkloadInv /\ CenterInv /\ MembershipsAreNumbered
        /\ CloudTypeOK /\ WorkloadTypeOK /\ PodsHaveRoles /\ IamTypeOK /\ CenterTypes /\ PolicyTypes
    BY AllTypes DEF IInv, LineageInv, TypeInv
  <1>2. /\ UNCHANGED <<cloudVars, memberRole, enabled, iamPolicies, bindings, iamGroups, groupMembers>>
        /\ UNCHANGED <<groupPolicies, boundary, trust, roleSessions, lastSession, active, assumes>>
        /\ UNCHANGED <<centerVars, assigning, workloadVars>>
    BY DEF systemVars, roleVars, iamVars
  <1>3. CloudTypeOK' /\ GovernedInv' /\ WorkloadTypeOK' /\ PodsHaveRoles' /\ WorkloadInv'
    BY <1>1, <1>2, CloudFrame, WorkloadFrame
  <1>4. PolicyTypes' /\ CenterTypes' /\ MembershipsAreNumbered'
    BY <1>1, <1>2 DEF PolicyTypes, CenterTypes, AssigningTypeOK, MembershipsAreNumbered, centerVars
  <1>5. Effects
    BY <1>2 DEF Effects, SessionsStay
  <1>6. MembersStay /\ ManagedStay
    BY <1>2 DEF MembersStay, ManagedStay
  <1>7. PastGrows /\ CenterInv'
    BY <1>1, <1>2, <1>6, NothingPasses, CenterFrame
  <1> QED
    BY <1>3, <1>4, <1>5, <1>7 DEF Progress, CenterGoal

LEMMA NextProgress ==
    ASSUME IInv, [SystemNext]_systemVars
    PROVE  Progress
  BY RequestsProgress, StutterProgress

LEMMA IamInitially ==
    ASSUME SystemInit
    PROVE  IInv
  <1> USE DEF SystemInit, IamInit, CloudInit, RolesInit, CenterInit, WorkloadInit
  <1>1. CloudTypeOK /\ GovernedInv
    <2>1. CloudTypeOK
      BY CloudAssumption DEF CloudTypeOK, Targets, Parents
    <2>2. LevelsHavePolicies
      BY CloudAssumption DEF LevelsHavePolicies, Exists, Targets, Parents
    <2>3. CountsAreCurrent
      BY DEF CountsAreCurrent, NoChange
    <2>4. PathInv
      <3>1. Exists(Root) /\ \A u \in Parents : Exists(u) => u = Root
        BY CloudAssumption DEF Exists, Parents
      <3>2. {Root} \in SUBSET Parents /\ Root \in {Root} /\ Climbs({Root})
        BY CloudAssumption DEF Climbs, Parents
      <3>3. Ancestors(Root) = {Root}
        BY <2>1, <3>2, AncestorsLeast DEF PathsAreLeast, Parents
      <3>4. IsFiniteSet({Root}) /\ Cardinality({Root}) = 1
        BY FS_Singleton
      <3>5. IsFiniteSet(Ancestors(Root)) /\ Cardinality(Ancestors(Root)) <= MaxDepth + 1
        BY <3>3, <3>4, CloudAssumption
      <3>6. PathsAreRooted
        BY <3>1, <3>3, <3>5 DEF PathsAreRooted, Parents
      <3>7. ParentsExist
        BY <3>1 DEF ParentsExist, NoChange
      <3> QED
        BY <3>6, <3>7 DEF PathInv
    <2> QED
      BY <2>1, <2>2, <2>3, <2>4 DEF GovernedInv, LevelInv
  <1>2. WorkloadTypeOK /\ PodsHaveRoles /\ WorkloadInv
    <2>1. WorkloadTypeOK
      BY WorkloadAssumption DEF WorkloadTypeOK, NoPod, TokenIds
    <2>2. PodsHaveRoles /\ WorkloadInv
      BY DEF PodsHaveRoles, WorkloadInv, DisabledTokensDie, MintsAreEnabled, NoPod, NoExchange
    <2> QED
      BY <2>1, <2>2
  <1>3. SessionTypes /\ BrowserInv
    <2>1. SessionTypes
      BY IdleAssume, IamAssumption DEF SessionTypes, SessionTable
    <2>2. BrowserInv
      BY IdleAssume DEF BrowserInv, SessionsAreNumbered, BrowsersSwitch, HeldByABrowser
    <2> QED
      BY <2>1, <2>2
  <1>4. CenterTypes
    <2>1. memberRole \in [UserPrincipals -> {"none", "member", "owner"}]
      OBVIOUS
    <2>2. /\ iamPolicies \in [PolicyIds -> Texts \cup {NoText}]
          /\ bindings \subseteq Principals \X PolicyIds
          /\ trust \in [Roles -> Trusts \cup {NoTrust, Gone}]
          /\ permissionSets \in [Sets -> Texts \cup {NoText, Gone}]
          /\ crews \in [Crews -> {"none", "live", "deleted"}]
      OBVIOUS
    <2>3. /\ crewMembers \in [Crews \X Humans -> 0 .. MaxGeneration]
          /\ lastMembership \in 0 .. MaxGeneration
          /\ assignments \in [Assignment -> [generation: 0 .. MaxGeneration, revoked: BOOLEAN]]
      BY IamAssumption
    <2>4. AssigningTypeOK
      BY DEF AssigningTypeOK
    <2> QED
      BY <2>1, <2>2, <2>3, <2>4 DEF CenterTypes
  <1>5. PolicyTypes
    BY DEF PolicyTypes
  <1>6. CenterInv
    <2>1. ManagedRolesWait
      BY CenterAssumption DEF ManagedRolesWait, Principals
    <2>2. AssignersAreCurrent
      BY DEF AssignersAreCurrent
    <2>3. \A a \in Assignment : assignments[a].generation = 0
      OBVIOUS
    <2>4. AssignmentsHaveRoles /\ AssignmentsAreUsable
      BY <2>3 DEF AssignmentsHaveRoles, AssignmentsAreUsable, InForce
    <2>5. ManagedRolesFollowTheirSet
      BY CenterAssumption DEF ManagedRolesFollowTheirSet, Managed, RoleExists
    <2> QED
      BY <2>1, <2>2, <2>4, <2>5 DEF CenterInv
  <1>7. LineageInv
    BY IdleAssume DEF LineageInv, TrustsWereEvaluated, MembershipsAreNumbered, LineagesArePast
  <1> QED
    BY <1>1, <1>2, <1>3, <1>4, <1>5, <1>6, <1>7, AllTypes DEF IInv
-----------------------------------------------------------------------------
(***************************************************************************)
(* The decision                                                            *)
(***************************************************************************)
Grants(request, policies) ==
    Effective("Allow", request, policies) /\ ~Effective("Deny", request, policies)

\* The identity's own policies, or its administrator's implicit one.
IdentityGrants(request, policies, administrator) ==
    /\ Effective("Allow", request, policies) \/ administrator
    /\ ~Effective("Deny", request, policies)

\* What every layer returns.
IsEvaluation(e) == \E d \in {"allow", "deny"} : \E a, n, r : e = Evaluation(d, a, n, r)

LEMMA AuthorizeMeans ==
    ASSUME NEW request, NEW policies
    PROVE  /\ IsEvaluation(Authorize(request, policies))
           /\ Authorize(request, policies).decision = "allow" <=> request.same /\ Grants(request, policies)
           /\ request.same => Authorize(request, policies).deny = Effective("Deny", request, policies)
  <1> DEFINE allow == Effective("Allow", request, policies)
             deny == Effective("Deny", request, policies)
  <1>1. Grants(request, policies) <=> allow /\ ~deny
    BY DEF Grants
  <1>2. Authorize(request, policies) =
            IF ~request.same THEN Evaluation("deny", FALSE, FALSE, "cross_organization")
            ELSE Decided(allow, deny)
    BY DEF Authorize
  <1> HIDE DEF allow, deny
  <1>3. PICK d, r : /\ d = (IF ~deny /\ allow THEN "allow" ELSE "deny")
                    /\ Decided(allow, deny) = Evaluation(d, allow, deny, r)
    BY DEF Decided, Decide
  <1>4. /\ Evaluation(d, allow, deny, r).decision = d
        /\ Evaluation(d, allow, deny, r).deny = deny
        /\ Evaluation("deny", FALSE, FALSE, "cross_organization").decision = "deny"
    BY DEF Evaluation
  <1>5. d \in {"allow", "deny"} /\ (d = "allow" <=> Grants(request, policies))
    BY <1>1, <1>3
  <1>6. IsEvaluation(Authorize(request, policies))
    BY <1>2, <1>3, <1>5, Zenon DEF IsEvaluation
  <1>7. /\ Authorize(request, policies).decision = "allow" <=> request.same /\ Grants(request, policies)
        /\ request.same => Authorize(request, policies).deny = deny
    <2>1. CASE request.same
      <3>1. Authorize(request, policies) = Evaluation(d, allow, deny, r)
        BY <1>2, <1>3, <2>1
      <3> QED
        BY <1>4, <1>5, <2>1, <3>1
    <2>2. CASE ~request.same
      BY <1>2, <1>4, <2>2
    <2> QED
      BY <2>1, <2>2
  <1> QED
    BY <1>6, <1>7 DEF deny

LEMMA EvaluationFields ==
    ASSUME NEW e, IsEvaluation(e)
    PROVE  e.decision \in {"allow", "deny"} /\ \E d, a, n, r : e = Evaluation(d, a, n, r)
  <1>1. PICK d \in {"allow", "deny"} : \E a, n, r : e = Evaluation(d, a, n, r)
    BY DEF IsEvaluation
  <1>2. e.decision = d
    BY <1>1 DEF Evaluation
  <1> QED
    BY <1>1, <1>2, Zenon

\* An administrator is allowed what nothing denies.
LEMMA AdministratorMeans ==
    ASSUME NEW request, NEW policies, NEW administrator \in BOOLEAN
    PROVE  /\ IsEvaluation(AuthorizeWithAdministrator(request, policies, administrator))
           /\ AuthorizeWithAdministrator(request, policies, administrator).decision = "allow"
                <=> request.same /\ IdentityGrants(request, policies, administrator)
  <1> DEFINE allow == Effective("Allow", request, policies)
             deny == Effective("Deny", request, policies)
             e == Authorize(request, policies)
             more == Evaluation("allow", TRUE, e.deny, "administrator_allow")
  <1>1. IsEvaluation(e) /\ (e.decision = "allow" <=> request.same /\ allow /\ ~deny)
    BY AuthorizeMeans DEF Grants
  <1>2. e.reason = "default_deny" <=> request.same /\ ~allow /\ ~deny
    <2>1. CASE ~request.same
      BY <2>1 DEF Authorize, Evaluation
    <2>2. CASE request.same
      <3>1. e = Decided(allow, deny)
        BY <2>2 DEF Authorize
      <3> HIDE DEF e, allow, deny
      <3>2. e.reason = IF deny THEN "explicit_deny" ELSE IF allow THEN "explicit_allow" ELSE "default_deny"
        BY <3>1 DEF Decided, Evaluation
      <3> QED
        BY <2>2, <3>2
    <2> QED
      BY <2>1, <2>2
  <1>3. IdentityGrants(request, policies, administrator) <=> (allow \/ administrator) /\ ~deny
    BY DEF IdentityGrants
  <1>4. AuthorizeWithAdministrator(request, policies, administrator)
            = IF administrator /\ e.reason = "default_deny" THEN more ELSE e
    BY DEF AuthorizeWithAdministrator, ImplicitlyAllowed
  <1> HIDE DEF e, allow, deny
  <1>5. IsEvaluation(more) /\ more.decision = "allow"
    <2>1. more.decision = "allow"
      BY DEF Evaluation
    <2>2. IsEvaluation(more)
      BY Zenon DEF IsEvaluation
    <2> QED
      BY <2>1, <2>2
  <1> HIDE DEF more
  <1>6. CASE administrator
    BY <1>1, <1>2, <1>3, <1>4, <1>5, <1>6
  <1>7. CASE ~administrator
    BY <1>1, <1>3, <1>4, <1>7
  <1> QED
    BY <1>6, <1>7

LEMMA BoundaryMeans ==
    ASSUME NEW request, NEW identity, IsEvaluation(identity), NEW limit,
           identity.decision = "allow" => request.same
    PROVE  /\ IsEvaluation(EnforcePermissionsBoundary(request, identity, limit))
           /\ EnforcePermissionsBoundary(request, identity, limit).decision = "allow"
                <=> /\ identity.decision = "allow"
                    /\ limit # {} => Grants(request, limit)
  <1> DEFINE e == Authorize(request, limit)
             less == Evaluation("deny", identity.allow, e.deny,
                                IF e.deny THEN "permissions_boundary_explicit_deny"
                                ELSE "permissions_boundary_no_allow")
  <1>1. e.decision = "allow" <=> request.same /\ Grants(request, limit)
    BY AuthorizeMeans
  <1>2. identity.decision \in {"allow", "deny"}
    BY EvaluationFields
  <1>3. EnforcePermissionsBoundary(request, identity, limit)
            = IF limit = {} \/ identity.decision = "deny" \/ e.decision = "allow" THEN identity ELSE less
    BY DEF EnforcePermissionsBoundary, Limited
  <1> HIDE DEF e
  <1>4. less.decision = "deny" /\ IsEvaluation(less)
    <2>1. less.decision = "deny"
      BY DEF Evaluation
    <2>2. IsEvaluation(less)
      BY Zenon DEF IsEvaluation
    <2> QED
      BY <2>1, <2>2
  <1> HIDE DEF less
  <1> QED
    BY <1>1, <1>2, <1>3, <1>4

LEMMA ControlsMean ==
    ASSUME NEW request, NEW identity, IsEvaluation(identity), NEW levels,
           identity.decision = "allow" => request.same
    PROVE  /\ IsEvaluation(EnforceServiceControlPolicies(request, identity, levels))
           /\ EnforceServiceControlPolicies(request, identity, levels).decision = "allow"
                <=> /\ identity.decision = "allow"
                    /\ \A level \in levels : Grants(request, level)
  <1> DEFINE results == {Authorize(request, level) : level \in levels}
             denied == Evaluation("deny", identity.allow, TRUE, "scp_explicit_deny")
             lacking == Evaluation("deny", identity.allow, FALSE, "scp_no_allow")
             refused == (\E e \in results : e.deny) \/ (\E e \in results : e.decision = "deny")
  <1>1. identity.decision \in {"allow", "deny"}
    BY EvaluationFields
  <1>2. \A level : /\ Authorize(request, level).decision = "allow" <=> request.same /\ Grants(request, level)
                   /\ Authorize(request, level).decision \in {"allow", "deny"}
                   /\ request.same => Authorize(request, level).deny = Effective("Deny", request, level)
    BY AuthorizeMeans, EvaluationFields
  <1>3. request.same => ((\A level \in levels : Grants(request, level)) <=> ~refused)
    <2>1. ASSUME request.same, \A level \in levels : Grants(request, level), NEW e \in results
          PROVE  ~e.deny /\ e.decision # "deny"
      BY <1>2, <2>1 DEF Grants
    <2>2. ASSUME request.same, NEW level \in levels, ~Grants(request, level)
          PROVE  \E e \in results : e.decision = "deny"
      BY <1>2, <2>2
    <2> QED
      BY <2>1, <2>2
  <1>4. \/ EnforceServiceControlPolicies(request, identity, levels) = identity
           /\ (identity.decision = "deny" \/ ~refused)
        \/ EnforceServiceControlPolicies(request, identity, levels) \in {denied, lacking}
           /\ identity.decision # "deny" /\ refused
    BY DEF EnforceServiceControlPolicies, Controlled
  <1>5. /\ denied.decision = "deny" /\ lacking.decision = "deny"
        /\ IsEvaluation(denied) /\ IsEvaluation(lacking)
    <2>1. denied.decision = "deny" /\ lacking.decision = "deny"
      BY DEF Evaluation
    <2>2. IsEvaluation(denied) /\ IsEvaluation(lacking)
      BY Zenon DEF IsEvaluation
    <2> QED
      BY <2>1, <2>2
  <1> HIDE DEF refused, denied, lacking
  <1> QED
    BY <1>1, <1>3, <1>4, <1>5

LEMMA SessionPolicyMeans ==
    ASSUME NEW request, NEW identity, IsEvaluation(identity), NEW policy,
           identity.decision = "allow" => request.same
    PROVE  EnforceSessionPolicy(request, identity, policy).decision = "allow"
             <=> /\ identity.decision = "allow"
                 /\ policy # {} => Grants(request, policy)
  <1> DEFINE e == EnforcePermissionsBoundary(request, identity, policy)
             reason == CASE e.reason = "permissions_boundary_explicit_deny" -> "session_policy_explicit_deny"
                         [] e.reason = "permissions_boundary_no_allow" -> "session_policy_no_allow"
                         [] OTHER -> e.reason
  <1>1. /\ IsEvaluation(e)
        /\ e.decision = "allow" <=> identity.decision = "allow" /\ (policy # {} => Grants(request, policy))
    BY BoundaryMeans
  <1>2. PICK d, a, n, r : e = Evaluation(d, a, n, r)
    BY <1>1, EvaluationFields
  <1>3. EnforceSessionPolicy(request, identity, policy)
            = IF identity.decision = "deny" THEN identity ELSE [e EXCEPT !.reason = reason]
    BY DEF EnforceSessionPolicy
  <1> HIDE DEF e, reason
  <1>4. [e EXCEPT !.reason = reason].decision = e.decision
    BY <1>2 DEF Evaluation
  <1>5. identity.decision \in {"allow", "deny"}
    BY EvaluationFields
  <1> QED
    BY <1>1, <1>3, <1>4, <1>5

\* What an actor may do in an account is granted to its identity there, by every level of the
\* organization above the account, by the boundary and by the session.
LEMMA MayMeans ==
    ASSUME NEW actor, NEW account, NEW action, May(actor, account, action)
    PROVE  LET request == [same |-> TRUE, action |-> action, resource |-> <<"any">>, at |-> 0]
           IN  /\ \A level \in ServiceControlLevels(account) : Grants(request, level)
               /\ SessionPolicy(actor) # {} => Grants(request, SessionPolicy(actor))
               /\ \E context \in Context(actor, account) :
                     /\ IdentityGrants(request, context.policies, context.role = "owner")
                     /\ context.boundary # {} => Grants(request, context.boundary)
  <1> DEFINE request == [same |-> TRUE, action |-> action, resource |-> <<"any">>, at |-> 0]
  <1>1. request.same = TRUE
    OBVIOUS
  <1>2. PICK context \in Context(actor, account) :
          EnforceSessionPolicy(request,
              EvaluateAccountPermissions(context, account, request, FALSE),
              SessionPolicy(actor)).decision = "allow"
    BY DEF May, AuthorizeActor, AuthorizeActorWithImplicitAllow
  <1> DEFINE owner == context.role = "owner"
             x == AuthorizeWithAdministrator(request, context.policies, owner)
             y == EnforcePermissionsBoundary(request, x, context.boundary)
             z == EnforceServiceControlPolicies(request, y, ServiceControlLevels(account))
  <1> HIDE DEF request
  <1>3. (FALSE \/ owner) = owner /\ owner \in BOOLEAN
    OBVIOUS
  <1>4. z = EvaluateAccountPermissions(context, account, request, FALSE)
    BY <1>3, Zenon DEF EvaluateAccountPermissions
  <1>5. IsEvaluation(x) /\ (x.decision = "allow" <=> IdentityGrants(request, context.policies, owner))
    BY <1>1, <1>3, AdministratorMeans
  <1> HIDE DEF owner, x
  <1>6. /\ IsEvaluation(y)
        /\ y.decision = "allow" <=> /\ x.decision = "allow"
                                    /\ context.boundary # {} => Grants(request, context.boundary)
    BY <1>1, <1>5, BoundaryMeans
  <1> HIDE DEF y
  <1>7. /\ IsEvaluation(z)
        /\ z.decision = "allow" <=> /\ y.decision = "allow"
                                    /\ \A level \in ServiceControlLevels(account) : Grants(request, level)
    BY <1>1, <1>6, ControlsMean
  <1> HIDE DEF z
  <1>8. EnforceSessionPolicy(request, z, SessionPolicy(actor)).decision = "allow"
          <=> /\ z.decision = "allow"
              /\ SessionPolicy(actor) # {} => Grants(request, SessionPolicy(actor))
    BY <1>1, <1>7, SessionPolicyMeans
  <1>9. EnforceSessionPolicy(request, z, SessionPolicy(actor)).decision = "allow"
    BY <1>2, <1>4
  <1> QED
    BY <1>5, <1>6, <1>7, <1>8, <1>9 DEF request, owner

\* In a member account, and whoever asks, a request passes the policies of the root, of every
\* unit on the way down and of the account itself.
MembersAreControlled ==
    "scp" \in Activated =>
        \A a \in Members \ {Management} : Exists(a) =>
            \A actor, action : May(actor, a, action) =>
                /\ Root \in Ancestors(accountParent[a])
                /\ \A t \in {Root, a} \cup Ancestors(accountParent[a]) :
                      Grants([same |-> TRUE, action |-> action, resource |-> <<"any">>, at |-> 0],
                             {ScpDocument[p] : p \in attached[t]})
-----------------------------------------------------------------------------
(***************************************************************************)
(* Theorems                                                                *)
(***************************************************************************)
LEMMA IamInductive == SystemSpec => []IInv
  <1>1. SystemInit => IInv
    BY IamInitially
  <1>2. IInv /\ [SystemNext]_systemVars => IInv'
    BY NextProgress, Conclude
  <1> QED
    BY <1>1, <1>2, PTL DEF SystemSpec

(* Whatever requests come, from whomever and in whatever order: the tables *)
(* of IAM, Identity Center, the organization and workload identity, and    *)
(* the requests under way, keep their types.                               *)
THEOREM IamTypes ==
    SystemSpec => [](CloudTypeOK /\ IamTypeOK /\ AssumeTypeOK /\ AssigningTypeOK /\ WorkloadTypeOK)
  <1>1. IInv => CloudTypeOK /\ IamTypeOK /\ AssumeTypeOK /\ AssigningTypeOK /\ WorkloadTypeOK
    BY DEF IInv, TypeInv
  <1> QED
    BY <1>1, IamInductive, PTL

(* Every account hangs below the root through units that exist, on a path  *)
(* no longer than the limit, and no level on it is left without a service  *)
(* control policy: a detach holds the organization from its count to its   *)
(* statement (change_service_control_attachment), and a unit goes below    *)
(* one that was not too deep and that nothing removes                      *)
(* (create_organizational_unit).                                           *)
THEOREM LevelsStayGoverned == SystemSpec => []EveryLevelIsGoverned
  <1>1. ASSUME IInv
        PROVE  EveryLevelIsGoverned
    <2>1. LevelsHavePolicies /\ PathsAreRooted /\ ParentsExist /\ CloudTypeOK
      BY <1>1 DEF IInv, TypeInv, GovernedInv, LevelInv, PathInv
    <2>2. ASSUME NEW t \in Targets, Exists(t)
          PROVE  \E u \in Parents : Exists(u) /\ u = IF t \in Members THEN accountParent[t] ELSE t
      BY <2>1, <2>2, CloudAssumption DEF ParentsExist, CloudTypeOK, Exists, Targets, Parents
    <2> QED
      BY <2>1, <2>2 DEF EveryLevelIsGoverned, PathsAreRooted
  <1> QED
    BY <1>1, IamInductive, PTL

(* No token of a disabled service account is in the table, however its     *)
(* mint and the disabling interleave (mint_workload_token and              *)
(* set_service_account_enabled lock the principal).                        *)
THEOREM TokensDieWithTheirAccount == SystemSpec => []DisabledTokensDie
  <1>1. IInv => DisabledTokensDie
    BY DEF IInv, WorkloadInv
  <1> QED
    BY <1>1, IamInductive, PTL

(* A session that a browser has switched to is revoked when the browser    *)
(* leaves it for another role or exits, however many switches are under    *)
(* way: unless the browser has logged out of it, one that is usable is     *)
(* the role of a browser (switch_browser_role, clear_browser_role).        *)
THEOREM LeftRolesAreRevoked == SystemSpec => []LeftRolesEnd
  <1>1. IInv => LeftRolesEnd
    BY DEF IInv, BrowserInv, HeldByABrowser, LeftRolesEnd, SessionIsLive
  <1> QED
    BY <1>1, IamInductive, PTL

(* A managed role grants what its permission set says now and nothing      *)
(* else, also when the set is edited while an assignment makes the role    *)
(* (create_identity_center_assignment,                                     *)
(* update_identity_center_permission_set).                                 *)
THEOREM RolesFollowTheirSets == SystemSpec => []ManagedRolesFollowTheirSet
  <1>1. IInv => ManagedRolesFollowTheirSet
    BY DEF IInv, CenterInv
  <1> QED
    BY <1>1, IamInductive, PTL

(* An assignment in force has its set, its group and the membership of     *)
(* everyone it is for, also of who joins or is assigned at the same time   *)
(* (create_identity_center_assignment,                                     *)
(* change_identity_center_group_member).                                   *)
THEOREM AssignmentsStayUsable == SystemSpec => []AssignmentsAreUsable
  <1>1. IInv => AssignmentsAreUsable
    BY DEF IInv, CenterInv
  <1> QED
    BY <1>1, IamInductive, PTL

(* A session appears only while the trust policy of its role permits its   *)
(* source, although the trust was read before (create_iam_role_session     *)
(* compares it again).                                                     *)
THEOREM SessionsAreTrusted == SystemSpec => SessionWasTrusted
  <1>1. ASSUME IInv, [SystemNext]_systemVars
        PROVE  \A s \in SessionIds :
                  roleSessions[s] = NoRow /\ roleSessions'[s] # NoRow =>
                      TrustPermits(TrustText[trust'[roleSessions'[s].role]],
                                   PrincipalAccount(roleSessions'[s].source), roleSessions'[s].source)
    <2>1. TypeInv /\ BrowserInv /\ Effects /\ IamTypeOK
      BY <1>1, NextProgress DEF IInv, Progress, TypeInv
    <2>2. CASE RowsGoOn
      BY <2>2 DEF RowsGoOn
    <2>3. ASSUME NEW q \in Callers, NEW row \in SessionRow, NEW e \in AssumeRecord, SessionStarts(q, row, e),
                 NEW s \in SessionIds, roleSessions[s] = NoRow, roleSessions'[s] # NoRow
          PROVE  TrustPermits(TrustText[trust'[roleSessions'[s].role]],
                              PrincipalAccount(roleSessions'[s].source), roleSessions'[s].source)
      <3>1. Inserts(row, row.role) /\ Permitted(trust[row.role], row.source) /\ trust' = trust
        BY <2>3 DEF SessionStarts
      <3>2. roleSessions'[s] = row
        BY <2>1, <2>3, <3>1, InsertedRows
      <3> QED
        BY <3>1, <3>2 DEF Permitted
    <2> QED
      BY <2>1, <2>2, <2>3, EffectStep
  <1>2. IInv /\ [SystemNext]_systemVars =>
          [\A s \in SessionIds :
              roleSessions[s] = NoRow /\ roleSessions'[s] # NoRow =>
                  TrustPermits(TrustText[trust'[roleSessions'[s].role]],
                               PrincipalAccount(roleSessions'[s].source),
                               roleSessions'[s].source)]_<<roleSessions, trust>>
    BY <1>1
  <1> QED
    BY <1>2, IamInductive, PTL DEF SystemSpec, SessionWasTrusted

(* A session of Identity Center that has ended with its assignment, its    *)
(* permission set or its group stays ended, also when the assignment is    *)
(* made or the member is added again: generations and membership rows are  *)
(* never used twice (identity_center_session_is_active).                   *)
THEOREM EndedSessionsStayEnded == SystemSpec => EndedStaysEnded
  <1>1. ASSUME IInv, [SystemNext]_systemVars
        PROVE  \A s \in SessionIds :
                  roleSessions[s] # NoRow /\ roleSessions'[s] # NoRow
                      /\ ~LineageHolds(roleSessions[s].lineage)
                  => ~LineageHolds(roleSessions[s].lineage)'
    <2>1. TypeInv /\ BrowserInv /\ LineagesArePast
      BY <1>1 DEF IInv, LineageInv
    <2>2. Effects /\ CenterTypes' /\ PastGrows
      BY <1>1, NextProgress DEF Progress, CenterGoal
    <2> QED
      BY <2>1, <2>2, EffectLineages
  <1>2. IInv /\ [SystemNext]_systemVars =>
          [\A s \in SessionIds :
              roleSessions[s] # NoRow /\ roleSessions'[s] # NoRow
                  /\ ~LineageHolds(roleSessions[s].lineage)
              => ~LineageHolds(roleSessions[s].lineage)']_<<iamVars, centerVars>>
    BY <1>1
  <1> QED
    BY <1>2, IamInductive, PTL DEF SystemSpec, EndedStaysEnded

(* How the layers combine, for all policies: a request is allowed exactly  *)
(* when the identity's policies (or the administrator) allow it and        *)
(* nothing of them denies it, and the boundary, every level of the         *)
(* organization and the session policy, where there is one, each allow it  *)
(* and do not deny it.  A limit can only take away, and a deny anywhere    *)
(* decides (authorize, enforce_permissions_boundary,                       *)
(* enforce_service_control_policies, enforce_session_policy).              *)
THEOREM LimitsOnlyTakeAway ==
    ASSUME NEW request, NEW policies, NEW administrator \in BOOLEAN, NEW bounds, NEW levels, NEW session
    PROVE  LET identity == AuthorizeWithAdministrator(request, policies, administrator)
               limited == EnforcePermissionsBoundary(request, identity, bounds)
               controlled == EnforceServiceControlPolicies(request, limited, levels)
               decided == EnforceSessionPolicy(request, controlled, session)
           IN  decided.decision = "allow" <=>
                  /\ request.same
                  /\ IdentityGrants(request, policies, administrator)
                  /\ \A limit \in {x \in {bounds, session} : x # {}} \cup levels : Grants(request, limit)
  <1> DEFINE identity == AuthorizeWithAdministrator(request, policies, administrator)
             limited == EnforcePermissionsBoundary(request, identity, bounds)
             controlled == EnforceServiceControlPolicies(request, limited, levels)
  <1>1. /\ IsEvaluation(identity)
        /\ identity.decision = "allow" <=> request.same /\ IdentityGrants(request, policies, administrator)
    BY AdministratorMeans
  <1> HIDE DEF identity
  <1>2. /\ IsEvaluation(limited)
        /\ limited.decision = "allow" <=> identity.decision = "allow" /\ (bounds # {} => Grants(request, bounds))
    BY <1>1, BoundaryMeans
  <1> HIDE DEF limited
  <1>3. /\ IsEvaluation(controlled)
        /\ controlled.decision = "allow" <=> limited.decision = "allow" /\ \A level \in levels : Grants(request, level)
    BY <1>1, <1>2, ControlsMean
  <1> HIDE DEF controlled
  <1>4. EnforceSessionPolicy(request, controlled, session).decision = "allow"
          <=> controlled.decision = "allow" /\ (session # {} => Grants(request, session))
    BY <1>1, <1>2, <1>3, SessionPolicyMeans
  <1> QED
    BY <1>1, <1>2, <1>3, <1>4 DEF identity, limited, controlled

(* Whatever requests come and however units, accounts and attachments      *)
(* change: what anybody may do in a member account, its owner included,    *)
(* the root, every unit above the account and the account itself allow.    *)
(* The paths never lose the root, so its policies bind everyone            *)
(* (service_control_levels, evaluate_account_permissions).                 *)
THEOREM RootBindsMembers == SystemSpec => []MembersAreControlled
  <1>1. ASSUME EveryLevelIsGoverned
        PROVE  MembersAreControlled
    <2> SUFFICES ASSUME "scp" \in Activated, NEW a \in Members \ {Management}, Exists(a), NEW actor, NEW action,
                        May(actor, a, action)
                 PROVE  /\ Root \in Ancestors(accountParent[a])
                        /\ \A t \in {Root, a} \cup Ancestors(accountParent[a]) :
                              Grants([same |-> TRUE, action |-> action, resource |-> <<"any">>, at |-> 0],
                                     {ScpDocument[p] : p \in attached[t]})
      BY DEF MembersAreControlled
    <2>1. Root \in Ancestors(accountParent[a])
      BY <1>1 DEF EveryLevelIsGoverned, Targets
    <2>2. ServiceControlLevels(a)
            = {{ScpDocument[p] : p \in attached[t]} : t \in Ancestors(accountParent[a]) \cup {a}}
      BY DEF ServiceControlLevels
    <2>3. \A level \in ServiceControlLevels(a) :
             Grants([same |-> TRUE, action |-> action, resource |-> <<"any">>, at |-> 0], level)
      BY MayMeans
    <2>4. ASSUME NEW t \in {Root, a} \cup Ancestors(accountParent[a])
          PROVE  {ScpDocument[p] : p \in attached[t]} \in ServiceControlLevels(a)
      BY <2>1, <2>2, <2>4
    <2> QED
      BY <2>1, <2>3, <2>4
  <1> QED
    BY <1>1, LevelsStayGoverned, PTL

(* The run is one of the behaviours the theorems are about: every step of  *)
(* MCAccount, which divides the requests among parts and picks the         *)
(* arguments of each, is a request of the system or leaves IAM alone.  So  *)
(* what is proved of SystemSpec holds in the run, whatever its bounds.     *)
THEOREM RunIsOfTheSystem == Spec => SystemSpec
  <1>1. Init => SystemInit
    BY DEF Init, SystemInit
  <1>2. ASSUME [Next]_vars
        PROVE  [SystemNext]_systemVars
    <2>1. /\ \A actor \in Acting : actor \in SystemActors
          /\ \A actor \in Acting \cup KeyActors \cup WorkloadActors : actor \in SystemActors
      BY DEF Acting, SystemActors
    <2>2. CASE OrganizationStep
      <3>1. OrganizationRequests
        BY <2>1, <2>2, RunAssumption DEF OrganizationStep, OrganizationRequests
      <3> QED
        BY <3>1 DEF SystemNext
    <2>3. CASE PoliciesStep
      <3>1. \A h \in Humans : Human(h) \in UserPrincipals /\ Human(h) \in Principals
        BY RunAssumption DEF Human, UserPrincipals, Principals, AllAccounts
      <3>2. PolicyRequests
        BY <2>1, <2>3, <3>1, RunAssumption DEF PoliciesStep, PolicyRequests
      <3> QED
        BY <3>2 DEF SystemNext
    <2> DEFINE Browsing == BrowserStep /\ UNCHANGED <<cloudVars, centerVars, assigning, workloadVars>>
    <2>4. ASSUME Browsing
          PROVE  SystemNext
      BY <2>4, RunAssumption DEF BrowserStep, RoleRequests, SystemNext
    <2>5. ASSUME NEW actor \in SystemActors, NEW r \in Roles,
                 \/ CreatePolicy(actor, inBranch, "everything")
                 \/ CreateBinding(actor, r, inBranch)
                 \/ DeleteBinding(actor, r, inBranch)
                 \/ ChangePermissionsBoundary(actor, r, inBranch),
                 UNCHANGED <<cloudVars, centerVars, assigning, workloadVars>>
          PROVE  SystemNext
      <3>1. r \in Principals
        BY DEF Principals
      <3>2. PolicyRequests
        BY <2>5, <3>1, RunAssumption DEF PolicyRequests
      <3> QED
        BY <3>2 DEF SystemNext
    <2>a. ASSUME NEW r \in Roles, DisableStep(r), UNCHANGED <<cloudVars, centerVars, assigning>>
          PROVE  SystemNext
      <3>1. /\ \E actor \in Acting, on \in BOOLEAN : SetServiceAccountEnabled(actor, r, on)
            /\ UNCHANGED assumes
        BY <2>a DEF DisableStep
      <3>2. WorkloadRequests
        BY <2>1, <2>a, <3>1 DEF WorkloadRequests
      <3> QED
        BY <3>2 DEF SystemNext
    <2>6. CASE RolesStep
      <3>1. UNCHANGED <<cloudVars, centerVars, assigning, workloadVars>>
        BY <2>6 DEF RolesStep
      <3>2. CASE BrowserStep
        BY <2>4, <3>1, <3>2
      <3>3. CASE \E q \in Callers : AssumeFindRole(q) \/ AssumeCreate(q) \/ AssumeRejected(q)
        BY <3>1, <3>3 DEF RoleRequests, SystemNext
      <3>4. ASSUME NEW actor \in Acting,
                   \/ CreatePolicy(actor, inBranch, "everything")
                   \/ CreateBinding(actor, reader, inBranch) \/ DeleteBinding(actor, reader, inBranch)
            PROVE  SystemNext
        BY <2>1, <2>5, <3>1, <3>4, RunAssumption
      <3>5. ASSUME NEW actor \in Acting,
                   \/ \E t \in {"everyone", "owner"} :
                          CreateIamRole(actor, reader, t) \/ UpdateIamRoleTrust(actor, reader, t)
                   \/ DeleteIamRole(actor, reader)
                   \/ \E s \in SessionIds : RevokeIamRoleSession(actor, s)
            PROVE  SystemNext
        BY <2>1, <3>1, <3>5, RunAssumption DEF RoleRequests, SystemNext
      <3>6. ASSUME NEW actor \in Acting, NEW q \in Callers, NEW switch \in BOOLEAN,
                   AssumeAuthorize(q, actor, IF actor.kind = "user" THEN home ELSE branch, reader,
                                   IF switch THEN NoText ELSE "assume", switch)
            PROVE  SystemNext
        <4> DEFINE account == IF actor.kind = "user" THEN home ELSE branch
                   text == IF switch THEN NoText ELSE "assume"
        <4>1. account \in AllAccounts /\ text \in Texts \cup {NoText} /\ reader \in Roles
          BY RunAssumption DEF AllAccounts
        <4>2. AssumeAuthorize(q, actor, account, reader, text, switch)
          BY <3>6
        <4> HIDE DEF account, text
        <4> QED
          BY <2>1, <3>1, <4>1, <4>2 DEF RoleRequests, SystemNext
      <3>7. CASE DisableStep(reader)
        BY <2>a, <3>1, <3>7, RunAssumption
      <3> QED
        BY <2>6, <3>2, <3>3, <3>4, <3>5, <3>6, <3>7 DEF RolesStep
    <2>7. CASE CenterStep
      <3>1. UNCHANGED <<cloudVars, workloadVars>>
        BY <2>7 DEF CenterStep
      <3>2. CASE BrowserStep /\ UNCHANGED <<centerVars, assigning>>
        BY <2>4, <3>1, <3>2
      <3>3. CASE (\E s \in SessionIds : ExpireRoleSession(s)) /\ UNCHANGED <<centerVars, assigning>>
        BY <3>1, <3>3 DEF RoleRequests, SystemNext
      <3>4. ASSUME NEW actor \in Acting, UNCHANGED <<centerVars, assigning>>,
                   \/ CreatePolicy(actor, inBranch, "everything")
                   \/ CreateBinding(actor, office, inBranch)
                   \/ ChangePermissionsBoundary(actor, office, inBranch)
            PROVE  SystemNext
        BY <2>1, <2>5, <3>1, <3>4, RunAssumption
      <3>5. CASE \E q \in Assigners : AssignmentInsert(q) \/ AssignmentRolledBack(q)
        BY <3>1, <3>5 DEF CenterRequests, SystemNext
      <3>6. ASSUME NEW actor \in Acting,
                   \/ \E s \in Sets, text \in Texts :
                          CreatePermissionSet(actor, s, text) \/ UpdatePermissionSet(actor, s, text)
                   \/ \E s \in Sets : DeletePermissionSet(actor, s)
                   \/ \E g \in Crews :
                          \/ CreateIdentityCenterGroup(actor, g) \/ DeleteIdentityCenterGroup(actor, g)
                          \/ \E add \in BOOLEAN : GroupUser(actor, g, alice, add)
            PROVE  SystemNext
        BY <2>1, <3>1, <3>6, RunAssumption DEF CenterRequests, SystemNext
      <3>7. ASSUME NEW actor \in Acting, NEW a \in Assignment, a.account = branch,
                   \/ \E q \in Assigners : CreateIdentityCenterAssignment(q, actor, a)
                   \/ RevokeIdentityCenterAssignment(actor, a)
                   \/ \E q \in Callers, switch \in BOOLEAN :
                          StartIdentityCenterSession(q, actor, a, switch)
            PROVE  SystemNext
        <4>1. a \in Assignable
          BY <3>7, RunAssumption DEF Assignable, Assignment
        <4> QED
          BY <2>1, <3>1, <3>7, <4>1 DEF CenterRequests, SystemNext
      <3>8. CASE DisableStep(office) /\ UNCHANGED <<centerVars, assigning>>
        BY <2>a, <3>1, <3>8, RunAssumption
      <3> QED
        BY <2>7, <3>2, <3>3, <3>4, <3>5, <3>6, <3>7, <3>8 DEF CenterStep
    <2>8. CASE WorkloadStep
      <3>1. WorkloadRequests
        BY <2>1, <2>8, RunAssumption DEF WorkloadStep, WorkloadRequests
      <3> QED
        BY <3>1 DEF SystemNext
    <2>9. CASE ServiceStep
      BY <2>9 DEF ServiceStep, systemVars
    <2>10. CASE UNCHANGED vars
      BY <2>10 DEF vars, systemVars
    <2> QED
      BY <1>2, <2>2, <2>3, <2>6, <2>7, <2>8, <2>9, <2>10 DEF Next
  <1> QED
    BY <1>1, <1>2, PTL DEF Spec, SystemSpec
=============================================================================
