--------------------------- MODULE IdentityCenter ---------------------------
(***************************************************************************)
(* Identity Center: permission sets and groups of the management account,  *)
(* their assignment to users and groups in an account, and the sessions    *)
(* that a person starts from an assignment.  An assignment is made in a    *)
(* transaction that locks its permission set and its group, and reads the  *)
(* document and the members before it writes; other transactions run       *)
(* between the two.  A session starts like an assumed role and shares its  *)
(* last steps: the switch of the browser.                                  *)
(***************************************************************************)
EXTENDS IamRoles

CONSTANTS
    Assigners,        \* requests to make an assignment that are under way together
    CenterTrust       \* the trust policy of managed roles: the management account

ASSUME CenterAssumption ==
    /\ CenterTrust \in Trusts
    /\ \A p \in UserPrincipals : p \notin Services \cup Roles
    /\ \A human \in Humans :
          TrustPermits(TrustText[CenterTrust], Management, [human |-> human, account |-> Management])
    /\ DOMAIN ManagedRole \subseteq Sets \X AllAccounts /\ DOMAIN ManagedPolicy = DOMAIN ManagedRole
    /\ \A k \in DOMAIN ManagedRole : ManagedRole[k] \in Roles /\ ManagedPolicy[k] \in PolicyIds
    /\ \A k, l \in DOMAIN ManagedRole :
          ManagedRole[k] = ManagedRole[l] \/ ManagedPolicy[k] = ManagedPolicy[l] => k = l

VARIABLE assigning    \* those requests

NoRequest == [step |-> "none"]

AssigningTypeOK ==
    assigning \in [Assigners -> {NoRequest}
        \cup [of: Assignment, document: Texts, users: SUBSET Humans]]

CenterInit == assigning = [q \in Assigners |-> NoRequest]

\* require_management_at
RequireManagement(actor, action) ==
    May(actor, Management, action) /\ "identity_center" \in Activated

\* Row locks on permission sets and on groups.
SetUnlocked(s) == \A q \in Assigners : assigning[q] # NoRequest => assigning[q].of.set # s
CrewUnlocked(g) == \A q \in Assigners : assigning[q] # NoRequest => assigning[q].of.subject # g

\* Statements without FOR UPDATE.
SetNeverLocked(s) == TRUE
CrewNeverLocked(g) == TRUE

LockSet(s) == SetUnlocked(s)
LockCrew(g) == CrewUnlocked(g)

InForce(a) == assignments[a].generation > 0 /\ ~assignments[a].revoked
SetIsLive(s) == permissionSets[s] \in Texts

----------------------------------------------------------------------------
(* Permission sets.                                                        *)

CreatePermissionSetTx(s, text) ==
    /\ permissionSets[s] = NoText
    /\ permissionSets' = [permissionSets EXCEPT ![s] = text]
    /\ UNCHANGED <<roleVars, crews, crewMembers, lastMembership, assignments, assigning>>

CreatePermissionSet(actor, s, text) ==
    /\ RequireManagement(actor, <<"sso", "CreatePermissionSet">>)
    /\ ValidDocument(PolicyText[text])
    /\ CreatePermissionSetTx(s, text)

\* The policies of the set's roles are rewritten with it.
UpdatePermissionSetTx(s, text) ==
    /\ LockSet(s) /\ SetIsLive(s)
    /\ permissionSets' = [permissionSets EXCEPT ![s] = text]
    /\ iamPolicies' = [d \in PolicyIds |->
           IF \E k \in DOMAIN ManagedPolicy :
                  k[1] = s /\ ManagedPolicy[k] = d /\ Managed(ManagedRole[k])
           THEN text ELSE iamPolicies[d]]
    /\ UNCHANGED <<memberRole, enabled, bindings, iamGroups, groupMembers, groupPolicies,
                   boundary, trust, roleSessions, lastSession, active, assumes, crews,
                   crewMembers, lastMembership, assignments, assigning>>

UpdatePermissionSet(actor, s, text) ==
    /\ RequireManagement(actor, <<"sso", "UpdatePermissionSet">>)
    /\ ValidDocument(PolicyText[text])
    /\ UpdatePermissionSetTx(s, text)

DeletePermissionSetTx(s) ==
    /\ LockSet(s) /\ SetIsLive(s)
    /\ \A a \in Assignment : InForce(a) => a.set # s
    /\ permissionSets' = [permissionSets EXCEPT ![s] = Gone]
    /\ UNCHANGED <<roleVars, crews, crewMembers, lastMembership, assignments, assigning>>

DeletePermissionSet(actor, s) ==
    /\ RequireManagement(actor, <<"sso", "DeletePermissionSet">>)
    /\ DeletePermissionSetTx(s)

----------------------------------------------------------------------------
(* Groups.                                                                 *)

CreateIdentityCenterGroupTx(g) ==
    /\ crews[g] = "none"
    /\ crews' = [crews EXCEPT ![g] = "live"]
    /\ UNCHANGED <<roleVars, permissionSets, crewMembers, lastMembership, assignments, assigning>>

CreateIdentityCenterGroup(actor, g) ==
    /\ RequireManagement(actor, <<"identitystore", "CreateGroup">>)
    /\ CreateIdentityCenterGroupTx(g)

DeleteIdentityCenterGroupTx(g) ==
    /\ LockCrew(g) /\ crews[g] = "live"
    /\ \A a \in Assignment : InForce(a) => a.subject # g
    /\ crewMembers' = [m \in Crews \X Humans |-> IF m[1] = g THEN 0 ELSE crewMembers[m]]
    /\ crews' = [crews EXCEPT ![g] = "deleted"]
    /\ UNCHANGED <<roleVars, permissionSets, lastMembership, assignments, assigning>>

DeleteIdentityCenterGroup(actor, g) ==
    /\ RequireManagement(actor, <<"identitystore", "DeleteGroup">>)
    /\ DeleteIdentityCenterGroupTx(g)

InDirectory(human) == memberRole[[human |-> human, account |-> Management]] # "none"

\* Makes the people members of the accounts where they are not members yet.
\* No operation removes a membership, so that none leaves a principal behind.
EnsureAccountUser(accounts, people) ==
    [p \in UserPrincipals |->
        IF p.account \in accounts /\ p.human \in people /\ memberRole[p] = "none"
        THEN "member" ELSE memberRole[p]]

\* A member who is added again gets another row.
ChangeIdentityCenterGroupMemberTx(g, human, add) ==
    /\ LockCrew(g) /\ crews[g] = "live"
    /\ IF add
       THEN /\ InDirectory(human)
            /\ crewMembers[<<g, human>>] = 0 /\ lastMembership < MaxGeneration
            /\ memberRole' = EnsureAccountUser(
                   {a.account : a \in {b \in Assignment : b.subject = g /\ InForce(b)}}, {human})
            /\ lastMembership' = lastMembership + 1
            /\ crewMembers' = [crewMembers EXCEPT ![<<g, human>>] = lastMembership + 1]
       ELSE /\ crewMembers[<<g, human>>] # 0
            /\ crewMembers' = [crewMembers EXCEPT ![<<g, human>>] = 0]
            /\ UNCHANGED <<memberRole, lastMembership>>
    /\ UNCHANGED <<enabled, iamPolicies, bindings, iamGroups, groupMembers, groupPolicies,
                   boundary, trust, roleSessions, lastSession, active, assumes,
                   permissionSets, crews, assignments, assigning>>

GroupUser(actor, g, human, add) ==
    /\ RequireManagement(actor, IF add THEN <<"identitystore", "CreateGroupMembership">>
                                ELSE <<"identitystore", "DeleteGroupMembership">>)
    /\ ChangeIdentityCenterGroupMemberTx(g, human, add)

----------------------------------------------------------------------------
(* Assignments.                                                            *)

CrewOf(g) == {human \in Humans : crewMembers[<<g, human>>] # 0}

\* The locks are taken and the document and the users are read.
AssignmentLock(q, a) ==
    /\ assigning[q] = NoRequest
    /\ LockSet(a.set) /\ SetIsLive(a.set)
    /\ a.account = Management \/ Exists(a.account)
    /\ IF a.subject \in Crews THEN LockCrew(a.subject) /\ crews[a.subject] = "live"
       ELSE InDirectory(a.subject)
    /\ assigning' = [assigning EXCEPT ![q] =
           [of |-> a, document |-> permissionSets[a.set],
            users |-> IF a.subject \in Crews THEN CrewOf(a.subject) ELSE {a.subject}]]
    /\ UNCHANGED <<roleVars, centerVars>>

CreateIdentityCenterAssignment(q, actor, a) ==
    /\ RequireManagement(actor, <<"sso", "CreateAccountAssignment">>)
    /\ AssignmentLock(q, a)

\* An assignment that is made again is another one.
LaterGeneration(a) == assignments[a].generation + 1

\* Without generation + 1 in the statement.
KeptGeneration(a) == IF assignments[a].generation = 0 THEN 1 ELSE assignments[a].generation

NextGeneration(a) == LaterGeneration(a)

\* The role, its policy and its binding are made with the first assignment
\* of the set in the account.
AssignmentInsert(q) ==
    LET a == assigning[q].of
        k == <<a.set, a.account>>
        r == ManagedRole[k]
    IN  /\ assigning[q] # NoRequest
        /\ ~InForce(a) /\ NextGeneration(a) <= MaxGeneration
        /\ memberRole' = EnsureAccountUser({a.account}, assigning[q].users)
        /\ IF Managed(r) THEN UNCHANGED <<trust, iamPolicies, bindings>>
           ELSE /\ trust' = [trust EXCEPT ![r] = CenterTrust]
                /\ iamPolicies' = [iamPolicies EXCEPT ![ManagedPolicy[k]] = assigning[q].document]
                /\ bindings' = bindings \cup {<<r, ManagedPolicy[k]>>}
        /\ assignments' = [assignments EXCEPT ![a] =
               [generation |-> NextGeneration(a), revoked |-> FALSE]]
        /\ assigning' = [assigning EXCEPT ![q] = NoRequest]
        /\ UNCHANGED <<enabled, iamGroups, groupMembers, groupPolicies, boundary, roleSessions,
                       lastSession, active, assumes, permissionSets, crews, crewMembers,
                       lastMembership>>

\* The assignment is there already, or the connection is lost: rolled back.
AssignmentRolledBack(q) ==
    /\ assigning[q] # NoRequest
    /\ assigning' = [assigning EXCEPT ![q] = NoRequest]
    /\ UNCHANGED <<roleVars, centerVars>>

RevokeAssignmentTx(a) ==
    /\ InForce(a)
    /\ assignments' = [assignments EXCEPT ![a].revoked = TRUE]
    /\ UNCHANGED <<roleVars, permissionSets, crews, crewMembers, lastMembership, assigning>>

RevokeIdentityCenterAssignment(actor, a) ==
    /\ RequireManagement(actor, <<"sso", "DeleteAccountAssignment">>)
    /\ RevokeAssignmentTx(a)

----------------------------------------------------------------------------
(* Sessions.                                                               *)

\* Membership rows through which an assignment holds for a person; zero for
\* an assignment of the person.
Through(a, human) ==
    IF a.subject = human THEN {0}
    ELSE IF a.subject \in Crews /\ crews[a.subject] = "live"
    THEN {crewMembers[<<a.subject, human>>]} \ {0} ELSE {}

\* create_identity_center_session: the session records where it comes from.
CreateIdentityCenterSession(q, human, a, c) ==
    LET s == lastSession + 1
        r == ManagedRole[<<a.set, a.account>>]
        source == [human |-> human, account |-> Management]
        Row(membership) ==
            [state |-> "live", role |-> r, source |-> source, policy |-> NoText,
             console |-> c # NoConsole, held |-> FALSE,
             lineage |-> [generation |-> assignments[a].generation, of |-> a, human |-> human,
                          membership |-> membership]]
    IN  /\ s \in SessionIds
        /\ InDirectory(human)
        /\ InForce(a) /\ SetIsLive(a.set) /\ enabled[r]
        /\ memberRole[[human |-> human, account |-> a.account]] # "none"
        /\ Cardinality({t \in SessionsOf(r) : roleSessions[t].state = "live"}) < MaxActive
        /\ \E membership \in Through(a, human), old \in Discarded(r) :
               roleSessions' = [t \in SessionIds |-> IF t = s THEN Row(membership)
                                    ELSE IF t \in old THEN NoRow ELSE roleSessions[t]]
        /\ lastSession' = s
        /\ assumes' = [assumes EXCEPT ![q] = IF c = NoConsole THEN NoAssume
               ELSE [step |-> "created", session |-> s,
                     ask |-> [source |-> source, role |-> r, policy |-> NoText, console |-> c,
                              previous |-> 0]]]
        /\ UNCHANGED <<memberRole, enabled, iamPolicies, bindings, iamGroups, groupMembers,
                       groupPolicies, boundary, trust, active, centerVars, assigning>>

\* require_human: a person who acts in a role starts no session.
RequireHuman(actor, action) ==
    /\ actor.kind = "user"
    /\ AuthorizeActorWithImplicitAllow(actor, Management, action, TRUE) # {}
    /\ "identity_center" \in Activated

StartIdentityCenterSession(q, actor, a, switch) ==
    /\ assumes[q] = NoAssume
    /\ RequireHuman(actor, <<"sso", "StartAccountSession">>)
    /\ CreateIdentityCenterSession(q, actor.human, a, IF switch THEN actor.console ELSE NoConsole)

----------------------------------------------------------------------------

(* A session of Identity Center that has ended with its assignment, its    *)
(* permission set or its group membership stays ended, even when an        *)
(* administrator makes the assignment or adds the member again.            *)
EndedStaysEnded ==
    [][\A s \in SessionIds :
          roleSessions[s] # NoRow /\ roleSessions'[s] # NoRow
              /\ ~LineageHolds(roleSessions[s].lineage)
          => ~LineageHolds(roleSessions[s].lineage)']_<<iamVars, centerVars>>

(* A managed role grants exactly what its permission set says now: its one *)
(* policy has the text of the set, nobody binds another one to it, bounds  *)
(* it or changes its trust.  The set may be edited while the role is made. *)
ManagedRolesFollowTheirSet ==
    \A k \in DOMAIN ManagedRole :
        LET r == ManagedRole[k] IN
        Managed(r) =>
            /\ SetIsLive(k[1]) => iamPolicies[ManagedPolicy[k]] = permissionSets[k[1]]
            /\ {b \in bindings : b[1] = r} = {<<r, ManagedPolicy[k]>>}
            /\ boundary[r] = NoPolicy
            /\ trust[r] = CenterTrust

(* An assignment in force can be used, unless the account has disabled its *)
(* role: its set and its group are there, and everyone it is for, also who *)
(* joined the group while it was made, is a member of the account, without *)
(* which no session starts.                                                *)
AssignmentsAreUsable ==
    \A a \in Assignment : InForce(a) =>
        /\ SetIsLive(a.set)
        /\ a.subject \in Crews => crews[a.subject] = "live"
        /\ \A human \in Humans : Through(a, human) # {} =>
               memberRole[[human |-> human, account |-> a.account]] # "none"
=============================================================================
