----------------------------- MODULE IamSystem -----------------------------
(***************************************************************************)
(* Cloud organization, policies, roles, Identity Center and workload       *)
(* identity together: every request of every authenticated actor, and the  *)
(* steps of the requests that are under way, in any order.                 *)
(***************************************************************************)
EXTENDS CloudAdministration, IdentityCenter, WorkloadIdentity

systemVars == <<cloudVars, roleVars, centerVars, assigning, workloadVars>>

SystemInit == IamInit /\ RolesInit /\ CenterInit /\ WorkloadInit

\* Requests come from browsers, role sessions, API keys and workload tokens.
SystemActors == AuthenticatedActors \cup KeyActors \cup WorkloadActors

\* A permission set has a role of its own in every account it can be assigned in.
Assignable == {a \in Assignment : <<a.set, a.account>> \in DOMAIN ManagedRole}

OrganizationRequests ==
    /\ \/ \E actor \in SystemActors :
              \/ \E p \in ScpNames : CreateServiceControlPolicy(actor, p)
              \/ \E h \in Handlers, t \in Targets, p \in ScpNames, attach \in BOOLEAN :
                     ModifyServiceControlPolicyAttachment(h, actor, t, p, attach)
              \/ \E h \in Handlers, parent \in Parents :
                     CreateCloudOrganizationalUnit(h, actor, parent)
              \/ \E a \in Members, parent \in Parents :
                     CreateCloudMemberAccount(actor, a, parent) \/ MoveCloudMemberAccount(actor, a, parent)
       \/ /\ \E h \in Handlers : ChangeAttachmentCommit(h) \/ AbandonChange(h)
                                 \/ \E u \in Units : CreateUnitInsert(h, u)
          /\ UNCHANGED iamVars
    /\ UNCHANGED <<assumes, centerVars, assigning, workloadVars>>

PolicyRequests ==
    /\ \E actor \in SystemActors :
           \/ \E d \in PolicyIds, text \in Texts : CreatePolicy(actor, d, text)
           \/ \E p \in Principals, d \in PolicyIds :
                  CreateBinding(actor, p, d) \/ DeleteBinding(actor, p, d)
           \/ \E g \in GroupNames :
                  \/ CreateIamGroup(actor, g) \/ DeleteIamGroup(actor, g)
                  \/ \E p \in UserPrincipals, add \in BOOLEAN : ChangeIamGroupMember(actor, g, p, add)
                  \/ \E d \in PolicyIds, attach \in BOOLEAN : ChangeIamGroupPolicy(actor, g, d, attach)
           \/ \E p \in Principals, d \in PolicyIds \cup {NoPolicy} :
                  ChangePermissionsBoundary(actor, p, d)
    /\ UNCHANGED <<cloudVars, centerVars, assigning, workloadVars>>

RoleRequests ==
    /\ \/ \E actor \in SystemActors :
              \/ \E r \in Roles, t \in Trusts :
                     CreateIamRole(actor, r, t) \/ UpdateIamRoleTrust(actor, r, t)
              \/ \E r \in Roles : DeleteIamRole(actor, r)
              \/ \E s \in SessionIds : RevokeIamRoleSession(actor, s)
              \/ \E q \in Callers, account \in AllAccounts, r \in Roles, text \in Texts \cup {NoText},
                    switch \in BOOLEAN : AssumeAuthorize(q, actor, account, r, text, switch)
       \/ \E q \in Callers :
              \/ AssumeFindRole(q) \/ AssumeCreate(q) \/ AssumeRejected(q)
              \/ AssumeSwitch(q) \/ AssumeRevoke(q) \/ AssumeAbandoned(q)
       \/ \E c \in Consoles : ExitBrowserRole(c) \/ Logout(c)
       \/ \E s \in SessionIds : ExpireRoleSession(s)
    /\ UNCHANGED <<cloudVars, centerVars, assigning, workloadVars>>

CenterRequests ==
    /\ \/ \E actor \in SystemActors :
              \/ \E s \in Sets, text \in Texts :
                     CreatePermissionSet(actor, s, text) \/ UpdatePermissionSet(actor, s, text)
              \/ \E s \in Sets : DeletePermissionSet(actor, s)
              \/ \E g \in Crews :
                     \/ CreateIdentityCenterGroup(actor, g) \/ DeleteIdentityCenterGroup(actor, g)
                     \/ \E human \in Humans, add \in BOOLEAN : GroupUser(actor, g, human, add)
              \/ \E a \in Assignable :
                     \/ \E q \in Assigners : CreateIdentityCenterAssignment(q, actor, a)
                     \/ RevokeIdentityCenterAssignment(actor, a)
                     \/ \E q \in Callers, switch \in BOOLEAN :
                            StartIdentityCenterSession(q, actor, a, switch)
       \/ \E q \in Assigners : AssignmentInsert(q) \/ AssignmentRolledBack(q)
    /\ UNCHANGED <<cloudVars, workloadVars>>

WorkloadRequests ==
    /\ \/ \E actor \in SystemActors :
              \/ \E k \in 1 .. MaxKeys, p \in Services : CreateApiKey(actor, k, p)
              \/ \E k \in 1 .. MaxKeys : RevokeApiKey(actor, k)
              \/ \E p \in Services \cup Roles, on \in BOOLEAN : SetServiceAccountEnabled(actor, p, on)
              \/ \E p \in Services \cup {NoService} : AttachTaskRole(actor, p)
       \/ \E state \in {"running", "stopped", "deleting"} : ChangeServiceState(state)
       \/ \E p \in PodIds : StartPod(p) \/ StopPod(p) \/ \E x \in Exchanges : ReviewToken(x, p)
       \/ \E x \in Exchanges : VerifyPod(x) \/ MintLock(x) \/ MintInsert(x) \/ ExchangeFails(x)
       \/ ExpireCredential
    /\ UNCHANGED <<cloudVars, assumes, centerVars, assigning>>

SystemNext ==
    OrganizationRequests \/ PolicyRequests \/ RoleRequests \/ CenterRequests \/ WorkloadRequests

SystemSpec == SystemInit /\ [][SystemNext]_systemVars
=============================================================================
