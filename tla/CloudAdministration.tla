------------------------ MODULE CloudAdministration ------------------------
(***************************************************************************)
(* The requests that change a cloud organization: who may, and which of    *)
(* the transactions of CloudOrganizations they start.                      *)
(***************************************************************************)
EXTENDS IamTables

MayAdminister(actor, action) == May(actor, Management, <<"organizations", action>>)

RequireServiceControlEnabled == "scp" \in Activated

CreateServiceControlPolicy(actor, policy) ==
    /\ ValidDocument(ScpDocument[policy])
    /\ MayAdminister(actor, "CreatePolicy") /\ RequireServiceControlEnabled
    /\ CreateServiceControlPolicyTx(policy)
    /\ UNCHANGED iamVars

ModifyServiceControlPolicyAttachment(h, actor, target, policy, attach) ==
    /\ MayAdminister(actor, IF attach THEN "AttachPolicy" ELSE "DetachPolicy")
    /\ RequireServiceControlEnabled
    /\ ChangeAttachmentBegin(h, target, policy, attach)
    /\ UNCHANGED iamVars

CreateCloudOrganizationalUnit(h, actor, parent) ==
    /\ MayAdminister(actor, "CreateOrganizationalUnit")
    /\ CreateUnitCheck(h, parent)
    /\ UNCHANGED iamVars

\* Only a person creates an account, and owns it.
CreateCloudMemberAccount(actor, account, parent) ==
    /\ MayAdminister(actor, "CreateAccount")
    /\ actor.kind = "user"
    /\ CreateMemberAccountTx(account, parent)
    /\ memberRole' = [memberRole EXCEPT ![[human |-> actor.human, account |-> account]] = "owner"]
    /\ UNCHANGED <<enabled, iamPolicies, bindings, iamGroups, groupMembers, groupPolicies,
                   boundary, trust, roleSessions, lastSession, active>>

MoveCloudMemberAccount(actor, account, parent) ==
    /\ MayAdminister(actor, "MoveAccount")
    /\ MoveMemberAccountTx(account, parent)
    /\ UNCHANGED iamVars
=============================================================================
