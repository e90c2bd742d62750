----------------------------- MODULE MCAccount -----------------------------
(***************************************************************************)
(* What an account administers, for TLC.  A behaviour is about one part:   *)
(* the tree of the cloud organization, policies and groups, roles,         *)
(* Identity Center, workload identity, SSH keys or custom domains.         *)
(***************************************************************************)
EXTENDS IamSystem, SshAccess, CustomDomains, TLC

CONSTANTS alice, home, branch, office, c1, c2, c3, task, reader, granted, bound, inBranch, ofSet,
    unit, second

\* The names stand for rows of the tables they are used with.
ASSUME RunAssumption ==
    /\ home = Management /\ branch \in Members /\ unit \in Targets
    /\ alice \in Humans /\ c1 \in Consoles /\ task \in Services /\ {reader, office} \subseteq Roles
    /\ {granted, bound, inBranch} \subseteq PolicyIds /\ {"everything", "assume"} \subseteq Texts
    /\ {"everyone", "owner"} \subseteq Trusts
    /\ \A s \in Sets : <<s, branch>> \in DOMAIN ManagedRole

VARIABLE part

serviceVars == <<sshVars, domainVars>>
vars == <<cloudVars, roleVars, centerVars, assigning, workloadVars, serviceVars, part>>

----------------------------------------------------------------------------
(* Values of the constants.                                                *)

Statement(effect, actions) ==
    [effect |-> effect, actions |-> actions, notActions |-> {}, resources |-> {<<"*">>},
     notResources |-> {}, conditions |-> {}]

Documents == [everything |-> {Statement("Allow", {<<"*">>})},
              assume |-> {Statement("Allow", {<<"sts", "*">>}),
                          Statement("Deny", {<<"iam", "?">>})}]

TrustDocuments ==
    LET Trusted(who) == {[effect |-> "Allow", actions |-> {<<"sts", "AssumeRole">>},
                          principals |-> {who}]}
    IN [everyone |-> Trusted([kind |-> "everyone", id |-> home]),
        account |-> Trusted([kind |-> "account", id |-> home]),
        owner |-> Trusted([kind |-> "identity", id |-> [human |-> Owner, account |-> home]])]

Controls == [p \in ScpNames |-> IF p = FullAccess THEN Documents.everything ELSE Documents.assume]
Browsers == [c \in Consoles |-> IF c = c2 THEN alice ELSE Owner]
Homes == [p \in Services \cup Roles |-> IF p \in Services THEN home ELSE branch]
PolicyHomes == [d \in PolicyIds |-> IF d \in {inBranch, ofSet} THEN branch ELSE home]
SetRoles == [k \in Sets \X {branch} |-> office]
SetPolicies == [k \in Sets \X {branch} |-> ofSet]

----------------------------------------------------------------------------
(* The pure algorithms against what they mean, over every small input.     *)

Words(symbols, longest) == UNION {[1 .. n -> symbols] : n \in 0 .. longest}

\* The loop of pattern_matches, which goes back to the last star only, finds
\* a match whenever there is one.
ASSUME WildcardIsGlob ==
    \A pattern \in Words({"a", "b", "*", "?"}, 4), value \in Words({"a", "b"}, 4) :
        PatternMatches(pattern, value) = Glob(pattern, value)

\* Whatever the order in which the layers are applied, a request is allowed
\* when the identity (or an administrator) and every limit allow it and
\* nothing denies it: the boundary, each level of the organization and the
\* policy of the session can only take away.
ASSUME DecisionIsIntersection ==
    LET request == [same |-> TRUE, action |-> <<"iam", "x">>, resource |-> <<"r">>, at |-> 0]
        texts == {{Statement("Allow", {<<"*">>})}, {Statement("Allow", {<<"sts", "*">>})},
                  {Statement("Allow", {<<"*">>}), Statement("Deny", {<<"iam", "?">>})}}
        Allowed(policies) == /\ Effective("Allow", request, policies)
                             /\ ~Effective("Deny", request, policies)
    IN \A policies \in SUBSET texts, administrator \in BOOLEAN,
          bounds \in {{}} \cup {{d} : d \in texts}, session \in {{}} \cup {{d} : d \in texts},
          levels \in {{x, y} : x, y \in SUBSET texts} \cup {{}} :
          LET identity == AuthorizeWithAdministrator(request, policies, administrator)
              limited == EnforcePermissionsBoundary(request, identity, bounds)
              controlled == EnforceServiceControlPolicies(request, limited, levels)
              decided == EnforceSessionPolicy(request, controlled, session)
          IN  (decided.decision = "allow") <=>
                  /\ Allowed(policies) \/ (administrator /\ ~Effective("Deny", request, policies))
                  /\ \A limit \in {x \in {bounds, session} : x # {}} \cup levels : Allowed(limit)

----------------------------------------------------------------------------

Init ==
    /\ part \in {"organization", "policies", "roles", "center", "workload",
                 "ssh", "domains"}
    /\ IamInit /\ accountParent[branch] = Root /\ RolesInit /\ CenterInit /\ WorkloadInit
    /\ SshInit /\ DomainInit

\* The second browser of the owner administers roles while the first one
\* acts in a role, and has no part elsewhere.
Acting == {actor \in AuthenticatedActors : part # "roles" => actor.console # c3}

Human(h) == [human |-> h, account |-> home]

OrganizationStep ==
    /\ part = "organization"
    /\ \/ \E actor \in Acting :
              \/ \E p \in ScpNames : CreateServiceControlPolicy(actor, p)
              \/ \E h \in Handlers, p \in ScpNames, attach \in BOOLEAN :
                     ModifyServiceControlPolicyAttachment(h, actor, unit, p, attach)
              \/ \E h \in Handlers, parent \in Parents :
                     CreateCloudOrganizationalUnit(h, actor, parent)
              \/ \E a \in Members, parent \in Parents :
                     CreateCloudMemberAccount(actor, a, parent) \/ MoveCloudMemberAccount(actor, a, parent)
       \/ /\ \E h \in Handlers : ChangeAttachmentCommit(h) \/ AbandonChange(h)
                                 \/ \E u \in Units : CreateUnitInsert(h, u)
          /\ UNCHANGED iamVars
    /\ UNCHANGED <<assumes, centerVars, assigning, workloadVars, serviceVars, part>>

PoliciesStep ==
    /\ part = "policies"
    /\ \E actor \in Acting :
           \/ \E d \in {granted, bound}, text \in Texts : CreatePolicy(actor, d, text)
           \/ \E d \in {granted, bound} : \/ CreateBinding(actor, Human(alice), d)
                                          \/ DeleteBinding(actor, Human(alice), d)
           \/ \E g \in GroupNames :
                  \/ CreateIamGroup(actor, g) \/ DeleteIamGroup(actor, g)
                  \/ \E h \in Humans, add \in BOOLEAN : ChangeIamGroupMember(actor, g, Human(h), add)
                  \/ \E d \in {granted, bound}, attach \in BOOLEAN :
                         ChangeIamGroupPolicy(actor, g, d, attach)
           \/ \E d \in {bound, NoPolicy} : ChangePermissionsBoundary(actor, Human(alice), d)
    /\ UNCHANGED <<cloudVars, centerVars, assigning, workloadVars, serviceVars, part>>

\* The browser that acts in roles may log out.
BrowserStep ==
    \/ \E q \in Callers : AssumeSwitch(q) \/ AssumeRevoke(q) \/ AssumeAbandoned(q)
    \/ \E c \in Consoles : ExitBrowserRole(c)
    \/ part = "roles" /\ Logout(c1)

\* An administrator of the account disables a role that has had a session, or
\* enables it again.
DisableStep(r) ==
    /\ lastSession > 0
    /\ \E actor \in Acting, on \in BOOLEAN :
           on # enabled[r] /\ SetServiceAccountEnabled(actor, r, on)
    /\ UNCHANGED assumes

RolesStep ==
    /\ part = "roles"
    /\ \/ \E actor \in Acting :
              \/ CreatePolicy(actor, inBranch, "everything")
              \/ CreateBinding(actor, reader, inBranch) \/ DeleteBinding(actor, reader, inBranch)
              \/ \E t \in {"everyone", "owner"} :
                     CreateIamRole(actor, reader, t) \/ UpdateIamRoleTrust(actor, reader, t)
              \/ DeleteIamRole(actor, reader)
              \/ \E s \in SessionIds : RevokeIamRoleSession(actor, s)
              \/ \E q \in Callers, switch \in BOOLEAN :
                     actor.console # c3 /\ AssumeAuthorize(q, actor, IF actor.kind = "user" THEN home ELSE branch,
                                     reader, IF switch THEN NoText ELSE "assume", switch)
       \/ \E q \in Callers : AssumeFindRole(q) \/ AssumeCreate(q) \/ AssumeRejected(q)
       \/ BrowserStep
       \/ DisableStep(reader)
    /\ UNCHANGED <<cloudVars, centerVars, assigning, workloadVars, serviceVars, part>>

\* One session is started.  Requests to bind a policy or a boundary to the
\* managed role are refused.
CenterStep ==
    /\ part = "center"
    /\ \/ \E actor \in Acting :
              \/ \E s \in Sets, text \in Texts :
                     \/ iamPolicies[inBranch] # NoText /\ CreatePermissionSet(actor, s, text)
                     \/ UpdatePermissionSet(actor, s, text)
              \/ \E s \in Sets : DeletePermissionSet(actor, s)
              \/ \E g \in Crews :
                     \/ CreateIdentityCenterGroup(actor, g) \/ DeleteIdentityCenterGroup(actor, g)
                     \/ \E add \in BOOLEAN : GroupUser(actor, g, alice, add)
              \/ \E a \in Assignment : /\ a.account = branch /\ a.subject # Owner
                                       /\ \/ \E q \in Assigners : CreateIdentityCenterAssignment(q, actor, a)
                                          \/ RevokeIdentityCenterAssignment(actor, a)
                                          \/ \E q \in Callers, switch \in BOOLEAN :
                                                 /\ lastSession = 0
                                                 /\ StartIdentityCenterSession(q, actor, a, switch)
       \/ \E q \in Assigners : AssignmentInsert(q) \/ AssignmentRolledBack(q)
       \/ /\ \/ BrowserStep
             \/ \E s \in SessionIds : ExpireRoleSession(s)
             \/ DisableStep(office)
             \/ \E actor \in Acting :
                    \/ CreatePolicy(actor, inBranch, "everything")
                    \/ CreateBinding(actor, office, inBranch)
                    \/ ChangePermissionsBoundary(actor, office, inBranch)
          /\ UNCHANGED <<centerVars, assigning>>
    /\ UNCHANGED <<cloudVars, workloadVars, serviceVars, part>>

WorkloadStep ==
    /\ part = "workload"
    /\ \/ \E actor \in Acting \cup KeyActors \cup WorkloadActors :
              \/ \E k \in 1 .. MaxKeys : CreateApiKey(actor, k, task) \/ RevokeApiKey(actor, k)
              \/ \E on \in BOOLEAN : SetServiceAccountEnabled(actor, task, on)
              \/ \E p \in Services \cup {NoService} : AttachTaskRole(actor, p)
       \/ \E state \in {"running", "stopped", "deleting"} : ChangeServiceState(state)
       \/ \E p \in PodIds : StartPod(p) \/ StopPod(p) \/ \E x \in Exchanges : ReviewToken(x, p)
       \/ \E x \in Exchanges : VerifyPod(x) \/ MintLock(x) \/ MintInsert(x) \/ ExchangeFails(x)
       \/ ExpireCredential
    /\ UNCHANGED <<cloudVars, assumes, centerVars, assigning, serviceVars, part>>

ServiceStep ==
    /\ \/ part = "ssh" /\ SshNext /\ UNCHANGED domainVars
       \/ part = "domains" /\ DomainNext /\ UNCHANGED sshVars
    /\ UNCHANGED <<cloudVars, roleVars, centerVars, assigning, workloadVars, part>>

Next ==
    \/ OrganizationStep \/ PoliciesStep \/ RolesStep \/ CenterStep \/ WorkloadStep
    \/ ServiceStep

\* The interval of a running channel ticks.  The domain reconcilers tick for ever
\* and carry on with what they have read, and a provider that does not always
\* fail for a host name succeeds some time.
Fairness ==
    /\ \A d \in ChannelIds : WF_sshVars(Recheck(d))
    /\ \A r \in DomainReplicas :
           /\ WF_domainVars(ReplicaCarriesOn(r))
           /\ \A h \in Hosts \ FailingHosts : SF_domainVars(ProviderSucceeds(r, h))

Spec == Init /\ [][Next]_vars /\ Fairness
=============================================================================
