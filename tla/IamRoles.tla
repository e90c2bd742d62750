------------------------------ MODULE IamRoles ------------------------------
(***************************************************************************)
(* Operations on policies, groups, boundaries and roles, and the request   *)
(* that assumes a role: it authorizes the caller, reads the role and its   *)
(* trust, stores a session, and, for a browser, switches the browser to    *)
(* it.  Other requests, and the end of the session, fall between any two   *)
(* of these.                                                               *)
(***************************************************************************)
EXTENDS IamTables

CONSTANTS
    Callers,          \* requests to assume a role that are under way together
    MaxActive         \* live sessions of one role: 1000 in the code

VARIABLE assumes      \* those requests

roleVars == <<iamVars, assumes>>

NoAssume == [step |-> "idle"]
Assumed == [source: Principals, role: Roles, policy: Texts \cup {NoText},
            console: Consoles \cup {NoConsole}, previous: {0} \cup SessionIds]

\* A request, with the trust it has read and the session it has made.
AssumeTypeOK ==
    assumes \in [Callers -> {NoAssume}
        \cup [step: {"authorized"}, ask: Assumed]
        \cup [step: {"trusted"}, ask: Assumed, trust: Trusts]
        \cup [step: {"created", "revoking"}, ask: Assumed, session: SessionIds]]

RolesInit == assumes = [q \in Callers |-> NoAssume]
----------------------------------------------------------------------------
(* Policies, bindings, groups and boundaries.  The operations ending in Tx *)
(* are the statements of the store; the others are the route handlers.     *)

CreatePolicyTx(d, text) ==
    /\ iamPolicies[d] = NoText
    /\ iamPolicies' = [iamPolicies EXCEPT ![d] = text]
    /\ UNCHANGED <<memberRole, enabled, bindings, iamGroups, groupMembers, groupPolicies,
                   boundary, trust, roleSessions, lastSession, active, assumes>>

CreatePolicy(actor, d, text) ==
    /\ ValidDocument(PolicyText[text])
    /\ \A k \in DOMAIN ManagedPolicy : ManagedPolicy[k] # d
    /\ May(actor, PolicyHome[d], <<"iam", "CreatePolicy">>)
    /\ CreatePolicyTx(d, text)

PrincipalExists(p) ==
    CASE p \in Roles -> RoleExists(p)
      [] p \in Services -> TRUE
      [] OTHER -> memberRole[p] # "none"

\* A binding of a principal to a policy of the same account.
CanBind(p, d) ==
    /\ PrincipalExists(p) /\ iamPolicies[d] # NoText
    /\ PrincipalAccount(p) = PolicyHome[d]
    /\ ~Managed(p)

BindingAccepted(p, d) == CanBind(p, d)

CreateBindingTx(p, d) ==
    /\ BindingAccepted(p, d)
    /\ bindings' = bindings \cup {<<p, d>>}
    /\ UNCHANGED <<memberRole, enabled, iamPolicies, iamGroups, groupMembers, groupPolicies,
                   boundary, trust, roleSessions, lastSession, active, assumes>>

CreateBinding(actor, p, d) ==
    /\ May(actor, PolicyHome[d], <<"iam", "CreateBinding">>)
    /\ CreateBindingTx(p, d)

DeleteBindingTx(p, d) ==
    /\ <<p, d>> \in bindings /\ ~Managed(p)
    /\ bindings' = bindings \ {<<p, d>>}
    /\ UNCHANGED <<memberRole, enabled, iamPolicies, iamGroups, groupMembers, groupPolicies,
                   boundary, trust, roleSessions, lastSession, active, assumes>>

DeleteBinding(actor, p, d) ==
    /\ May(actor, PolicyHome[d], <<"iam", "DeleteBinding">>)
    /\ DeleteBindingTx(p, d)

\* Groups are of the management account here.
CreateIamGroupTx(g) ==
    /\ g \notin iamGroups
    /\ iamGroups' = iamGroups \cup {g}
    /\ UNCHANGED <<memberRole, enabled, iamPolicies, bindings, groupMembers, groupPolicies,
                   boundary, trust, roleSessions, lastSession, active, assumes>>

CreateIamGroup(actor, g) ==
    /\ May(actor, Management, <<"iam", "CreateGroup">>) /\ "scp" \in Activated
    /\ CreateIamGroupTx(g)

\* Only an empty group is deleted.
DeleteIamGroupTx(g) ==
    /\ g \in iamGroups
    /\ \A m \in groupMembers \cup groupPolicies : m[1] # g
    /\ iamGroups' = iamGroups \ {g}
    /\ UNCHANGED <<memberRole, enabled, iamPolicies, bindings, groupMembers, groupPolicies,
                   boundary, trust, roleSessions, lastSession, active, assumes>>

DeleteIamGroup(actor, g) ==
    /\ May(actor, Management, <<"iam", "DeleteGroup">>) /\ "scp" \in Activated
    /\ DeleteIamGroupTx(g)

\* Adding requires that the row is not there, removing that it is.
Toggled(rows, row, add) ==
    IF add THEN row \notin rows ELSE row \in rows

Toggle(rows, row, add) == IF add THEN rows \cup {row} ELSE rows \ {row}

ChangeIamGroupMemberTx(g, p, add) ==
    /\ add => g \in iamGroups /\ PrincipalExists(p) /\ p.account = Management
    /\ Toggled(groupMembers, <<g, p>>, add)
    /\ groupMembers' = Toggle(groupMembers, <<g, p>>, add)
    /\ UNCHANGED <<memberRole, enabled, iamPolicies, bindings, iamGroups, groupPolicies,
                   boundary, trust, roleSessions, lastSession, active, assumes>>

ChangeIamGroupMember(actor, g, p, add) ==
    /\ May(actor, Management,
           IF add THEN <<"iam", "AddUserToGroup">> ELSE <<"iam", "RemoveUserFromGroup">>)
    /\ "scp" \in Activated
    /\ ChangeIamGroupMemberTx(g, p, add)

ChangeIamGroupPolicyTx(g, d, attach) ==
    /\ attach => g \in iamGroups /\ iamPolicies[d] # NoText /\ PolicyHome[d] = Management
    /\ Toggled(groupPolicies, <<g, d>>, attach)
    /\ groupPolicies' = Toggle(groupPolicies, <<g, d>>, attach)
    /\ UNCHANGED <<memberRole, enabled, iamPolicies, bindings, iamGroups, groupMembers,
                   boundary, trust, roleSessions, lastSession, active, assumes>>

ChangeIamGroupPolicy(actor, g, d, attach) ==
    /\ May(actor, Management,
           IF attach THEN <<"iam", "AttachGroupPolicy">> ELSE <<"iam", "DetachGroupPolicy">>)
    /\ "scp" \in Activated
    /\ ChangeIamGroupPolicyTx(g, d, attach)

SetPermissionsBoundaryTx(p, d) ==
    /\ PrincipalExists(p) /\ ~Managed(p)
    /\ d # NoPolicy => iamPolicies[d] # NoText /\ PolicyHome[d] = PrincipalAccount(p)
    /\ boundary' = [boundary EXCEPT ![p] = d]
    /\ UNCHANGED <<memberRole, enabled, iamPolicies, bindings, iamGroups, groupMembers,
                   groupPolicies, trust, roleSessions, lastSession, active, assumes>>

ChangePermissionsBoundary(actor, p, d) ==
    /\ May(actor, PrincipalAccount(p),
           IF d # NoPolicy THEN <<"iam", "PutPermissionsBoundary">>
           ELSE <<"iam", "DeletePermissionsBoundary">>)
    /\ "scp" \in Activated
    /\ SetPermissionsBoundaryTx(p, d)
----------------------------------------------------------------------------
(* Roles.                                                                  *)

RequireRolesEnabled == "roles" \in Activated

CreateIamRoleTx(r, t) ==
    /\ trust[r] = NoTrust
    /\ trust' = [trust EXCEPT ![r] = t]
    /\ UNCHANGED <<memberRole, enabled, iamPolicies, bindings, iamGroups, groupMembers,
                   groupPolicies, boundary, roleSessions, lastSession, active, assumes>>

CreateIamRole(actor, r, t) ==
    /\ ValidTrust(TrustText[t])
    /\ \A k \in DOMAIN ManagedRole : ManagedRole[k] # r
    /\ May(actor, HomeOf[r], <<"iam", "CreateRole">>) /\ RequireRolesEnabled
    /\ CreateIamRoleTx(r, t)

UpdateIamRoleTrustTx(r, t) ==
    /\ RoleExists(r) /\ ~Managed(r)
    /\ trust' = [trust EXCEPT ![r] = t]
    /\ UNCHANGED <<memberRole, enabled, iamPolicies, bindings, iamGroups, groupMembers,
                   groupPolicies, boundary, roleSessions, lastSession, active, assumes>>

UpdateIamRoleTrust(actor, r, t) ==
    /\ ValidTrust(TrustText[t])
    /\ May(actor, HomeOf[r], <<"iam", "UpdateAssumeRolePolicy">>) /\ RequireRolesEnabled
    /\ UpdateIamRoleTrustTx(r, t)

SessionsOf(r) == {s \in SessionIds : roleSessions[s] # NoRow /\ roleSessions[s].role = r}

\* Policies, live sessions and browsers that act in the role keep it, even
\* browsers whose session has ended.
InUse(r) ==
    \/ \E b \in bindings : b[1] = r
    \/ \E s \in SessionsOf(r) : roleSessions[s].state = "live"
    \/ \E c \in Consoles : active[c] \in SessionsOf(r)

\* The rows of its sessions go with the role.
DeleteIamRoleTx(r) ==
    /\ RoleExists(r) /\ ~Managed(r)
    /\ ~InUse(r)
    /\ trust' = [trust EXCEPT ![r] = Gone]
    /\ boundary' = [boundary EXCEPT ![r] = NoPolicy]
    /\ roleSessions' = [s \in SessionIds |-> IF s \in SessionsOf(r) THEN NoRow ELSE roleSessions[s]]
    /\ UNCHANGED <<memberRole, enabled, iamPolicies, bindings, iamGroups, groupMembers,
                   groupPolicies, lastSession, active, assumes>>

DeleteIamRole(actor, r) ==
    /\ May(actor, HomeOf[r], <<"iam", "DeleteRole">>) /\ RequireRolesEnabled
    /\ DeleteIamRoleTx(r)

Revoked(s) == [roleSessions EXCEPT ![s] =
                  IF @ # NoRow /\ @.state = "live" THEN [@ EXCEPT !.state = "revoked"] ELSE @]

RevokeIamRoleSession(actor, s) ==
    /\ roleSessions[s] # NoRow /\ roleSessions[s].state = "live"
    /\ May(actor, HomeOf[roleSessions[s].role], <<"iam", "RevokeRoleSession">>)
    /\ RequireRolesEnabled
    /\ roleSessions' = Revoked(s)
    /\ UNCHANGED <<memberRole, enabled, iamPolicies, bindings, iamGroups, groupMembers,
                   groupPolicies, boundary, trust, lastSession, active, assumes>>

\* Time passes.
ExpireRoleSession(s) ==
    /\ roleSessions[s] # NoRow /\ roleSessions[s].state = "live"
    /\ roleSessions' = [roleSessions EXCEPT ![s].state = "expired"]
    /\ UNCHANGED <<memberRole, enabled, iamPolicies, bindings, iamGroups, groupMembers,
                   groupPolicies, boundary, trust, lastSession, active, assumes>>
----------------------------------------------------------------------------
(* Assuming a role.                                                        *)

Step(q, request) ==
    /\ assumes' = [assumes EXCEPT ![q] = request]
    /\ UNCHANGED <<memberRole, enabled, iamPolicies, bindings, iamGroups, groupMembers,
                   groupPolicies, boundary, trust, lastSession>>

\* A session that Identity Center started cannot assume another role.  A
\* browser that switches names the role it is in, which its request carries.
AssumeAuthorize(q, actor, account, r, text, switch) ==
    /\ assumes[q] = NoAssume
    /\ actor.kind = "role" => roleSessions[actor.session].lineage = NoAssignment
    /\ RequireRolesEnabled
    /\ switch => "browser_roles" \in Activated /\ actor.console # NoConsole
    /\ \E context \in AuthorizeActor(actor, account, <<"sts", "AssumeRole">>) :
           Step(q, [step |-> "authorized",
                    ask |-> [source |-> context.principal, role |-> r, policy |-> text,
                             console |-> IF switch THEN actor.console ELSE NoConsole,
                             previous |-> IF switch /\ actor.kind = "role"
                                          THEN actor.session ELSE 0]])
    /\ UNCHANGED <<roleSessions, active>>

AssumeFindRole(q) ==
    LET r == assumes[q].ask.role IN
    /\ assumes[q].step = "authorized"
    /\ IF /\ RoleExists(r) /\ ~Managed(r)
          /\ TrustPermits(TrustText[trust[r]], PrincipalAccount(assumes[q].ask.source),
                          assumes[q].ask.source)
       THEN Step(q, [step |-> "trusted", ask |-> assumes[q].ask, trust |-> trust[r]])
       ELSE Step(q, NoAssume)
    /\ UNCHANGED <<roleSessions, active>>

\* Sessions that ended long ago are deleted unless a browser refers to them.
Discarded(r) ==
    SUBSET {s \in SessionsOf(r) : roleSessions[s].state # "live" /\ \A c \in Consoles : active[c] # s}

\* The role is locked; its trust must still be the one that was evaluated.
TrustUnchanged(r, seen) == trust[r] = seen

\* Without expected_trust_policy.
TrustNotCompared(r, seen) == TRUE

TrustIsExpected(r, seen) == TrustUnchanged(r, seen)

SessionAccepted(r, seen) ==
    /\ RoleExists(r) /\ enabled[r]
    /\ TrustIsExpected(r, seen)
    /\ Cardinality({s \in SessionsOf(r) : roleSessions[s].state = "live"}) < MaxActive

\* create_iam_role_session; the secret is handed out unless a browser switches.
AssumeCreate(q) ==
    LET ask == assumes[q].ask
        s == lastSession + 1
        row == [state |-> "live", role |-> ask.role, source |-> ask.source, policy |-> ask.policy,
                console |-> ask.console # NoConsole, held |-> FALSE, lineage |-> NoAssignment]
    IN  /\ assumes[q].step = "trusted"
        /\ s \in SessionIds
        /\ SessionAccepted(ask.role, assumes[q].trust)
        /\ \E old \in Discarded(ask.role) :
               roleSessions' = [t \in SessionIds |-> IF t = s THEN row
                                    ELSE IF t \in old THEN NoRow ELSE roleSessions[t]]
        /\ lastSession' = s
        /\ assumes' = [assumes EXCEPT ![q] = IF ask.console = NoConsole THEN NoAssume
                           ELSE [step |-> "created", ask |-> ask, session |-> s]]
        /\ UNCHANGED <<memberRole, enabled, iamPolicies, bindings, iamGroups, groupMembers,
                       groupPolicies, boundary, trust, active>>

AssumeRejected(q) ==
    /\ assumes[q].step = "trusted"
    /\ ~SessionAccepted(assumes[q].ask.role, assumes[q].trust)
    /\ Step(q, NoAssume)
    /\ UNCHANGED <<roleSessions, active>>

\* switch_browser_role: the browser must still be in the role that the
\* request came from, and that role and the new one must be usable.
Usable(s) == /\ roleSessions[s] # NoRow /\ roleSessions[s].state = "live"
             /\ enabled[roleSessions[s].role]

SwitchAccepted(c, expected, s) ==
    /\ active[c] = expected
    /\ expected # 0 => Usable(expected)
    /\ Usable(s)

\* Without the comparison with the role that the request came from.
SwitchOfAnyRole(c, expected, s) ==
    /\ active[c] # LoggedOut
    /\ expected # 0 => Usable(expected)
    /\ Usable(s)

CanSwitch(c, expected, s) == SwitchAccepted(c, expected, s)

Switched(c, expected, s) ==
    LET ended == IF expected = 0 THEN roleSessions ELSE Revoked(expected) IN
    /\ active' = [active EXCEPT ![c] = s]
    /\ roleSessions' = [ended EXCEPT ![s].held = TRUE]

AssumeSwitch(q) ==
    LET ask == assumes[q].ask IN
    /\ assumes[q].step = "created"
    /\ IF CanSwitch(ask.console, ask.previous, assumes[q].session)
       THEN /\ Switched(ask.console, ask.previous, assumes[q].session)
            /\ Step(q, NoAssume)
       ELSE /\ UNCHANGED <<roleSessions, active>>
            /\ Step(q, [assumes[q] EXCEPT !.step = "revoking"])

AssumeRevoke(q) ==
    /\ assumes[q].step = "revoking"
    /\ roleSessions' = Revoked(assumes[q].session)
    /\ Step(q, NoAssume)
    /\ UNCHANGED active

\* The client or the replica goes away between two calls to the database.
AssumeAbandoned(q) ==
    /\ assumes[q] # NoAssume
    /\ Step(q, NoAssume)
    /\ UNCHANGED <<roleSessions, active>>

ClearBrowserRole(c) ==
    /\ active' = [active EXCEPT ![c] = 0]
    /\ roleSessions' = Revoked(active[c])
    /\ UNCHANGED <<memberRole, enabled, iamPolicies, bindings, iamGroups, groupMembers,
                   groupPolicies, boundary, trust, lastSession, assumes>>

ExitBrowserRole(c) == active[c] \in SessionIds /\ ClearBrowserRole(c)

\* delete_session.  The role session of the browser is not revoked: it lasts
\* until it expires, and nobody has its secret.
Logout(c) ==
    /\ active[c] # LoggedOut
    /\ active' = [active EXCEPT ![c] = LoggedOut]
    /\ roleSessions' = [s \in SessionIds |-> IF s = active[c] /\ roleSessions[s] # NoRow
                            THEN [roleSessions[s] EXCEPT !.held = FALSE] ELSE roleSessions[s]]
    /\ UNCHANGED <<memberRole, enabled, iamPolicies, bindings, iamGroups, groupMembers,
                   groupPolicies, boundary, trust, lastSession, assumes>>
----------------------------------------------------------------------------

(* A session is stored only while the trust policy of its role permits the *)
(* principal it is made for: the trust that the request evaluated may have *)
(* been replaced before the session is inserted.                           *)
SessionWasTrusted ==
    [][\A s \in SessionIds :
          roleSessions[s] = NoRow /\ roleSessions'[s] # NoRow =>
              TrustPermits(TrustText[trust'[roleSessions'[s].role]],
                           PrincipalAccount(roleSessions'[s].source), roleSessions'[s].source)]_<<roleSessions, trust>>

(* A browser that leaves a role ends its session, unless it logs out: the  *)
(* session it was in is revoked together with the switch to the next role  *)
(* or with the exit.  A session that a browser has switched to and that is *)
(* usable is the role of a browser still, however many switches of it,     *)
(* exits and revocations are under way at once; a switch that is left      *)
(* behind by another would leave a live session that no browser can end,   *)
(* and that counts against the limit of its role.                          *)
LeftRolesEnd ==
    \A s \in SessionIds : roleSessions[s] # NoRow /\ roleSessions[s].held /\ SessionIsLive(s)
        => \E c \in Consoles : active[c] = s
=============================================================================
