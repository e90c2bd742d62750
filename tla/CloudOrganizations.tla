------------------------- MODULE CloudOrganizations -------------------------
(***************************************************************************)
(* A cloud organization: the tree of organizational units, the member      *)
(* accounts in it, and the service control policies attached to the root,  *)
(* to units and to accounts.  The management account is not restricted.    *)
(* Names are left out.                                                     *)
(***************************************************************************)
EXTENDS IamPolicies

CONSTANTS
    Management,       \* the management account
    Members,          \* accounts that are or will be members
    Units,            \* organizational units that are or will be created
    Root,             \* the root of the tree
    NoUnit,           \* parent of what does not exist
    ScpNames,         \* service control policies
    FullAccess,       \* the managed policy of every organization
    ScpDocument,      \* the document of each policy
    Handlers,         \* requests under way
    Nobody,           \* holder of a lock that is free
    MaxDepth,         \* units below the root on any path: 5 in the code
    MaxAttached,      \* policies on one target: 10 in the code
    Activated         \* features that the operator has enabled for the fleet

ASSUME CloudAssumption ==
    /\ FullAccess \in ScpNames /\ IsFiniteSet(ScpNames)
    /\ MaxDepth \in Nat \ {0} /\ MaxAttached \in Nat \ {0}
    /\ Nobody \notin Handlers
    /\ Units \cap Members = {}
    /\ Root \notin Units \cup Members /\ NoUnit \notin Units \cup Members \cup {Root}

VARIABLES
    unitParent,       \* cloud_organizational_units: the parent of each unit
    accountParent,    \* cloud_organization_accounts: the unit of each account
    scps,             \* cloud_service_control_policies
    attached,         \* cloud_scp_unit_attachments, cloud_scp_account_attachments
    orgLock,          \* who holds the row of cloud_organizations FOR UPDATE
    orgRequests       \* changes under way

cloudVars == <<unitParent, accountParent, scps, attached, orgLock, orgRequests>>

Targets == {Root} \cup Units \cup Members
Parents == Units \cup {Root}
NoChange == [step |-> "idle"]

CloudTypeOK ==
    /\ unitParent \in [Units -> Parents \cup {NoUnit}]
    /\ accountParent \in [Members -> Parents \cup {NoUnit}]
    /\ scps \subseteq ScpNames
    /\ attached \in [Targets -> SUBSET ScpNames]
    /\ orgLock \in Handlers \cup {Nobody}
    /\ orgRequests \in [Handlers -> {NoChange}
           \cup [step: {"attachment"}, target: Targets, policy: ScpNames,
                 attach: BOOLEAN, count: 0 .. Cardinality(ScpNames)]
           \cup [step: {"unit"}, parent: Parents]]

\* One organization with its root and the first member account below it.
CloudInit ==
    /\ unitParent = [u \in Units |-> NoUnit]
    /\ \E first \in Members : accountParent = [a \in Members |-> IF a = first THEN Root ELSE NoUnit]
    /\ scps = {FullAccess}
    /\ attached = [t \in Targets |-> IF t = Root \/ (t \in Members /\ accountParent[t] = Root)
                                     THEN {FullAccess} ELSE {}]
    /\ orgLock = Nobody
    /\ orgRequests = [h \in Handlers |-> NoChange]

----------------------------------------------------------------------------

Exists(t) == \/ t = Root
             \/ t \in Units /\ unitParent[t] # NoUnit
             \/ t \in Members /\ accountParent[t] # NoUnit

\* A unit and the units above it, as the recursive queries collect them: the least set that
\* has the unit and, with each unit, its parent.
Climbs(S) == \A u \in S \cap Units : unitParent[u] \in S \cup {NoUnit}
Ancestors(unit) ==
    {x \in Parents : \A S \in SUBSET Parents : {unit} \cap Parents \subseteq S /\ Climbs(S) => x \in S}

\* The policies of every level above and at a member account.
ServiceControlLevels(account) ==
    IF "scp" \notin Activated \/ account = Management THEN {}
    ELSE {{ScpDocument[p] : p \in attached[t]} : t \in Ancestors(accountParent[account]) \cup {account}}

----------------------------------------------------------------------------

CreateServiceControlPolicyTx(policy) ==
    /\ policy \in ScpNames \ scps
    /\ scps' = scps \cup {policy}
    /\ UNCHANGED <<unitParent, accountParent, attached, orgLock, orgRequests>>

\* change_service_control_attachment locks the organization, then looks up
\* the target and counts its policies.
CanLock(h) == orgLock = Nobody

\* A lookup without FOR UPDATE.
DoesNotLock(h) == TRUE

LockOrganization(h) == CanLock(h)

ChangeAttachmentBegin(h, target, policy, attach) ==
    /\ orgRequests[h] = NoChange
    /\ LockOrganization(h)
    /\ Exists(target) /\ policy \in scps
    /\ orgLock' = h
    /\ orgRequests' = [orgRequests EXCEPT ![h] =
           [step |-> "attachment", target |-> target, policy |-> policy, attach |-> attach,
            count |-> Cardinality(attached[target])]]
    /\ UNCHANGED <<unitParent, accountParent, scps, attached>>

Full(r) == r.count >= MaxAttached /\ r.policy \notin attached[r.target]

ChangeAttachmentCommit(h) ==
    LET r == orgRequests[h] IN
    /\ r.step = "attachment"
    /\ orgRequests' = [orgRequests EXCEPT ![h] = NoChange]
    /\ orgLock' = IF orgLock = h THEN Nobody ELSE orgLock
    /\ attached' =
           IF r.attach /\ ~Full(r)
           THEN [attached EXCEPT ![r.target] = @ \cup {r.policy}]
           ELSE IF ~r.attach /\ r.count > 1
           THEN [attached EXCEPT ![r.target] = @ \ {r.policy}]
           ELSE attached
    /\ UNCHANGED <<unitParent, accountParent, scps>>

\* The depth of the parent is read by one statement and the unit inserted by
\* another; a trigger attaches the managed policy to the new unit.
CreateUnitCheck(h, parent) ==
    /\ orgRequests[h] = NoChange
    /\ Exists(parent) /\ parent \in Parents
    /\ Cardinality(Ancestors(parent)) <= MaxDepth
    /\ orgRequests' = [orgRequests EXCEPT ![h] = [step |-> "unit", parent |-> parent]]
    /\ UNCHANGED <<unitParent, accountParent, scps, attached, orgLock>>

CreateUnitInsert(h, unit) ==
    /\ orgRequests[h].step = "unit"
    /\ ~Exists(unit)
    /\ unitParent' = [unitParent EXCEPT ![unit] = orgRequests[h].parent]
    /\ attached' = [attached EXCEPT ![unit] = {FullAccess}]
    /\ orgRequests' = [orgRequests EXCEPT ![h] = NoChange]
    /\ UNCHANGED <<accountParent, scps, orgLock>>

\* The trigger's own organization of the new account is deleted before the
\* transaction commits; another trigger attaches the managed policy.
CreateMemberAccountTx(account, parent) ==
    /\ orgLock = Nobody
    /\ Exists(parent) /\ parent \in Parents
    /\ ~Exists(account)
    /\ accountParent' = [accountParent EXCEPT ![account] = parent]
    /\ attached' = [attached EXCEPT ![account] = {FullAccess}]
    /\ UNCHANGED <<unitParent, scps, orgLock, orgRequests>>

MoveMemberAccountTx(account, parent) ==
    /\ Exists(account) /\ Exists(parent) /\ parent \in Parents
    /\ accountParent' = [accountParent EXCEPT ![account] = parent]
    /\ UNCHANGED <<unitParent, scps, attached, orgLock, orgRequests>>

\* The connection of a request is lost: its transaction is rolled back.
AbandonChange(h) ==
    /\ orgRequests[h] # NoChange
    /\ orgRequests' = [orgRequests EXCEPT ![h] = NoChange]
    /\ orgLock' = IF orgLock = h THEN Nobody ELSE orgLock
    /\ UNCHANGED <<unitParent, accountParent, scps, attached>>

----------------------------------------------------------------------------

\* No level that exists is without a policy: an empty one would deny everything below it.
\* Two detaches that both counted two policies would empty a level
\* (change_service_control_attachment).
LevelsHavePolicies == \A t \in Targets : Exists(t) => attached[t] # {}

(* Every member account hangs below the root through existing units, no    *)
(* path is longer than the limit, and every level on it has a policy: an   *)
(* empty level would deny everything in the account, and a path that does  *)
(* not reach the root fails every request of it.  Two detaches that both   *)
(* counted two policies would empty a level.                               *)
EveryLevelIsGoverned ==
    /\ LevelsHavePolicies
    /\ \A t \in Targets : Exists(t) =>
          LET path == Ancestors(IF t \in Members THEN accountParent[t] ELSE t) IN
          Root \in path /\ Cardinality(path) <= MaxDepth + 1
=============================================================================
