----------------------------- MODULE FlowAccess -----------------------------
(***************************************************************************)
(* Developer credentials and access contexts of one Flow service.          *)
(*                                                                         *)
(* A developer credential is a long-lived secret.  With it an application  *)
(* mints access contexts: signed tokens that live five minutes at most and *)
(* that Flow accepts without asking HeteroCloud.  Revoking or rotating a   *)
(* credential revokes its contexts, and an outbox event per context tells  *)
(* Flow.  A transaction is one step; minting is two, because the handler   *)
(* authorizes the issuer before the transaction begins.                    *)
(***************************************************************************)
EXTENDS Naturals, FiniteSets

CONSTANTS
    Credentials,     \* identities of developer credentials
    Permissions,     \* what a context may allow
    Minters,         \* requests that mint at the same time
    MaxContexts,     \* bound: contexts issued
    MaxSecrets,      \* bound: secrets of one credential
    CredentialLimit, \* max_developer_credentials_per_service
    HistoryLimit     \* MAX_FLOW_ACCESS_CONTEXT_RECORDS_PER_SERVICE

ASSUME FlowAssumption == MaxSecrets \in Nat \ {0}

ContextIds == 1 .. MaxContexts

VARIABLES
    flowState,      \* state of the service row, "absent" once it is removed
    issuerActions,  \* what IAM allows the issuer today
    devCredentials, \* table flow_developer_credentials
    contexts,       \* table flow_access_contexts
    tokens,         \* signed contexts and how old they are
    minting,        \* authorized mint requests before their transaction
    revocations,    \* principal-context.revoke events of the outbox
    flowDenied      \* contexts that Flow refuses

flowVars == <<flowState, issuerActions, devCredentials, contexts, tokens,
              minting, revocations, flowDenied>>

\* realtime:IssueAccessCredential, asked for whatever the permissions are.
IssueAction == "issue"

NoRow == [kind |-> "none"]
Idle == [kind |-> "idle"]
NoCredential == "direct"

CredentialRow == [kind: {"credential"}, secret: 1 .. MaxSecrets,
                  permissions: SUBSET Permissions, revoked: BOOLEAN, expired: BOOLEAN]
ContextRow == [kind: {"context"}, credential: Credentials \cup {NoCredential},
               revoked: BOOLEAN]
\* A token lives, has expired, or has been expired for longer than the grace
\* period after which Flow needs no revocation.
Token == [age: {"unissued", "live", "expired", "past"},
          credential: Credentials \cup {NoCredential}, secret: 0 .. MaxSecrets,
          permissions: SUBSET Permissions]

FlowTypeOK ==
    /\ flowState \in {"ready", "busy", "deleting", "absent"}
    /\ issuerActions \in SUBSET (Permissions \cup {IssueAction})
    /\ devCredentials \in [Credentials -> CredentialRow \cup {NoRow}]
    /\ contexts \in [ContextIds -> ContextRow \cup {NoRow}]
    /\ tokens \in [ContextIds -> Token]
    /\ minting \in [Minters -> {Idle} \cup [kind: {"mint"}, credential: Credentials,
                       secret: 1 .. MaxSecrets, permissions: SUBSET Permissions]]
    /\ revocations \in [ContextIds -> {"none", "pending", "delivered"}]
    /\ flowDenied \in SUBSET ContextIds

FlowInit ==
    /\ flowState = "ready"
    /\ issuerActions = Permissions \cup {IssueAction}
    /\ devCredentials = [c \in Credentials |-> NoRow]
    /\ contexts = [x \in ContextIds |-> NoRow]
    /\ tokens = [x \in ContextIds |-> [age |-> "unissued", credential |-> NoCredential,
                                       secret |-> 0, permissions |-> {}]]
    /\ minting = [r \in Minters |-> Idle]
    /\ revocations = [x \in ContextIds |-> "none"]
    /\ flowDenied = {}
-----------------------------------------------------------------------------
\* The condition every query on an active credential repeats: not revoked and
\* expires_at > now().
ActiveCredential(c) ==
    /\ devCredentials[c] # NoRow
    /\ ~devCredentials[c].revoked
    /\ ~devCredentials[c].expired

\* The secret of a presented credential is the stored one (prefix and hash).
Presents(c, s) == ActiveCredential(c) /\ devCredentials[c].secret = s

\* validate_flow_permissions: some permission, each one known.
ValidFlowPermissions(perms) == perms # {} /\ perms \subseteq Permissions

\* An IAM decision for issuing and for each permission.
IssuerMay(perms) == perms \cup {IssueAction} \subseteq issuerActions

\* The handlers that create a credential first look the service up.
RealtimeService == flowState # "absent"

\* prune_flow_access_context_history: of the rows older than the newest
\* HistoryLimit, those that are revoked or expired.
Prune(rows) ==
    LET Newer(x) == {y \in ContextIds : y > x /\ rows[y] # NoRow}
        Prunable(x) == /\ rows[x] # NoRow
                       /\ Cardinality(Newer(x)) >= HistoryLimit
                       /\ rows[x].revoked \/ tokens[x].age \in {"expired", "past"}
    IN  [x \in ContextIds |-> IF Prunable(x) THEN NoRow ELSE rows[x]]

\* cascade_flow_developer_credential_contexts: the credential's contexts that are
\* neither revoked nor expired.
LiveContexts(c) ==
    {x \in ContextIds : /\ contexts[x] # NoRow
                        /\ contexts[x].credential = c
                        /\ ~contexts[x].revoked
                        /\ tokens[x].age = "live"}

\* revoked_at of the rows and one event for each of them, in one transaction.
RevokeContexts(xs) ==
    /\ contexts' = [x \in ContextIds |->
                       IF x \in xs THEN [contexts[x] EXCEPT !.revoked = TRUE]
                                   ELSE contexts[x]]
    /\ revocations' = [x \in ContextIds |->
                          IF x \in xs THEN "pending" ELSE revocations[x]]
-----------------------------------------------------------------------------

\* Store::create_flow_developer_credential, under the tenant's lock.
InsertDeveloperCredential(c, perms) ==
    /\ devCredentials[c] = NoRow
    /\ Cardinality({d \in Credentials : ActiveCredential(d)}) < CredentialLimit
    /\ devCredentials' = [devCredentials EXCEPT ![c] =
           [kind |-> "credential", secret |-> 1, permissions |-> perms,
            revoked |-> FALSE, expired |-> FALSE]]

\* POST developer-credentials.
CreateRealtimeDeveloperCredential(c, perms) ==
    /\ ValidFlowPermissions(perms)
    /\ RealtimeService
    /\ IssuerMay(perms)
    /\ InsertDeveloperCredential(c, perms)
    /\ UNCHANGED <<flowState, issuerActions, contexts, tokens, minting, revocations, flowDenied>>

\* DELETE developer-credentials/{id}; again is allowed and cascades again.
RevokeFlowDeveloperCredential(c) ==
    /\ devCredentials[c] # NoRow
    /\ devCredentials' = [devCredentials EXCEPT ![c].revoked = TRUE]
    /\ RevokeContexts(LiveContexts(c))

RevokeRealtimeDeveloperCredential(c) ==
    /\ RealtimeService
    /\ IssueAction \in issuerActions
    /\ RevokeFlowDeveloperCredential(c)
    /\ UNCHANGED <<flowState, issuerActions, tokens, minting, flowDenied>>

\* Store::rotate_flow_developer_credential: a new secret, and the contexts that
\* were minted with the old one are revoked.
RotateFlowDeveloperCredential(c) ==
    /\ ActiveCredential(c)
    /\ devCredentials[c].secret < MaxSecrets
    /\ devCredentials' = [devCredentials EXCEPT ![c].secret = @ + 1]
    /\ RevokeContexts(LiveContexts(c))

RotateRealtimeDeveloperCredential(c) ==
    /\ RealtimeService
    /\ devCredentials[c] # NoRow
    /\ IssuerMay(devCredentials[c].permissions)
    /\ RotateFlowDeveloperCredential(c)
    /\ UNCHANGED <<flowState, issuerActions, tokens, minting, flowDenied>>
-----------------------------------------------------------------------------
\* FlowAccessSigner::sign: from now on somebody holds the token.
Sign(x, c, s, perms) ==
    tokens' = [tokens EXCEPT ![x] = [age |-> "live", credential |-> c, secret |-> s,
                                     permissions |-> perms]]

InsertContext(x, c) ==
    contexts' = Prune([contexts EXCEPT ![x] =
                          [kind |-> "context", credential |-> c, revoked |-> FALSE]])

\* Store::record_flow_access_context: the insert only succeeds on a ready service.
RecordFlowAccessContext(x) ==
    /\ flowState = "ready"
    /\ InsertContext(x, NoCredential)

\* POST access-credentials by a member: signed first, handed out once it is recorded.
CreateRealtimeAccessCredential(x, perms) ==
    /\ ValidFlowPermissions(perms)
    /\ tokens[x].age = "unissued"
    /\ IssuerMay(perms)
    /\ RecordFlowAccessContext(x)
    /\ Sign(x, NoCredential, 0, perms)
    /\ UNCHANGED <<flowState, issuerActions, devCredentials, minting, revocations, flowDenied>>

\* POST flow/v1/access-credentials with a developer credential: the issuer's present
\* permissions are evaluated before the transaction.
AuthorizeFlowDeveloperCredential(r, c, perms) ==
    /\ minting[r] = Idle
    /\ ValidFlowPermissions(perms)
    /\ ActiveCredential(c)
    /\ IssuerMay(perms)
    /\ minting' = [minting EXCEPT ![r] = [kind |-> "mint", credential |-> c,
                       secret |-> devCredentials[c].secret, permissions |-> perms]]
    /\ UNCHANGED <<flowState, issuerActions, devCredentials, contexts, tokens, revocations,
                   flowDenied>>

\* Mutant: the credential that was authorized is not looked up again.
MintAuthorized(m) ==
    /\ devCredentials[m.credential] # NoRow
    /\ flowState = "ready"
    /\ m.permissions \subseteq devCredentials[m.credential].permissions

\* Store::mint_flow_access_context_with_developer_credential looks the credential up
\* again and keeps its row locked.
MintAccepted(m) ==
    /\ Presents(m.credential, m.secret)
    /\ flowState = "ready"
    /\ m.permissions \subseteq devCredentials[m.credential].permissions

MintFlowAccessContext(r, x) ==
    LET m == minting[r]
    IN  /\ m # Idle
        /\ MintAccepted(m)
        /\ tokens[x].age = "unissued"
        /\ InsertContext(x, m.credential)
        /\ Sign(x, m.credential, m.secret, m.permissions)
        /\ minting' = [minting EXCEPT ![r] = Idle]
        /\ UNCHANGED <<flowState, issuerActions, devCredentials, revocations, flowDenied>>

\* InvalidCredential, ServiceInstanceNotReady, PermissionDenied, or a lost request.
MintRefused(r) ==
    /\ minting[r] # Idle
    /\ minting' = [minting EXCEPT ![r] = Idle]
    /\ UNCHANGED <<flowState, issuerActions, devCredentials, contexts, tokens, revocations,
                   flowDenied>>

\* Store::revoke_flow_access_context, by a member.
RevokeFlowAccessContext(x) ==
    /\ contexts[x] # NoRow
    /\ ~contexts[x].revoked
    /\ RevokeContexts({x})

RevokeRealtimeAccessContext(x) ==
    /\ RealtimeService
    /\ IssueAction \in issuerActions
    /\ RevokeFlowAccessContext(x)
    /\ UNCHANGED <<flowState, issuerActions, devCredentials, tokens, minting, flowDenied>>

\* Store::revoke_flow_access_context_with_developer_credential: only a context that
\* the presented credential minted.
OwnContext(c, x) ==
    /\ ActiveCredential(c)
    /\ contexts[x] # NoRow
    /\ contexts[x].credential = c

RevokeDeveloperAccessContext(c, x) ==
    /\ IssuerMay({})
    /\ OwnContext(c, x)
    /\ RevokeFlowAccessContext(x)
    /\ UNCHANGED <<flowState, issuerActions, devCredentials, tokens, minting, flowDenied>>
-----------------------------------------------------------------------------
\* Mutant: without the check an event of a removed service is retried for ever.
RevocationNeverExpires(x) == FALSE

\* The worker: expires_at plus the grace period has passed, nothing is sent.
RevocationExpired(x) == tokens[x].age = "past"

DropRevocation(x) ==
    /\ revocations[x] = "pending"
    /\ RevocationExpired(x)
    /\ revocations' = [revocations EXCEPT ![x] = "delivered"]
    /\ UNCHANGED <<flowState, issuerActions, devCredentials, contexts, tokens, minting, flowDenied>>

\* The PUT to Flow; a service that is gone answers 404, which is retried.  When the
\* answer is lost, or the worker stops before it acknowledges, the event stays.
DeliverPrincipalContextRevocation(x, answered) ==
    /\ revocations[x] = "pending"
    /\ ~RevocationExpired(x)
    /\ flowState # "absent"
    /\ flowDenied' = flowDenied \cup {x}
    /\ revocations' = [revocations EXCEPT ![x] = IF answered THEN "delivered" ELSE @]
    /\ UNCHANGED <<flowState, issuerActions, devCredentials, contexts, tokens, minting>>

\* The rest of the service's life (ServiceLifecycle); removing the row removes the
\* credentials and the contexts (ON DELETE CASCADE), not the events.
FlowServiceChanges(st) ==
    /\ <<flowState, st>> \in {<<"ready", "busy">>, <<"busy", "ready">>, <<"ready", "deleting">>,
                              <<"busy", "deleting">>, <<"deleting", "absent">>}
    /\ flowState' = st
    /\ IF st = "absent"
       THEN /\ devCredentials' = [c \in Credentials |-> NoRow]
            /\ contexts' = [x \in ContextIds |-> NoRow]
       ELSE UNCHANGED <<devCredentials, contexts>>
    /\ UNCHANGED <<issuerActions, tokens, minting, revocations, flowDenied>>

\* Policies, boundaries and memberships of the issuer change.
IssuerChanges(a) ==
    /\ issuerActions' = a
    /\ UNCHANGED <<flowState, devCredentials, contexts, tokens, minting, revocations, flowDenied>>

ContextAges(x) ==
    /\ tokens[x].age \in {"live", "expired"}
    /\ tokens' = [tokens EXCEPT ![x].age = IF @ = "live" THEN "expired" ELSE "past"]
    /\ UNCHANGED <<flowState, issuerActions, devCredentials, contexts, minting, revocations,
                   flowDenied>>

CredentialExpires(c) ==
    /\ devCredentials[c] # NoRow
    /\ ~devCredentials[c].expired
    /\ devCredentials' = [devCredentials EXCEPT ![c].expired = TRUE]
    /\ UNCHANGED <<flowState, issuerActions, contexts, tokens, minting, revocations, flowDenied>>

FlowNext ==
    \/ \E c \in Credentials, perms \in SUBSET Permissions :
          CreateRealtimeDeveloperCredential(c, perms)
    \/ \E c \in Credentials : RevokeRealtimeDeveloperCredential(c)
    \/ \E c \in Credentials : RotateRealtimeDeveloperCredential(c)
    \/ \E x \in ContextIds, perms \in SUBSET Permissions : CreateRealtimeAccessCredential(x, perms)
    \/ \E r \in Minters, c \in Credentials, perms \in SUBSET Permissions :
          AuthorizeFlowDeveloperCredential(r, c, perms)
    \/ \E r \in Minters, x \in ContextIds : MintFlowAccessContext(r, x)
    \/ \E r \in Minters : MintRefused(r)
    \/ \E x \in ContextIds : RevokeRealtimeAccessContext(x)
    \/ \E c \in Credentials, x \in ContextIds : RevokeDeveloperAccessContext(c, x)
    \/ \E x \in ContextIds : DropRevocation(x)
    \/ \E x \in ContextIds, answered \in BOOLEAN :
          DeliverPrincipalContextRevocation(x, answered)
    \/ \E st \in {"ready", "busy", "deleting", "absent"} : FlowServiceChanges(st)
    \/ \E a \in SUBSET (Permissions \cup {IssueAction}) : IssuerChanges(a)
    \/ \E x \in ContextIds : ContextAges(x)
    \/ \E c \in Credentials : CredentialExpires(c)

FlowSpec == FlowInit /\ [][FlowNext]_flowVars
-----------------------------------------------------------------------------
\* Flow refuses the context, or will be told to.
Withdrawn(x) == x \in flowDenied \/ revocations[x] = "pending"

\* Every token that Flow still accepts and nobody has asked it to refuse stands for
\* what the tables say: its row is there, so that an operator can revoke it, and is not
\* revoked; and when it came from a developer credential, that credential is not
\* revoked, has the secret the token was minted with, and allows what the token allows.
\* A mint that was authorized before a revocation or rotation and commits after it, and
\* the pruning of the history by other mints, must not break this.
LiveAccessIsCurrent ==
    flowState # "absent" =>
        \A x \in ContextIds :
            LET t == tokens[x]
            IN  t.age = "live" /\ ~Withdrawn(x) =>
                    /\ contexts[x] # NoRow
                    /\ ~contexts[x].revoked
                    /\ t.credential # NoCredential =>
                          /\ devCredentials[t.credential] # NoRow
                          /\ ~devCredentials[t.credential].revoked
                          /\ devCredentials[t.credential].secret = t.secret
                          /\ t.permissions \subseteq devCredentials[t.credential].permissions

\* A revocation is carried out: its event is acknowledged, and by then Flow refuses the
\* context or the context has been expired for the grace period.  The worker may fail,
\* lose answers, or find that Flow no longer has the service.
RevocationTakesEffect ==
    \A x \in ContextIds :
        revocations[x] = "pending" ~>
            revocations[x] = "delivered" /\ (x \in flowDenied \/ tokens[x].age = "past")
=============================================================================
