-------------------------- MODULE WorkloadIdentity --------------------------
(***************************************************************************)
(* Service accounts, their API keys, and the tokens that the pods of a     *)
(* Flash service exchange their Kubernetes identity for.  An exchange asks *)
(* Kubernetes about the token and the pod, and then mints a token in a     *)
(* transaction that locks the service and the service account.  The        *)
(* service may be stopped, given another role or deleted, its pods         *)
(* replaced and the service account disabled at any moment between.        *)
(***************************************************************************)
EXTENDS IamTables

CONSTANTS
    NoService,        \* the task role of a service without one
    Exchanges,        \* exchanges under way together
    MaxPods,          \* bound: pods over time
    MaxWorkloadTokens,        \* bound: tokens minted
    MaxKeys,          \* bound: API keys
    PodTokens         \* tokens of one pod: 4096 in the code

ASSUME WorkloadAssumption == NoService \notin Services /\ MaxWorkloadTokens \in Nat

VARIABLES
    taskRole,         \* spec.task_role of the service
    serviceState,     \* of the service
    pods,             \* in Kubernetes: the annotation of each and whether it runs
    tokens,           \* workload_access_tokens
    lastToken,        \* ids given to them
    apiKeys,          \* api_keys
    exchanges         \* exchanges under way

workloadVars == <<taskRole, serviceState, pods, tokens, lastToken, apiKeys, exchanges>>

PodIds == 1 .. MaxPods
TokenIds == 1 .. MaxWorkloadTokens
NoPod == [running |-> FALSE, role |-> NoService]
NoExchange == [step |-> "idle"]

WorkloadTypeOK ==
    /\ taskRole \in Services \cup {NoService}
    /\ serviceState \in {"running", "stopped", "deleting"}
    /\ pods \in [PodIds -> [running: BOOLEAN, role: Services \cup {NoService}]]
    /\ tokens \in [TokenIds -> {NoRow} \cup [state: {"live", "expired"}, principal: Services,
                                              pod: PodIds]]
    /\ lastToken \in 0 .. MaxWorkloadTokens
    /\ apiKeys \in [1 .. MaxKeys -> {NoRow} \cup [state: {"live", "revoked", "expired"},
                                                  principal: Services]]
    /\ exchanges \in [Exchanges -> {NoExchange}
           \cup [step: {"reviewed"}, pod: PodIds]
           \cup [step: {"verified", "minting"}, pod: PodIds, role: Services]]

WorkloadInit ==
    /\ taskRole = NoService
    /\ serviceState = "running"
    /\ pods = [p \in PodIds |-> NoPod]
    /\ tokens = [t \in TokenIds |-> NoRow] /\ lastToken = 0
    /\ apiKeys = [k \in 1 .. MaxKeys |-> NoRow]
    /\ exchanges = [x \in Exchanges |-> NoExchange]

----------------------------------------------------------------------------
(* Who is calling.                                                         *)

\* authenticate_api_key
KeyActors ==
    {ServiceActor(apiKeys[k].principal) : k \in {k \in 1 .. MaxKeys :
        apiKeys[k] # NoRow /\ apiKeys[k].state = "live" /\ enabled[apiKeys[k].principal]}}

\* authenticate_workload_token: the attachment is checked on every request.
TokenIsAccepted(t) ==
    /\ tokens[t] # NoRow /\ tokens[t].state = "live"
    /\ enabled[tokens[t].principal]
    /\ serviceState = "running" /\ taskRole = tokens[t].principal

WorkloadActors == {ServiceActor(tokens[t].principal) : t \in {t \in TokenIds : TokenIsAccepted(t)}}

----------------------------------------------------------------------------
(* Service accounts and API keys.                                          *)

\* authorize_task_role: an enabled service account that the actor may pass.
AuthorizeTaskRole(actor, p) ==
    May(actor, HomeOf[p], <<"iam", "PassRole">>) /\ enabled[p]

CreateApiKeyTx(k, p) ==
    /\ apiKeys[k] = NoRow /\ enabled[p]
    /\ apiKeys' = [apiKeys EXCEPT ![k] = [state |-> "live", principal |-> p]]
    /\ UNCHANGED <<iamVars, taskRole, serviceState, pods, tokens, lastToken, exchanges>>

CreateApiKey(actor, k, p) ==
    /\ May(actor, HomeOf[p], <<"iam", "CreateApiKey">>)
    /\ AuthorizeTaskRole(actor, p)
    /\ CreateApiKeyTx(k, p)

RevokeApiKeyTx(k) ==
    /\ apiKeys[k].state # "revoked"
    /\ apiKeys' = [apiKeys EXCEPT ![k].state = "revoked"]
    /\ UNCHANGED <<iamVars, taskRole, serviceState, pods, tokens, lastToken, exchanges>>

RevokeApiKey(actor, k) ==
    /\ apiKeys[k] # NoRow
    /\ May(actor, HomeOf[apiKeys[k].principal], <<"iam", "RevokeApiKey">>)
    /\ RevokeApiKeyTx(k)

\* Row lock on the service account, held by a mint.
AccountUnlocked(p) ==
    \A x \in Exchanges : exchanges[x].step = "minting" => exchanges[x].role # p

\* A mint that locks the service only.
AccountNeverLocked(p) == TRUE

LockAccount(p) == AccountUnlocked(p)

\* The statement takes roles too, whose principals are of the same kind, those
\* of Identity Center included.  Disabling deletes the tokens of the account.
SetServiceAccountEnabledTx(p, on) ==
    /\ p \in Roles => RoleExists(p)
    /\ LockAccount(p)
    /\ enabled' = [enabled EXCEPT ![p] = on]
    /\ tokens' = IF on THEN tokens
                 ELSE [t \in TokenIds |-> IF tokens[t] # NoRow /\ tokens[t].principal = p
                                          THEN NoRow ELSE tokens[t]]
    /\ UNCHANGED <<memberRole, iamPolicies, bindings, iamGroups, groupMembers, groupPolicies,
                   boundary, trust, roleSessions, lastSession, active, taskRole, serviceState,
                   pods, lastToken, apiKeys, exchanges>>

SetServiceAccountEnabled(actor, p, on) ==
    /\ May(actor, HomeOf[p], <<"iam", "UpdatePrincipal">>)
    /\ SetServiceAccountEnabledTx(p, on)

----------------------------------------------------------------------------
(* The service and its pods.                                               *)

\* The update of a service with another task role; a mint locks its row.  The
\* role is authorized before the transaction that stores it: a service account
\* that is disabled in between is attached all the same, which leaves what
\* disabling it afterwards does.
ServiceUnlocked == \A x \in Exchanges : exchanges[x].step # "minting"

AttachTaskRole(actor, p) ==
    /\ ServiceUnlocked /\ serviceState # "deleting" /\ p # taskRole
    /\ p # NoService => AuthorizeTaskRole(actor, p)
    /\ taskRole' = p
    /\ UNCHANGED <<iamVars, serviceState, pods, tokens, lastToken, apiKeys, exchanges>>

ChangeServiceState(state) ==
    /\ ServiceUnlocked /\ serviceState # "deleting" /\ state # serviceState
    /\ serviceState' = state
    /\ UNCHANGED <<iamVars, taskRole, pods, tokens, lastToken, apiKeys, exchanges>>

\* Kubernetes starts a pod for the task role that the service has by then,
\* and stops pods.
StartPod(p) ==
    /\ pods[p] = NoPod /\ taskRole # NoService /\ serviceState = "running"
    /\ pods' = [pods EXCEPT ![p] = [running |-> TRUE, role |-> taskRole]]
    /\ UNCHANGED <<iamVars, taskRole, serviceState, tokens, lastToken, apiKeys, exchanges>>

StopPod(p) ==
    /\ pods[p].running
    /\ pods' = [pods EXCEPT ![p].running = FALSE]
    /\ UNCHANGED <<iamVars, taskRole, serviceState, tokens, lastToken, apiKeys, exchanges>>

----------------------------------------------------------------------------
(* The exchange.                                                           *)

Proceed(x, exchange) ==
    /\ exchanges' = [exchanges EXCEPT ![x] = exchange]
    /\ UNCHANGED <<iamVars, taskRole, serviceState, pods, apiKeys>>

\* The TokenReview: Kubernetes authenticates the token of a running pod.
ReviewToken(x, p) ==
    /\ exchanges[x] = NoExchange
    /\ pods[p].running
    /\ Proceed(x, [step |-> "reviewed", pod |-> p])
    /\ UNCHANGED <<tokens, lastToken>>

\* The pod is fetched; it must still run and is the one the token was for.
VerifyPod(x) ==
    /\ exchanges[x].step = "reviewed"
    /\ Proceed(x, IF pods[exchanges[x].pod].running
                  THEN [step |-> "verified", pod |-> exchanges[x].pod,
                        role |-> pods[exchanges[x].pod].role]
                  ELSE NoExchange)
    /\ UNCHANGED <<tokens, lastToken>>

\* mint_workload_token: the rows are locked and the attachment is checked,
MintLock(x) ==
    LET role == exchanges[x].role IN
    /\ exchanges[x].step = "verified"
    /\ ServiceUnlocked
    /\ Proceed(x, IF enabled[role] /\ serviceState = "running" /\ taskRole = role
                  THEN [exchanges[x] EXCEPT !.step = "minting"] ELSE NoExchange)
    /\ UNCHANGED <<tokens, lastToken>>

\* expired tokens are deleted, those of the pod counted, and one inserted.
MintInsert(x) ==
    LET role == exchanges[x].role
        kept == [t \in TokenIds |-> IF tokens[t] # NoRow /\ tokens[t].state = "expired"
                                    THEN NoRow ELSE tokens[t]]
        ofPod == {t \in TokenIds : kept[t] # NoRow /\ kept[t].pod = exchanges[x].pod}
        row == [state |-> "live", principal |-> role, pod |-> exchanges[x].pod]
    IN  /\ exchanges[x].step = "minting"
        /\ lastToken < MaxWorkloadTokens
        /\ IF Cardinality(ofPod) < PodTokens
           THEN /\ tokens' = [kept EXCEPT ![lastToken + 1] = row]
                /\ lastToken' = lastToken + 1
           ELSE UNCHANGED <<tokens, lastToken>>
        /\ Proceed(x, NoExchange)

\* Kubernetes does not answer in time, or the connection is lost.
ExchangeFails(x) ==
    /\ exchanges[x] # NoExchange
    /\ Proceed(x, NoExchange)
    /\ UNCHANGED <<tokens, lastToken>>

\* Time passes.
ExpireCredential ==
    /\ \/ \E t \in TokenIds : /\ tokens[t] # NoRow /\ tokens[t].state = "live"
                              /\ tokens' = [tokens EXCEPT ![t].state = "expired"]
                              /\ UNCHANGED apiKeys
       \/ \E k \in 1 .. MaxKeys : /\ apiKeys[k] # NoRow /\ apiKeys[k].state = "live"
                                  /\ apiKeys' = [apiKeys EXCEPT ![k].state = "expired"]
                                  /\ UNCHANGED tokens
    /\ UNCHANGED <<iamVars, taskRole, serviceState, pods, lastToken, exchanges>>

----------------------------------------------------------------------------

(* A token dies with the disabling of its service account: the table has   *)
(* no token of an account that is disabled, not one whose mint was under   *)
(* way either, so that enabling the account again revives none.            *)
DisabledTokensDie ==
    \A t \in TokenIds : tokens[t] # NoRow => enabled[tokens[t].principal]
=============================================================================
