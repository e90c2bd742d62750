---------------------------- MODULE DeviceLogin ----------------------------
(***************************************************************************)
(* Login of the command line client.  The client asks for a device code,   *)
(* its user approves the code in a browser, and the client polls until the *)
(* code can be exchanged for an access token, which it keeps in a file.    *)
(* Answers may be lost, polls may be repeated (by a proxy, or by a second  *)
(* copy of the client), and rows are purged once they have expired.        *)
(***************************************************************************)
EXTENDS Naturals, FiniteSets

CONSTANTS
    Codes,       \* device codes, each with its user code
    Tenants,     \* organizations
    People,      \* users
    Terminals,   \* client processes that share one credentials file
    MaxTokens    \* bound: access tokens

VARIABLES
    people,      \* who may log in: active users
    tenancy,     \* table organization_memberships
    deviceCodes, \* table cli_device_authorizations
    cliTokens,   \* table cli_access_tokens
    terminals,   \* client processes
    savedLogin,  \* the profile in credentials.json
    approvals    \* history: who approved which code

deviceVars == <<people, tenancy, deviceCodes, cliTokens, terminals, savedLogin, approvals>>

NoCode == [status |-> "none"]
NoCliToken == [state |-> "none"]
NoPerson == "nobody"
Waiting == [step |-> "idle"]
NothingSaved == [token |-> 0]

CodeRow == [status: {"pending", "approved", "consumed"}, tenant: Tenants,
            user: People \cup {NoPerson}, polled: BOOLEAN, expired: BOOLEAN]
CliTokenRow == [state: {"live", "revoked", "expired"}, code: Codes, user: People,
                tenant: Tenants]

DeviceTypeOK ==
    /\ people \subseteq People
    /\ tenancy \subseteq Tenants \X People
    /\ deviceCodes \in [Codes -> {NoCode} \cup CodeRow]
    /\ cliTokens \in [1 .. MaxTokens -> {NoCliToken} \cup CliTokenRow]
    /\ terminals \in [Terminals -> {Waiting}
           \cup [step: {"polling"}, code: Codes, tenant: Tenants]
           \cup [step: {"issued", "logout", "revoked"}, token: 1 .. MaxTokens, tenant: Tenants]]
    /\ savedLogin \in {NothingSaved} \cup
           [token: 1 .. MaxTokens, tenant: Tenants, user: People]
    /\ approvals \subseteq Codes \X People

DeviceInit ==
    /\ people = People
    /\ tenancy \in SUBSET (Tenants \X People)
    /\ deviceCodes = [c \in Codes |-> NoCode]
    /\ cliTokens = [k \in 1 .. MaxTokens |-> NoCliToken]
    /\ terminals = [p \in Terminals |-> Waiting]
    /\ savedLogin = NothingSaved
    /\ approvals = {}

-----------------------------------------------------------------------------
\* create_cli_device_authorization (and create_invitation) remove what has expired;
\* tokens go a week after they were revoked or expired.
PurgedCodes == [c \in Codes |->
    IF deviceCodes[c] # NoCode /\ deviceCodes[c].expired THEN NoCode ELSE deviceCodes[c]]

CreateCliDeviceAuthorization(c, o) ==
    deviceCodes' = [PurgedCodes EXCEPT ![c] =
        [status |-> "pending", tenant |-> o, user |-> NoPerson, polled |-> FALSE,
         expired |-> FALSE]]

\* A code is random: one that was in use is not drawn again.
FreshCode(c) ==
    /\ deviceCodes[c] = NoCode
    /\ \A k \in 1 .. MaxTokens : cliTokens[k] # NoCliToken => cliTokens[k].code # c
    /\ \A p \in Terminals : terminals[p].step = "polling" => terminals[p].code # c
    /\ \A a \in approvals : a[1] # c

\* `heterocloud auth login`: the code is asked for and shown to the user.
StartLogin(p, c, o) ==
    /\ terminals[p] = Waiting
    /\ FreshCode(c)
    /\ CreateCliDeviceAuthorization(c, o)
    /\ terminals' = [terminals EXCEPT ![p] = [step |-> "polling", code |-> c, tenant |-> o]]
    /\ UNCHANGED <<people, tenancy, cliTokens, savedLogin, approvals>>

\* The purge at the start of create_invitation.
CreateInvitationPurges ==
    /\ deviceCodes' = PurgedCodes
    /\ deviceCodes' # deviceCodes
    /\ UNCHANGED <<people, tenancy, cliTokens, terminals, savedLogin, approvals>>

CodeExpires(c) ==
    /\ deviceCodes[c] # NoCode
    /\ ~deviceCodes[c].expired
    /\ deviceCodes' = [deviceCodes EXCEPT ![c].expired = TRUE]
    /\ UNCHANGED <<people, tenancy, cliTokens, terminals, savedLogin, approvals>>

\* Store::approve_cli_device_authorization, with the row locked.
ApproveDevice(c, u) ==
    /\ deviceCodes[c] # NoCode
    /\ ~deviceCodes[c].expired
    /\ deviceCodes[c].status = "pending"
    /\ <<deviceCodes[c].tenant, u>> \in tenancy
    /\ deviceCodes' = [deviceCodes EXCEPT ![c].status = "approved", ![c].user = u]

\* POST of the user code by a user whose browser session is live.
ApproveCliDeviceAuthorization(c, u) ==
    /\ u \in people
    /\ ApproveDevice(c, u)
    /\ approvals' = approvals \cup {<<c, u>>}
    /\ UNCHANGED <<people, tenancy, cliTokens, terminals, savedLogin>>

-----------------------------------------------------------------------------
\* The outcome of a poll: polled means last_polled_at is within the interval.
ExchangeOutcome(c) ==
    LET d == deviceCodes[c]
    IN  CASE d = NoCode \/ d.status = "consumed" -> "invalid"
          [] d # NoCode /\ d.expired -> "expired"
          [] d.polled -> "slow_down"
          [] d.status = "pending" -> "pending"
          [] d.status = "approved" /\ <<d.tenant, d.user>> \notin tenancy -> "denied"
          [] OTHER -> "issued"

FreshToken(k) ==
    /\ cliTokens[k] = NoCliToken
    /\ \A j \in 1 .. k - 1 : cliTokens[j] # NoCliToken

\* Mutant: the code stays approved.
IssueWithoutConsuming(c, k) ==
    /\ FreshToken(k)
    /\ cliTokens' = [cliTokens EXCEPT ![k] = [state |-> "live", code |-> c,
                        user |-> deviceCodes[c].user, tenant |-> deviceCodes[c].tenant]]
    /\ deviceCodes' = [deviceCodes EXCEPT ![c].polled = TRUE]

\* Issued: a token for the user who approved, and the code is consumed.
IssueCliToken(c, k) ==
    /\ FreshToken(k)
    /\ cliTokens' = [cliTokens EXCEPT ![k] = [state |-> "live", code |-> c,
                        user |-> deviceCodes[c].user, tenant |-> deviceCodes[c].tenant]]
    /\ deviceCodes' = [deviceCodes EXCEPT ![c].status = "consumed", ![c].polled = TRUE]

\* A poll reaches the API; when the answer gets lost the client gives up.
PollIssued(p, k, answered) ==
    LET c == terminals[p].code
    IN  /\ terminals[p].step = "polling"
        /\ ExchangeOutcome(c) = "issued"
        /\ IssueCliToken(c, k)
        /\ terminals' = [terminals EXCEPT ![p] =
               IF answered THEN [step |-> "issued", token |-> k, tenant |-> terminals[p].tenant]
                           ELSE Waiting]
        /\ UNCHANGED <<people, tenancy, savedLogin, approvals>>

\* authorization_pending is written down as a poll; slow_down is not.
PollAgain(p) ==
    LET c == terminals[p].code
    IN  /\ terminals[p].step = "polling"
        /\ ExchangeOutcome(c) = "pending"
        /\ deviceCodes' = [deviceCodes EXCEPT ![c].polled = TRUE]
        /\ UNCHANGED <<people, tenancy, cliTokens, terminals, savedLogin, approvals>>

\* A copy of the poll (sent twice, or by somebody else who knows the code).
DuplicatePoll(c, k) ==
    /\ ExchangeOutcome(c) = "issued"
    /\ IssueCliToken(c, k)
    /\ UNCHANGED <<people, tenancy, terminals, savedLogin, approvals>>

PollIntervalPasses(c) ==
    /\ deviceCodes[c] # NoCode
    /\ deviceCodes[c].polled
    /\ deviceCodes' = [deviceCodes EXCEPT ![c].polled = FALSE]
    /\ UNCHANGED <<people, tenancy, cliTokens, terminals, savedLogin, approvals>>

\* Any other answer, no answer, or the deadline: the client stops with an error.
LoginFails(p) ==
    /\ terminals[p].step = "polling"
    /\ terminals' = [terminals EXCEPT ![p] = Waiting]
    /\ UNCHANGED <<people, tenancy, deviceCodes, cliTokens, savedLogin, approvals>>

-----------------------------------------------------------------------------
\* authenticate_cli_access_token.
CliTokenAccepted(k) ==
    LET t == cliTokens[k]
    IN  /\ t.state = "live"
        /\ t.user \in people
        /\ <<t.tenant, t.user>> \in tenancy

\* read_credential_file.
StoredProfile == savedLogin

\* A new file, moved over the old one.
WriteCredentialFile(profile) == savedLogin' = profile

\* The answer to fetch_session: the token is accepted and for the right organization.
FetchSession(k, o) == CliTokenAccepted(k) /\ cliTokens[k].tenant = o

\* The client asks the API who it is before it saves the token.
SaveLogin(p) ==
    LET k == terminals[p].token
    IN  /\ terminals[p].step = "issued"
        /\ terminals' = [terminals EXCEPT ![p] = Waiting]
        /\ IF FetchSession(k, terminals[p].tenant)
           THEN WriteCredentialFile([token |-> k, tenant |-> terminals[p].tenant,
                                     user |-> cliTokens[k].user])
           ELSE UNCHANGED savedLogin
        /\ UNCHANGED <<people, tenancy, deviceCodes, cliTokens, approvals>>

\* `heterocloud auth logout` loads the profile ..
LoadStoredCredential(p) ==
    /\ terminals[p] = Waiting
    /\ StoredProfile # NothingSaved
    /\ terminals' = [terminals EXCEPT ![p] =
           [step |-> "logout", token |-> StoredProfile.token, tenant |-> StoredProfile.tenant]]
    /\ UNCHANGED <<people, tenancy, deviceCodes, cliTokens, savedLogin, approvals>>

\* revoke_cli_access_token.
RevokeCliAccessToken(k) ==
    cliTokens' = [cliTokens EXCEPT ![k].state = IF @ = "live" THEN "revoked" ELSE @]

\* .. revokes the token (a token that is no longer accepted is 401, which will do; no
\* answer will not) ..
CliLogout(p, answered) ==
    LET k == terminals[p].token
    IN  /\ terminals[p].step = "logout"
        /\ IF CliTokenAccepted(k) THEN RevokeCliAccessToken(k) ELSE UNCHANGED cliTokens
        /\ terminals' = [terminals EXCEPT ![p] =
               IF answered THEN [terminals[p] EXCEPT !.step = "revoked"] ELSE Waiting]
        /\ UNCHANGED <<people, tenancy, deviceCodes, savedLogin, approvals>>

\* .. and removes whatever the profile of the endpoint is by now.
RemoveStoredCredential(p) ==
    /\ terminals[p].step = "revoked"
    /\ WriteCredentialFile(NothingSaved)
    /\ terminals' = [terminals EXCEPT ![p] = Waiting]
    /\ UNCHANGED <<people, tenancy, deviceCodes, cliTokens, approvals>>

CliTokenExpires(k) ==
    /\ cliTokens[k].state = "live"
    /\ cliTokens' = [cliTokens EXCEPT ![k].state = "expired"]
    /\ UNCHANGED <<people, tenancy, deviceCodes, terminals, savedLogin, approvals>>

\* A user is suspended, or leaves or joins an organization.
PeopleChange(ps, ts) ==
    /\ <<ps, ts>> # <<people, tenancy>>
    /\ people' = ps
    /\ tenancy' = ts
    /\ UNCHANGED <<deviceCodes, cliTokens, terminals, savedLogin, approvals>>

DeviceNext ==
    \/ \E p \in Terminals, c \in Codes, o \in Tenants : StartLogin(p, c, o)
    \/ CreateInvitationPurges
    \/ \E c \in Codes : CodeExpires(c)
    \/ \E c \in Codes, u \in People : ApproveCliDeviceAuthorization(c, u)
    \/ \E p \in Terminals, k \in 1 .. MaxTokens, answered \in BOOLEAN :
          PollIssued(p, k, answered)
    \/ \E p \in Terminals : PollAgain(p)
    \/ \E c \in Codes, k \in 1 .. MaxTokens : DuplicatePoll(c, k)
    \/ \E c \in Codes : PollIntervalPasses(c)
    \/ \E p \in Terminals : LoginFails(p)
    \/ \E p \in Terminals : SaveLogin(p)
    \/ \E p \in Terminals : LoadStoredCredential(p)
    \/ \E p \in Terminals, answered \in BOOLEAN : CliLogout(p, answered)
    \/ \E p \in Terminals : RemoveStoredCredential(p)
    \/ \E k \in 1 .. MaxTokens : CliTokenExpires(k)
    \/ \E ps \in SUBSET People, ts \in SUBSET (Tenants \X People) : PeopleChange(ps, ts)

DeviceSpec == DeviceInit /\ [][DeviceNext]_deviceVars

-----------------------------------------------------------------------------
\* Every access token stands for one approval: the user it acts for approved the code it
\* was exchanged for, no other token came from that code, and a login that was saved
\* names the organization and the user of its token.  Polls that race each other, a
\* purge between approval and exchange, and late answers must not break this.
TokenWasApproved ==
    /\ \A j, k \in 1 .. MaxTokens :
          cliTokens[k] # NoCliToken =>
              /\ <<cliTokens[k].code, cliTokens[k].user>> \in approvals
              /\ cliTokens[j] # NoCliToken /\ cliTokens[j].code = cliTokens[k].code => j = k
    /\ savedLogin # NothingSaved =>
          /\ cliTokens[savedLogin.token].tenant = savedLogin.tenant
          /\ cliTokens[savedLogin.token].user = savedLogin.user
=============================================================================
