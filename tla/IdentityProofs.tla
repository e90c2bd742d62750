--------------------------- MODULE IdentityProofs ---------------------------
(***************************************************************************)
(* Logins: device codes of the command line client, invitations, and the   *)
(* sessions of external identities, for any number of users, clients,      *)
(* codes, invitations and transactions.                                    *)
(***************************************************************************)
EXTENDS OidcLogin, DeviceLogin, SequenceTheorems, TLAPS

-----------------------------------------------------------------------------
(***************************************************************************)
(* Device login.                                                           *)
(***************************************************************************)

TokenIds == 1 .. MaxTokens

\* A code that was approved remembers a user who approved it.
CodesWereApproved ==
    \A c \in Codes : deviceCodes[c].status \in {"approved", "consumed"} =>
        <<c, deviceCodes[c].user>> \in approvals

\* The code of a token can never be exchanged again: it is consumed, or purged.
TokenCodesAreSpent ==
    \A k \in TokenIds : cliTokens[k] # NoCliToken =>
        deviceCodes[cliTokens[k].code].status \in {"none", "consumed"}

\* The token of a saved login exists.
SavedTokenExists == savedLogin # NothingSaved => cliTokens[savedLogin.token] # NoCliToken

DeviceInv ==
    /\ DeviceTypeOK
    /\ CodesWereApproved
    /\ TokenCodesAreSpent
    /\ SavedTokenExists
    /\ TokenWasApproved

\* The rows, field by field.
LEMMA DeviceFields ==
    ASSUME DeviceTypeOK
    PROVE  /\ \A c \in Codes :
                 /\ deviceCodes[c].status \in {"none", "pending", "approved", "consumed"}
                 /\ deviceCodes[c] = NoCode <=> deviceCodes[c].status = "none"
                 /\ deviceCodes[c] # NoCode => deviceCodes[c] \in CodeRow
           /\ \A k \in TokenIds :
                 /\ cliTokens[k] = NoCliToken <=> cliTokens[k].state = "none"
                 /\ cliTokens[k] # NoCliToken =>
                       /\ cliTokens[k] \in CliTokenRow
                       /\ cliTokens[k].code \in Codes /\ cliTokens[k].user \in People
                       /\ cliTokens[k].tenant \in Tenants
           /\ savedLogin # NothingSaved => savedLogin.token \in TokenIds
           /\ \A p \in Terminals :
                 /\ terminals[p].step = "polling" =>
                       terminals[p].code \in Codes /\ terminals[p].tenant \in Tenants
                 /\ terminals[p].step \in {"issued", "logout", "revoked"} =>
                       /\ terminals[p] \in [step: {"issued", "logout", "revoked"}, token: TokenIds, tenant: Tenants]
                       /\ terminals[p].token \in TokenIds /\ terminals[p].tenant \in Tenants
  <1>1. ASSUME NEW c \in Codes
        PROVE  /\ deviceCodes[c].status \in {"none", "pending", "approved", "consumed"}
               /\ deviceCodes[c] = NoCode <=> deviceCodes[c].status = "none"
               /\ deviceCodes[c] # NoCode => deviceCodes[c] \in CodeRow
    BY DEF DeviceTypeOK, CodeRow, NoCode
  <1>2. ASSUME NEW k \in TokenIds
        PROVE  /\ cliTokens[k] = NoCliToken <=> cliTokens[k].state = "none"
               /\ cliTokens[k] # NoCliToken =>
                     /\ cliTokens[k] \in CliTokenRow
                     /\ cliTokens[k].code \in Codes /\ cliTokens[k].user \in People
                     /\ cliTokens[k].tenant \in Tenants
    BY DEF DeviceTypeOK, CliTokenRow, NoCliToken, TokenIds
  <1>3. savedLogin # NothingSaved => savedLogin.token \in TokenIds
    BY DEF DeviceTypeOK, TokenIds
  <1>4. ASSUME NEW p \in Terminals
        PROVE  /\ terminals[p].step = "polling" =>
                     terminals[p].code \in Codes /\ terminals[p].tenant \in Tenants
               /\ terminals[p].step \in {"issued", "logout", "revoked"} =>
                     /\ terminals[p] \in [step: {"issued", "logout", "revoked"}, token: TokenIds, tenant: Tenants]
                     /\ terminals[p].token \in TokenIds /\ terminals[p].tenant \in Tenants
    BY DEF DeviceTypeOK, TokenIds, Waiting
  <1> QED BY <1>1, <1>2, <1>3, <1>4

\* What the tables say of approvals holds when codes and tokens only move forward:
\* a code keeps its user and its approval, a token keeps its code, user and tenant.
LEMMA DeviceStepFrame ==
    ASSUME DeviceInv, DeviceTypeOK', approvals \subseteq approvals',
           \A k \in TokenIds :
              \/ cliTokens'[k] = cliTokens[k]
              \/ /\ cliTokens[k] # NoCliToken /\ cliTokens'[k] # NoCliToken
                 /\ cliTokens'[k].code = cliTokens[k].code /\ cliTokens'[k].user = cliTokens[k].user
                 /\ cliTokens'[k].tenant = cliTokens[k].tenant,
           \A c \in Codes :
              \/ deviceCodes'[c].status = "none"
              \/ deviceCodes'[c].status = deviceCodes[c].status /\ deviceCodes'[c].user = deviceCodes[c].user
              \/ deviceCodes'[c].status = "pending"
                   /\ \A k \in TokenIds : cliTokens[k] # NoCliToken => cliTokens[k].code # c
              \/ deviceCodes[c].status = "pending" /\ deviceCodes'[c].status = "approved"
                   /\ <<c, deviceCodes'[c].user>> \in approvals',
           savedLogin' = savedLogin \/ savedLogin' = NothingSaved
    PROVE  DeviceInv'
  <1>typ. DeviceTypeOK
    BY DEF DeviceInv
  <1>0. \A k \in TokenIds :
           /\ cliTokens'[k] = NoCliToken <=> cliTokens[k] = NoCliToken
           /\ cliTokens[k] # NoCliToken =>
                /\ cliTokens'[k].code = cliTokens[k].code /\ cliTokens'[k].user = cliTokens[k].user
                /\ cliTokens'[k].tenant = cliTokens[k].tenant /\ cliTokens[k].code \in Codes
    BY <1>typ, DeviceFields
  <1>1. CodesWereApproved'
    BY DEF DeviceInv, CodesWereApproved
  <1>2. TokenCodesAreSpent'
    BY <1>0 DEF DeviceInv, TokenCodesAreSpent
  <1>3. SavedTokenExists'
    BY <1>0, <1>typ, DeviceFields DEF DeviceInv, SavedTokenExists
  <1>4. \A j, k \in TokenIds :
          cliTokens'[k] # NoCliToken =>
              /\ <<cliTokens'[k].code, cliTokens'[k].user>> \in approvals'
              /\ cliTokens'[j] # NoCliToken /\ cliTokens'[j].code = cliTokens'[k].code => j = k
    BY <1>0 DEF DeviceInv, TokenWasApproved, TokenIds
  <1>5. savedLogin' # NothingSaved =>
          /\ cliTokens'[savedLogin'.token].tenant = savedLogin'.tenant
          /\ cliTokens'[savedLogin'.token].user = savedLogin'.user
    BY <1>0, <1>typ, DeviceFields DEF DeviceInv, TokenWasApproved, SavedTokenExists
  <1>6. TokenWasApproved'
    BY <1>4, <1>5 DEF TokenWasApproved, TokenIds
  <1> QED BY <1>1, <1>2, <1>3, <1>6 DEF DeviceInv

\* An exchange only succeeds on an approved code of a member.
LEMMA IssuedMeansApproved ==
    ASSUME DeviceTypeOK, NEW c \in Codes, ExchangeOutcome(c) = "issued"
    PROVE  /\ deviceCodes[c].status = "approved" /\ deviceCodes[c] \in CodeRow
           /\ deviceCodes[c].user \in People
  <1>1. deviceCodes[c] # NoCode /\ deviceCodes[c].status \notin {"consumed", "pending"}
    BY DEF ExchangeOutcome
  <1>2. deviceCodes[c] \in CodeRow /\ deviceCodes[c].status = "approved"
    BY <1>1, DeviceFields
  <1>3. <<deviceCodes[c].tenant, deviceCodes[c].user>> \in tenancy
    BY <1>1, <1>2 DEF ExchangeOutcome
  <1>4. deviceCodes[c].user \in People
    BY <1>3 DEF DeviceTypeOK
  <1> QED BY <1>2, <1>4

\* A token is issued for an approved code, which is consumed.
LEMMA IssueStep ==
    ASSUME DeviceInv, NEW c \in Codes, NEW k \in TokenIds, ExchangeOutcome(c) = "issued",
           IssueCliToken(c, k), UNCHANGED <<people, tenancy, savedLogin, approvals>>,
           terminals' \in [Terminals -> {Waiting}
             \cup [step: {"polling"}, code: Codes, tenant: Tenants]
             \cup [step: {"issued", "logout", "revoked"}, token: 1 .. MaxTokens, tenant: Tenants]]
    PROVE  DeviceInv'
  <1>typ. DeviceTypeOK
    BY DEF DeviceInv
  <1> DEFINE d == deviceCodes[c]
             token == [state |-> "live", code |-> c, user |-> d.user, tenant |-> d.tenant]
             code == [d EXCEPT !.status = "consumed", !.polled = TRUE]
  <1>1. d.status = "approved" /\ d \in CodeRow /\ d.user \in People
    BY <1>typ, IssuedMeansApproved
  <1>2. /\ cliTokens[k] = NoCliToken /\ cliTokens' = [cliTokens EXCEPT ![k] = token]
        /\ deviceCodes' = [deviceCodes EXCEPT ![c] = code]
    BY DEF IssueCliToken, FreshToken
  <1>3. /\ token \in CliTokenRow /\ token # NoCliToken /\ token.code = c /\ token.user = d.user
    BY <1>1 DEF CliTokenRow, CodeRow, NoCliToken
  <1>4. code \in CodeRow /\ code.status = "consumed" /\ code.user = d.user
    BY <1>1 DEF CodeRow
  <1> HIDE DEF token, code
  <1>5. /\ cliTokens' \in [1 .. MaxTokens -> {NoCliToken} \cup CliTokenRow] /\ cliTokens'[k] = token
        /\ \A j \in TokenIds : j # k => cliTokens'[j] = cliTokens[j]
    BY <1>2, <1>3, <1>typ DEF DeviceTypeOK, TokenIds
  <1>6. /\ deviceCodes' \in [Codes -> {NoCode} \cup CodeRow] /\ deviceCodes'[c] = code
        /\ \A b \in Codes : b # c => deviceCodes'[b] = deviceCodes[b]
    BY <1>2, <1>4, <1>typ DEF DeviceTypeOK
  <1>7. DeviceTypeOK'
    BY <1>5, <1>6, <1>typ DEF DeviceTypeOK
  <1>8. CodesWereApproved'
    BY <1>1, <1>4, <1>6 DEF DeviceInv, CodesWereApproved
  <1>9. \A j \in TokenIds : cliTokens[j] # NoCliToken => cliTokens[j].code # c /\ cliTokens[j].code \in Codes
    BY <1>1, <1>typ, DeviceFields DEF DeviceInv, TokenCodesAreSpent
  <1>10. TokenCodesAreSpent'
    <2> SUFFICES ASSUME NEW j \in TokenIds, cliTokens'[j] # NoCliToken
                 PROVE  deviceCodes'[cliTokens'[j].code].status \in {"none", "consumed"}
      BY DEF TokenCodesAreSpent
    <2>1. CASE j = k
      BY <2>1, <1>3, <1>4, <1>5, <1>6
    <2>2. CASE j # k
      BY <2>2, <1>5, <1>6, <1>9 DEF DeviceInv, TokenCodesAreSpent
    <2> QED BY <2>1, <2>2
  <1>11. <<c, d.user>> \in approvals
    BY <1>1 DEF DeviceInv, CodesWereApproved
  <1>12. \A i, j \in TokenIds :
          cliTokens'[j] # NoCliToken =>
              /\ <<cliTokens'[j].code, cliTokens'[j].user>> \in approvals'
              /\ cliTokens'[i] # NoCliToken /\ cliTokens'[i].code = cliTokens'[j].code => i = j
    <2> SUFFICES ASSUME NEW i \in TokenIds, NEW j \in TokenIds, cliTokens'[j] # NoCliToken
                 PROVE  /\ <<cliTokens'[j].code, cliTokens'[j].user>> \in approvals'
                        /\ cliTokens'[i] # NoCliToken /\ cliTokens'[i].code = cliTokens'[j].code => i = j
      OBVIOUS
    <2>1. CASE j = k
      BY <2>1, <1>3, <1>5, <1>9, <1>11
    <2>2. CASE j # k
      BY <2>2, <1>3, <1>5, <1>9 DEF DeviceInv, TokenWasApproved, TokenIds
    <2> QED BY <2>1, <2>2
  <1>13. savedLogin # NothingSaved => savedLogin.token \in TokenIds /\ savedLogin.token # k
    BY <1>2, <1>typ, DeviceFields DEF DeviceInv, SavedTokenExists
  <1>14. TokenWasApproved' /\ SavedTokenExists'
    BY <1>5, <1>12, <1>13 DEF DeviceInv, TokenWasApproved, SavedTokenExists, TokenIds
  <1> QED BY <1>7, <1>8, <1>10, <1>14 DEF DeviceInv

\* The tables start empty.
LEMMA DeviceInitInv == DeviceInit => DeviceInv
  <1> SUFFICES ASSUME DeviceInit PROVE DeviceInv
    OBVIOUS
  <1>1. DeviceTypeOK
    BY DEF DeviceInit, DeviceTypeOK
  <1>2. /\ \A c \in Codes : deviceCodes[c].status = "none"
        /\ \A k \in TokenIds : cliTokens[k] = NoCliToken
        /\ savedLogin = NothingSaved
    BY DEF DeviceInit, NoCode, TokenIds
  <1> QED
    BY <1>1, <1>2 DEF DeviceInv, CodesWereApproved, TokenCodesAreSpent, SavedTokenExists,
                      TokenWasApproved, TokenIds

\* The purge removes rows of codes and changes no other.
LEMMA PurgeStep ==
    ASSUME DeviceTypeOK
    PROVE  /\ PurgedCodes \in [Codes -> {NoCode} \cup CodeRow]
           /\ \A c \in Codes : PurgedCodes[c] = NoCode \/ PurgedCodes[c] = deviceCodes[c]
  BY DEF PurgedCodes, DeviceTypeOK

\* One column of a code's row is written.
LEMMA CodeColumnStep ==
    ASSUME DeviceTypeOK, NEW c \in Codes, deviceCodes[c] # NoCode, NEW new \in CodeRow,
           new.status = deviceCodes[c].status, new.user = deviceCodes[c].user,
           deviceCodes' = [deviceCodes EXCEPT ![c] = new],
           UNCHANGED <<people, tenancy, cliTokens, terminals, savedLogin, approvals>>
    PROVE  /\ DeviceTypeOK'
           /\ \A b \in Codes : /\ deviceCodes'[b].status = deviceCodes[b].status
                               /\ deviceCodes'[b].user = deviceCodes[b].user
  BY DEF DeviceTypeOK

\* Every step keeps the invariant.
LEMMA DeviceStepInv == DeviceInv /\ [DeviceNext]_deviceVars => DeviceInv'
  <1> SUFFICES ASSUME DeviceInv, [DeviceNext]_deviceVars PROVE DeviceInv'
    OBVIOUS
  <1>typ. DeviceTypeOK
    BY DEF DeviceInv
  <1>1. CASE UNCHANGED deviceVars
    BY <1>1 DEF deviceVars, DeviceInv, DeviceTypeOK, CodesWereApproved, TokenCodesAreSpent,
                SavedTokenExists, TokenWasApproved
  <1>2. ASSUME NEW p \in Terminals, NEW c \in Codes, NEW o \in Tenants, StartLogin(p, c, o)
        PROVE  DeviceInv'
    <2> DEFINE row == [status |-> "pending", tenant |-> o, user |-> NoPerson, polled |-> FALSE,
                       expired |-> FALSE]
    <2>1. /\ deviceCodes' = [PurgedCodes EXCEPT ![c] = row]
          /\ terminals' = [terminals EXCEPT ![p] = [step |-> "polling", code |-> c, tenant |-> o]]
          /\ \A k \in TokenIds : cliTokens[k] # NoCliToken => cliTokens[k].code # c
          /\ UNCHANGED <<people, tenancy, cliTokens, savedLogin, approvals>>
      BY <1>2 DEF StartLogin, CreateCliDeviceAuthorization, FreshCode, TokenIds
    <2>2. row \in CodeRow /\ row.status = "pending"
      BY DEF CodeRow
    <2> HIDE DEF row
    <2>3. /\ deviceCodes' \in [Codes -> {NoCode} \cup CodeRow]
          /\ deviceCodes'[c].status = "pending"
          /\ \A b \in Codes : b # c => deviceCodes'[b] = NoCode \/ deviceCodes'[b] = deviceCodes[b]
      BY <2>1, <2>2, <1>typ, PurgeStep
    <2>4. terminals' \in [Terminals -> {Waiting}
             \cup [step: {"polling"}, code: Codes, tenant: Tenants]
             \cup [step: {"issued", "logout", "revoked"}, token: 1 .. MaxTokens, tenant: Tenants]]
      BY <2>1, <1>typ DEF DeviceTypeOK
    <2>5. DeviceTypeOK'
      BY <2>1, <2>3, <2>4, <1>typ DEF DeviceTypeOK
    <2> QED BY <2>1, <2>3, <2>5, DeviceStepFrame DEF NoCode
  <1>3. ASSUME CreateInvitationPurges PROVE DeviceInv'
    <2>1. deviceCodes' = PurgedCodes /\ UNCHANGED <<people, tenancy, cliTokens, terminals, savedLogin, approvals>>
      BY <1>3 DEF CreateInvitationPurges
    <2>2. /\ DeviceTypeOK'
          /\ \A b \in Codes : deviceCodes'[b] = NoCode \/ deviceCodes'[b] = deviceCodes[b]
      BY <2>1, <1>typ, PurgeStep DEF DeviceTypeOK
    <2> QED BY <2>1, <2>2, DeviceStepFrame DEF NoCode
  <1>4. ASSUME NEW c \in Codes, CodeExpires(c) PROVE DeviceInv'
    <2> DEFINE new == [deviceCodes[c] EXCEPT !.expired = TRUE]
    <2>1. /\ deviceCodes[c] # NoCode /\ deviceCodes' = [deviceCodes EXCEPT ![c] = new]
          /\ UNCHANGED <<people, tenancy, cliTokens, terminals, savedLogin, approvals>>
      BY <1>4 DEF CodeExpires
    <2>2. new \in CodeRow /\ new.status = deviceCodes[c].status /\ new.user = deviceCodes[c].user
      BY <2>1, <1>typ, DeviceFields DEF CodeRow
    <2> HIDE DEF new
    <2> QED BY <2>1, <2>2, <1>typ, CodeColumnStep, DeviceStepFrame
  <1>5. ASSUME NEW c \in Codes, NEW u \in People, ApproveCliDeviceAuthorization(c, u) PROVE DeviceInv'
    <2> DEFINE new == [deviceCodes[c] EXCEPT !.status = "approved", !.user = u]
    <2>1. /\ deviceCodes[c] # NoCode /\ deviceCodes[c].status = "pending"
          /\ deviceCodes' = [deviceCodes EXCEPT ![c] = new]
          /\ approvals' = approvals \cup {<<c, u>>}
          /\ UNCHANGED <<people, tenancy, cliTokens, terminals, savedLogin>>
      BY <1>5 DEF ApproveCliDeviceAuthorization, ApproveDevice
    <2>2. new \in CodeRow /\ new.status = "approved" /\ new.user = u
      BY <2>1, <1>typ, DeviceFields DEF CodeRow
    <2> HIDE DEF new
    <2>3. /\ deviceCodes' \in [Codes -> {NoCode} \cup CodeRow] /\ deviceCodes'[c] = new
          /\ \A b \in Codes : b # c => deviceCodes'[b] = deviceCodes[b]
      BY <2>1, <2>2, <1>typ DEF DeviceTypeOK
    <2>4. DeviceTypeOK'
      BY <2>1, <2>3, <1>typ DEF DeviceTypeOK
    <2> QED BY <2>1, <2>2, <2>3, <2>4, DeviceStepFrame
  <1>6. ASSUME NEW p \in Terminals, NEW k \in TokenIds, NEW answered \in BOOLEAN,
               PollIssued(p, k, answered)
        PROVE  DeviceInv'
    <2> DEFINE c == terminals[p].code
    <2>1. /\ terminals[p].step = "polling" /\ ExchangeOutcome(c) = "issued" /\ IssueCliToken(c, k)
          /\ terminals' = [terminals EXCEPT ![p] =
               IF answered THEN [step |-> "issued", token |-> k, tenant |-> terminals[p].tenant]
                           ELSE Waiting]
          /\ UNCHANGED <<people, tenancy, savedLogin, approvals>>
      BY <1>6 DEF PollIssued
    <2>2. c \in Codes /\ terminals[p].tenant \in Tenants
      BY <2>1, <1>typ, DeviceFields
    <2>3. terminals' \in [Terminals -> {Waiting}
             \cup [step: {"polling"}, code: Codes, tenant: Tenants]
             \cup [step: {"issued", "logout", "revoked"}, token: 1 .. MaxTokens, tenant: Tenants]]
      BY <2>1, <2>2, <1>typ DEF DeviceTypeOK, TokenIds
    <2> HIDE DEF c
    <2> QED BY <2>1, <2>2, <2>3, IssueStep
  <1>7. ASSUME NEW p \in Terminals, PollAgain(p) PROVE DeviceInv'
    <2> DEFINE c == terminals[p].code
               new == [deviceCodes[c] EXCEPT !.polled = TRUE]
    <2>1. /\ terminals[p].step = "polling" /\ ExchangeOutcome(c) = "pending"
          /\ deviceCodes' = [deviceCodes EXCEPT ![c] = new]
          /\ UNCHANGED <<people, tenancy, cliTokens, terminals, savedLogin, approvals>>
      BY <1>7 DEF PollAgain
    <2>2. c \in Codes /\ deviceCodes[c] # NoCode
      BY <2>1, <1>typ, DeviceFields DEF ExchangeOutcome
    <2>3. new \in CodeRow /\ new.status = deviceCodes[c].status /\ new.user = deviceCodes[c].user
      BY <2>2, <1>typ, DeviceFields DEF CodeRow
    <2> HIDE DEF c, new
    <2> QED BY <2>1, <2>2, <2>3, <1>typ, CodeColumnStep, DeviceStepFrame
  <1>8. ASSUME NEW c \in Codes, NEW k \in TokenIds, DuplicatePoll(c, k) PROVE DeviceInv'
    BY <1>8, <1>typ, IssueStep DEF DuplicatePoll, DeviceTypeOK
  <1>9. ASSUME NEW c \in Codes, PollIntervalPasses(c) PROVE DeviceInv'
    <2> DEFINE new == [deviceCodes[c] EXCEPT !.polled = FALSE]
    <2>1. /\ deviceCodes[c] # NoCode /\ deviceCodes' = [deviceCodes EXCEPT ![c] = new]
          /\ UNCHANGED <<people, tenancy, cliTokens, terminals, savedLogin, approvals>>
      BY <1>9 DEF PollIntervalPasses
    <2>2. new \in CodeRow /\ new.status = deviceCodes[c].status /\ new.user = deviceCodes[c].user
      BY <2>1, <1>typ, DeviceFields DEF CodeRow
    <2> HIDE DEF new
    <2> QED BY <2>1, <2>2, <1>typ, CodeColumnStep, DeviceStepFrame
  <1>10. ASSUME NEW p \in Terminals, LoginFails(p) PROVE DeviceInv'
    <2>1. /\ terminals' = [terminals EXCEPT ![p] = Waiting]
          /\ UNCHANGED <<people, tenancy, deviceCodes, cliTokens, savedLogin, approvals>>
      BY <1>10 DEF LoginFails
    <2>2. DeviceTypeOK'
      BY <2>1, <1>typ DEF DeviceTypeOK
    <2> QED BY <2>1, <2>2, DeviceStepFrame
  <1>11. ASSUME NEW p \in Terminals, SaveLogin(p) PROVE DeviceInv'
    <2> DEFINE k == terminals[p].token
               o == terminals[p].tenant
    <2>1. /\ terminals[p].step = "issued"
          /\ terminals' = [terminals EXCEPT ![p] = Waiting]
          /\ UNCHANGED <<people, tenancy, deviceCodes, cliTokens, approvals>>
      BY <1>11 DEF SaveLogin
    <2>2. k \in TokenIds /\ o \in Tenants
      BY <2>1, <1>typ, DeviceFields
    <2>3. terminals' \in [Terminals -> {Waiting}
             \cup [step: {"polling"}, code: Codes, tenant: Tenants]
             \cup [step: {"issued", "logout", "revoked"}, token: 1 .. MaxTokens, tenant: Tenants]]
      BY <2>1, <1>typ DEF DeviceTypeOK
    <2>4. CASE ~FetchSession(k, o)
      <3>1. savedLogin' = savedLogin
        BY <1>11, <2>4 DEF SaveLogin
      <3>2. DeviceTypeOK'
        BY <2>1, <2>3, <3>1, <1>typ DEF DeviceTypeOK
      <3> QED BY <2>1, <3>1, <3>2, DeviceStepFrame
    <2>5. CASE FetchSession(k, o)
      <3>1. cliTokens[k].state = "live" /\ cliTokens[k].tenant = o
        BY <2>5 DEF FetchSession, CliTokenAccepted
      <3>2. cliTokens[k] # NoCliToken /\ cliTokens[k].user \in People
        BY <3>1, <2>2, <1>typ, DeviceFields
      <3>3. savedLogin' = [token |-> k, tenant |-> o, user |-> cliTokens[k].user]
        BY <1>11, <2>5 DEF SaveLogin, WriteCredentialFile
      <3>4. /\ savedLogin' \in [token: 1 .. MaxTokens, tenant: Tenants, user: People]
            /\ savedLogin'.token = k /\ savedLogin'.tenant = o /\ savedLogin'.user = cliTokens[k].user
        BY <3>2, <3>3, <2>2 DEF TokenIds
      <3>5. DeviceTypeOK'
        BY <2>1, <2>3, <3>4, <1>typ DEF DeviceTypeOK
      <3>6. SavedTokenExists' /\ TokenWasApproved'
        BY <2>1, <3>1, <3>2, <3>4 DEF DeviceInv, SavedTokenExists, TokenWasApproved
      <3> QED BY <2>1, <3>5, <3>6 DEF DeviceInv, CodesWereApproved, TokenCodesAreSpent
    <2> QED BY <2>4, <2>5
  <1>12. ASSUME NEW p \in Terminals, LoadStoredCredential(p) PROVE DeviceInv'
    <2>1. /\ savedLogin # NothingSaved
          /\ terminals' = [terminals EXCEPT ![p] =
               [step |-> "logout", token |-> savedLogin.token, tenant |-> savedLogin.tenant]]
          /\ UNCHANGED <<people, tenancy, deviceCodes, cliTokens, savedLogin, approvals>>
      BY <1>12 DEF LoadStoredCredential, StoredProfile
    <2>2. savedLogin.token \in 1 .. MaxTokens /\ savedLogin.tenant \in Tenants
      BY <2>1, <1>typ DEF DeviceTypeOK
    <2>3. DeviceTypeOK'
      BY <2>1, <2>2, <1>typ DEF DeviceTypeOK
    <2> QED BY <2>1, <2>3, DeviceStepFrame
  <1>13. ASSUME NEW p \in Terminals, NEW answered \in BOOLEAN, CliLogout(p, answered) PROVE DeviceInv'
    <2> DEFINE k == terminals[p].token
               old == terminals[p]
    <2>1. /\ terminals[p].step = "logout"
          /\ IF CliTokenAccepted(k) THEN RevokeCliAccessToken(k) ELSE UNCHANGED cliTokens
          /\ terminals' = [terminals EXCEPT ![p] =
               IF answered THEN [old EXCEPT !.step = "revoked"] ELSE Waiting]
          /\ UNCHANGED <<people, tenancy, deviceCodes, savedLogin, approvals>>
      BY <1>13 DEF CliLogout
    <2>2. /\ old \in [step: {"issued", "logout", "revoked"}, token: TokenIds, tenant: Tenants]
          /\ k \in TokenIds
      BY <2>1, <1>typ, DeviceFields
    <2>3. [old EXCEPT !.step = "revoked"] \in [step: {"issued", "logout", "revoked"}, token: TokenIds, tenant: Tenants]
      BY <2>2
    <2>4. terminals' \in [Terminals -> {Waiting}
             \cup [step: {"polling"}, code: Codes, tenant: Tenants]
             \cup [step: {"issued", "logout", "revoked"}, token: 1 .. MaxTokens, tenant: Tenants]]
      BY <2>1, <2>3, <1>typ DEF DeviceTypeOK, TokenIds
    <2>5. CASE ~CliTokenAccepted(k)
      <3>1. DeviceTypeOK' /\ cliTokens' = cliTokens
        BY <2>1, <2>4, <2>5, <1>typ DEF DeviceTypeOK
      <3> QED BY <2>1, <3>1, DeviceStepFrame
    <2>6. CASE CliTokenAccepted(k)
      <3> DEFINE new == [cliTokens[k] EXCEPT !.state = "revoked"]
      <3>1. cliTokens[k].state = "live"
        BY <2>6 DEF CliTokenAccepted
      <3>2. cliTokens[k] # NoCliToken /\ cliTokens[k] \in CliTokenRow
        BY <3>1, <2>2, <1>typ, DeviceFields
      <3>3. cliTokens' = [cliTokens EXCEPT ![k] = new]
        BY <2>1, <2>6, <3>1 DEF RevokeCliAccessToken
      <3>4. /\ new \in CliTokenRow /\ new.code = cliTokens[k].code /\ new.user = cliTokens[k].user
            /\ new.tenant = cliTokens[k].tenant /\ new.state = "revoked"
        BY <3>2 DEF CliTokenRow
      <3> HIDE DEF new
      <3>5. new # NoCliToken
        BY <3>4 DEF NoCliToken
      <3>6. /\ cliTokens' \in [1 .. MaxTokens -> {NoCliToken} \cup CliTokenRow]
            /\ cliTokens'[k] = new /\ \A j \in TokenIds : j # k => cliTokens'[j] = cliTokens[j]
        BY <3>3, <3>4, <2>2, <1>typ DEF DeviceTypeOK, TokenIds
      <3>7. DeviceTypeOK'
        BY <3>6, <2>1, <2>4, <1>typ DEF DeviceTypeOK
      <3> HIDE DEF k
      <3> QED BY <3>2, <3>4, <3>5, <3>6, <3>7, <2>1, DeviceStepFrame
    <2> QED BY <2>5, <2>6
  <1>14. ASSUME NEW p \in Terminals, RemoveStoredCredential(p) PROVE DeviceInv'
    <2>1. /\ terminals' = [terminals EXCEPT ![p] = Waiting] /\ savedLogin' = NothingSaved
          /\ UNCHANGED <<people, tenancy, deviceCodes, cliTokens, approvals>>
      BY <1>14 DEF RemoveStoredCredential, WriteCredentialFile
    <2>2. DeviceTypeOK'
      BY <2>1, <1>typ DEF DeviceTypeOK
    <2> QED BY <2>1, <2>2, DeviceStepFrame
  <1>15. ASSUME NEW k \in TokenIds, CliTokenExpires(k) PROVE DeviceInv'
    <2> DEFINE new == [cliTokens[k] EXCEPT !.state = "expired"]
    <2>1. /\ cliTokens[k].state = "live" /\ cliTokens' = [cliTokens EXCEPT ![k] = new]
          /\ UNCHANGED <<people, tenancy, deviceCodes, terminals, savedLogin, approvals>>
      BY <1>15 DEF CliTokenExpires
    <2>2. cliTokens[k] # NoCliToken /\ cliTokens[k] \in CliTokenRow
      BY <2>1, <1>typ, DeviceFields
    <2>3. /\ new \in CliTokenRow /\ new.code = cliTokens[k].code /\ new.user = cliTokens[k].user
          /\ new.tenant = cliTokens[k].tenant /\ new.state = "expired"
      BY <2>2 DEF CliTokenRow
    <2> HIDE DEF new
    <2>4. new # NoCliToken
      BY <2>3 DEF NoCliToken
    <2>5. /\ cliTokens' \in [1 .. MaxTokens -> {NoCliToken} \cup CliTokenRow]
          /\ cliTokens'[k] = new /\ \A j \in TokenIds : j # k => cliTokens'[j] = cliTokens[j]
      BY <2>1, <2>3, <1>typ DEF DeviceTypeOK, TokenIds
    <2>6. DeviceTypeOK'
      BY <2>5, <2>1, <1>typ DEF DeviceTypeOK
    <2> QED BY <2>1, <2>2, <2>3, <2>4, <2>5, <2>6, DeviceStepFrame
  <1>16. ASSUME NEW ps \in SUBSET People, NEW ts \in SUBSET (Tenants \X People), PeopleChange(ps, ts)
         PROVE  DeviceInv'
    <2>1. /\ people' = ps /\ tenancy' = ts
          /\ UNCHANGED <<deviceCodes, cliTokens, terminals, savedLogin, approvals>>
      BY <1>16 DEF PeopleChange
    <2>2. DeviceTypeOK'
      BY <2>1, <1>typ DEF DeviceTypeOK
    <2> QED BY <2>1, <2>2, DeviceStepFrame
  <1> QED
    BY <1>1, <1>2, <1>3, <1>4, <1>5, <1>6, <1>7, <1>8, <1>9, <1>10, <1>11, <1>12, <1>13, <1>14,
       <1>15, <1>16
    DEF DeviceNext, TokenIds

\* exchange_cli_device_code: every access token stands for one approval of its code by
\* its user, however polls, purges and logouts interleave.
THEOREM TokenApproved == DeviceSpec => []TokenWasApproved
  <1>1. DeviceInv => TokenWasApproved
    BY DEF DeviceInv
  <1> QED BY <1>1, DeviceInitInv, DeviceStepInv, PTL DEF DeviceSpec

-----------------------------------------------------------------------------
(***************************************************************************)
(* Accounts and logins with the identity provider.                         *)
(***************************************************************************)

\* What a request remembers of its invitation is still so.
RequestsAreFounded ==
    \A b \in Clients :
        /\ requests[b].step \in {"hashing", "registering", "joining"} =>
              requests[b].invitation \in Invitations
        /\ requests[b].step = "joining" => requests[b].user # 0

\* A registration that is about to commit holds the lock of its invitation, so that
\* nobody else uses it.
RegistrationsHoldInvitations ==
    \A b \in Clients : requests[b].step = "registering" =>
        /\ invitations[requests[b].invitation].organization # 0
        /\ ~invitations[requests[b].invitation].used
        /\ \A c \in Clients : c # b /\ requests[c].step = "registering" =>
              requests[c].invitation # requests[b].invitation

\* Transaction t was started by client b, and somebody logged in for it.
OwnLogin(b, t) ==
    /\ t \in 1 .. Len(started)
    /\ t \in 1 .. MaxTransactions
    /\ started[t] = b
    /\ grants[t] # NoIdentity

\* A callback works for a transaction of its own browser and for the identity that was
\* granted for it; other requests have no transaction.
RequestFollows(b) ==
    LET r == requests[b]
    IN  /\ r.step \in {"idle", "hashing", "registering", "joining", "provisioning"} => r.transaction = 0
        /\ r.step = "callback" => r.transaction # 0
        /\ r.transaction # 0 =>
              /\ OwnLogin(b, r.transaction)
              /\ r.step \in {"identified", "linking"} => r.identity = grants[r.transaction]
              /\ r.step = "session" =>
                    /\ r.user \in 1 .. Len(users)
                    /\ users[r.user].identity = grants[r.transaction]

\* The cookie is of a login that its browser started.
CookieFollows(b) ==
    loginCookies[b] # 0 =>
        loginCookies[b] \in 1 .. Len(started) /\ started[loginCookies[b]] = b

\* An identity token names the identity that was granted for its nonce.
TokenFollows(b) ==
    idTokens[b].nonce # 0 =>
        /\ idTokens[b].nonce \in 1 .. MaxTransactions
        /\ idTokens[b].identity = grants[idTokens[b].nonce]
        /\ idTokens[b].identity # NoIdentity

SessionFollows(b) ==
    LET x == sessions[b]
    IN  x.transaction # 0 =>
            /\ OwnLogin(b, x.transaction)
            /\ x.user \in 1 .. Len(users)
            /\ users[x.user].identity = grants[x.transaction]

LoginsAreOwn ==
    \A b \in Clients : RequestFollows(b) /\ CookieFollows(b) /\ TokenFollows(b) /\ SessionFollows(b)

OidcInv ==
    /\ AccountsTypeOK
    /\ OidcTypeOK
    /\ RequestsAreFounded
    /\ RegistrationsHoldInvitations
    /\ InvitationAdmitsOne
    /\ LoginsAreOwn

\* Users keep their identity, transactions their browser, and grants are final.
HistoryGrows ==
    /\ \A u \in 1 .. Len(users) : u \in 1 .. Len(users') /\ users'[u].identity = users[u].identity
    /\ \A t \in 1 .. Len(started) : t \in 1 .. Len(started') /\ started'[t] = started[t]
    /\ \A t \in 1 .. MaxTransactions : grants[t] # NoIdentity => grants'[t] = grants[t]

\* Logins stay their own when the history grows and what is new follows from it.
LEMMA KeepLogins ==
    ASSUME OidcInv, HistoryGrows,
           \A b \in Clients : requests'[b] = requests[b] \/ RequestFollows(b)',
           \A b \in Clients : loginCookies'[b] = loginCookies[b] \/ CookieFollows(b)',
           \A b \in Clients :
              \/ idTokens'[b].nonce = idTokens[b].nonce /\ idTokens'[b].identity = idTokens[b].identity
              \/ TokenFollows(b)',
           \A b \in Clients : sessions'[b] = sessions[b] \/ SessionFollows(b)'
    PROVE  LoginsAreOwn'
  <1> SUFFICES ASSUME NEW b \in Clients
               PROVE  RequestFollows(b)' /\ CookieFollows(b)' /\ TokenFollows(b)' /\ SessionFollows(b)'
    BY DEF LoginsAreOwn
  <1>1. RequestFollows(b) /\ CookieFollows(b) /\ TokenFollows(b) /\ SessionFollows(b)
    BY DEF OidcInv, LoginsAreOwn
  <1>2. \A t : OwnLogin(b, t) => OwnLogin(b, t)' /\ grants'[t] = grants[t]
    BY DEF OwnLogin, HistoryGrows
  <1>3. RequestFollows(b)'
    <2>1. CASE requests'[b] = requests[b]
      BY <2>1, <1>1, <1>2 DEF RequestFollows, HistoryGrows
    <2> QED BY <2>1
  <1>4. CookieFollows(b)'
    BY <1>1 DEF CookieFollows, HistoryGrows
  <1>5. TokenFollows(b)'
    BY <1>1 DEF TokenFollows, HistoryGrows
  <1>6. SessionFollows(b)'
    <2>1. CASE sessions'[b] = sessions[b]
      BY <2>1, <1>1, <1>2 DEF SessionFollows, HistoryGrows
    <2> QED BY <2>1
  <1> QED BY <1>3, <1>4, <1>5, <1>6

\* Invitations admit one user as long as no step uses one, takes the lock of one or
\* adds a member by one.
LEMMA KeepInvitations ==
    ASSUME OidcInv,
           \A i \in Invitations :
              /\ invitations'[i].used = invitations[i].used
              /\ invitations[i].organization # 0 => invitations'[i].organization # 0,
           \A m \in memberships' :
              m.via = NoInvitation \/ \E n \in memberships : n.via = m.via /\ n.user = m.user,
           \A b \in Clients : requests'[b].step = "registering" =>
              requests[b].step = "registering" /\ requests'[b].invitation = requests[b].invitation
    PROVE  InvitationAdmitsOne' /\ RegistrationsHoldInvitations'
  <1>1. \A m \in memberships : m.via # NoInvitation => m.via \in Invitations
    BY DEF OidcInv, AccountsTypeOK, Membership
  <1>2. InvitationAdmitsOne'
    <2> SUFFICES ASSUME NEW m \in memberships', m.via # NoInvitation
                 PROVE  /\ invitations'[m.via].used
                        /\ \A n \in memberships' : n.via = m.via => n.user = m.user
      BY DEF InvitationAdmitsOne
    <2>1. PICK k \in memberships : k.via = m.via /\ k.user = m.user
      OBVIOUS
    <2>2. /\ invitations[k.via].used
          /\ \A n \in memberships : n.via = k.via => n.user = k.user
      BY <2>1 DEF OidcInv, InvitationAdmitsOne
    <2> QED BY <1>1, <2>1, <2>2
  <1>3. RegistrationsHoldInvitations'
    BY DEF OidcInv, RegistrationsHoldInvitations, RequestsAreFounded
  <1> QED BY <1>2, <1>3

\* What the client's other steps do to the login when an account step is taken.
AccountsFrame ==
    /\ AnswerClearsCookie
    /\ idTokens' = [b \in Clients |-> IF requests'[b] = Idle THEN NoToken ELSE idTokens[b]]
    /\ UNCHANGED <<started, grants>>

\* A request that is idle.
LEMMA IdleFields ==
    /\ Idle \in Request /\ Idle.step = "idle" /\ Idle.transaction = 0 /\ Idle.user = 0
    /\ Idle.invitation = NoInvitation /\ Idle.identity = NoIdentity /\ Idle.email \in Emails
  <1>1. AnyEmail \in Emails
    BY AccountsAssumption DEF AnyEmail
  <1> QED BY <1>1, AccountsAssumption DEF Idle, Request

\* The rows, field by field.
LEMMA AccountFields ==
    ASSUME AccountsTypeOK
    PROVE  /\ Len(users) \in Nat /\ Len(users) <= MaxUsers /\ DOMAIN users = 1 .. Len(users)
           /\ \A u \in 1 .. Len(users) : users[u] \in UserRow
           /\ \A b \in Clients :
                 /\ requests[b] \in Request
                 /\ requests[b].email \in Emails /\ requests[b].identity \in Identities \cup {NoIdentity}
                 /\ requests[b].user \in 0 .. MaxUsers /\ requests[b].transaction \in Nat
                 /\ sessions[b].user \in 0 .. MaxUsers /\ sessions[b].transaction \in Nat
           /\ \A i \in Invitations :
                 /\ invitations[i] \in InvitationRow
                 /\ invitations[i].organization \in 0 .. MaxOrganizations
  <1>1. Len(users) \in Nat /\ Len(users) <= MaxUsers /\ DOMAIN users = 1 .. Len(users)
    BY DEF AccountsTypeOK
  <1>2. \A u \in 1 .. Len(users) : users[u] \in UserRow
    BY ElementOfSeq DEF AccountsTypeOK
  <1>3. ASSUME NEW b \in Clients
        PROVE  /\ requests[b] \in Request
               /\ requests[b].email \in Emails /\ requests[b].identity \in Identities \cup {NoIdentity}
               /\ requests[b].user \in 0 .. MaxUsers /\ requests[b].transaction \in Nat
               /\ sessions[b].user \in 0 .. MaxUsers /\ sessions[b].transaction \in Nat
    <2>1. requests[b] \in Request /\ sessions[b] \in [user: 0 .. MaxUsers, transaction: Nat]
      BY DEF AccountsTypeOK
    <2> QED BY <2>1 DEF Request
  <1>4. \A i \in Invitations : invitations[i] \in InvitationRow
                               /\ invitations[i].organization \in 0 .. MaxOrganizations
    BY DEF AccountsTypeOK, InvitationRow
  <1> QED BY <1>1, <1>2, <1>3, <1>4

\* A client's request changes.
LEMMA BecomeStep ==
    ASSUME AccountsTypeOK, NEW b \in Clients, NEW r \in Request, Become(b, r)
    PROVE  /\ requests' \in [Clients -> Request]
           /\ requests'[b] = r
           /\ \A c \in Clients : c # b => requests'[c] = requests[c]
  BY DEF AccountsTypeOK, Become

\* An account step leaves the cookie and the token of a login, or clears them.
LEMMA FrameStep ==
    ASSUME OidcInv, AccountsFrame
    PROVE  /\ OidcTypeOK'
           /\ \A b \in Clients : loginCookies'[b] = loginCookies[b] \/ CookieFollows(b)'
           /\ \A b \in Clients :
              \/ idTokens'[b].nonce = idTokens[b].nonce /\ idTokens'[b].identity = idTokens[b].identity
              \/ TokenFollows(b)'
  <1>0. NoToken \in [nonce: 0 .. MaxTransactions, identity: Identities \cup {NoIdentity},
                     signed: BOOLEAN, attempt: 0 .. 2] /\ NoToken.nonce = 0
    BY OidcAssumption DEF NoToken
  <1>1. \A b \in Clients : loginCookies'[b] = 0 \/ loginCookies'[b] = loginCookies[b]
    BY DEF AccountsFrame, AnswerClearsCookie
  <1>2. \A b \in Clients : idTokens'[b] = NoToken \/ idTokens'[b] = idTokens[b]
    BY DEF AccountsFrame
  <1>3. loginCookies' \in [Clients -> 0 .. MaxTransactions]
    BY OidcAssumption DEF AccountsFrame, AnswerClearsCookie, OidcInv, OidcTypeOK
  <1>4. idTokens' \in [Clients -> [nonce: 0 .. MaxTransactions,
                         identity: Identities \cup {NoIdentity}, signed: BOOLEAN, attempt: 0 .. 2]]
    BY <1>0, <1>2 DEF AccountsFrame, OidcInv, OidcTypeOK
  <1>5. OidcTypeOK'
    BY <1>3, <1>4 DEF AccountsFrame, OidcInv, OidcTypeOK
  <1> QED BY <1>0, <1>1, <1>2, <1>5 DEF CookieFollows, TokenFollows

\* A step that keeps users, or adds one, keeps the history.
LEMMA UsersGrow ==
    ASSUME OidcInv, UNCHANGED <<started, grants>>,
           \A u \in 1 .. Len(users) : u \in 1 .. Len(users') /\ users'[u].identity = users[u].identity
    PROVE  HistoryGrows
  BY DEF HistoryGrows

\* A user is added.
LEMMA InsertUserStep ==
    ASSUME AccountsTypeOK, NEW e \in Emails, NEW s \in Identities \cup {NoIdentity}, InsertUser(e, s)
    PROVE  /\ users' \in Seq(UserRow) /\ Len(users') <= MaxUsers /\ Len(users') = Len(users) + 1
           /\ NewUser \in 1 .. Len(users') /\ NewUser \in 1 .. MaxUsers /\ NewUser \in 0 .. MaxUsers /\ NewUser # 0
           /\ users'[NewUser].identity = s
           /\ \A u \in 1 .. Len(users) : u \in 1 .. Len(users') /\ users'[u] = users[u]
  <1> DEFINE row == [email |-> e, identity |-> s, active |-> TRUE]
  <1>1. row \in UserRow /\ row.identity = s
    BY DEF UserRow
  <1>2. users' = Append(users, row) /\ Len(users) < MaxUsers /\ Len(users) \in Nat /\ users \in Seq(UserRow)
    BY AccountFields DEF InsertUser, AccountsTypeOK
  <1> HIDE DEF row
  <1>3. /\ users' \in Seq(UserRow) /\ Len(users') = Len(users) + 1
        /\ \A u \in 1 .. Len(users) : users'[u] = users[u]
        /\ users'[Len(users) + 1] = row
    BY <1>1, <1>2, AppendProperties
  <1> QED BY <1>1, <1>2, <1>3, AccountsAssumption DEF NewUser

\* An organization and its owner are added.
LEMMA InsertOrganizationStep ==
    ASSUME AccountsTypeOK, NEW u \in 1 .. MaxUsers, InsertOrganization(u)
    PROVE  /\ organizations' \in 0 .. MaxOrganizations /\ memberships' \subseteq Membership
           /\ \A m \in memberships' :
                m.via = NoInvitation \/ \E n \in memberships : n.via = m.via /\ n.user = m.user
  <1> DEFINE row == [organization |-> organizations + 1, user |-> u, role |-> "owner", via |-> NoInvitation]
  <1>1. organizations + 1 \in 1 .. MaxOrganizations /\ organizations' = organizations + 1
        /\ memberships' = memberships \cup {row}
    BY AccountsAssumption DEF InsertOrganization, AccountsTypeOK
  <1>2. row \in Membership /\ row.via = NoInvitation
    BY <1>1 DEF Membership
  <1> HIDE DEF row
  <1> QED BY <1>1, <1>2, AccountsAssumption DEF AccountsTypeOK

\* Only the request of one client changes, and it does not come to hold an invitation.
LEMMA RequestOnlyStep ==
    ASSUME OidcInv, NEW b \in Clients, NEW r \in Request, Become(b, r),
           UNCHANGED <<users, organizations, memberships, invitations, sessions, started, grants>>,
           OidcTypeOK',
           \A c \in Clients : loginCookies'[c] = loginCookies[c] \/ CookieFollows(c)',
           \A c \in Clients :
              \/ idTokens'[c].nonce = idTokens[c].nonce /\ idTokens'[c].identity = idTokens[c].identity
              \/ TokenFollows(c)',
           r.step # "registering",
           r.step \in {"hashing", "joining"} => r.invitation \in Invitations,
           r.step = "joining" => r.user # 0,
           RequestFollows(b)'
    PROVE  OidcInv'
  <1>typ. AccountsTypeOK
    BY DEF OidcInv
  <1>1. /\ requests' \in [Clients -> Request] /\ requests'[b] = r
        /\ \A c \in Clients : c # b => requests'[c] = requests[c]
    BY <1>typ, BecomeStep
  <1>2. AccountsTypeOK'
    BY <1>1, <1>typ DEF AccountsTypeOK
  <1>3. RequestsAreFounded'
    BY <1>1 DEF OidcInv, RequestsAreFounded
  <1>4. InvitationAdmitsOne' /\ RegistrationsHoldInvitations'
    BY <1>1, KeepInvitations
  <1>5. HistoryGrows
    BY UsersGrow
  <1>6. LoginsAreOwn'
    BY <1>1, <1>5, KeepLogins
  <1> QED BY <1>2, <1>3, <1>4, <1>6 DEF OidcInv

\* The same for a step of Accounts.
LEMMA AccountsRequestStep ==
    ASSUME OidcInv, AccountsFrame, NEW b \in Clients, NEW r \in Request, Become(b, r),
           UNCHANGED <<users, organizations, memberships, invitations, sessions>>,
           r.step \in {"idle", "hashing", "joining", "provisioning", "session"},
           r.step \in {"hashing", "joining"} => r.invitation \in Invitations,
           r.step = "joining" => r.user # 0,
           r.transaction = 0
    PROVE  OidcInv'
  <1>1. requests'[b] = r
    BY BecomeStep DEF OidcInv
  <1>2. RequestFollows(b)'
    BY <1>1 DEF RequestFollows
  <1>3. UNCHANGED <<started, grants>>
    BY DEF AccountsFrame
  <1> QED BY <1>2, <1>3, FrameStep, RequestOnlyStep

\* A step of Accounts that changes no request and no user.
LEMMA AccountsTableStep ==
    ASSUME OidcInv, AccountsFrame, UNCHANGED <<users, requests>>, AccountsTypeOK',
           \A i \in Invitations :
              /\ invitations'[i].used = invitations[i].used
              /\ invitations[i].organization # 0 => invitations'[i].organization # 0,
           \A m \in memberships' :
              m.via = NoInvitation \/ \E n \in memberships : n.via = m.via /\ n.user = m.user,
           \A b \in Clients : sessions'[b] = sessions[b] \/ sessions'[b] = NoSession
    PROVE  OidcInv'
  <1>1. RequestsAreFounded'
    BY DEF OidcInv, RequestsAreFounded
  <1>2. InvitationAdmitsOne' /\ RegistrationsHoldInvitations'
    BY KeepInvitations
  <1>3. HistoryGrows
    BY UsersGrow DEF AccountsFrame
  <1>4. \A b \in Clients : sessions'[b] = sessions[b] \/ SessionFollows(b)'
    BY DEF SessionFollows, NoSession
  <1>5. LoginsAreOwn'
    BY <1>3, <1>4, FrameStep, KeepLogins
  <1> QED BY <1>1, <1>2, <1>5, FrameStep DEF OidcInv

\* register_with_invitation takes the lock of an invitation that nobody has used.
LEMMA RegisterLocks ==
    ASSUME OidcInv, AccountsFrame, NEW b \in Clients, RegisterWithInvitation(b)
    PROVE  OidcInv'
  <1>typ. AccountsTypeOK
    BY DEF OidcInv
  <1> DEFINE r == requests[b]
             new == [r EXCEPT !.step = "registering"]
             i == r.invitation
  <1>1. /\ r.step = "hashing" /\ LockInvitation(b, i) /\ Become(b, new)
        /\ UNCHANGED <<users, organizations, memberships, invitations, sessions>>
    BY DEF RegisterWithInvitation
  <1>2. r \in Request /\ i \in Invitations /\ r.transaction = 0
    BY <1>1, <1>typ, AccountFields DEF OidcInv, RequestsAreFounded, LoginsAreOwn, RequestFollows
  <1>3. new \in Request /\ new.step = "registering" /\ new.invitation = i /\ new.transaction = 0
    BY <1>2 DEF Request
  <1>4. /\ invitations[i].organization # 0 /\ ~invitations[i].used
        /\ \A c \in Clients : requests[c].step = "registering" => requests[c].invitation # i
    BY <1>1 DEF LockInvitation, InvitationAvailable
  <1> HIDE DEF new, i, r
  <1>5. /\ requests' \in [Clients -> Request] /\ requests'[b] = new
        /\ \A c \in Clients : c # b => requests'[c] = requests[c]
    BY <1>1, <1>3, <1>typ, BecomeStep
  <1>6. AccountsTypeOK'
    BY <1>1, <1>5, <1>typ DEF AccountsTypeOK
  <1>7. RequestsAreFounded'
    BY <1>2, <1>3, <1>5 DEF OidcInv, RequestsAreFounded
  <1>8. RegistrationsHoldInvitations'
    <2> SUFFICES ASSUME NEW a \in Clients, requests'[a].step = "registering"
                 PROVE  /\ invitations[requests'[a].invitation].organization # 0
                        /\ ~invitations[requests'[a].invitation].used
                        /\ \A c \in Clients : c # a /\ requests'[c].step = "registering" =>
                              requests'[c].invitation # requests'[a].invitation
      BY <1>1 DEF RegistrationsHoldInvitations
    <2>1. CASE a = b
      BY <2>1, <1>3, <1>4, <1>5
    <2>2. CASE a # b
      BY <2>2, <1>3, <1>4, <1>5 DEF OidcInv, RegistrationsHoldInvitations
    <2> QED BY <2>1, <2>2
  <1>9. InvitationAdmitsOne'
    BY <1>1 DEF OidcInv, InvitationAdmitsOne
  <1>10. RequestFollows(b)'
    BY <1>3, <1>5 DEF RequestFollows
  <1>11. LoginsAreOwn'
    BY <1>1, <1>5, <1>10, UsersGrow, FrameStep, KeepLogins DEF AccountsFrame
  <1> QED BY <1>6, <1>7, <1>8, <1>9, <1>11, FrameStep DEF OidcInv

\* An invitation is used by one new member while no other request holds it.
LEMMA InvitationIsUsedOnce ==
    ASSUME OidcInv, NEW b \in Clients, NEW i \in Invitations, NEW u \in 1 .. MaxUsers,
           ~invitations[i].used, invitations[i].organization # 0,
           InsertMember(invitations[i].organization, u, i), ConsumeInvitation(i),
           requests'[b].step # "registering",
           \A c \in Clients : c # b => requests'[c] = requests[c],
           \A c \in Clients : c # b /\ requests[c].step = "registering" => requests[c].invitation # i
    PROVE  /\ invitations' \in [Invitations -> InvitationRow] /\ memberships' \subseteq Membership
           /\ InvitationAdmitsOne' /\ RegistrationsHoldInvitations'
  <1>typ. AccountsTypeOK
    BY DEF OidcInv
  <1> DEFINE new == [invitations[i] EXCEPT !.used = TRUE]
             row == [organization |-> invitations[i].organization, user |-> u, role |-> "member", via |-> i]
  <1>1. invitations' = [invitations EXCEPT ![i] = new] /\ memberships' = memberships \cup {row}
    BY DEF ConsumeInvitation, InsertMember
  <1>2. new \in InvitationRow /\ new.used = TRUE
    BY <1>typ, AccountFields DEF InvitationRow
  <1>o. invitations[i].organization \in 1 .. MaxOrganizations
    BY <1>typ, AccountFields, AccountsAssumption
  <1>3. row \in Membership /\ row.via = i /\ row.user = u
    BY <1>o DEF Membership
  <1> HIDE DEF new, row
  <1>4. /\ invitations' \in [Invitations -> InvitationRow] /\ invitations'[i] = new
        /\ \A j \in Invitations : j # i => invitations'[j] = invitations[j]
    BY <1>1, <1>2, <1>typ DEF AccountsTypeOK
  <1>5. memberships' \subseteq Membership
    BY <1>1, <1>3, <1>typ DEF AccountsTypeOK
  <1>6. \A m \in memberships : m.via \in Invitations \cup {NoInvitation}
    BY <1>typ DEF AccountsTypeOK, Membership
  <1>7. ASSUME i # NoInvitation PROVE InvitationAdmitsOne'
    <2>1. \A m \in memberships : m.via # i
      BY <1>7 DEF OidcInv, InvitationAdmitsOne
    <2>2. InvitationAdmitsOne'
      <3> SUFFICES ASSUME NEW m \in memberships', m.via # NoInvitation
                   PROVE  /\ invitations'[m.via].used
                          /\ \A n \in memberships' : n.via = m.via => n.user = m.user
        BY DEF InvitationAdmitsOne
      <3>1. CASE m = row
        BY <3>1, <2>1, <1>1, <1>2, <1>3, <1>4
      <3>2. CASE m # row
        <4>1. m \in memberships /\ m.via # i /\ m.via \in Invitations
          BY <3>2, <2>1, <1>1, <1>6
        <4>2. /\ invitations[m.via].used
              /\ \A n \in memberships : n.via = m.via => n.user = m.user
          BY <4>1 DEF OidcInv, InvitationAdmitsOne
        <4> QED BY <4>1, <4>2, <1>1, <1>3, <1>4
      <3> QED BY <3>1, <3>2
    <2> QED BY <2>2
  <1>8. ASSUME i = NoInvitation PROVE InvitationAdmitsOne'
    <2> SUFFICES ASSUME NEW m \in memberships', m.via # NoInvitation
                 PROVE  /\ invitations'[m.via].used
                        /\ \A n \in memberships' : n.via = m.via => n.user = m.user
      BY DEF InvitationAdmitsOne
    <2>1. m \in memberships /\ m.via # i /\ m.via \in Invitations
      BY <1>1, <1>3, <1>6, <1>8
    <2>2. /\ invitations[m.via].used
          /\ \A n \in memberships : n.via = m.via => n.user = m.user
      BY <2>1 DEF OidcInv, InvitationAdmitsOne
    <2> QED BY <2>1, <2>2, <1>1, <1>3, <1>4
  <1>9. RegistrationsHoldInvitations'
    <2> SUFFICES ASSUME NEW a \in Clients, requests'[a].step = "registering"
                 PROVE  /\ invitations'[requests'[a].invitation].organization # 0
                        /\ ~invitations'[requests'[a].invitation].used
                        /\ \A c \in Clients : c # a /\ requests'[c].step = "registering" =>
                              requests'[c].invitation # requests'[a].invitation
      BY DEF RegistrationsHoldInvitations
    <2>1. /\ a # b /\ requests'[a] = requests[a] /\ requests[a].invitation # i
          /\ requests[a].invitation \in Invitations
      BY DEF OidcInv, RequestsAreFounded
    <2> QED BY <2>1, <1>4 DEF OidcInv, RegistrationsHoldInvitations
  <1> QED BY <1>4, <1>5, <1>7, <1>8, <1>9

\* register_with_invitation commits: a user, a member and a used invitation, or nothing.
LEMMA RegistrationCommitsInv ==
    ASSUME OidcInv, AccountsFrame, NEW b \in Clients, RegistrationCommits(b)
    PROVE  OidcInv'
  <1>typ. AccountsTypeOK
    BY DEF OidcInv
  <1> DEFINE r == requests[b]
             i == r.invitation
  <1>1. r.step = "registering" /\ UNCHANGED <<organizations, sessions>>
    BY DEF RegistrationCommits
  <1>2. /\ r \in Request /\ i \in Invitations /\ r.transaction = 0 /\ r.email \in Emails
        /\ invitations[i].organization # 0 /\ ~invitations[i].used
        /\ \A c \in Clients : c # b /\ requests[c].step = "registering" => requests[c].invitation # i
    BY <1>1, <1>typ, AccountFields
    DEF OidcInv, RequestsAreFounded, LoginsAreOwn, RequestFollows, RegistrationsHoldInvitations
  <1>3. CASE ~EmailIsFree(r.email)
    <2>1. UNCHANGED <<users, memberships, invitations>> /\ Become(b, Idle)
      BY <1>3 DEF RegistrationCommits, Done
    <2> QED BY <2>1, <1>1, IdleFields, AccountsRequestStep
  <1>4. CASE EmailIsFree(r.email)
    <2> DEFINE new == [r EXCEPT !.step = "session", !.user = NewUser]
    <2>1. /\ InsertUser(r.email, NoIdentity)
          /\ InsertMember(invitations[i].organization, NewUser, i)
          /\ ConsumeInvitation(i) /\ Become(b, new)
      BY <1>4 DEF RegistrationCommits, WithUser
    <2>2. /\ users' \in Seq(UserRow) /\ Len(users') <= MaxUsers
          /\ NewUser \in 1 .. MaxUsers /\ NewUser \in 0 .. MaxUsers
          /\ \A u \in 1 .. Len(users) : u \in 1 .. Len(users') /\ users'[u] = users[u]
      BY <2>1, <1>2, <1>typ, InsertUserStep
    <2>3. new \in Request /\ new.step = "session" /\ new.transaction = 0
      BY <2>2, <1>2 DEF Request
    <2> HIDE DEF new
    <2>4. /\ requests' \in [Clients -> Request] /\ requests'[b] = new
          /\ \A c \in Clients : c # b => requests'[c] = requests[c]
      BY <2>1, <2>3, <1>typ, BecomeStep
    <2>5. /\ invitations' \in [Invitations -> InvitationRow] /\ memberships' \subseteq Membership
          /\ InvitationAdmitsOne' /\ RegistrationsHoldInvitations'
      <3> HIDE DEF i, r
      <3> QED BY <2>1, <2>2, <2>3, <2>4, <1>2, InvitationIsUsedOnce
    <2>6. AccountsTypeOK'
      BY <2>2, <2>4, <2>5, <1>1, <1>typ DEF AccountsTypeOK
    <2>7. RequestsAreFounded'
      BY <2>3, <2>4 DEF OidcInv, RequestsAreFounded
    <2>8. RequestFollows(b)'
      BY <2>3, <2>4 DEF RequestFollows
    <2>9. HistoryGrows
      BY <2>2, UsersGrow DEF AccountsFrame
    <2>10. LoginsAreOwn'
      BY <2>4, <2>8, <2>9, <1>1, FrameStep, KeepLogins
    <2> QED BY <2>5, <2>6, <2>7, <2>10, FrameStep DEF OidcInv
  <1> QED BY <1>3, <1>4

\* join_organization_with_invitation commits.
LEMMA JoinCommitsInv ==
    ASSUME OidcInv, AccountsFrame, NEW b \in Clients, JoinOrganizationWithInvitation(b)
    PROVE  OidcInv'
  <1>typ. AccountsTypeOK
    BY DEF OidcInv
  <1> DEFINE r == requests[b]
             i == r.invitation
  <1>1. /\ r.step = "joining" /\ LockInvitation(b, i)
        /\ InsertMember(invitations[i].organization, r.user, i)
        /\ ConsumeInvitation(i) /\ Become(b, Idle)
        /\ UNCHANGED <<users, organizations, sessions>>
    BY DEF JoinOrganizationWithInvitation, Done
  <1>2. /\ i \in Invitations /\ r.user # 0 /\ r.user \in 0 .. MaxUsers
    BY <1>1, <1>typ, AccountFields DEF OidcInv, RequestsAreFounded
  <1>3. r.user \in 1 .. MaxUsers
    BY <1>2, AccountsAssumption
  <1>4. /\ invitations[i].organization # 0 /\ ~invitations[i].used
        /\ \A c \in Clients : requests[c].step = "registering" => requests[c].invitation # i
    BY <1>1 DEF LockInvitation, InvitationAvailable
  <1>5. /\ requests' \in [Clients -> Request] /\ requests'[b] = Idle
        /\ \A c \in Clients : c # b => requests'[c] = requests[c]
    BY <1>1, <1>typ, IdleFields, BecomeStep
  <1>6. /\ invitations' \in [Invitations -> InvitationRow] /\ memberships' \subseteq Membership
        /\ InvitationAdmitsOne' /\ RegistrationsHoldInvitations'
    <2> HIDE DEF i, r
    <2> QED BY <1>1, <1>2, <1>3, <1>4, <1>5, IdleFields, InvitationIsUsedOnce
  <1>7. AccountsTypeOK'
    BY <1>1, <1>5, <1>6, <1>typ DEF AccountsTypeOK
  <1>8. RequestsAreFounded'
    BY <1>5, IdleFields DEF OidcInv, RequestsAreFounded
  <1>9. RequestFollows(b)'
    BY <1>5, IdleFields DEF RequestFollows
  <1>10. LoginsAreOwn'
    BY <1>1, <1>5, <1>9, UsersGrow, FrameStep, KeepLogins DEF AccountsFrame
  <1> QED BY <1>6, <1>7, <1>8, <1>10, FrameStep DEF OidcInv

\* Every account step keeps the invariant.
LEMMA AccountsStepInv == OidcInv /\ AccountsNext /\ AccountsFrame => OidcInv'
  <1> SUFFICES ASSUME OidcInv, AccountsNext, AccountsFrame PROVE OidcInv'
    OBVIOUS
  <1>typ. AccountsTypeOK
    BY DEF OidcInv
  <1>1. ASSUME NEW b \in Clients, BootstrapAdmin(b) PROVE OidcInv'
    <2> DEFINE new == [Idle EXCEPT !.step = "provisioning", !.email = AdminEmail]
    <2>1. Become(b, new) /\ UNCHANGED <<users, organizations, memberships, invitations, sessions>>
      BY <1>1 DEF BootstrapAdmin
    <2>2. new \in Request /\ new.step = "provisioning" /\ new.transaction = 0
      BY IdleFields, AccountsAssumption DEF Request
    <2> HIDE DEF new
    <2> QED BY <2>1, <2>2, AccountsRequestStep
  <1>2. ASSUME NEW b \in Clients, BootstrapCommits(b) PROVE OidcInv'
    <2>1. Become(b, Idle) /\ UNCHANGED <<invitations, sessions>>
      BY <1>2 DEF BootstrapCommits, Done
    <2>2. CASE ~EmailIsFree(AdminEmail)
      <3>1. UNCHANGED <<users, organizations, memberships>>
        BY <1>2, <2>2 DEF BootstrapCommits
      <3> QED BY <2>1, <3>1, IdleFields, AccountsRequestStep
    <2>3. CASE EmailIsFree(AdminEmail)
      <3>1. InsertUser(AdminEmail, NoIdentity) /\ InsertOrganization(NewUser)
        BY <1>2, <2>3 DEF BootstrapCommits
      <3>2. /\ users' \in Seq(UserRow) /\ Len(users') <= MaxUsers /\ NewUser \in 1 .. MaxUsers
            /\ \A u \in 1 .. Len(users) : u \in 1 .. Len(users') /\ users'[u] = users[u]
        BY <3>1, <1>typ, InsertUserStep, AccountsAssumption
      <3>3. /\ organizations' \in 0 .. MaxOrganizations /\ memberships' \subseteq Membership
            /\ \A m \in memberships' :
                 m.via = NoInvitation \/ \E n \in memberships : n.via = m.via /\ n.user = m.user
        BY <3>1, <3>2, <1>typ, InsertOrganizationStep
      <3>4. /\ requests' \in [Clients -> Request] /\ requests'[b] = Idle
            /\ \A c \in Clients : c # b => requests'[c] = requests[c]
        BY <2>1, <1>typ, IdleFields, BecomeStep
      <3>5. AccountsTypeOK'
        BY <2>1, <3>2, <3>3, <3>4, <1>typ DEF AccountsTypeOK
      <3>6. RequestsAreFounded'
        BY <3>4, IdleFields DEF OidcInv, RequestsAreFounded
      <3>7. InvitationAdmitsOne' /\ RegistrationsHoldInvitations'
        BY <2>1, <3>3, <3>4, IdleFields, KeepInvitations
      <3>8. RequestFollows(b)'
        BY <3>4, IdleFields DEF RequestFollows
      <3>9. HistoryGrows
        BY <3>2, UsersGrow DEF AccountsFrame
      <3>10. LoginsAreOwn'
        BY <2>1, <3>4, <3>8, <3>9, FrameStep, KeepLogins
      <3> QED BY <3>5, <3>6, <3>7, <3>10, FrameStep DEF OidcInv
    <2> QED BY <2>2, <2>3
  <1>3. ASSUME NEW b \in Clients, NEW u \in DOMAIN users, Login(b, u) PROVE OidcInv'
    <2> DEFINE new == [Idle EXCEPT !.step = "session", !.user = u]
    <2>1. Become(b, new) /\ UNCHANGED <<users, organizations, memberships, invitations, sessions>>
      BY <1>3 DEF Login
    <2>2. u \in 0 .. MaxUsers
      BY <1>typ, AccountFields, AccountsAssumption
    <2>3. new \in Request /\ new.step = "session" /\ new.transaction = 0
      BY <2>2, IdleFields DEF Request
    <2> HIDE DEF new
    <2> QED BY <2>1, <2>3, AccountsRequestStep
  <1>4. ASSUME NEW b \in Clients, CreateSessionCookie(b) PROVE OidcInv'
    <2> DEFINE new == [user |-> requests[b].user, transaction |-> requests[b].transaction]
    <2>1. /\ requests[b].step = "session" /\ sessions' = [sessions EXCEPT ![b] = new] /\ Become(b, Idle)
          /\ UNCHANGED <<users, organizations, memberships, invitations>>
      BY <1>4 DEF CreateSessionCookie, CreateSession, Done
    <2>2. new \in [user: 0 .. MaxUsers, transaction: Nat]
      BY <1>typ, AccountFields
    <2>3. new.user = requests[b].user /\ new.transaction = requests[b].transaction
      OBVIOUS
    <2> HIDE DEF new
    <2>4. /\ sessions' \in [Clients -> [user: 0 .. MaxUsers, transaction: Nat]] /\ sessions'[b] = new
          /\ \A c \in Clients : c # b => sessions'[c] = sessions[c]
      BY <2>1, <2>2, <1>typ DEF AccountsTypeOK
    <2>5. /\ requests' \in [Clients -> Request] /\ requests'[b] = Idle
          /\ \A c \in Clients : c # b => requests'[c] = requests[c]
      BY <2>1, <1>typ, IdleFields, BecomeStep
    <2>6. AccountsTypeOK'
      BY <2>1, <2>4, <2>5, <1>typ DEF AccountsTypeOK
    <2>7. RequestsAreFounded'
      BY <2>5, IdleFields DEF OidcInv, RequestsAreFounded
    <2>8. InvitationAdmitsOne' /\ RegistrationsHoldInvitations'
      BY <2>1, <2>5, IdleFields, KeepInvitations
    <2>9. RequestFollows(b)'
      BY <2>5, IdleFields DEF RequestFollows
    <2>10. SessionFollows(b)'
      BY <2>1, <2>3, <2>4 DEF OidcInv, LoginsAreOwn, RequestFollows, SessionFollows, OwnLogin, AccountsFrame
    <2>11. LoginsAreOwn'
      BY <2>1, <2>4, <2>5, <2>9, <2>10, UsersGrow, FrameStep, KeepLogins DEF AccountsFrame
    <2> QED BY <2>6, <2>7, <2>8, <2>11, FrameStep DEF OidcInv
  <1>5. ASSUME NEW b \in Clients, Logout(b) \/ SessionExpires(b) PROVE OidcInv'
    <2>1. sessions' = [sessions EXCEPT ![b] = NoSession]
          /\ UNCHANGED <<users, organizations, memberships, invitations, requests>>
      BY <1>5 DEF Logout, DeleteSession, SessionExpires
    <2>2. NoSession \in [user: 0 .. MaxUsers, transaction: Nat]
      BY AccountsAssumption DEF NoSession
    <2>3. AccountsTypeOK' /\ \A c \in Clients : sessions'[c] = sessions[c] \/ sessions'[c] = NoSession
      BY <2>1, <2>2, <1>typ DEF AccountsTypeOK
    <2> QED BY <2>1, <2>3, AccountsTableStep
  <1>6. ASSUME NEW u \in DOMAIN users, StatusChanges(u) PROVE OidcInv'
    <2> DEFINE new == [users[u] EXCEPT !.active = ~users[u].active]
    <2>1. users' = [users EXCEPT ![u] = new]
          /\ UNCHANGED <<organizations, memberships, invitations, requests, sessions>>
      BY <1>6 DEF StatusChanges
    <2>2. u \in 1 .. Len(users) /\ users[u] \in UserRow /\ users \in Seq(UserRow)
      BY <1>typ, AccountFields DEF AccountsTypeOK
    <2>3. new \in UserRow /\ new.identity = users[u].identity
      BY <2>2 DEF UserRow
    <2> HIDE DEF new
    <2>4. /\ users' \in Seq(UserRow) /\ Len(users') = Len(users)
          /\ \A j \in 1 .. Len(users) : users'[j] = IF j = u THEN new ELSE users[j]
      BY <2>1, <2>2, <2>3, ExceptSeq
    <2>5. AccountsTypeOK'
      BY <2>1, <2>4, <1>typ DEF AccountsTypeOK
    <2>6. RequestsAreFounded'
      BY <2>1 DEF OidcInv, RequestsAreFounded
    <2>7. InvitationAdmitsOne' /\ RegistrationsHoldInvitations'
      BY <2>1, KeepInvitations
    <2>8. HistoryGrows
      BY <2>3, <2>4, UsersGrow DEF AccountsFrame
    <2>9. LoginsAreOwn'
      BY <2>1, <2>8, FrameStep, KeepLogins
    <2> QED BY <2>5, <2>6, <2>7, <2>9, FrameStep DEF OidcInv
  <1>7. ASSUME NEW b \in Clients, NEW i \in Invitations, NEW o \in 1 .. organizations,
               CreateInvitation(b, i, o)
        PROVE  OidcInv'
    <2> DEFINE new == [invitations[i] EXCEPT !.organization = o]
    <2>1. /\ invitations' = [invitations EXCEPT ![i] = new]
          /\ UNCHANGED <<users, organizations, memberships, requests, sessions>>
      BY <1>7 DEF CreateInvitation, InsertInvitation
    <2>2. o \in 0 .. MaxOrganizations /\ o # 0
      BY <1>typ, AccountsAssumption DEF AccountsTypeOK
    <2>3. new \in InvitationRow /\ new.used = invitations[i].used /\ new.organization = o
      BY <2>2, <1>typ, AccountFields DEF InvitationRow
    <2> HIDE DEF new
    <2>4. /\ invitations' \in [Invitations -> InvitationRow] /\ invitations'[i] = new
          /\ \A j \in Invitations : j # i => invitations'[j] = invitations[j]
      BY <2>1, <2>3, <1>typ DEF AccountsTypeOK
    <2>5. AccountsTypeOK'
      BY <2>1, <2>4, <1>typ DEF AccountsTypeOK
    <2> QED BY <2>1, <2>2, <2>3, <2>4, <2>5, AccountsTableStep
  <1>8. ASSUME NEW i \in Invitations, InvitationExpires(i) PROVE OidcInv'
    <2> DEFINE new == [invitations[i] EXCEPT !.expired = TRUE]
    <2>1. /\ invitations' = [invitations EXCEPT ![i] = new]
          /\ UNCHANGED <<users, organizations, memberships, requests, sessions>>
      BY <1>8 DEF InvitationExpires
    <2>2. /\ new \in InvitationRow /\ new.used = invitations[i].used
          /\ new.organization = invitations[i].organization
      BY <1>typ, AccountFields DEF InvitationRow
    <2> HIDE DEF new
    <2>3. /\ invitations' \in [Invitations -> InvitationRow] /\ invitations'[i] = new
          /\ \A j \in Invitations : j # i => invitations'[j] = invitations[j]
      BY <2>1, <2>2, <1>typ DEF AccountsTypeOK
    <2>4. AccountsTypeOK'
      BY <2>1, <2>3, <1>typ DEF AccountsTypeOK
    <2> QED BY <2>1, <2>2, <2>3, <2>4, AccountsTableStep
  <1>9. ASSUME NEW b \in Clients, NEW i \in Invitations, NEW e \in Emails, Register(b, i, e)
        PROVE  OidcInv'
    <2> DEFINE new == [Idle EXCEPT !.step = "hashing", !.invitation = i, !.email = e]
    <2>1. Become(b, new) /\ UNCHANGED <<users, organizations, memberships, invitations, sessions>>
      BY <1>9 DEF Register
    <2>2. new \in Request /\ new.step = "hashing" /\ new.transaction = 0 /\ new.invitation = i
      BY IdleFields DEF Request
    <2> HIDE DEF new
    <2> QED BY <2>1, <2>2, AccountsRequestStep
  <1>10. ASSUME NEW b \in Clients, NEW i \in Invitations, JoinOrganization(b, i) PROVE OidcInv'
    <2> DEFINE new == [Idle EXCEPT !.step = "joining", !.invitation = i, !.user = sessions[b].user]
    <2>1. /\ Become(b, new) /\ UNCHANGED <<users, organizations, memberships, invitations, sessions>>
          /\ sessions[b].user # 0
      BY <1>10 DEF JoinOrganization, AuthenticatedMutation, AuthenticatedSession, SessionUserByTokenHash
    <2>2. sessions[b].user \in 0 .. MaxUsers
      BY <1>typ, AccountFields
    <2>3. /\ new \in Request /\ new.step = "joining" /\ new.transaction = 0 /\ new.invitation = i
          /\ new.user # 0
      BY <2>1, <2>2, IdleFields DEF Request
    <2> HIDE DEF new
    <2> QED BY <2>1, <2>3, AccountsRequestStep
  <1>11. ASSUME NEW b \in Clients, RequestEnds(b) PROVE OidcInv'
    <2>1. Become(b, Idle) /\ UNCHANGED <<users, organizations, memberships, invitations, sessions>>
      BY <1>11 DEF RequestEnds, Done
    <2> QED BY <2>1, IdleFields, AccountsRequestStep
  <1>12. ASSUME NEW b \in Clients, CreateOrganization(b) PROVE OidcInv'
    <2>1. /\ InsertOrganization(sessions[b].user) /\ sessions[b].user # 0
          /\ UNCHANGED <<users, invitations, requests, sessions>>
      BY <1>12 DEF CreateOrganization, AuthenticatedMutation, AuthenticatedSession, SessionUserByTokenHash
    <2>2. sessions[b].user \in 1 .. MaxUsers
      BY <2>1, <1>typ, AccountFields, AccountsAssumption
    <2>3. /\ organizations' \in 0 .. MaxOrganizations /\ memberships' \subseteq Membership
          /\ \A m \in memberships' :
               m.via = NoInvitation \/ \E n \in memberships : n.via = m.via /\ n.user = m.user
      BY <2>1, <2>2, <1>typ, InsertOrganizationStep
    <2>4. AccountsTypeOK'
      BY <2>1, <2>3, <1>typ DEF AccountsTypeOK
    <2> QED BY <2>1, <2>3, <2>4, AccountsTableStep
  <1>13. ASSUME NEW b \in Clients, NEW m \in memberships, NEW role \in {"admin", "member"},
                UpdateMemberRole(b, m, role)
         PROVE  OidcInv'
    <2> DEFINE new == [m EXCEPT !.role = role]
    <2>1. /\ memberships' = (memberships \ {m}) \cup {new}
          /\ UNCHANGED <<users, organizations, invitations, requests, sessions>>
      BY <1>13 DEF UpdateMemberRole, SetOrganizationMemberRole
    <2>2. new \in Membership /\ new.via = m.via /\ new.user = m.user
      BY <1>typ DEF AccountsTypeOK, Membership
    <2> HIDE DEF new
    <2>3. AccountsTypeOK'
      BY <2>1, <2>2, <1>typ DEF AccountsTypeOK
    <2>4. \A n \in memberships' : \E k \in memberships : k.via = n.via /\ k.user = n.user
      BY <2>1, <2>2
    <2> QED BY <2>1, <2>3, <2>4, AccountsTableStep
  <1> QED
    BY <1>1, <1>2, <1>3, <1>4, <1>5, <1>6, <1>7, <1>8, <1>9, <1>10, <1>11, <1>12, <1>13,
       RegisterLocks, RegistrationCommitsInv, JoinCommitsInv
    DEF AccountsNext

\* A step of the login that leaves the accounts alone.
LEMMA LoginOnlyStep ==
    ASSUME OidcInv, UNCHANGED accountVars, OidcTypeOK', HistoryGrows,
           \A b \in Clients : loginCookies'[b] = loginCookies[b] \/ CookieFollows(b)',
           \A b \in Clients :
              \/ idTokens'[b].nonce = idTokens[b].nonce /\ idTokens'[b].identity = idTokens[b].identity
              \/ TokenFollows(b)'
    PROVE  OidcInv'
  <1>1. UNCHANGED <<users, organizations, memberships, invitations, requests, sessions>>
    BY DEF accountVars
  <1>2. AccountsTypeOK' /\ RequestsAreFounded' /\ RegistrationsHoldInvitations' /\ InvitationAdmitsOne'
    BY <1>1 DEF OidcInv, AccountsTypeOK, RequestsAreFounded, RegistrationsHoldInvitations,
                InvitationAdmitsOne
  <1>3. LoginsAreOwn'
    BY <1>1, KeepLogins
  <1> QED BY <1>2, <1>3 DEF OidcInv

\* The tables, cookies and transactions start empty.
LEMMA OidcInitInv == OidcInit => OidcInv
  <1> SUFFICES ASSUME OidcInit PROVE OidcInv
    OBVIOUS
  <1>0. /\ users = <<>> /\ organizations = 0 /\ memberships = {}
        /\ invitations = [i \in Invitations |-> NoInvitationRow]
        /\ requests = [b \in Clients |-> Idle] /\ sessions = [b \in Clients |-> NoSession]
        /\ loginCookies = [b \in Clients |-> 0] /\ started = <<>>
        /\ grants = [t \in 1 .. MaxTransactions |-> NoIdentity]
        /\ idTokens = [b \in Clients |-> NoToken]
    BY DEF OidcInit, AccountsInit
  <1>1. /\ NoInvitationRow \in InvitationRow
        /\ NoSession \in [user: 0 .. MaxUsers, transaction: Nat] /\ NoSession.transaction = 0
    BY AccountsAssumption DEF NoInvitationRow, InvitationRow, NoSession
  <1>2. NoToken \in [nonce: 0 .. MaxTransactions, identity: Identities \cup {NoIdentity},
                     signed: BOOLEAN, attempt: 0 .. 2] /\ NoToken.nonce = 0
    BY OidcAssumption DEF NoToken
  <1>3. AccountsTypeOK
    BY <1>0, <1>1, IdleFields, AccountsAssumption DEF AccountsTypeOK
  <1>4. OidcTypeOK
    BY <1>0, <1>2, OidcAssumption DEF OidcTypeOK
  <1>5. RequestsAreFounded /\ RegistrationsHoldInvitations /\ InvitationAdmitsOne
    BY <1>0, IdleFields DEF RequestsAreFounded, RegistrationsHoldInvitations, InvitationAdmitsOne
  <1>6. LoginsAreOwn
    BY <1>0, <1>1, <1>2, IdleFields
    DEF LoginsAreOwn, RequestFollows, CookieFollows, TokenFollows, SessionFollows
  <1> QED BY <1>3, <1>4, <1>5, <1>6 DEF OidcInv

\* begin_login: the cookie names the transaction that the same step records.
LEMMA OidcStartInv ==
    ASSUME OidcInv, NEW b \in Clients, OidcStart(b)
    PROVE  OidcInv'
  <1>typ. OidcTypeOK
    BY DEF OidcInv
  <1>1. /\ Len(started) < MaxTransactions /\ started' = Append(started, b)
        /\ loginCookies' = [loginCookies EXCEPT ![b] = Len(started) + 1]
        /\ UNCHANGED <<accountVars, grants, idTokens>>
    BY DEF OidcStart, BeginLogin, SignTransaction
  <1>2. started \in Seq(Clients) /\ Len(started) \in Nat
    BY <1>typ DEF OidcTypeOK
  <1>3. /\ started' \in Seq(Clients) /\ Len(started') = Len(started) + 1
        /\ \A t \in 1 .. Len(started) : started'[t] = started[t]
        /\ started'[Len(started) + 1] = b
    BY <1>1, <1>2, AppendProperties
  <1>4. Len(started) + 1 \in 0 .. MaxTransactions /\ Len(started) + 1 \in 1 .. Len(started')
    BY <1>1, <1>2, <1>3, OidcAssumption
  <1>5. /\ loginCookies' \in [Clients -> 0 .. MaxTransactions]
        /\ loginCookies'[b] = Len(started) + 1
        /\ \A c \in Clients : c # b => loginCookies'[c] = loginCookies[c]
    BY <1>1, <1>4, <1>typ DEF OidcTypeOK
  <1>6. OidcTypeOK'
    BY <1>1, <1>3, <1>4, <1>5, <1>typ, OidcAssumption DEF OidcTypeOK
  <1>7. HistoryGrows
    BY <1>1, <1>2, <1>3 DEF HistoryGrows, accountVars
  <1>8. CookieFollows(b)'
    BY <1>3, <1>4, <1>5 DEF CookieFollows
  <1> QED BY <1>1, <1>5, <1>6, <1>7, <1>8, LoginOnlyStep

\* A cookie expires, or an answer clears it.
LEMMA CookieClearedInv ==
    ASSUME OidcInv, NEW b \in Clients, loginCookies' = [loginCookies EXCEPT ![b] = 0],
           UNCHANGED <<accountVars, started, grants, idTokens>>
    PROVE  OidcInv'
  <1>1. /\ OidcTypeOK'
        /\ \A c \in Clients : loginCookies'[c] = loginCookies[c] \/ loginCookies'[c] = 0
    BY OidcAssumption DEF OidcInv, OidcTypeOK
  <1>2. HistoryGrows
    BY DEF HistoryGrows, accountVars
  <1>3. \A c \in Clients : loginCookies'[c] = loginCookies[c] \/ CookieFollows(c)'
    BY <1>1 DEF CookieFollows
  <1> QED BY <1>1, <1>2, <1>3, LoginOnlyStep

\* The provider grants a transaction once.
LEMMA ProviderGrantsInv ==
    ASSUME OidcInv, NEW t \in 1 .. MaxTransactions, NEW s \in Identities, ProviderGrants(t, s)
    PROVE  OidcInv'
  <1>1. /\ grants[t] = NoIdentity /\ grants' = [grants EXCEPT ![t] = s]
        /\ UNCHANGED <<accountVars, loginCookies, started, idTokens>>
    BY DEF ProviderGrants
  <1>2. OidcTypeOK'
    BY <1>1 DEF OidcInv, OidcTypeOK
  <1>3. HistoryGrows
    BY <1>1 DEF HistoryGrows, accountVars, OidcInv, OidcTypeOK
  <1> QED BY <1>1, <1>2, <1>3, LoginOnlyStep

\* The code is exchanged for the cookie's own transaction.
LEMMA CompleteLoginInv ==
    ASSUME OidcInv, NEW b \in Clients, NEW t \in 1 .. MaxTransactions, NEW signed \in BOOLEAN,
           CompleteLogin(b, t, signed)
    PROVE  OidcInv'
  <1> DEFINE token == [nonce |-> t, identity |-> grants[t], signed |-> signed, attempt |-> 1]
             new == [Idle EXCEPT !.step = "callback", !.transaction = loginCookies[b]]
  <1>1. /\ grants[t] # NoIdentity /\ loginCookies[b] = t
        /\ idTokens' = [idTokens EXCEPT ![b] = token] /\ Become(b, new)
        /\ UNCHANGED <<users, organizations, memberships, invitations, sessions,
                       loginCookies, started, grants>>
    BY DEF CompleteLogin, VerifyTransaction
  <1>2. /\ t \in 0 .. MaxTransactions /\ t # 0 /\ t \in Nat /\ grants[t] \in Identities \cup {NoIdentity}
    BY OidcAssumption DEF OidcInv, OidcTypeOK
  <1>3. OwnLogin(b, t)
    BY <1>1, <1>2 DEF OidcInv, LoginsAreOwn, CookieFollows, OwnLogin
  <1>4. /\ token \in [nonce: 0 .. MaxTransactions, identity: Identities \cup {NoIdentity},
                      signed: BOOLEAN, attempt: 0 .. 2]
        /\ token.nonce = t /\ token.identity = grants[t]
    BY <1>2
  <1>5. new \in Request /\ new.step = "callback" /\ new.transaction = t
    BY <1>1, <1>2, IdleFields DEF Request
  <1> HIDE DEF token, new
  <1>6. /\ OidcTypeOK' /\ idTokens'[b] = token
        /\ \A c \in Clients : c # b => idTokens'[c] = idTokens[c]
    BY <1>1, <1>4 DEF OidcInv, OidcTypeOK
  <1>7. TokenFollows(b)'
    BY <1>1, <1>4, <1>6 DEF TokenFollows
  <1>8. requests'[b] = new
    BY <1>1, <1>5, BecomeStep DEF OidcInv
  <1>9. OwnLogin(b, t)'
    BY <1>1, <1>3 DEF OwnLogin
  <1>10. RequestFollows(b)'
    BY <1>2, <1>5, <1>8, <1>9 DEF RequestFollows
  <1> QED BY <1>1, <1>5, <1>6, <1>7, <1>10, RequestOnlyStep

\* A second attempt to fetch the keys keeps the token.
LEMMA ProviderGetRetriedInv ==
    ASSUME OidcInv, NEW b \in Clients, ProviderGetRetried(b)
    PROVE  OidcInv'
  <1> DEFINE Token == [nonce: 0 .. MaxTransactions, identity: Identities \cup {NoIdentity},
                       signed: BOOLEAN, attempt: 0 .. 2]
             new == [idTokens[b] EXCEPT !.attempt = 2]
  <1>1. /\ idTokens' = [idTokens EXCEPT ![b] = new]
        /\ UNCHANGED <<accountVars, loginCookies, started, grants>>
    BY DEF ProviderGetRetried
  <1>2. idTokens \in [Clients -> Token]
    BY DEF OidcInv, OidcTypeOK
  <1>3. new \in Token /\ new.nonce = idTokens[b].nonce /\ new.identity = idTokens[b].identity
    BY <1>2
  <1> HIDE DEF new
  <1>4. /\ idTokens' \in [Clients -> Token] /\ idTokens'[b] = new
        /\ \A c \in Clients : c # b => idTokens'[c] = idTokens[c]
    BY <1>1, <1>2, <1>3
  <1>5. OidcTypeOK'
    BY <1>1, <1>4 DEF OidcInv, OidcTypeOK
  <1>6. HistoryGrows
    BY <1>1 DEF HistoryGrows, accountVars
  <1> QED BY <1>1, <1>3, <1>4, <1>5, <1>6, LoginOnlyStep

\* The identity of a valid token is the one that was granted for the transaction.
LEMMA CallbackIdentifiedInv ==
    ASSUME OidcInv, NEW b \in Clients, CallbackIdentified(b)
    PROVE  OidcInv'
  <1>typ. AccountsTypeOK
    BY DEF OidcInv
  <1> DEFINE r == requests[b]
             s == idTokens[b].identity
             new == [r EXCEPT !.step = "identified", !.identity = s, !.email = EmailOf[s]]
  <1>1. /\ r.step = "callback" /\ idTokens[b].nonce = r.transaction
        /\ Become(b, new) /\ idTokens' = [idTokens EXCEPT ![b] = NoToken]
        /\ UNCHANGED <<users, organizations, memberships, invitations, sessions,
                       loginCookies, started, grants>>
    BY DEF CallbackIdentified, ValidateIdToken
  <1>2. /\ r.transaction # 0 /\ OwnLogin(b, r.transaction) /\ r \in Request
        /\ s = grants[r.transaction] /\ s # NoIdentity
    BY <1>1, <1>typ, AccountFields DEF OidcInv, LoginsAreOwn, RequestFollows, TokenFollows
  <1>3. s \in Identities /\ EmailOf[s] \in Emails
    <2>1. s \in Identities \cup {NoIdentity}
      BY DEF OidcInv, OidcTypeOK
    <2> QED BY <2>1, <1>2, OidcAssumption
  <1>4. /\ new \in Request /\ new.step = "identified" /\ new.transaction = r.transaction
        /\ new.identity = s
    BY <1>2, <1>3 DEF Request
  <1> HIDE DEF new
  <1>5. NoToken \in [nonce: 0 .. MaxTransactions, identity: Identities \cup {NoIdentity},
                     signed: BOOLEAN, attempt: 0 .. 2] /\ NoToken.nonce = 0
    BY OidcAssumption DEF NoToken
  <1>6. /\ OidcTypeOK' /\ idTokens'[b] = NoToken
        /\ \A c \in Clients : c # b => idTokens'[c] = idTokens[c]
    BY <1>1, <1>5 DEF OidcInv, OidcTypeOK
  <1>7. TokenFollows(b)'
    BY <1>5, <1>6 DEF TokenFollows
  <1>8. requests'[b] = new
    BY <1>1, <1>4, <1>typ, BecomeStep
  <1>9. OwnLogin(b, r.transaction)'
    BY <1>1, <1>2, <1>4, <1>8 DEF OwnLogin
  <1>10. RequestFollows(b)'
    <2> HIDE DEF r, s
    <2>1. grants'[r.transaction] = s
      BY <1>1, <1>2
    <2> QED BY <2>1, <1>1, <1>2, <1>4, <1>8 DEF RequestFollows, OwnLogin
  <1> QED BY <1>1, <1>4, <1>6, <1>7, <1>10, RequestOnlyStep

\* find_or_create_oidc_user finds a user of the identity.
LEMMA FindOidcUserInv ==
    ASSUME OidcInv, NEW b \in Clients, FindOidcUser(b)
    PROVE  OidcInv'
  <1>typ. AccountsTypeOK
    BY DEF OidcInv
  <1> DEFINE r == requests[b]
  <1>1. PICK u \in UserOf(r.identity) : Become(b, WithUser(b, u))
    BY DEF FindOidcUser
  <1>2. /\ r.step = "identified"
        /\ UNCHANGED <<users, organizations, memberships, invitations, sessions, oidcVars>>
    BY DEF FindOidcUser
  <1>3. u \in 1 .. Len(users) /\ users[u].identity = r.identity /\ u \in 0 .. MaxUsers
    BY <1>typ, AccountFields, AccountsAssumption DEF UserOf
  <1>4. r \in Request
    BY <1>typ, AccountFields
  <1> DEFINE new == [r EXCEPT !.step = "session", !.user = u]
  <1>5. /\ new \in Request /\ new.step = "session" /\ new.user = u
        /\ new.transaction = r.transaction /\ WithUser(b, u) = new
    BY <1>3, <1>4 DEF Request, WithUser
  <1> HIDE DEF new
  <1>6. requests'[b] = new
    BY <1>1, <1>5, <1>typ, BecomeStep
  <1>7. r.transaction # 0 => OwnLogin(b, r.transaction) /\ r.identity = grants[r.transaction]
    BY <1>2 DEF OidcInv, LoginsAreOwn, RequestFollows
  <1>8. UNCHANGED <<loginCookies, started, grants, idTokens>>
    BY <1>2 DEF oidcVars
  <1>9. RequestFollows(b)'
    <2> HIDE DEF r
    <2> QED BY <1>2, <1>3, <1>5, <1>6, <1>7, <1>8 DEF RequestFollows, OwnLogin
  <1>10. OidcTypeOK'
    BY <1>8 DEF OidcInv, OidcTypeOK
  <1> QED BY <1>1, <1>2, <1>5, <1>8, <1>9, <1>10, RequestOnlyStep

\* It finds none, and keeps the lock of the identity.
LEMMA CreateOidcUserInv ==
    ASSUME OidcInv, NEW b \in Clients, CreateOidcUser(b)
    PROVE  OidcInv'
  <1>typ. AccountsTypeOK
    BY DEF OidcInv
  <1> DEFINE r == requests[b]
             new == [r EXCEPT !.step = "linking"]
  <1>1. /\ r.step = "identified" /\ Become(b, new)
        /\ UNCHANGED <<users, organizations, memberships, invitations, sessions, oidcVars>>
    BY DEF CreateOidcUser
  <1>2. r \in Request
    BY <1>typ, AccountFields
  <1>3. /\ new \in Request /\ new.step = "linking" /\ new.identity = r.identity
        /\ new.transaction = r.transaction
    BY <1>2 DEF Request
  <1> HIDE DEF new
  <1>4. requests'[b] = new
    BY <1>1, <1>3, <1>typ, BecomeStep
  <1>5. r.transaction # 0 => OwnLogin(b, r.transaction) /\ r.identity = grants[r.transaction]
    BY <1>1 DEF OidcInv, LoginsAreOwn, RequestFollows
  <1>6. UNCHANGED <<loginCookies, started, grants, idTokens>>
    BY <1>1 DEF oidcVars
  <1>7. RequestFollows(b)'
    <2> HIDE DEF r
    <2> QED BY <1>3, <1>4, <1>5, <1>6 DEF RequestFollows, OwnLogin
  <1>8. OidcTypeOK'
    BY <1>6 DEF OidcInv, OidcTypeOK
  <1> QED BY <1>1, <1>3, <1>6, <1>7, <1>8, RequestOnlyStep

\* The new user has the identity of the callback.
LEMMA OidcUserCommitsInv ==
    ASSUME OidcInv, NEW b \in Clients, OidcUserCommits(b)
    PROVE  OidcInv'
  <1>typ. AccountsTypeOK
    BY DEF OidcInv
  <1> DEFINE r == requests[b]
             new == [r EXCEPT !.step = "session", !.user = NewUser]
  <1>1. /\ r.step = "linking" /\ InsertUser(r.email, r.identity) /\ InsertOrganization(NewUser)
        /\ Become(b, new) /\ UNCHANGED <<invitations, sessions, loginCookies, started, grants, idTokens>>
    BY DEF OidcUserCommits, WithUser, oidcVars
  <1>2. r \in Request /\ r.email \in Emails /\ r.identity \in Identities \cup {NoIdentity}
    BY <1>typ, AccountFields
  <1>3. /\ users' \in Seq(UserRow) /\ Len(users') <= MaxUsers /\ NewUser \in 1 .. Len(users')
        /\ NewUser \in 1 .. MaxUsers /\ NewUser \in 0 .. MaxUsers
        /\ users'[NewUser].identity = r.identity
        /\ \A u \in 1 .. Len(users) : u \in 1 .. Len(users') /\ users'[u] = users[u]
    BY <1>1, <1>2, <1>typ, InsertUserStep
  <1>4. /\ organizations' \in 0 .. MaxOrganizations /\ memberships' \subseteq Membership
        /\ \A m \in memberships' :
             m.via = NoInvitation \/ \E n \in memberships : n.via = m.via /\ n.user = m.user
    BY <1>1, <1>3, <1>typ, InsertOrganizationStep
  <1>5. /\ new \in Request /\ new.step = "session" /\ new.user = NewUser
        /\ new.transaction = r.transaction
    BY <1>2, <1>3 DEF Request
  <1> HIDE DEF new
  <1>6. /\ requests' \in [Clients -> Request] /\ requests'[b] = new
        /\ \A c \in Clients : c # b => requests'[c] = requests[c]
    BY <1>1, <1>5, <1>typ, BecomeStep
  <1>7. AccountsTypeOK'
    BY <1>1, <1>3, <1>4, <1>6, <1>typ DEF AccountsTypeOK
  <1>8. OidcTypeOK'
    BY <1>1 DEF OidcInv, OidcTypeOK
  <1>9. RequestsAreFounded'
    BY <1>5, <1>6 DEF OidcInv, RequestsAreFounded
  <1>10. InvitationAdmitsOne' /\ RegistrationsHoldInvitations'
    BY <1>1, <1>4, <1>5, <1>6, KeepInvitations
  <1>11. r.transaction # 0 => OwnLogin(b, r.transaction) /\ r.identity = grants[r.transaction]
    BY <1>1 DEF OidcInv, LoginsAreOwn, RequestFollows
  <1>12. RequestFollows(b)'
    <2> HIDE DEF r
    <2> QED BY <1>1, <1>3, <1>5, <1>6, <1>11 DEF RequestFollows, OwnLogin
  <1>13. HistoryGrows
    BY <1>1, <1>3, UsersGrow
  <1>14. LoginsAreOwn'
    BY <1>1, <1>6, <1>12, <1>13, KeepLogins
  <1> QED BY <1>7, <1>8, <1>9, <1>10, <1>14 DEF OidcInv

\* Every step of accounts and logins keeps the invariant.
LEMMA OidcStepInv == OidcInv /\ [OidcNext]_<<accountVars, oidcVars>> => OidcInv'
  <1> SUFFICES ASSUME OidcInv, [OidcNext]_<<accountVars, oidcVars>> PROVE OidcInv'
    OBVIOUS
  <1>1. ASSUME UNCHANGED <<accountVars, oidcVars>> PROVE OidcInv'
    <2>1. UNCHANGED accountVars /\ UNCHANGED <<loginCookies, started, grants, idTokens>>
      BY <1>1 DEF oidcVars
    <2>2. OidcTypeOK' /\ HistoryGrows
      BY <2>1 DEF OidcInv, OidcTypeOK, HistoryGrows, accountVars
    <2> QED BY <2>1, <2>2, LoginOnlyStep
  <1>2. ASSUME AccountsNext /\ AnswerClearsCookie /\ UNCHANGED <<started, grants>>
               /\ idTokens' = [b \in Clients |-> IF requests'[b] = Idle THEN NoToken ELSE idTokens[b]]
        PROVE  OidcInv'
    BY <1>2, AccountsStepInv DEF AccountsFrame
  <1>3. ASSUME NEW b \in Clients, LoginExpires(b) PROVE OidcInv'
    BY <1>3, CookieClearedInv DEF LoginExpires, SignTransaction
  <1>4. ASSUME NEW b \in Clients, NEW t \in 1 .. MaxTransactions, CallbackRefused(b, t) PROVE OidcInv'
    BY <1>4, CookieClearedInv DEF CallbackRefused
  <1> QED
    BY <1>1, <1>2, <1>3, <1>4, OidcStartInv, ProviderGrantsInv, CompleteLoginInv,
       ProviderGetRetriedInv, CallbackIdentifiedInv, FindOidcUserInv, CreateOidcUserInv,
       OidcUserCommitsInv
    DEF OidcNext

\* register_with_invitation and join_organization_with_invitation: an invitation admits
\* one user, for any number of requests that present it at once.
THEOREM InvitationOnce == OidcSpec => []InvitationAdmitsOne
  <1>1. OidcInv => InvitationAdmitsOne
    BY DEF OidcInv
  <1> QED BY <1>1, OidcInitInv, OidcStepInv, PTL DEF OidcSpec

\* complete_login and find_or_create_oidc_user: a session that came from the provider is
\* of the user who logged in there for a login that its own browser started.
THEOREM OwnSession == OidcSpec => []SessionFromOwnLogin
  <1>1. OidcInv => SessionFromOwnLogin
    BY DEF OidcInv, LoginsAreOwn, SessionFollows, OwnLogin, SessionFromOwnLogin
  <1> QED BY <1>1, OidcInitInv, OidcStepInv, PTL DEF OidcSpec
=============================================================================
