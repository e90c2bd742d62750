----------------------------- MODULE OidcLogin -----------------------------
(***************************************************************************)
(* Login with the external identity provider.  oidc_start signs a          *)
(* transaction (state, nonce, PKCE verifier) into a cookie and redirects;  *)
(* the provider sends the browser back with a code; the callback checks    *)
(* the state against the cookie, exchanges the code, fetches the keys and  *)
(* validates the identity token.  A browser may start several logins, in   *)
(* tabs that share the cookie, and may follow a callback late or twice.    *)
(*                                                                         *)
(* A transaction is a number that stands for its state, nonce and verifier.*)
(***************************************************************************)
EXTENDS Accounts

CONSTANTS
    MaxTransactions,  \* bound: logins that are started
    EmailOf           \* the address that the provider asserts for an identity

ASSUME OidcAssumption ==
    /\ MaxTransactions \in Nat
    /\ EmailOf \in [Identities -> Emails]

VARIABLES
    loginCookies,     \* hc_oidc_transaction of each client, 0 when there is none
    started,          \* which client started each transaction
    grants,           \* who logged in at the provider for each transaction
    idTokens          \* identity token of each callback between exchange and validation

oidcVars == <<loginCookies, started, grants, idTokens>>

\* The token, and the attempt of the GET that fetches the provider's keys.
NoToken == [nonce |-> 0, identity |-> NoIdentity, signed |-> FALSE, attempt |-> 0]

OidcTypeOK ==
    /\ loginCookies \in [Clients -> 0 .. MaxTransactions]
    /\ started \in Seq(Clients) /\ Len(started) <= MaxTransactions
    /\ grants \in [1 .. MaxTransactions -> Identities \cup {NoIdentity}]
    /\ idTokens \in [Clients -> [nonce: 0 .. MaxTransactions,
                                 identity: Identities \cup {NoIdentity}, signed: BOOLEAN,
                                 attempt: 0 .. 2]]

OidcInit ==
    /\ AccountsInit
    /\ loginCookies = [b \in Clients |-> 0]
    /\ started = <<>>
    /\ grants = [t \in 1 .. MaxTransactions |-> NoIdentity]
    /\ idTokens = [b \in Clients |-> NoToken]
-----------------------------------------------------------------------------
\* The cookie replaces an older one.
SignTransaction(b, t) == loginCookies' = [loginCookies EXCEPT ![b] = t]

\* begin_login: a new state, nonce and verifier.
BeginLogin(b) ==
    /\ Len(started) < MaxTransactions
    /\ started' = Append(started, b)
    /\ SignTransaction(b, Len(started) + 1)

\* GET oidc/start; when discovery fails nothing changes.
OidcStart(b) ==
    /\ BeginLogin(b)
    /\ UNCHANGED <<accountVars, grants, idTokens>>

\* validate_transaction_age: an old cookie is as good as none.
LoginExpires(b) ==
    /\ loginCookies[b] # 0
    /\ SignTransaction(b, 0)
    /\ UNCHANGED <<accountVars, started, grants, idTokens>>

\* The user authenticates at the provider, which redirects back with state and code.
ProviderGrants(t, s) ==
    /\ t \in 1 .. Len(started)
    /\ grants[t] = NoIdentity
    /\ grants' = [grants EXCEPT ![t] = s]
    /\ UNCHANGED <<accountVars, loginCookies, started, idTokens>>

\* verify_transaction and the comparison of its state with the query's.
VerifyTransaction(b, t) == loginCookies[b] = t

\* The provider exchanges a code for the verifier of its own transaction.  It should do
\* so once; nothing here depends on that.
TokenExchange(t, verifier) == verifier = t

\* GET oidc/callback?state=t&code=..: the cookie is cleared by the answer whatever it
\* is.  complete_login exchanges the code once; an error ends it.
CompleteLogin(b, t, signed) ==
    /\ requests[b] = Idle
    /\ grants[t] # NoIdentity
    /\ VerifyTransaction(b, t)
    /\ TokenExchange(t, loginCookies[b])
    /\ idTokens' = [idTokens EXCEPT ![b] =
                       [nonce |-> t, identity |-> grants[t], signed |-> signed, attempt |-> 1]]
    /\ Become(b, [Idle EXCEPT !.step = "callback", !.transaction = loginCookies[b]])
    /\ UNCHANGED <<users, organizations, memberships, invitations, sessions,
                   loginCookies, started, grants>>

CallbackRefused(b, t) ==
    /\ requests[b] = Idle
    /\ grants[t] # NoIdentity
    /\ loginCookies[b] # 0
    /\ loginCookies' = [loginCookies EXCEPT ![b] = 0]
    /\ UNCHANGED <<accountVars, started, grants, idTokens>>

\* provider_get_json: a timeout or a 502..504 of the first attempt is tried again once.
\* Only GETs are; the exchange of the code is not.
ProviderGetRetried(b) ==
    /\ requests[b].step = "callback"
    /\ idTokens[b].attempt = 1
    /\ idTokens' = [idTokens EXCEPT ![b].attempt = 2]
    /\ UNCHANGED <<accountVars, loginCookies, started, grants>>

\* validate_id_token: a supported signature of one of the provider's keys, the right
\* issuer and audience, and the nonce of the transaction.
ValidateIdToken(token, transaction) ==
    /\ token.signed
    /\ token.nonce = transaction

\* The keys have been fetched, and the token is valid.
CallbackIdentified(b) ==
    LET r == requests[b]
        s == idTokens[b].identity
    IN  /\ r.step = "callback"
        /\ ValidateIdToken(idTokens[b], r.transaction)
        /\ Become(b, [r EXCEPT !.step = "identified", !.identity = s, !.email = EmailOf[s]])
        /\ idTokens' = [idTokens EXCEPT ![b] = NoToken]
        /\ UNCHANGED <<users, organizations, memberships, invitations, sessions,
                       loginCookies, started, grants>>
-----------------------------------------------------------------------------
\* Mutant: a user is found by the address that the provider asserts.
UserByEmail(s) == UsersWithEmail(EmailOf[s])

\* The row of user_external_identities.
UserOf(s) == {u \in DOMAIN users : users[u].identity = s}

\* The advisory lock on the identity.
IdentityLocked(s) == \E c \in Clients : requests[c].step = "linking" /\ requests[c].identity = s

\* find_or_create_oidc_user finds the identity: the user's status is looked at.
FindOidcUser(b) ==
    LET r == requests[b]
    IN  /\ r.step = "identified"
        /\ ~IdentityLocked(r.identity)
        /\ \E u \in UserOf(r.identity) : users[u].active /\ Become(b, WithUser(b, u))
        /\ UNCHANGED <<users, organizations, memberships, invitations, sessions, oidcVars>>

\* It does not, and the address is free: the lock is kept.
CreateOidcUser(b) ==
    LET r == requests[b]
    IN  /\ r.step = "identified"
        /\ ~IdentityLocked(r.identity)
        /\ UserOf(r.identity) = {}
        /\ UsersWithEmail(r.email) = {}
        /\ Become(b, [r EXCEPT !.step = "linking"])
        /\ UNCHANGED <<users, organizations, memberships, invitations, sessions, oidcVars>>

\* The inserts: a user, the identity, and an organization of their own.
OidcUserCommits(b) ==
    LET r == requests[b]
    IN  /\ r.step = "linking"
        /\ EmailIsFree(r.email)
        /\ InsertUser(r.email, r.identity)
        /\ InsertOrganization(NewUser)
        /\ Become(b, WithUser(b, NewUser))
        /\ UNCHANGED <<invitations, sessions, oidcVars>>

\* The answer to a callback, good or bad, clears the transaction cookie.
AnswerClearsCookie ==
    loginCookies' = [b \in Clients |->
        IF requests[b].transaction # 0 /\ requests'[b] = Idle THEN 0 ELSE loginCookies[b]]

OidcNext ==
    \/ /\ AccountsNext
       /\ AnswerClearsCookie
       /\ idTokens' = [b \in Clients |-> IF requests'[b] = Idle THEN NoToken ELSE idTokens[b]]
       /\ UNCHANGED <<started, grants>>
    \/ \E b \in Clients : OidcStart(b)
    \/ \E b \in Clients : LoginExpires(b)
    \/ \E t \in 1 .. MaxTransactions, s \in Identities : ProviderGrants(t, s)
    \/ \E b \in Clients, t \in 1 .. MaxTransactions, signed \in BOOLEAN :
          CompleteLogin(b, t, signed)
    \/ \E b \in Clients, t \in 1 .. MaxTransactions : CallbackRefused(b, t)
    \/ \E b \in Clients : ProviderGetRetried(b)
    \/ \E b \in Clients : CallbackIdentified(b)
    \/ \E b \in Clients : FindOidcUser(b)
    \/ \E b \in Clients : CreateOidcUser(b)
    \/ \E b \in Clients : OidcUserCommits(b)

OidcSpec == OidcInit /\ [][OidcNext]_<<accountVars, oidcVars>>
-----------------------------------------------------------------------------
\* A session that came from the provider belongs to the user who logged in there for a
\* login that this same browser started, and not to whoever's callback the browser
\* happened to follow, late, twice or out of order with another tab's.
SessionFromOwnLogin ==
    \A b \in Clients :
        LET x == sessions[b]
        IN  x.transaction # 0 =>
                /\ started[x.transaction] = b
                /\ users[x.user].identity = grants[x.transaction]
=============================================================================
