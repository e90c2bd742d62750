------------------------------ MODULE Accounts ------------------------------
(***************************************************************************)
(* Users, organizations, memberships, invitations and browser sessions.    *)
(*                                                                         *)
(* Users come into being in three ways: the bootstrap of a replica, a      *)
(* registration with an invitation, and the first login of an external     *)
(* identity (module OidcLogin).  A request is a sequence of steps; what it *)
(* read in an earlier one may no longer be true.  The transactions that    *)
(* insert a user are two steps, the look-ups and the insert, because no    *)
(* row lock covers an e-mail address that is not there yet; other          *)
(* transactions are one.                                                   *)
(***************************************************************************)
EXTENDS Naturals, Sequences, FiniteSets

CONSTANTS
    Clients,           \* browsers, each with one request at a time
    Emails,            \* normalized e-mail addresses
    Identities,        \* (issuer, subject) pairs of the identity provider
    AdminEmail,        \* of the administrator that the configuration names
    Invitations,       \* invitation codes
    MaxUsers,          \* bound: users
    MaxOrganizations,  \* bound: organizations
    RegistrationLimit  \* permits of registration_limiter

ASSUME AccountsAssumption ==
    /\ AdminEmail \in Emails
    /\ MaxUsers \in Nat
    /\ MaxOrganizations \in Nat

NoInvitation == "uninvited"
NoIdentity == "local"

VARIABLES
    users,        \* table users (with user_external_identities)
    organizations,\* number of rows in table organizations
    memberships,  \* table organization_memberships, and the invitation that led to it
    invitations,  \* table invitations
    requests,     \* what each client's request has come to
    sessions      \* each client's cookie and its row in table sessions

accountVars == <<users, organizations, memberships, invitations, requests, sessions>>

UserRow == [email: Emails, identity: Identities \cup {NoIdentity}, active: BOOLEAN]
Membership == [organization: 1 .. MaxOrganizations, user: 1 .. MaxUsers,
               role: {"owner", "admin", "member"}, via: Invitations \cup {NoInvitation}]
NoInvitationRow == [organization |-> 0, used |-> FALSE, expired |-> FALSE]
InvitationRow == [organization: 0 .. MaxOrganizations, used: BOOLEAN, expired: BOOLEAN]
NoSession == [user |-> 0, transaction |-> 0]

\* What a request remembers; most steps use a part of it.
Request == [step: {"idle", "hashing", "registering", "joining", "provisioning",
                   "callback", "identified", "linking", "session"},
            email: Emails, identity: Identities \cup {NoIdentity},
            invitation: Invitations \cup {NoInvitation}, user: 0 .. MaxUsers,
            transaction: Nat]

AnyEmail == CHOOSE e \in Emails : TRUE
Idle == [step |-> "idle", email |-> AnyEmail, identity |-> NoIdentity,
         invitation |-> NoInvitation, user |-> 0, transaction |-> 0]

AccountsTypeOK ==
    /\ users \in Seq(UserRow) /\ Len(users) <= MaxUsers
    /\ organizations \in 0 .. MaxOrganizations
    /\ memberships \subseteq Membership
    /\ invitations \in [Invitations -> InvitationRow]
    /\ requests \in [Clients -> Request]
    /\ sessions \in [Clients -> [user: 0 .. MaxUsers, transaction: Nat]]

AccountsInit ==
    /\ users = <<>>
    /\ organizations = 0
    /\ memberships = {}
    /\ invitations = [i \in Invitations |-> NoInvitationRow]
    /\ requests = [b \in Clients |-> Idle]
    /\ sessions = [b \in Clients |-> NoSession]
-----------------------------------------------------------------------------
\* lookup_user_by_email.
UsersWithEmail(e) == {u \in DOMAIN users : users[u].email = e}

\* The index users_normalized_email_key refuses a second row.
EmailIsFree(e) == UsersWithEmail(e) = {}

\* One of the memberships of session_user.
MemberOf(o, u) == \E m \in memberships : m.organization = o /\ m.user = u

\* The row of a new user; its principal is inserted in the same transaction.
InsertUser(e, identity) ==
    /\ Len(users) < MaxUsers
    /\ users' = Append(users, [email |-> e, identity |-> identity, active |-> TRUE])

NewUser == Len(users) + 1

\* An organization and its owner's membership.
InsertOrganization(u) ==
    /\ organizations < MaxOrganizations
    /\ organizations' = organizations + 1
    /\ memberships' = memberships \cup
           {[organization |-> organizations + 1, user |-> u, role |-> "owner",
             via |-> NoInvitation]}

\* There is a row that has not expired and its user is active.
SessionUserByTokenHash(b) ==
    /\ sessions[b].user # 0
    /\ users[sessions[b].user].active

\* The cookie's session is looked up with every request.
AuthenticatedSession(b) == requests[b] = Idle /\ SessionUserByTokenHash(b)

\* A request that changes something: the origin and the CSRF token are right, and no
\* role is active in the browser.
AuthenticatedMutation(b) == AuthenticatedSession(b)

Become(b, r) == requests' = [requests EXCEPT ![b] = r]
Done(b) == Become(b, Idle)

\* A request whose user has been found goes on to create a session.
WithUser(b, u) == [requests[b] EXCEPT !.step = "session", !.user = u]
-----------------------------------------------------------------------------
\* bootstrap_admin takes an advisory lock and looks the address up; a replica that
\* starts is a client here.
BootstrapAdmin(b) ==
    /\ requests[b] = Idle
    /\ \A c \in Clients : requests[c].step # "provisioning"
    /\ UsersWithEmail(AdminEmail) = {}
    /\ Become(b, [Idle EXCEPT !.step = "provisioning", !.email = AdminEmail])
    /\ UNCHANGED <<users, organizations, memberships, invitations, sessions>>

\* The inserts; with a user who registered in between, the transaction fails and the
\* replica starts again.
BootstrapCommits(b) ==
    /\ requests[b].step = "provisioning"
    /\ IF EmailIsFree(AdminEmail)
       THEN InsertUser(AdminEmail, NoIdentity) /\ InsertOrganization(NewUser)
       ELSE UNCHANGED <<users, organizations, memberships>>
    /\ Done(b)
    /\ UNCHANGED <<invitations, sessions>>
-----------------------------------------------------------------------------
\* A user with a password, by address.
PasswordUserByEmail(u) == users[u].identity = NoIdentity

\* POST login: the status is looked at, and the password is right.
Login(b, u) ==
    /\ requests[b] = Idle
    /\ PasswordUserByEmail(u)
    /\ users[u].active
    /\ Become(b, [Idle EXCEPT !.step = "session", !.user = u])
    /\ UNCHANGED <<users, organizations, memberships, invitations, sessions>>

\* create_session: a row, whatever has become of the user's status.
CreateSession(b) ==
    sessions' = [sessions EXCEPT ![b] = [user |-> requests[b].user,
                     transaction |-> requests[b].transaction]]

\* create_session_cookie: the answer sets the cookie.
CreateSessionCookie(b) ==
    /\ requests[b].step = "session"
    /\ CreateSession(b)
    /\ Done(b)
    /\ UNCHANGED <<users, organizations, memberships, invitations>>

DeleteSession(b) == sessions' = [sessions EXCEPT ![b] = NoSession]

\* POST logout: the row goes and the cookie is cleared.
Logout(b) ==
    /\ AuthenticatedSession(b)
    /\ DeleteSession(b)
    /\ UNCHANGED <<users, organizations, memberships, invitations, requests>>

\* A row that has expired is as good as none.
SessionExpires(b) ==
    /\ sessions[b] # NoSession
    /\ sessions' = [sessions EXCEPT ![b] = NoSession]
    /\ UNCHANGED <<users, organizations, memberships, invitations, requests>>

\* An operator suspends or reinstates a user.
StatusChanges(u) ==
    /\ users' = [users EXCEPT ![u].active = ~@]
    /\ UNCHANGED <<organizations, memberships, invitations, requests, sessions>>
-----------------------------------------------------------------------------
Administers(u, o) ==
    \E m \in memberships : m.organization = o /\ m.user = u /\ m.role \in {"owner", "admin"}

\* Store::create_invitation: a row only for an owner or admin of the organization.
InsertInvitation(i, u, o) ==
    /\ invitations[i] = NoInvitationRow
    /\ Administers(u, o)
    /\ invitations' = [invitations EXCEPT ![i].organization = o]

\* POST invitations.
CreateInvitation(b, i, o) ==
    /\ AuthenticatedMutation(b)
    /\ InsertInvitation(i, sessions[b].user, o)
    /\ UNCHANGED <<users, organizations, memberships, requests, sessions>>

InvitationExpires(i) ==
    /\ invitations[i].organization # 0
    /\ ~invitations[i].expired
    /\ invitations' = [invitations EXCEPT ![i].expired = TRUE]
    /\ UNCHANGED <<users, organizations, memberships, requests, sessions>>

\* invitation_available, which each transaction asks again with FOR UPDATE.
InvitationAvailable(i) ==
    /\ invitations[i].organization # 0
    /\ ~invitations[i].used
    /\ ~invitations[i].expired

\* Mutant: the transaction relies on the check of the handler.
InvitationNotRechecked(b, i) == invitations[i].organization # 0

\* The row is still available and no other transaction holds its lock.
LockInvitation(b, i) ==
    /\ InvitationAvailable(i)
    /\ \A c \in Clients : requests[c].step = "registering" => requests[c].invitation # i

ConsumeInvitation(i) == invitations' = [invitations EXCEPT ![i].used = TRUE]

InsertMember(o, u, i) ==
    memberships' = memberships \cup
        {[organization |-> o, user |-> u, role |-> "member", via |-> i]}

\* POST register up to the password hash: the invitation is available and there is a permit.
Register(b, i, e) ==
    /\ requests[b] = Idle
    /\ InvitationAvailable(i)
    /\ Cardinality({c \in Clients : requests[c].step \in {"hashing", "registering"}})
         < RegistrationLimit
    /\ Become(b, [Idle EXCEPT !.step = "hashing", !.invitation = i, !.email = e])
    /\ UNCHANGED <<users, organizations, memberships, invitations, sessions>>

\* register_with_invitation up to the look-up of the address.
RegisterWithInvitation(b) ==
    LET r == requests[b]
    IN  /\ r.step = "hashing"
        /\ LockInvitation(b, r.invitation)
        /\ UsersWithEmail(r.email) = {}
        /\ Become(b, [r EXCEPT !.step = "registering"])
        /\ UNCHANGED <<users, organizations, memberships, invitations, sessions>>

\* Its inserts and the commit; the index may refuse the user, and then nothing happens.
RegistrationCommits(b) ==
    LET r == requests[b]
    IN  /\ r.step = "registering"
        /\ IF EmailIsFree(r.email)
           THEN /\ InsertUser(r.email, NoIdentity)
                /\ InsertMember(invitations[r.invitation].organization, NewUser, r.invitation)
                /\ ConsumeInvitation(r.invitation)
                /\ Become(b, WithUser(b, NewUser))
           ELSE UNCHANGED <<users, memberships, invitations>> /\ Done(b)
        /\ UNCHANGED <<organizations, sessions>>

\* POST organizations/join by a user who is logged in.
JoinOrganization(b, i) ==
    /\ AuthenticatedMutation(b)
    /\ Become(b, [Idle EXCEPT !.step = "joining", !.invitation = i, !.user = sessions[b].user])
    /\ UNCHANGED <<users, organizations, memberships, invitations, sessions>>

JoinOrganizationWithInvitation(b) ==
    LET r == requests[b]
        o == invitations[r.invitation].organization
    IN  /\ r.step = "joining"
        /\ LockInvitation(b, r.invitation)
        /\ users[r.user].active
        /\ ~MemberOf(o, r.user)
        /\ InsertMember(o, r.user, r.invitation)
        /\ ConsumeInvitation(r.invitation)
        /\ Done(b)
        /\ UNCHANGED <<users, organizations, sessions>>

\* Any request may be refused, or be cut off between two steps; its transaction is
\* rolled back.
RequestEnds(b) ==
    /\ requests[b] # Idle
    /\ Done(b)
    /\ UNCHANGED <<users, organizations, memberships, invitations, sessions>>

\* POST organizations: a new tenant with the user as its owner.
CreateOrganization(b) ==
    /\ AuthenticatedMutation(b)
    /\ InsertOrganization(sessions[b].user)
    /\ UNCHANGED <<users, invitations, requests, sessions>>

\* An owner's role stays.
SetOrganizationMemberRole(m, role) ==
    /\ m.role # "owner"
    /\ memberships' = (memberships \ {m}) \cup {[m EXCEPT !.role = role]}

\* PUT members/{id}/role, by an owner or admin.
UpdateMemberRole(b, m, role) ==
    /\ AuthenticatedMutation(b)
    /\ Administers(sessions[b].user, m.organization)
    /\ SetOrganizationMemberRole(m, role)
    /\ UNCHANGED <<users, organizations, invitations, requests, sessions>>

AccountsNext ==
    \/ \E b \in Clients : BootstrapAdmin(b)
    \/ \E b \in Clients : BootstrapCommits(b)
    \/ \E b \in Clients, u \in DOMAIN users : Login(b, u)
    \/ \E b \in Clients : CreateSessionCookie(b)
    \/ \E b \in Clients : Logout(b)
    \/ \E b \in Clients : SessionExpires(b)
    \/ \E u \in DOMAIN users : StatusChanges(u)
    \/ \E b \in Clients, i \in Invitations, o \in 1 .. organizations : CreateInvitation(b, i, o)
    \/ \E i \in Invitations : InvitationExpires(i)
    \/ \E b \in Clients, i \in Invitations, e \in Emails : Register(b, i, e)
    \/ \E b \in Clients : RegisterWithInvitation(b)
    \/ \E b \in Clients : RegistrationCommits(b)
    \/ \E b \in Clients, i \in Invitations : JoinOrganization(b, i)
    \/ \E b \in Clients : JoinOrganizationWithInvitation(b)
    \/ \E b \in Clients : RequestEnds(b)
    \/ \E b \in Clients : CreateOrganization(b)
    \/ \E b \in Clients, m \in memberships, role \in {"admin", "member"} :
          UpdateMemberRole(b, m, role)
-----------------------------------------------------------------------------
\* An invitation admits one user, whether they register or join with it and however
\* many requests present it at once; an invitation that admitted somebody is used.
InvitationAdmitsOne ==
    \A m \in memberships :
        m.via # NoInvitation =>
            /\ invitations[m.via].used
            /\ \A n \in memberships : n.via = m.via => n.user = m.user
=============================================================================
