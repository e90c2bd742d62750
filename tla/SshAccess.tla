----------------------------- MODULE SshAccess -----------------------------
(***************************************************************************)
(* SSH into the containers of one Flash service.  A user registers public  *)
(* keys, somebody who may update the service allows a key for it, and the  *)
(* gateway of an API replica accepts connections that sign with the key.   *)
(* The gateway asks the database when a connection authenticates, when a   *)
(* channel is opened and every 30 seconds while one runs; between these    *)
(* checks it relies on the identity it has kept.                           *)
(*                                                                         *)
(* check_identity is one step.  Bytes, terminals and the choice of the Pod *)
(* are left out.                                                           *)
(***************************************************************************)
EXTENDS Naturals, FiniteSets

CONSTANTS
    SshUsers,              \* members of the account
    SshKeyIds,             \* identities of rows of flash_ssh_keys
    Fingerprints,          \* public keys
    SshConnections,        \* connections, one per permit of the gateway
    SshChannels,           \* channels of a connection, one per permit
    MaxKeysPerUser,        \* MAX_KEYS_PER_USER
    MaxBindingsPerService, \* MAX_BINDINGS_PER_SERVICE
    NoSshKey, NoIdentity

VARIABLES
    sshStanding, \* user row, membership and principal
    execAllowed, \* users whom IAM allows flash:ExecInstance on the service
    sshKeys,     \* table flash_ssh_keys
    sshBindings, \* table flash_ssh_key_bindings of the service
    sshService,  \* state of the service row
    connections, \* the gateway's connections
    channels     \* the gateway's channels

sshVars == <<sshStanding, execAllowed, sshKeys, sshBindings, sshService, connections, channels>>

SshKeyRow == [user: SshUsers, fingerprint: Fingerprints]

\* struct Identity: what a connection keeps of the key it has signed with.
Identity == [user: SshUsers, key: SshKeyIds, fingerprint: Fingerprints]

ChannelIds == SshConnections \X SshChannels

SshTypeOK ==
    /\ sshStanding \in [SshUsers -> {"active", "suspended", "gone"}]
    /\ execAllowed \in SUBSET SshUsers
    /\ sshKeys \in [SshKeyIds -> SshKeyRow \cup {NoSshKey}]
    /\ sshBindings \in SUBSET SshKeyIds
    /\ sshService \in {"live", "deleting", "removed"}
    /\ connections \in [SshConnections -> [step: {"closed", "handshake", "looked_up", "ready"},
                                           identity: Identity \cup {NoIdentity}]]
    /\ channels \in [ChannelIds -> [step: {"closed", "opened", "running"},
                                    identity: Identity \cup {NoIdentity}]]

ClosedConnection == [step |-> "closed", identity |-> NoIdentity]
ClosedChannel == [step |-> "closed", identity |-> NoIdentity]

SshInit ==
    /\ sshStanding = [u \in SshUsers |-> "active"]
    /\ execAllowed = SshUsers
    /\ sshKeys = [k \in SshKeyIds |-> NoSshKey]
    /\ sshBindings = {}
    /\ sshService = "live"
    /\ connections = [c \in SshConnections |-> ClosedConnection]
    /\ channels = [c \in ChannelIds |-> ClosedChannel]

-----------------------------------------------------------------------------
\* human: a user's own session or token, and a membership with an enabled principal.
ActsInPerson(u) == sshStanding[u] = "active"

\* Store::create_flash_ssh_key: the user row is locked, the membership read again,
\* and a fingerprint is unique in the account.
CreateFlashSshKey(u, k, f) ==
    /\ sshStanding[u] = "active"
    /\ sshKeys[k] = NoSshKey
    /\ Cardinality({j \in SshKeyIds : sshKeys[j] # NoSshKey /\ sshKeys[j].user = u})
         < MaxKeysPerUser
    /\ \A j \in SshKeyIds : sshKeys[j] # NoSshKey => sshKeys[j].fingerprint # f
    \* A key's identity is not used again: nobody remembers this one.
    /\ \A c \in SshConnections :
         connections[c].identity # NoIdentity => connections[c].identity.key # k
    /\ \A c \in ChannelIds :
         channels[c].identity # NoIdentity => channels[c].identity.key # k
    /\ sshKeys' = [sshKeys EXCEPT ![k] = [user |-> u, fingerprint |-> f]]
    /\ UNCHANGED <<sshStanding, execAllowed, sshBindings, sshService, connections, channels>>

\* POST ssh-keys.  Names, formats and the comparison with GitHub are left out.
CreateKey(u, k, f) == ActsInPerson(u) /\ CreateFlashSshKey(u, k, f)

\* A key that goes takes its bindings along (ON DELETE CASCADE).
DropKeys(ks) ==
    /\ sshKeys' = [k \in SshKeyIds |-> IF k \in ks THEN NoSshKey ELSE sshKeys[k]]
    /\ sshBindings' = sshBindings \ ks

\* Store::delete_flash_ssh_key: users delete their own keys.
DeleteFlashSshKey(u, k) ==
    /\ sshKeys[k] # NoSshKey
    /\ sshKeys[k].user = u
    /\ DropKeys({k})
    /\ UNCHANGED <<sshStanding, execAllowed, sshService, connections, channels>>

DeleteKey(u, k) == ActsInPerson(u) /\ DeleteFlashSshKey(u, k)

\* Store::set_flash_service_ssh_key, under the lock of the service row.
SetFlashServiceSshKey(k, enabled) ==
    /\ sshService = "live"
    /\ enabled => /\ sshKeys[k] # NoSshKey
                  /\ k \in sshBindings \/ Cardinality(sshBindings) < MaxBindingsPerService
    /\ sshBindings' = IF enabled THEN sshBindings \cup {k} ELSE sshBindings \ {k}
    /\ UNCHANGED <<sshStanding, execAllowed, sshKeys, sshService, connections, channels>>

\* change_service_key: whoever may update the service decides, for anybody's key.
ChangeServiceKey(u, k, enabled) == ActsInPerson(u) /\ SetFlashServiceSshKey(k, enabled)

\* Operators suspend a user or disable its principal and take that back; a
\* membership that ends takes the user's keys along.
StandingChanges(u, standing) ==
    /\ sshStanding[u] # "gone"
    /\ sshStanding' = [sshStanding EXCEPT ![u] = standing]
    /\ IF standing = "gone"
       THEN DropKeys({k \in SshKeyIds : sshKeys[k] # NoSshKey /\ sshKeys[k].user = u})
       ELSE UNCHANGED <<sshKeys, sshBindings>>
    /\ UNCHANGED <<execAllowed, sshService, connections, channels>>

\* The account's policies change.
ExecPermissionChanges(u) ==
    /\ execAllowed' = IF u \in execAllowed THEN execAllowed \ {u} ELSE execAllowed \cup {u}
    /\ UNCHANGED <<sshStanding, sshKeys, sshBindings, sshService, connections, channels>>

\* The service is deleted and its row, with the bindings, removed.
SshServiceGoes ==
    \/ /\ sshService = "live"
       /\ sshService' = "deleting"
       /\ UNCHANGED <<sshStanding, execAllowed, sshKeys, sshBindings, connections, channels>>
    \/ /\ sshService = "deleting"
       /\ sshService' = "removed"
       /\ sshBindings' = {}
       /\ UNCHANGED <<sshStanding, execAllowed, sshKeys, connections, channels>>

-----------------------------------------------------------------------------
\* Store::authorized_flash_ssh_key: the join over key, binding, user, membership,
\* principal and service.
AuthorizedFlashSshKey(f) ==
    {k \in sshBindings : /\ sshKeys[k] # NoSshKey
                         /\ sshKeys[k].fingerprint = f
                         /\ sshStanding[sshKeys[k].user] = "active"
                         /\ sshService = "live"}

\* Mutant: the key that signs today is taken for the key that signed.
CheckFingerprint(i) ==
    \E k \in AuthorizedFlashSshKey(i.fingerprint) : sshKeys[k].user \in execAllowed

\* check_identity: the fingerprint still names the same row of the same user, and
\* IAM allows the user flash:ExecInstance.
CheckIdentity(i) ==
    /\ \E k \in AuthorizedFlashSshKey(i.fingerprint) : k = i.key /\ sshKeys[k].user = i.user
    /\ i.user \in execAllowed

\* spawn_listener and websocket: a connection takes a permit or is refused.
AcceptStream(c) ==
    /\ connections[c].step = "closed"
    /\ connections' = [connections EXCEPT ![c].step = "handshake"]
    /\ UNCHANGED <<sshStanding, execAllowed, sshKeys, sshBindings, sshService, channels>>

\* auth_publickey: whatever was verified before is forgotten, and the signed key
\* is looked up.
AuthPublickey(c, f) ==
    /\ connections[c].step = "handshake"
    /\ \E k \in AuthorizedFlashSshKey(f) :
         connections' = [connections EXCEPT ![c] =
             [step |-> "looked_up",
              identity |-> [user |-> sshKeys[k].user, key |-> k, fingerprint |-> f]]]
    /\ UNCHANGED <<sshStanding, execAllowed, sshKeys, sshBindings, sshService, channels>>

\* auth_publickey, after the lookup: accept, or reject and wait for another key.
VerifyIdentity(c) ==
    /\ connections[c].step = "looked_up"
    /\ connections' = [connections EXCEPT ![c] =
           IF CheckIdentity(@.identity)
           THEN [@ EXCEPT !.step = "ready"]
           ELSE [step |-> "handshake", identity |-> NoIdentity]]
    /\ UNCHANGED <<sshStanding, execAllowed, sshKeys, sshBindings, sshService, channels>>

\* serve_stream: the guard ends a connection that has not authenticated in time,
\* and any connection ends when its stream does.  Its channels end with it.
ConnectionEnds(c) ==
    /\ connections[c].step # "closed"
    /\ connections' = [connections EXCEPT ![c] = ClosedConnection]
    /\ channels' = [d \in ChannelIds |-> IF d[1] = c THEN ClosedChannel ELSE channels[d]]
    /\ UNCHANGED <<sshStanding, execAllowed, sshKeys, sshBindings, sshService>>

-----------------------------------------------------------------------------
\* Handler::target: every channel checks the connection's identity again.
Target(c) == connections[c].step = "ready" /\ CheckIdentity(connections[c].identity)

OpenChannel(d, step) ==
    /\ channels[d] = ClosedChannel
    /\ Target(d[1])
    /\ channels' = [channels EXCEPT ![d] =
           [step |-> step, identity |-> connections[d[1]].identity]]
    /\ UNCHANGED <<sshStanding, execAllowed, sshKeys, sshBindings, sshService, connections>>

\* channel_open_session: accepted, and waits for a command.
ChannelOpenSession(d) == OpenChannel(d, "opened")

\* channel_open_direct_tcpip: accepted when the provider has connected.
ChannelOpenDirectTcpip(d) == OpenChannel(d, "running")

\* session_channel: a command or a shell starts at the provider.  The identity is
\* not checked here.
StartCommand(d) ==
    /\ channels[d].step = "opened"
    /\ channels' = [channels EXCEPT ![d].step = "running"]
    /\ UNCHANGED <<sshStanding, execAllowed, sshKeys, sshBindings, sshService, connections>>

\* recheck.tick() in session_channel and forward_channel.
Recheck(d) ==
    /\ channels[d].step = "running"
    /\ ~CheckIdentity(channels[d].identity)
    /\ channels' = [channels EXCEPT ![d] = ClosedChannel]
    /\ UNCHANGED <<sshStanding, execAllowed, sshKeys, sshBindings, sshService, connections>>

\* The command exits, the client hangs up, nobody sends a command, or a call fails.
ChannelEnds(d) ==
    /\ channels[d].step # "closed"
    /\ channels' = [channels EXCEPT ![d] = ClosedChannel]
    /\ UNCHANGED <<sshStanding, execAllowed, sshKeys, sshBindings, sshService, connections>>

-----------------------------------------------------------------------------
SshNext ==
    \/ \E u \in SshUsers :
         \/ \E k \in SshKeyIds :
              \/ \E f \in Fingerprints : CreateKey(u, k, f)
              \/ DeleteKey(u, k)
              \/ \E enabled \in BOOLEAN : ChangeServiceKey(u, k, enabled)
         \/ \E standing \in {"active", "suspended", "gone"} : StandingChanges(u, standing)
         \/ ExecPermissionChanges(u)
    \/ SshServiceGoes
    \/ \E c \in SshConnections :
         \/ AcceptStream(c)
         \/ \E f \in Fingerprints : AuthPublickey(c, f)
         \/ VerifyIdentity(c)
         \/ ConnectionEnds(c)
    \/ \E d \in ChannelIds :
         \/ ChannelOpenSession(d)
         \/ ChannelOpenDirectTcpip(d)
         \/ StartCommand(d)
         \/ Recheck(d)
         \/ ChannelEnds(d)

-----------------------------------------------------------------------------
\* What entitles an identity to a shell today: the user's own key, allowed for the
\* service, and the user's standing and permission.
Entitled(i) ==
    /\ i.key \in sshBindings
    /\ sshKeys[i.key] = [user |-> i.user, fingerprint |-> i.fingerprint]
    /\ sshStanding[i.user] = "active"
    /\ i.user \in execAllowed
    /\ sshService = "live"

\* flash-ssh.md, "established channels are rechecked": a channel whose user has
\* lost the key, its binding, the membership or the permission, or whose service
\* is deleted, does not run on, whoever registers the same public key next.
RevokedChannelEnds ==
    \A d \in ChannelIds :
        (channels[d].step = "running" /\ ~Entitled(channels[d].identity))
          ~> (channels[d].step # "running" \/ Entitled(channels[d].identity))
=============================================================================
