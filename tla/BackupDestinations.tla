------------------------ MODULE BackupDestinations ------------------------
(***************************************************************************)
(* S3 destinations of an account's Flash backups.  A destination's row has *)
(* no credentials: they go to the secret manager and to the provider, one  *)
(* after the other, inside a transaction that holds an advisory lock of    *)
(* the destination.  Every API replica refreshes the rows' state from the  *)
(* provider, with no lock but with the row's updated_at as a fence.        *)
(***************************************************************************)
EXTENDS Naturals, FiniteSets

CONSTANTS
    Destinations,     \* identities of rows, one per request_id
    DestinationNames, \* names that users choose
    S3Keys,           \* credentials
    GoodKeys,         \* those with which the provider reaches the bucket
    DestWriters,      \* requests that create or rotate
    Refreshers,       \* refreshes under way
    DestinationLimit, \* destinations per organization
    NoDestination, NoS3Key

DestinationRow == [name: DestinationNames, state: {"pending", "ready"}]

ASSUME DestinationsAssumption ==
    /\ GoodKeys \subseteq S3Keys
    /\ NoDestination \notin DestinationRow

VARIABLES
    destRows,     \* table flash_backup_destinations
    secretKeys,   \* the secret manager's copy of the credentials
    providerKeys, \* the provider's copy
    lateWrites,   \* writes that nobody waits for and that may still be carried out
    destWriters,  \* request handlers
    refreshers,   \* refreshes: the row they have read and the provider's answer
    destOutcome,  \* history: how the last rotation has gone
    overtaken     \* history: where a late write has replaced what a rotation wrote

destVars == <<destRows, secretKeys, providerKeys, lateWrites, destWriters, refreshers, destOutcome,
              overtaken>>

\* Where credentials are kept.
Places == {"secret", "provider"}

DestIdle == [step |-> "idle"]
DestWriter == [step: {"found", "locked", "stored", "answered"}, destination: Destinations,
               key: S3Keys]
Refresher == [step: {"read", "asked"}, destination: Destinations, current: BOOLEAN,
              answer: {"ready", "pending", "unknown"}]

DestTypeOK ==
    /\ destRows \in [Destinations -> {NoDestination} \cup DestinationRow]
    /\ secretKeys \in [Destinations -> S3Keys \cup {NoS3Key}]
    /\ providerKeys \in [Destinations -> S3Keys \cup {NoS3Key}]
    /\ lateWrites \in SUBSET (Places \X Destinations \X S3Keys)
    /\ destWriters \in [DestWriters -> {DestIdle} \cup DestWriter]
    /\ refreshers \in [Refreshers -> {DestIdle} \cup Refresher]
    /\ destOutcome \in [Destinations -> {"none", "sent", "applied", "failed"}]
    /\ overtaken \in [Destinations -> SUBSET Places]

DestInit ==
    /\ destRows = [d \in Destinations |-> NoDestination]
    /\ secretKeys = [d \in Destinations |-> NoS3Key]
    /\ providerKeys = [d \in Destinations |-> NoS3Key]
    /\ lateWrites = {}
    /\ destWriters = [h \in DestWriters |-> DestIdle]
    /\ refreshers = [r \in Refreshers |-> DestIdle]
    /\ destOutcome = [d \in Destinations |-> "none"]
    /\ overtaken = [d \in Destinations |-> {}]

-----------------------------------------------------------------------------
\* Store::reserve_flash_backup_destination, under the tenant's lock: a request
\* that is sent again finds its row, if it says the same.
ReserveDestination(d, name) ==
    \/ /\ destRows[d] # NoDestination
       /\ destRows[d].name = name
       /\ UNCHANGED destRows
    \/ /\ destRows[d] = NoDestination
       /\ Cardinality({e \in Destinations : destRows[e] # NoDestination}) < DestinationLimit
       /\ \A e \in Destinations : destRows[e] # NoDestination => destRows[e].name # name
       /\ destRows' = [destRows EXCEPT ![d] = [name |-> name, state |-> "pending"]]

\* POST backup-destinations, up to apply.
CreateDestination(h, d, name, key) ==
    /\ destWriters[h] = DestIdle
    /\ ReserveDestination(d, name)
    /\ destWriters' = [destWriters EXCEPT ![h] =
           [step |-> "found", destination |-> d, key |-> key]]
    /\ UNCHANGED <<secretKeys, providerKeys, lateWrites, refreshers, destOutcome, overtaken>>

\* PUT credentials, up to apply.
RotateCredentials(h, d, key) ==
    /\ destWriters[h] = DestIdle
    /\ destRows[d] # NoDestination
    /\ destWriters' = [destWriters EXCEPT ![h] =
           [step |-> "found", destination |-> d, key |-> key]]
    /\ UNCHANGED <<destRows, secretKeys, providerKeys, lateWrites, refreshers, destOutcome, overtaken>>

\* Handlers that hold the destination's advisory lock.
Holders(d) ==
    {h \in DestWriters : /\ destWriters[h].step \in {"locked", "stored", "answered"}
                         /\ destWriters[h].destination = d}

\* Mutant: writers do not wait for each other.
NobodyWaits(d) == d \in Destinations

\* pg_advisory_xact_lock of the destination.
LockIsFree(d) == Holders(d) = {}

ApplyLocks(h) ==
    /\ destWriters[h].step = "found"
    /\ LockIsFree(destWriters[h].destination)
    /\ destWriters' = [destWriters EXCEPT ![h].step = "locked"]
    /\ UNCHANGED <<destRows, secretKeys, providerKeys, lateWrites, refreshers, destOutcome, overtaken>>

\* SecretManager::put, without check-and-set: the write that comes last counts.
SecretManagerTakes(d, key) == secretKeys' = [secretKeys EXCEPT ![d] = key]

ApplyStores(h) ==
    LET w == destWriters[h] IN
    /\ w.step = "locked"
    /\ SecretManagerTakes(w.destination, w.key)
    /\ overtaken' = [overtaken EXCEPT ![w.destination] = @ \ {"secret"}]
    /\ destWriters' = [destWriters EXCEPT ![h].step = "stored"]
    /\ UNCHANGED <<destRows, providerKeys, lateWrites, refreshers, destOutcome>>

\* backup_destination_request with PUT; the provider cannot order two of them,
\* because the generation they carry is always 1.
ProviderTakes(d, key) == providerKeys' = [providerKeys EXCEPT ![d] = key]

ApplySends(h) ==
    LET w == destWriters[h] IN
    /\ w.step = "stored"
    /\ ProviderTakes(w.destination, w.key)
    /\ overtaken' = [overtaken EXCEPT ![w.destination] = @ \ {"provider"}]
    /\ destOutcome' = [destOutcome EXCEPT ![w.destination] = "sent"]
    /\ destWriters' = [destWriters EXCEPT ![h].step = "answered"]
    /\ UNCHANGED <<destRows, secretKeys, lateWrites, refreshers>>

\* updated_at moves: whoever has read the row before may not write any more.
Stamped(d) ==
    [r \in Refreshers |->
        IF refreshers[r] # DestIdle /\ refreshers[r].destination = d
        THEN [refreshers[r] EXCEPT !.current = FALSE]
        ELSE refreshers[r]]

StateOf(key) == IF key \in GoodKeys THEN "ready" ELSE "pending"

\* The end of apply: the answer is written and the lock released by the commit.
ApplyCommits(h) ==
    LET d == destWriters[h].destination IN
    /\ destWriters[h].step = "answered"
    /\ destRows' = [destRows EXCEPT ![d].state = StateOf(destWriters[h].key)]
    /\ destOutcome' = [destOutcome EXCEPT ![d] = "applied"]
    /\ destWriters' = [destWriters EXCEPT ![h] = DestIdle]
    /\ refreshers' = Stamped(d)
    /\ UNCHANGED <<secretKeys, providerKeys, lateWrites, overtaken>>

\* A call fails, its answer is lost, it takes longer than 10 s or the request is
\* dropped: the transaction rolls back and the lock is free.  The call that was
\* under way may still be carried out, now or later.
ApplyFails(h) ==
    LET w == destWriters[h]
        Failed == destOutcome' = [destOutcome EXCEPT ![w.destination] = "failed"]
        MayComeLate(place) == lateWrites' \in {lateWrites, lateWrites \cup {<<place, w.destination, w.key>>}}
    IN
    /\ w # DestIdle
    /\ destWriters' = [destWriters EXCEPT ![h] = DestIdle]
    /\ \/ w.step \in {"found", "locked"} /\ UNCHANGED <<lateWrites, destOutcome>>
       \/ w.step = "locked" /\ Failed /\ MayComeLate("secret")
       \/ w.step = "stored" /\ Failed /\ MayComeLate("provider")
       \/ w.step = "answered" /\ Failed /\ UNCHANGED lateWrites
    /\ UNCHANGED <<destRows, secretKeys, providerKeys, refreshers, overtaken>>

\* A write is carried out after its sender gave up.
LateWriteArrives(place, d, key) ==
    /\ <<place, d, key>> \in lateWrites
    /\ lateWrites' = lateWrites \ {<<place, d, key>>}
    /\ \/ place = "secret" /\ SecretManagerTakes(d, key) /\ UNCHANGED providerKeys
       \/ place = "provider" /\ ProviderTakes(d, key) /\ UNCHANGED secretKeys
    /\ overtaken' = [overtaken EXCEPT ![d] = @ \cup {place}]
    /\ UNCHANGED <<destRows, destWriters, refreshers, destOutcome>>

-----------------------------------------------------------------------------
\* flash_backup_destinations_to_refresh.
ReadToRefresh(r, d) ==
    /\ refreshers[r] = DestIdle
    /\ destRows[d] # NoDestination
    /\ refreshers' = [refreshers EXCEPT ![r] =
           [step |-> "read", destination |-> d, current |-> TRUE, answer |-> "unknown"]]
    /\ UNCHANGED <<destRows, secretKeys, providerKeys, lateWrites, destWriters, destOutcome, overtaken>>

\* backup_destination_request with GET.  Errors and answers about another
\* destination leave the state unknown.
AskProvider(r) ==
    LET d == refreshers[r].destination IN
    /\ refreshers[r].step = "read"
    /\ \E answer \in {"unknown", StateOf(providerKeys[d])} :
         refreshers' = [refreshers EXCEPT ![r].step = "asked", ![r].answer = answer]
    /\ UNCHANGED <<destRows, secretKeys, providerKeys, lateWrites, destWriters, destOutcome, overtaken>>

\* WHERE updated_at is what was read.
RefreshFence(r) == refreshers[r].current

\* refresh_flash_backup_destination.
RefreshDestination(r) ==
    LET d == refreshers[r].destination IN
    /\ refreshers[r].step = "asked"
    /\ IF RefreshFence(r)
       THEN /\ destRows' = [destRows EXCEPT ![d].state =
                               IF refreshers[r].answer = "unknown" THEN @ ELSE refreshers[r].answer]
            /\ refreshers' = [Stamped(d) EXCEPT ![r] = DestIdle]
       ELSE /\ refreshers' = [refreshers EXCEPT ![r] = DestIdle]
            /\ UNCHANGED destRows
    /\ UNCHANGED <<secretKeys, providerKeys, lateWrites, destWriters, destOutcome, overtaken>>

DestNext ==
    \/ \E h \in DestWriters :
         \/ \E d \in Destinations, key \in S3Keys :
              \/ \E name \in DestinationNames : CreateDestination(h, d, name, key)
              \/ RotateCredentials(h, d, key)
         \/ ApplyLocks(h)
         \/ ApplyStores(h)
         \/ ApplySends(h)
         \/ ApplyCommits(h)
         \/ ApplyFails(h)
    \/ \E place \in Places, d \in Destinations, key \in S3Keys : LateWriteArrives(place, d, key)
    \/ \E r \in Refreshers :
         \/ \E d \in Destinations : ReadToRefresh(r, d)
         \/ AskProvider(r)
         \/ RefreshDestination(r)

DestSpec == DestInit /\ [][DestNext]_destVars
-----------------------------------------------------------------------------
\* apply, "Serialize credential writes for this destination across API replicas":
\* when nobody is writing and the last rotation was carried through, the secret
\* manager and the provider have the same credentials, and the row's state is what
\* the provider says of these and not of earlier ones, unless a write of an
\* earlier rotation, given up by its sender, has come after them.
DestinationIsConsistent ==
    \A d \in Destinations :
        (destOutcome[d] = "applied" /\ Holders(d) = {}) =>
            /\ overtaken[d] = {} => secretKeys[d] = providerKeys[d]
            /\ "provider" \notin overtaken[d] => destRows[d].state = StateOf(providerKeys[d])

\* apply: without the lock "two concurrent rotations can leave the durable secret
\* and the provider with different keys depending on network completion order";
\* with it, they have the same keys after a rotation that was carried through.
RotationsAgree ==
    \A d \in Destinations :
        (destOutcome[d] = "applied" /\ Holders(d) = {}) => secretKeys[d] = providerKeys[d]
=============================================================================
