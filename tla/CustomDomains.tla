--------------------------- MODULE CustomDomains ---------------------------
(***************************************************************************)
(* Custom domains of Flash services.  A binding reserves a host name for a *)
(* service; the reconciler of every API replica applies bindings at the    *)
(* provider and carries out requested deletes.  It takes a batch of the    *)
(* rows in the order of updated_at and works through its copies, while     *)
(* users and other replicas change the rows.                               *)
(*                                                                         *)
(* reconcile_pending is left out: it is written and never read.            *)
(***************************************************************************)
EXTENDS Naturals, Sequences, FiniteSets, SequencesExt

CONSTANTS
    Hosts,            \* valid host names that the platform does not reserve
    FailingHosts,     \* those for which the provider answers errors only
    DomainServices,   \* Flash services
    DomainReplicas,   \* API replicas
    TotalLimit,       \* bindings altogether
    ServiceLimit,     \* bindings of a service
    BatchSize,        \* LIMIT of pending_flash_domains
    MaxBindings,      \* bound: bindings ever made
    MaxDeletes,       \* bound: delete requests, repeated ones included
    NoBinding

VARIABLES
    domainRows,     \* table flash_domain_bindings by host name, which is unique
    byUpdate,       \* host names of the table in the order of updated_at
    domainServices, \* service rows: eligible, not eligible, being deleted, removed
    atProvider,     \* host names the provider serves
    batches,        \* copies that each replica has still to work through
    made,           \* number of bindings made so far, the source of their ids
    deletes         \* number of delete requests so far

domainVars == <<domainRows, byUpdate, domainServices, atProvider, batches, made, deletes>>

Binding == [id: 1 .. MaxBindings, service: DomainServices, deleting: BOOLEAN]

\* A reconciler's copy of a row, and how far it has come with it.
BindingCopy == [host: Hosts, row: Binding, step: {"read", "attempted", "done"}]

DomainTypeOK ==
    /\ domainRows \in [Hosts -> Binding \cup {NoBinding}]
    /\ ToSet(byUpdate) = {h \in Hosts : domainRows[h] # NoBinding}
    /\ Len(byUpdate) = Cardinality(ToSet(byUpdate))
    /\ domainServices \in [DomainServices -> {"web", "other", "deleting", "removed"}]
    /\ atProvider \in SUBSET Hosts
    /\ \A r \in DomainReplicas : ToSet(batches[r]) \subseteq BindingCopy
    /\ made \in 0 .. MaxBindings
    /\ deletes \in 0 .. MaxDeletes

DomainInit ==
    /\ domainRows = [h \in Hosts |-> NoBinding]
    /\ byUpdate = <<>>
    /\ domainServices = [s \in DomainServices |-> "web"]
    /\ atProvider = {}
    /\ batches = [r \in DomainReplicas |-> <<>>]
    /\ made = 0
    /\ deletes = 0

-----------------------------------------------------------------------------
Bound(hosts) == {h \in hosts : domainRows[h] # NoBinding}

\* updated_at = now().
Touch(h) == byUpdate' = Append(Remove(byUpdate, h), h)

\* reserve_flash_domain, under the advisory lock of all custom domains.  A binding
\* that the service already has is returned as it is.
ReserveFlashDomain(s, h) ==
    /\ domainServices[s] = "web"
    /\ domainRows[h] = NoBinding
    /\ Cardinality(Bound(Hosts)) < TotalLimit
    /\ Cardinality({g \in Bound(Hosts) : domainRows[g].service = s}) < ServiceLimit
    /\ made < MaxBindings
    /\ made' = made + 1
    /\ domainRows' = [domainRows EXCEPT ![h] = [id |-> made + 1, service |-> s, deleting |-> FALSE]]
    /\ Touch(h)
    /\ UNCHANGED <<domainServices, atProvider, batches, deletes>>

\* flash_service: the row is there.
ServiceIsThere(s) == domainServices[s] # "removed"

\* POST domains.
AddFlashDomain(s, h) == ServiceIsThere(s) /\ ReserveFlashDomain(s, h)

\* request_flash_domain_delete.
RequestFlashDomainDelete(s, h) ==
    /\ domainRows[h] # NoBinding
    /\ domainRows[h].service = s
    /\ deletes < MaxDeletes
    /\ deletes' = deletes + 1
    /\ domainRows' = [domainRows EXCEPT ![h].deleting = TRUE]
    /\ Touch(h)
    /\ UNCHANGED <<domainServices, atProvider, batches, made>>

\* DELETE domains.
RemoveFlashDomain(s, h) == ServiceIsThere(s) /\ RequestFlashDomainDelete(s, h)

\* The service is updated or deleted; when its row is removed, its bindings are
\* (ON DELETE CASCADE), and the provider drops what it had of the service.
DomainServiceChanges(s) ==
    \/ /\ domainServices[s] \in {"web", "other"}
       /\ domainServices' = [domainServices EXCEPT ![s] =
              IF @ = "web" THEN "other" ELSE "web"]
       /\ UNCHANGED <<domainRows, byUpdate, atProvider, batches, made, deletes>>
    \/ /\ domainServices[s] \in {"web", "other"}
       /\ domainServices' = [domainServices EXCEPT ![s] = "deleting"]
       /\ UNCHANGED <<domainRows, byUpdate, atProvider, batches, made, deletes>>
    \/ LET gone == {h \in Bound(Hosts) : domainRows[h].service = s} IN
       /\ domainServices[s] = "deleting"
       /\ domainServices' = [domainServices EXCEPT ![s] = "removed"]
       /\ domainRows' = [h \in Hosts |-> IF h \in gone THEN NoBinding ELSE domainRows[h]]
       /\ byUpdate' = SelectSeq(byUpdate, LAMBDA h : h \notin gone)
       /\ atProvider' = atProvider \ gone
       /\ UNCHANGED <<batches, made, deletes>>

-----------------------------------------------------------------------------
\* pending_flash_domains: the rows that have waited longest.
PendingFlashDomains ==
    [n \in 1 .. (IF Len(byUpdate) < BatchSize THEN Len(byUpdate) ELSE BatchSize) |->
        [host |-> byUpdate[n], row |-> domainRows[byUpdate[n]], step |-> "read"]]

\* spawn_reconciler: a tick.
ReadBatch(r) ==
    /\ batches[r] = <<>>
    /\ byUpdate # <<>>
    /\ batches' = [batches EXCEPT ![r] = PendingFlashDomains]
    /\ UNCHANGED <<domainRows, byUpdate, domainServices, atProvider, made, deletes>>

Current(r) == Head(batches[r])
AtStep(r, step) == batches[r] # <<>> /\ Current(r).step = step
ToStep(r, step) == batches' = [batches EXCEPT ![r] = <<[Head(@) EXCEPT !.step = step]>> \o Tail(@)]
NextBinding(r) == batches' = [batches EXCEPT ![r] = Tail(@)]

\* The row that the copy was made of is still there.
StillThere(r) ==
    /\ domainRows[Current(r).host] # NoBinding
    /\ domainRows[Current(r).host].id = Current(r).row.id

\* Mutant: a row is only touched when it was applied.
NeverAttempted(r) == UNCHANGED byUpdate

\* mark_flash_domain_attempted.
MarkFlashDomainAttempted(r) ==
    IF StillThere(r) THEN Touch(Current(r).host) ELSE UNCHANGED byUpdate

Attempt(r) ==
    /\ AtStep(r, "read")
    /\ MarkFlashDomainAttempted(r)
    /\ ToStep(r, "attempted")
    /\ UNCHANGED <<domainRows, domainServices, atProvider, made, deletes>>

\* The service is gone.
SkipBinding(r) ==
    /\ AtStep(r, "attempted")
    /\ ~ServiceIsThere(Current(r).row.service)
    /\ NextBinding(r)
    /\ UNCHANGED <<domainRows, byUpdate, domainServices, atProvider, made, deletes>>

\* put_custom_domain or delete_custom_domain is answered with success; a delete
\* counts when the answer is 204 or 404.
ProviderAnswers(r) ==
    /\ AtStep(r, "attempted")
    /\ Current(r).host \notin FailingHosts
    /\ ServiceIsThere(Current(r).row.service)
    /\ atProvider' = IF Current(r).row.deleting THEN atProvider \ {Current(r).host}
                                                ELSE atProvider \cup {Current(r).host}
    /\ ToStep(r, "done")
    /\ UNCHANGED <<domainRows, byUpdate, domainServices, made, deletes>>

\* An error, a timeout, or a delete that the provider has only begun (202).
ProviderDoesNotFinish(r) ==
    /\ AtStep(r, "attempted")
    /\ ServiceIsThere(Current(r).row.service)
    /\ NextBinding(r)
    /\ UNCHANGED <<domainRows, byUpdate, domainServices, atProvider, made, deletes>>

\* release_flash_domain: the row of the copy's id, whose delete was requested, goes.
ReleaseFlashDomain(h) ==
    /\ domainRows' = [domainRows EXCEPT ![h] = NoBinding]
    /\ byUpdate' = Remove(byUpdate, h)

\* mark_flash_domain_synced: touches the row if nobody has asked to delete it.
MarkFlashDomainSynced(h) ==
    /\ IF domainRows[h].deleting THEN UNCHANGED byUpdate ELSE Touch(h)
    /\ UNCHANGED domainRows

WriteOutcome(r) ==
    LET h == Current(r).host IN
    /\ AtStep(r, "done")
    /\ \/ ~StillThere(r) /\ UNCHANGED <<domainRows, byUpdate>>
       \/ StillThere(r) /\ Current(r).row.deleting /\ ReleaseFlashDomain(h)
       \/ StillThere(r) /\ ~Current(r).row.deleting /\ MarkFlashDomainSynced(h)
    /\ NextBinding(r)
    /\ UNCHANGED <<domainServices, atProvider, made, deletes>>

\* A replica goes on with its loop.
ReplicaCarriesOn(r) ==
    \/ ReadBatch(r) \/ Attempt(r) \/ SkipBinding(r)
    \/ ProviderAnswers(r) \/ ProviderDoesNotFinish(r) \/ WriteOutcome(r)

ProviderSucceeds(r, h) == batches[r] # <<>> /\ Current(r).host = h /\ ProviderAnswers(r)

DomainNext ==
    \/ \E h \in Hosts, s \in DomainServices : AddFlashDomain(s, h) \/ RemoveFlashDomain(s, h)
    \/ \E s \in DomainServices : DomainServiceChanges(s)
    \/ \E r \in DomainReplicas : ReplicaCarriesOn(r)

-----------------------------------------------------------------------------
\* pending_flash_domains, "Rotating attempted rows also prevents a failing provider
\* from starving domains beyond the first batch": a requested delete is carried
\* out and its host name free again, whatever other host names fail.
DomainIsReleased ==
    \A h \in Hosts \ FailingHosts :
        (domainRows[h] # NoBinding /\ domainRows[h].deleting) ~> (domainRows[h] = NoBinding)
=============================================================================
