------------------------ MODULE RegistryCredentials ------------------------
(***************************************************************************)
(* Push credentials of the image registry.  A credential is a row in       *)
(* registry_credentials and a robot account in Harbor.  The two are        *)
(* written one after the other by a request handler that may be cut off    *)
(* between any two steps, and Harbor's answers may be lost.                *)
(*                                                                         *)
(* A robot is named after its row, so one identity stands for both.  Only  *)
(* the answer to the POST holds the robot's secret.                        *)
(***************************************************************************)
EXTENDS Naturals, FiniteSets

CONSTANTS
    RegistryIds,      \* identities of rows (and of their robots)
    RegistryAccounts, \* accounts of one cloud organization
    RegistryHandlers, \* requests under way
    AccountMax,       \* registry.max_credentials of an account
    CloudMax          \* registry.max_credentials of the management account

VARIABLES
    regRows,      \* table registry_credentials
    harborRobots, \* robot accounts that exist in Harbor
    lateRobots,   \* POSTs that nobody waits for and Harbor may still carry out
    regHandlers,  \* request handlers
    handedOut,    \* credentials whose secret a user was given
    cloudGate     \* organization_registry_credentials_enabled

registryVars == <<regRows, harborRobots, lateRobots, regHandlers, handedOut, cloudGate>>

NoCredentialRow == [status |-> "none"]
RegIdle == [step |-> "idle"]

RegistryTypeOK ==
    /\ regRows \in [RegistryIds -> {NoCredentialRow} \cup
                      [status: {"provisioning", "active"}, account: RegistryAccounts]]
    /\ harborRobots \in SUBSET RegistryIds
    /\ lateRobots \in SUBSET RegistryIds
    /\ regHandlers \in [RegistryHandlers -> {RegIdle} \cup
                          [step: {"reserved", "created", "undo", "cancel", "found", "removed"},
                           id: RegistryIds]]
    /\ handedOut \in SUBSET RegistryIds
    /\ cloudGate \in BOOLEAN

RegistryInit ==
    /\ regRows = [i \in RegistryIds |-> NoCredentialRow]
    /\ harborRobots = {}
    /\ lateRobots = {}
    /\ regHandlers = [h \in RegistryHandlers |-> RegIdle]
    /\ handedOut = {}
    /\ cloudGate = FALSE

-----------------------------------------------------------------------------
\* Rows in either status count against the limits.
Taken(accounts) ==
    {i \in RegistryIds : regRows[i] # NoCredentialRow /\ regRows[i].account \in accounts}

At(h, step) == regHandlers[h].step = step
Goto(h, step) == regHandlers' = [regHandlers EXCEPT ![h].step = step]
Finish(h) == regHandlers' = [regHandlers EXCEPT ![h] = RegIdle]

\* Store::reserve_registry_credential, under the allocation locks.
ReserveRegistryCredential(i, account) ==
    /\ regRows[i] = NoCredentialRow
    /\ Cardinality(Taken({account})) < AccountMax
    /\ cloudGate => Cardinality(Taken(RegistryAccounts)) < CloudMax
    /\ regRows' = [regRows EXCEPT ![i] = [status |-> "provisioning", account |-> account]]

\* create_registry_credential up to the reservation; an identity is used once.
CreateRegistryCredential(h, i, account) ==
    /\ regHandlers[h] = RegIdle
    /\ i \notin harborRobots \cup lateRobots \cup handedOut
    /\ \A g \in RegistryHandlers : regHandlers[g] # RegIdle => regHandlers[g].id # i
    /\ ReserveRegistryCredential(i, account)
    /\ regHandlers' = [regHandlers EXCEPT ![h] = [step |-> "reserved", id |-> i]]
    /\ UNCHANGED <<harborRobots, lateRobots, handedOut, cloudGate>>

\* RegistryClient::create_push_credential answers 201.
CreatePushCredential(h) ==
    /\ At(h, "reserved")
    /\ harborRobots' = harborRobots \cup {regHandlers[h].id}
    /\ Goto(h, "created")
    /\ UNCHANGED <<regRows, lateRobots, handedOut, cloudGate>>

\* It fails: nothing was made, or it was made and the answer lost, or it is made later.
CreatePushCredentialFails(h, made) ==
    /\ At(h, "reserved")
    /\ harborRobots' = harborRobots \cup (IF made = "made" THEN {regHandlers[h].id} ELSE {})
    /\ lateRobots' = lateRobots \cup (IF made = "later" THEN {regHandlers[h].id} ELSE {})
    /\ Goto(h, "cancel")
    /\ UNCHANGED <<regRows, handedOut, cloudGate>>

LateRobot(i) ==
    /\ i \in lateRobots
    /\ lateRobots' = lateRobots \ {i}
    /\ harborRobots' = harborRobots \cup {i}
    /\ UNCHANGED <<regRows, regHandlers, handedOut, cloudGate>>

\* Store::activate_registry_credential: an update of a row that is still provisioning.
Activate(i) ==
    IF regRows[i].status = "provisioning"
    THEN regRows' = [regRows EXCEPT ![i].status = "active"]
    ELSE UNCHANGED regRows

\* The row is active and the secret is the answer to the user.
ActivateRegistryCredential(h) ==
    /\ At(h, "created")
    /\ regRows[regHandlers[h].id].status = "provisioning"
    /\ Activate(regHandlers[h].id)
    /\ handedOut' = handedOut \cup {regHandlers[h].id}
    /\ Finish(h)
    /\ UNCHANGED <<harborRobots, lateRobots, cloudGate>>

\* The update fails or its answer is lost (it may have been written).
ActivateFails(h, written) ==
    /\ At(h, "created")
    /\ IF written THEN Activate(regHandlers[h].id) ELSE UNCHANGED regRows
    /\ Goto(h, "undo")
    /\ UNCHANGED <<harborRobots, lateRobots, handedOut, cloudGate>>

\* Then the robot is deleted; whether that works is not looked at.
UndoRobot(h, works) ==
    /\ At(h, "undo")
    /\ harborRobots' = IF works THEN harborRobots \ {regHandlers[h].id} ELSE harborRobots
    /\ Goto(h, "cancel")
    /\ UNCHANGED <<regRows, lateRobots, handedOut, cloudGate>>

\* Store::cancel_registry_credential_reservation removes a provisioning row only.
CancelReservation(h, works) ==
    LET i == regHandlers[h].id
    IN  /\ At(h, "cancel")
        /\ regRows' = IF works /\ regRows[i].status = "provisioning"
                      THEN [regRows EXCEPT ![i] = NoCredentialRow] ELSE regRows
        /\ Finish(h)
        /\ UNCHANGED <<harborRobots, lateRobots, handedOut, cloudGate>>

-----------------------------------------------------------------------------
\* Store::registry_credential_for_delete.
RegistryCredentialForDelete(i) == regRows[i].status = "active"

\* DELETE of a credential: the active row is looked up first.
DeleteRequest(h, i) ==
    /\ regHandlers[h] = RegIdle
    /\ RegistryCredentialForDelete(i)
    /\ regHandlers' = [regHandlers EXCEPT ![h] = [step |-> "found", id |-> i]]
    /\ UNCHANGED <<regRows, harborRobots, lateRobots, handedOut, cloudGate>>

\* Mutant: a failed answer of Harbor is taken for success.
DeleteCredentialUnchecked(h, answered) ==
    /\ At(h, "found")
    /\ harborRobots' = IF answered THEN harborRobots \ {regHandlers[h].id} ELSE harborRobots
    /\ Goto(h, "removed")
    /\ UNCHANGED <<regRows, lateRobots, handedOut, cloudGate>>

\* The robot first; 404 counts as deleted.  On any other answer the handler gives up,
\* although the robot may be gone.
DeleteCredential(h, answered) ==
    /\ At(h, "found")
    /\ harborRobots' = harborRobots \ {regHandlers[h].id}
    /\ IF answered THEN Goto(h, "removed") ELSE Finish(h)
    /\ UNCHANGED <<regRows, lateRobots, handedOut, cloudGate>>

\* Then the row, if another request has not removed it.
DeleteRegistryCredential(h) ==
    LET i == regHandlers[h].id
    IN  /\ At(h, "removed")
        /\ regRows' = IF regRows[i].status = "active"
                      THEN [regRows EXCEPT ![i] = NoCredentialRow] ELSE regRows
        /\ Finish(h)
        /\ UNCHANGED <<harborRobots, lateRobots, handedOut, cloudGate>>

\* The handler is cut off: the client went away or the replica stopped.  A POST it had
\* sent may still be carried out.
HandlerStops(h, sent) ==
    /\ regHandlers[h] # RegIdle
    /\ sent => At(h, "reserved")
    /\ lateRobots' = lateRobots \cup (IF sent THEN {regHandlers[h].id} ELSE {})
    /\ Finish(h)
    /\ UNCHANGED <<regRows, harborRobots, handedOut, cloudGate>>

\* Store::enable_organization_registry_credentials.
EnableOrganizationRegistryCredentials ==
    /\ ~cloudGate
    /\ cloudGate' = TRUE
    /\ UNCHANGED <<regRows, harborRobots, lateRobots, regHandlers, handedOut>>

RegistryNext ==
    \/ \E h \in RegistryHandlers, i \in RegistryIds, a \in RegistryAccounts :
          CreateRegistryCredential(h, i, a)
    \/ \E h \in RegistryHandlers : CreatePushCredential(h)
    \/ \E h \in RegistryHandlers, made \in {"not", "made", "later"} :
          CreatePushCredentialFails(h, made)
    \/ \E i \in RegistryIds : LateRobot(i)
    \/ \E h \in RegistryHandlers : ActivateRegistryCredential(h)
    \/ \E h \in RegistryHandlers, written \in BOOLEAN : ActivateFails(h, written)
    \/ \E h \in RegistryHandlers, works \in BOOLEAN : UndoRobot(h, works)
    \/ \E h \in RegistryHandlers, works \in BOOLEAN : CancelReservation(h, works)
    \/ \E h \in RegistryHandlers, i \in RegistryIds : DeleteRequest(h, i)
    \/ \E h \in RegistryHandlers, answered \in BOOLEAN : DeleteCredential(h, answered)
    \/ \E h \in RegistryHandlers : DeleteRegistryCredential(h)
    \/ \E h \in RegistryHandlers, sent \in BOOLEAN : HandlerStops(h, sent)
    \/ EnableOrganizationRegistryCredentials

RegistrySpec == RegistryInit /\ [][RegistryNext]_registryVars

-----------------------------------------------------------------------------
\* A robot whose secret a user holds can be found and deleted: its row is active.
\* Robots without a row exist after failures, but nobody was given their secret.  Two
\* deletes, a delete whose answer is lost, and creations that fail half way must not
\* break this.
UsableSecretIsListed ==
    \A i \in handedOut \cap harborRobots : regRows[i].status = "active"
=============================================================================
