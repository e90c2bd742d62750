-------------------------- MODULE CredentialsProofs --------------------------
(***************************************************************************)
(* Registry credentials, Flow access contexts and the credentials of       *)
(* backup destinations, for any number of requests, credentials, contexts, *)
(* permissions and destinations and any limits.                            *)
(***************************************************************************)
EXTENDS FlowAccess, RegistryCredentials, BackupDestinations, TLAPS

-----------------------------------------------------------------------------
(***************************************************************************)
(* Registry credentials.                                                   *)
(***************************************************************************)

\* The steps at which a handler may still make the robot or hand its secret out.
Making(h) == regHandlers[h].step \in {"reserved", "created"}

\* While a credential is being made its row is provisioning, no lost POST of it is
\* on its way, nobody has its secret and no other request works on it.
MakersAreAlone ==
    \A h \in RegistryHandlers : Making(h) =>
        LET i == regHandlers[h].id
        IN  /\ regRows[i].status = "provisioning"
            /\ i \notin lateRobots
            /\ i \notin handedOut
            /\ \A g \in RegistryHandlers :
                  g # h /\ regHandlers[g] # RegIdle => regHandlers[g].id # i

\* A lost POST never brings back a robot whose secret was handed out.
LateRobotsAreUnknown == lateRobots \cap handedOut = {}

\* A delete takes the row only after the robot that its user can use is gone.
RemovedRobotsAreGone ==
    \A h \in RegistryHandlers :
        regHandlers[h].step = "removed" => regHandlers[h].id \notin handedOut \cap harborRobots

RegistryInv ==
    /\ RegistryTypeOK
    /\ MakersAreAlone
    /\ LateRobotsAreUnknown
    /\ RemovedRobotsAreGone
    /\ UsableSecretIsListed

\* What the type invariant says of one row and of one handler.
LEMMA RegistryFields ==
    ASSUME RegistryTypeOK
    PROVE  /\ \A h \in RegistryHandlers :
                 /\ regHandlers[h] = RegIdle <=> regHandlers[h].step = "idle"
                 /\ regHandlers[h] # RegIdle =>
                       /\ regHandlers[h].id \in RegistryIds
                       /\ regHandlers[h] \in [step: {"reserved", "created", "undo", "cancel", "found", "removed"},
                                              id: RegistryIds]
           /\ \A i \in RegistryIds :
                 /\ regRows[i].status \in {"none", "provisioning", "active"}
                 /\ regRows[i] = NoCredentialRow <=> regRows[i].status = "none"
  BY DEF RegistryTypeOK, RegIdle, NoCredentialRow

\* A handler goes to its next step and keeps its credential.
LEMMA GotoStep ==
    ASSUME RegistryTypeOK, NEW h \in RegistryHandlers,
           NEW step \in {"created", "undo", "cancel", "removed"},
           regHandlers[h] # RegIdle, Goto(h, step)
    PROVE  /\ regHandlers' \in [RegistryHandlers -> {RegIdle} \cup
                [step: {"reserved", "created", "undo", "cancel", "found", "removed"}, id: RegistryIds]]
           /\ regHandlers'[h].step = step /\ regHandlers'[h].id = regHandlers[h].id
           /\ regHandlers'[h] # RegIdle
           /\ \A g \in RegistryHandlers : g # h => regHandlers'[g] = regHandlers[g]
  <1>1. regHandlers[h] \in [step: {"reserved", "created", "undo", "cancel", "found", "removed"}, id: RegistryIds]
    BY RegistryFields
  <1>2. regHandlers' = [regHandlers EXCEPT ![h] = [regHandlers[h] EXCEPT !.step = step]]
    BY DEF Goto
  <1> DEFINE new == [regHandlers[h] EXCEPT !.step = step]
  <1>3. /\ new \in [step: {"reserved", "created", "undo", "cancel", "found", "removed"}, id: RegistryIds]
        /\ new.step = step /\ new.id = regHandlers[h].id
    BY <1>1
  <1>4. new # RegIdle
    BY <1>3 DEF RegIdle
  <1> HIDE DEF new
  <1>5. regHandlers' = [regHandlers EXCEPT ![h] = new]
    BY <1>2 DEF new
  <1>6. regHandlers'[h] = new /\ \A g \in RegistryHandlers : g # h => regHandlers'[g] = regHandlers[g]
    BY <1>5 DEF RegistryTypeOK
  <1> QED BY <1>3, <1>4, <1>5, <1>6 DEF RegistryTypeOK

\* A handler ends.
LEMMA FinishStep ==
    ASSUME RegistryTypeOK, NEW h \in RegistryHandlers, Finish(h)
    PROVE  /\ regHandlers' \in [RegistryHandlers -> {RegIdle} \cup
                [step: {"reserved", "created", "undo", "cancel", "found", "removed"}, id: RegistryIds]]
           /\ regHandlers'[h] = RegIdle /\ regHandlers'[h].step = "idle"
           /\ \A g \in RegistryHandlers : g # h => regHandlers'[g] = regHandlers[g]
  BY DEF Finish, RegistryTypeOK, RegIdle

\* A row's status is written.
LEMMA StatusStep ==
    ASSUME RegistryTypeOK, NEW i \in RegistryIds, Activate(i)
    PROVE  /\ regRows' \in [RegistryIds -> {NoCredentialRow} \cup
                [status: {"provisioning", "active"}, account: RegistryAccounts]]
           /\ regRows[i].status = "provisioning" => regRows'[i].status = "active"
           /\ \A j \in RegistryIds : regRows[j].status = "active" => regRows'[j].status = "active"
           /\ \A j \in RegistryIds : j # i => regRows'[j] = regRows[j]
  <1>1. CASE regRows[i].status = "provisioning"
    <2>1. regRows[i] \in [status: {"provisioning", "active"}, account: RegistryAccounts]
      BY <1>1 DEF RegistryTypeOK, NoCredentialRow
    <2>2. regRows' = [regRows EXCEPT ![i] = [regRows[i] EXCEPT !.status = "active"]]
      BY <1>1 DEF Activate
    <2> DEFINE new == [regRows[i] EXCEPT !.status = "active"]
    <2>3. new \in [status: {"provisioning", "active"}, account: RegistryAccounts] /\ new.status = "active"
      BY <2>1
    <2> HIDE DEF new
    <2>4. regRows' = [regRows EXCEPT ![i] = new]
      BY <2>2 DEF new
    <2> QED BY <2>3, <2>4 DEF RegistryTypeOK
  <1>2. CASE regRows[i].status # "provisioning"
    BY <1>2 DEF Activate, RegistryTypeOK
  <1> QED BY <1>1, <1>2

\* The tables start empty.
LEMMA RegistryInitInv == RegistryInit => RegistryInv
  <1> SUFFICES ASSUME RegistryInit PROVE RegistryInv
    OBVIOUS
  <1>1. \A h \in RegistryHandlers : regHandlers[h].step = "idle"
    BY DEF RegistryInit, RegIdle
  <1>2. RegistryTypeOK
    BY DEF RegistryInit, RegistryTypeOK
  <1> QED
    BY <1>1, <1>2 DEF RegistryInit, RegistryInv, MakersAreAlone, Making, LateRobotsAreUnknown,
                      RemovedRobotsAreGone, UsableSecretIsListed

\* Every step keeps the invariant.
LEMMA RegistryStepInv == RegistryInv /\ [RegistryNext]_registryVars => RegistryInv'
  <1> SUFFICES ASSUME RegistryInv, [RegistryNext]_registryVars PROVE RegistryInv'
    OBVIOUS
  <1>typ. RegistryTypeOK
    BY DEF RegistryInv
  <1> USE DEF Making
  <1>1. CASE UNCHANGED registryVars
    BY <1>1 DEF registryVars, RegistryInv, RegistryTypeOK, MakersAreAlone, LateRobotsAreUnknown,
                RemovedRobotsAreGone, UsableSecretIsListed
  <1>2. ASSUME NEW h \in RegistryHandlers, NEW i \in RegistryIds, NEW a \in RegistryAccounts,
               CreateRegistryCredential(h, i, a)
        PROVE  RegistryInv'
    <2>1. /\ regRows[i] = NoCredentialRow
          /\ i \notin harborRobots \cup lateRobots \cup handedOut
          /\ \A g \in RegistryHandlers : regHandlers[g] # RegIdle => regHandlers[g].id # i
          /\ regRows' = [regRows EXCEPT ![i] = [status |-> "provisioning", account |-> a]]
          /\ regHandlers' = [regHandlers EXCEPT ![h] = [step |-> "reserved", id |-> i]]
          /\ UNCHANGED <<harborRobots, lateRobots, handedOut, cloudGate>>
      BY <1>2 DEF CreateRegistryCredential, ReserveRegistryCredential
    <2>2. RegistryTypeOK'
      BY <2>1, <1>typ DEF RegistryTypeOK
    <2>3. /\ regRows'[i].status = "provisioning"
          /\ \A j \in RegistryIds : j # i => regRows'[j] = regRows[j]
      BY <2>1, <1>typ DEF RegistryTypeOK
    <2>4. /\ regHandlers'[h].step = "reserved" /\ regHandlers'[h].id = i
          /\ \A g \in RegistryHandlers : g # h => regHandlers'[g] = regHandlers[g]
      BY <2>1, <1>typ DEF RegistryTypeOK
    <2>5. MakersAreAlone'
      <3> SUFFICES ASSUME NEW g \in RegistryHandlers, Making(g)'
                   PROVE  LET j == regHandlers'[g].id
                          IN  /\ regRows'[j].status = "provisioning"
                              /\ j \notin lateRobots'
                              /\ j \notin handedOut'
                              /\ \A k \in RegistryHandlers :
                                    k # g /\ regHandlers'[k] # RegIdle => regHandlers'[k].id # j
        BY DEF MakersAreAlone
      <3>1. CASE g = h
        BY <3>1, <2>1, <2>3, <2>4
      <3>2. CASE g # h
        <4>1. regHandlers'[g] = regHandlers[g] /\ Making(g) /\ regHandlers[g] # RegIdle
          BY <3>2, <2>4 DEF RegIdle
        <4>2. regHandlers[g].id # i /\ regHandlers[g].id \in RegistryIds
          BY <4>1, <2>1, <1>typ, RegistryFields
        <4> QED BY <4>1, <4>2, <2>1, <2>3, <2>4 DEF RegistryInv, MakersAreAlone
      <3> QED BY <3>1, <3>2
    <2>6. RemovedRobotsAreGone'
      BY <2>1, <2>4 DEF RegistryInv, RemovedRobotsAreGone
    <2>7. UsableSecretIsListed'
      BY <2>1, <2>3, <1>typ DEF RegistryInv, UsableSecretIsListed, RegistryTypeOK
    <2> QED BY <2>1, <2>2, <2>5, <2>6, <2>7 DEF RegistryInv, LateRobotsAreUnknown
  <1>3. ASSUME NEW h \in RegistryHandlers, CreatePushCredential(h) PROVE RegistryInv'
    <2> DEFINE i == regHandlers[h].id
    <2>1. /\ regHandlers[h].step = "reserved" /\ regHandlers[h] # RegIdle
          /\ harborRobots' = harborRobots \cup {i} /\ Goto(h, "created")
          /\ UNCHANGED <<regRows, lateRobots, handedOut, cloudGate>>
      BY <1>3 DEF CreatePushCredential, At, RegIdle
    <2>2. /\ regHandlers' \in [RegistryHandlers -> {RegIdle} \cup
                [step: {"reserved", "created", "undo", "cancel", "found", "removed"}, id: RegistryIds]]
          /\ regHandlers'[h].step = "created" /\ regHandlers'[h].id = i
          /\ \A g \in RegistryHandlers : g # h => regHandlers'[g] = regHandlers[g]
      BY <2>1, <1>typ, GotoStep
    <2>3. /\ i \in RegistryIds /\ i \notin handedOut
      BY <2>1, <1>typ, RegistryFields DEF RegistryInv, MakersAreAlone
    <2>4. RegistryTypeOK'
      BY <2>1, <2>2, <2>3, <1>typ DEF RegistryTypeOK
    <2>5. MakersAreAlone'
      BY <2>1, <2>2 DEF RegistryInv, MakersAreAlone
    <2>6. RemovedRobotsAreGone'
      BY <2>1, <2>2, <2>3 DEF RegistryInv, RemovedRobotsAreGone
    <2>7. UsableSecretIsListed'
      BY <2>1, <2>3 DEF RegistryInv, UsableSecretIsListed
    <2> QED BY <2>1, <2>4, <2>5, <2>6, <2>7 DEF RegistryInv, LateRobotsAreUnknown
  <1>4. ASSUME NEW h \in RegistryHandlers, NEW made \in {"not", "made", "later"},
               CreatePushCredentialFails(h, made)
        PROVE  RegistryInv'
    <2> DEFINE i == regHandlers[h].id
    <2>1. /\ regHandlers[h].step = "reserved" /\ regHandlers[h] # RegIdle
          /\ harborRobots \subseteq harborRobots' /\ harborRobots' \subseteq harborRobots \cup {i}
          /\ lateRobots \subseteq lateRobots' /\ lateRobots' \subseteq lateRobots \cup {i}
          /\ Goto(h, "cancel")
          /\ UNCHANGED <<regRows, handedOut, cloudGate>>
      BY <1>4 DEF CreatePushCredentialFails, At, RegIdle
    <2>2. /\ regHandlers' \in [RegistryHandlers -> {RegIdle} \cup
                [step: {"reserved", "created", "undo", "cancel", "found", "removed"}, id: RegistryIds]]
          /\ regHandlers'[h].step = "cancel" /\ regHandlers'[h].id = i
          /\ \A g \in RegistryHandlers : g # h => regHandlers'[g] = regHandlers[g]
      BY <2>1, <1>typ, GotoStep
    <2>3. /\ i \in RegistryIds /\ i \notin handedOut
          /\ \A g \in RegistryHandlers : g # h /\ Making(g) => regHandlers[g].id # i
      BY <2>1, <1>typ, RegistryFields DEF RegistryInv, MakersAreAlone, RegIdle
    <2>4. RegistryTypeOK'
      BY <2>1, <2>2, <2>3, <1>typ DEF RegistryTypeOK
    <2>5. MakersAreAlone'
      BY <2>1, <2>2, <2>3 DEF RegistryInv, MakersAreAlone
    <2>6. RemovedRobotsAreGone'
      BY <2>1, <2>2, <2>3 DEF RegistryInv, RemovedRobotsAreGone
    <2>7. UsableSecretIsListed' /\ LateRobotsAreUnknown'
      BY <2>1, <2>3 DEF RegistryInv, UsableSecretIsListed, LateRobotsAreUnknown
    <2> QED BY <2>4, <2>5, <2>6, <2>7 DEF RegistryInv
  <1>5. ASSUME NEW i \in RegistryIds, LateRobot(i) PROVE RegistryInv'
    <2>1. /\ i \in lateRobots /\ i \notin handedOut
          /\ lateRobots' = lateRobots \ {i} /\ harborRobots' = harborRobots \cup {i}
          /\ UNCHANGED <<regRows, regHandlers, handedOut, cloudGate>>
      BY <1>5 DEF LateRobot, RegistryInv, LateRobotsAreUnknown
    <2>2. RegistryTypeOK'
      BY <2>1, <1>typ DEF RegistryTypeOK
    <2> QED
      BY <2>1, <2>2 DEF RegistryInv, MakersAreAlone, LateRobotsAreUnknown, RemovedRobotsAreGone,
                        UsableSecretIsListed
  <1>6. ASSUME NEW h \in RegistryHandlers, ActivateRegistryCredential(h) PROVE RegistryInv'
    <2> DEFINE i == regHandlers[h].id
    <2>1. /\ regHandlers[h].step = "created" /\ regHandlers[h] # RegIdle
          /\ regRows[i].status = "provisioning" /\ Activate(i)
          /\ handedOut' = handedOut \cup {i} /\ Finish(h)
          /\ UNCHANGED <<harborRobots, lateRobots, cloudGate>>
      BY <1>6 DEF ActivateRegistryCredential, At, RegIdle
    <2>2. /\ regHandlers' \in [RegistryHandlers -> {RegIdle} \cup
                [step: {"reserved", "created", "undo", "cancel", "found", "removed"}, id: RegistryIds]]
          /\ regHandlers'[h] = RegIdle /\ regHandlers'[h].step = "idle"
          /\ \A g \in RegistryHandlers : g # h => regHandlers'[g] = regHandlers[g]
      BY <2>1, <1>typ, FinishStep
    <2>3. /\ i \in RegistryIds /\ i \notin lateRobots
          /\ \A g \in RegistryHandlers : g # h /\ regHandlers[g] # RegIdle => regHandlers[g].id # i
      BY <2>1, <1>typ, RegistryFields DEF RegistryInv, MakersAreAlone
    <2>4. /\ regRows' \in [RegistryIds -> {NoCredentialRow} \cup
                [status: {"provisioning", "active"}, account: RegistryAccounts]]
          /\ regRows'[i].status = "active"
          /\ \A j \in RegistryIds : j # i => regRows'[j] = regRows[j]
      BY <2>1, <2>3, <1>typ, StatusStep
    <2>5. RegistryTypeOK'
      BY <2>1, <2>2, <2>3, <2>4, <1>typ DEF RegistryTypeOK
    <2>h. \A g \in RegistryHandlers : regHandlers'[g] # RegIdle =>
            /\ g # h /\ regHandlers'[g] = regHandlers[g]
            /\ regHandlers[g].id # i /\ regHandlers[g].id \in RegistryIds
      BY <2>2, <2>3, <1>typ, RegistryFields
    <2>6. MakersAreAlone'
      <3> SUFFICES ASSUME NEW g \in RegistryHandlers, Making(g)'
                   PROVE  LET j == regHandlers'[g].id
                          IN  /\ regRows'[j].status = "provisioning"
                              /\ j \notin lateRobots'
                              /\ j \notin handedOut'
                              /\ \A k \in RegistryHandlers :
                                    k # g /\ regHandlers'[k] # RegIdle => regHandlers'[k].id # j
        BY DEF MakersAreAlone
      <3>1. regHandlers'[g] # RegIdle
        BY DEF RegIdle
      <3>2. /\ regHandlers'[g] = regHandlers[g] /\ Making(g)
            /\ regHandlers[g].id # i /\ regHandlers[g].id \in RegistryIds
        BY <3>1, <2>h
      <3> QED BY <3>2, <2>h, <2>1, <2>4 DEF RegistryInv, MakersAreAlone
    <2>7. RemovedRobotsAreGone'
      <3> SUFFICES ASSUME NEW g \in RegistryHandlers, regHandlers'[g].step = "removed"
                   PROVE  regHandlers'[g].id \notin handedOut' \cap harborRobots'
        BY DEF RemovedRobotsAreGone
      <3>1. regHandlers'[g] # RegIdle
        BY DEF RegIdle
      <3> QED BY <3>1, <2>h, <2>1 DEF RegistryInv, RemovedRobotsAreGone
    <2>8. UsableSecretIsListed'
      BY <2>1, <2>4, <1>typ DEF RegistryInv, UsableSecretIsListed, RegistryTypeOK
    <2> QED BY <2>1, <2>3, <2>5, <2>6, <2>7, <2>8 DEF RegistryInv, LateRobotsAreUnknown
  <1>7. ASSUME NEW h \in RegistryHandlers, NEW written \in BOOLEAN, ActivateFails(h, written)
        PROVE  RegistryInv'
    <2> DEFINE i == regHandlers[h].id
    <2>1. /\ regHandlers[h].step = "created" /\ regHandlers[h] # RegIdle
          /\ Activate(i) \/ UNCHANGED regRows
          /\ Goto(h, "undo")
          /\ UNCHANGED <<harborRobots, lateRobots, handedOut, cloudGate>>
      BY <1>7 DEF ActivateFails, At, RegIdle
    <2>2. /\ regHandlers' \in [RegistryHandlers -> {RegIdle} \cup
                [step: {"reserved", "created", "undo", "cancel", "found", "removed"}, id: RegistryIds]]
          /\ regHandlers'[h].step = "undo" /\ regHandlers'[h].id = i
          /\ \A g \in RegistryHandlers : g # h => regHandlers'[g] = regHandlers[g]
      BY <2>1, <1>typ, GotoStep
    <2>3. /\ i \in RegistryIds
          /\ \A g \in RegistryHandlers : Making(g) => regHandlers[g].id \in RegistryIds
          /\ \A g \in RegistryHandlers : g # h /\ Making(g) => regHandlers[g].id # i
      BY <2>1, <1>typ, RegistryFields DEF RegistryInv, MakersAreAlone, RegIdle
    <2>4. /\ regRows' \in [RegistryIds -> {NoCredentialRow} \cup
                [status: {"provisioning", "active"}, account: RegistryAccounts]]
          /\ \A j \in RegistryIds : regRows[j].status = "active" => regRows'[j].status = "active"
          /\ \A j \in RegistryIds : j # i => regRows'[j] = regRows[j]
      BY <2>1, <2>3, <1>typ, StatusStep DEF RegistryTypeOK
    <2>5. RegistryTypeOK'
      BY <2>1, <2>2, <2>4, <1>typ DEF RegistryTypeOK
    <2>6. MakersAreAlone'
      BY <2>1, <2>2, <2>3, <2>4 DEF RegistryInv, MakersAreAlone
    <2>7. RemovedRobotsAreGone'
      BY <2>1, <2>2 DEF RegistryInv, RemovedRobotsAreGone
    <2>8. UsableSecretIsListed'
      BY <2>1, <2>4, <1>typ DEF RegistryInv, UsableSecretIsListed, RegistryTypeOK
    <2> QED BY <2>1, <2>5, <2>6, <2>7, <2>8 DEF RegistryInv, LateRobotsAreUnknown
  <1>8. ASSUME NEW h \in RegistryHandlers, NEW works \in BOOLEAN, UndoRobot(h, works)
        PROVE  RegistryInv'
    <2> DEFINE i == regHandlers[h].id
    <2>1. /\ regHandlers[h].step = "undo" /\ regHandlers[h] # RegIdle
          /\ harborRobots' \subseteq harborRobots
          /\ Goto(h, "cancel")
          /\ UNCHANGED <<regRows, lateRobots, handedOut, cloudGate>>
      BY <1>8 DEF UndoRobot, At, RegIdle
    <2>2. /\ regHandlers' \in [RegistryHandlers -> {RegIdle} \cup
                [step: {"reserved", "created", "undo", "cancel", "found", "removed"}, id: RegistryIds]]
          /\ regHandlers'[h].step = "cancel" /\ regHandlers'[h].id = i
          /\ \A g \in RegistryHandlers : g # h => regHandlers'[g] = regHandlers[g]
      BY <2>1, <1>typ, GotoStep
    <2>3. RegistryTypeOK'
      BY <2>1, <2>2, <1>typ DEF RegistryTypeOK
    <2>4. MakersAreAlone'
      BY <2>1, <2>2 DEF RegistryInv, MakersAreAlone
    <2>5. RemovedRobotsAreGone' /\ UsableSecretIsListed' /\ LateRobotsAreUnknown'
      BY <2>1, <2>2 DEF RegistryInv, RemovedRobotsAreGone, UsableSecretIsListed, LateRobotsAreUnknown
    <2> QED BY <2>3, <2>4, <2>5 DEF RegistryInv
  <1>9. ASSUME NEW h \in RegistryHandlers, NEW works \in BOOLEAN, CancelReservation(h, works)
        PROVE  RegistryInv'
    <2> DEFINE i == regHandlers[h].id
    <2>1. /\ regHandlers[h].step = "cancel" /\ regHandlers[h] # RegIdle
          /\ \/ UNCHANGED regRows
             \/ regRows[i].status = "provisioning" /\ regRows' = [regRows EXCEPT ![i] = NoCredentialRow]
          /\ Finish(h)
          /\ UNCHANGED <<harborRobots, lateRobots, handedOut, cloudGate>>
      BY <1>9 DEF CancelReservation, At, RegIdle
    <2>2. /\ regHandlers' \in [RegistryHandlers -> {RegIdle} \cup
                [step: {"reserved", "created", "undo", "cancel", "found", "removed"}, id: RegistryIds]]
          /\ regHandlers'[h] = RegIdle /\ regHandlers'[h].step = "idle"
          /\ \A g \in RegistryHandlers : g # h => regHandlers'[g] = regHandlers[g]
      BY <2>1, <1>typ, FinishStep
    <2>3. /\ i \in RegistryIds
          /\ \A g \in RegistryHandlers : Making(g) =>
                g # h /\ regHandlers[g].id \in RegistryIds /\ regHandlers[g].id # i
      BY <2>1, <1>typ, RegistryFields DEF RegistryInv, MakersAreAlone, RegIdle
    <2>4. RegistryTypeOK'
      BY <2>1, <2>2, <2>3, <1>typ DEF RegistryTypeOK
    <2>5. /\ \A j \in RegistryIds : j # i => regRows'[j] = regRows[j]
          /\ \A j \in RegistryIds : regRows[j].status = "active" => regRows'[j].status = "active"
      BY <2>1, <2>3, <1>typ DEF RegistryTypeOK
    <2>6. MakersAreAlone'
      BY <2>1, <2>2, <2>3, <2>5 DEF RegistryInv, MakersAreAlone
    <2>7. RemovedRobotsAreGone'
      BY <2>1, <2>2 DEF RegistryInv, RemovedRobotsAreGone
    <2>8. UsableSecretIsListed'
      BY <2>1, <2>5, <1>typ DEF RegistryInv, UsableSecretIsListed, RegistryTypeOK
    <2> QED BY <2>1, <2>4, <2>6, <2>7, <2>8 DEF RegistryInv, LateRobotsAreUnknown
  <1>10. ASSUME NEW h \in RegistryHandlers, NEW i \in RegistryIds, DeleteRequest(h, i)
         PROVE  RegistryInv'
    <2>1. /\ regHandlers[h] = RegIdle /\ regRows[i].status = "active"
          /\ regHandlers' = [regHandlers EXCEPT ![h] = [step |-> "found", id |-> i]]
          /\ UNCHANGED <<regRows, harborRobots, lateRobots, handedOut, cloudGate>>
      BY <1>10 DEF DeleteRequest, RegistryCredentialForDelete
    <2>2. RegistryTypeOK'
      BY <2>1, <1>typ DEF RegistryTypeOK
    <2>3. /\ regHandlers'[h].step = "found" /\ regHandlers'[h].id = i
          /\ \A g \in RegistryHandlers : g # h => regHandlers'[g] = regHandlers[g]
      BY <2>1, <1>typ DEF RegistryTypeOK
    <2>4. MakersAreAlone'
      BY <2>1, <2>3 DEF RegistryInv, MakersAreAlone
    <2>5. RemovedRobotsAreGone'
      BY <2>1, <2>3 DEF RegistryInv, RemovedRobotsAreGone
    <2> QED BY <2>1, <2>2, <2>4, <2>5 DEF RegistryInv, LateRobotsAreUnknown, UsableSecretIsListed
  <1>11. ASSUME NEW h \in RegistryHandlers, NEW answered \in BOOLEAN, DeleteCredential(h, answered)
         PROVE  RegistryInv'
    <2> DEFINE i == regHandlers[h].id
    <2>1. /\ regHandlers[h].step = "found" /\ regHandlers[h] # RegIdle
          /\ harborRobots' = harborRobots \ {i}
          /\ Goto(h, "removed") \/ Finish(h)
          /\ UNCHANGED <<regRows, lateRobots, handedOut, cloudGate>>
      BY <1>11 DEF DeleteCredential, At, RegIdle
    <2>2. /\ regHandlers' \in [RegistryHandlers -> {RegIdle} \cup
                [step: {"reserved", "created", "undo", "cancel", "found", "removed"}, id: RegistryIds]]
          /\ \/ regHandlers'[h].step = "removed" /\ regHandlers'[h].id = i
             \/ regHandlers'[h] = RegIdle /\ regHandlers'[h].step = "idle"
          /\ \A g \in RegistryHandlers : g # h => regHandlers'[g] = regHandlers[g]
      BY <2>1, <1>typ, GotoStep, FinishStep
    <2>3. RegistryTypeOK'
      BY <2>1, <2>2, <1>typ DEF RegistryTypeOK
    <2>4. MakersAreAlone'
      BY <2>1, <2>2 DEF RegistryInv, MakersAreAlone
    <2>5. RemovedRobotsAreGone'
      BY <2>1, <2>2 DEF RegistryInv, RemovedRobotsAreGone
    <2> QED BY <2>1, <2>3, <2>4, <2>5 DEF RegistryInv, LateRobotsAreUnknown, UsableSecretIsListed
  <1>12. ASSUME NEW h \in RegistryHandlers, DeleteRegistryCredential(h) PROVE RegistryInv'
    <2> DEFINE i == regHandlers[h].id
    <2>1. /\ regHandlers[h].step = "removed" /\ regHandlers[h] # RegIdle
          /\ \/ UNCHANGED regRows
             \/ regRows[i].status = "active" /\ regRows' = [regRows EXCEPT ![i] = NoCredentialRow]
          /\ Finish(h)
          /\ UNCHANGED <<harborRobots, lateRobots, handedOut, cloudGate>>
      BY <1>12 DEF DeleteRegistryCredential, At, RegIdle
    <2>2. /\ regHandlers' \in [RegistryHandlers -> {RegIdle} \cup
                [step: {"reserved", "created", "undo", "cancel", "found", "removed"}, id: RegistryIds]]
          /\ regHandlers'[h] = RegIdle /\ regHandlers'[h].step = "idle"
          /\ \A g \in RegistryHandlers : g # h => regHandlers'[g] = regHandlers[g]
      BY <2>1, <1>typ, FinishStep
    <2>3. /\ i \in RegistryIds /\ i \notin handedOut \cap harborRobots
          /\ \A g \in RegistryHandlers : Making(g) =>
                g # h /\ regHandlers[g].id \in RegistryIds /\ regHandlers[g].id # i
      BY <2>1, <1>typ, RegistryFields DEF RegistryInv, MakersAreAlone, RemovedRobotsAreGone, RegIdle
    <2>4. RegistryTypeOK'
      BY <2>1, <2>2, <2>3, <1>typ DEF RegistryTypeOK
    <2>5. \A j \in RegistryIds : j # i => regRows'[j] = regRows[j]
      BY <2>1, <2>3, <1>typ DEF RegistryTypeOK
    <2>6. MakersAreAlone'
      BY <2>1, <2>2, <2>3, <2>5 DEF RegistryInv, MakersAreAlone
    <2>7. RemovedRobotsAreGone'
      BY <2>1, <2>2 DEF RegistryInv, RemovedRobotsAreGone
    <2>8. UsableSecretIsListed'
      BY <2>1, <2>3, <2>5, <1>typ DEF RegistryInv, UsableSecretIsListed, RegistryTypeOK
    <2> QED BY <2>1, <2>4, <2>6, <2>7, <2>8 DEF RegistryInv, LateRobotsAreUnknown
  <1>13. ASSUME NEW h \in RegistryHandlers, NEW sent \in BOOLEAN, HandlerStops(h, sent)
         PROVE  RegistryInv'
    <2> DEFINE i == regHandlers[h].id
    <2>1. /\ regHandlers[h] # RegIdle
          /\ \/ lateRobots' = lateRobots
             \/ regHandlers[h].step = "reserved" /\ lateRobots' = lateRobots \cup {i}
          /\ Finish(h)
          /\ UNCHANGED <<regRows, harborRobots, handedOut, cloudGate>>
      BY <1>13 DEF HandlerStops, At
    <2>2. /\ regHandlers' \in [RegistryHandlers -> {RegIdle} \cup
                [step: {"reserved", "created", "undo", "cancel", "found", "removed"}, id: RegistryIds]]
          /\ regHandlers'[h] = RegIdle /\ regHandlers'[h].step = "idle"
          /\ \A g \in RegistryHandlers : g # h => regHandlers'[g] = regHandlers[g]
      BY <2>1, <1>typ, FinishStep
    <2>3. /\ i \in RegistryIds
          /\ regHandlers[h].step = "reserved" => i \notin handedOut
          /\ \A g \in RegistryHandlers : g # h /\ Making(g) => regHandlers[g].id # i
      BY <2>1, <1>typ, RegistryFields DEF RegistryInv, MakersAreAlone
    <2>4. RegistryTypeOK'
      BY <2>1, <2>2, <2>3, <1>typ DEF RegistryTypeOK
    <2>5. MakersAreAlone'
      BY <2>1, <2>2, <2>3 DEF RegistryInv, MakersAreAlone
    <2>6. RemovedRobotsAreGone' /\ LateRobotsAreUnknown'
      BY <2>1, <2>2, <2>3 DEF RegistryInv, RemovedRobotsAreGone, LateRobotsAreUnknown
    <2> QED BY <2>1, <2>4, <2>5, <2>6 DEF RegistryInv, UsableSecretIsListed
  <1>14. ASSUME EnableOrganizationRegistryCredentials PROVE RegistryInv'
    BY <1>14 DEF EnableOrganizationRegistryCredentials, RegistryInv, RegistryTypeOK, MakersAreAlone,
                 LateRobotsAreUnknown, RemovedRobotsAreGone, UsableSecretIsListed
  <1> QED
    BY <1>1, <1>2, <1>3, <1>4, <1>5, <1>6, <1>7, <1>8, <1>9, <1>10, <1>11, <1>12, <1>13, <1>14
    DEF RegistryNext

\* create_registry_credential and delete_registry_credential: a robot whose secret a
\* user holds has an active row, so that it can be listed and deleted, however many
\* requests run, stop or lose Harbor's answers.
THEOREM UsableSecret == RegistrySpec => []UsableSecretIsListed
  <1>1. RegistryInv => UsableSecretIsListed
    BY DEF RegistryInv
  <1> QED BY <1>1, RegistryInitInv, RegistryStepInv, PTL DEF RegistrySpec

-----------------------------------------------------------------------------
(***************************************************************************)
(* Flow access contexts.                                                   *)
(***************************************************************************)

\* A row of the history is of a token that was signed, for the same credential.
RowsMatchTokens ==
    \A x \in ContextIds : contexts[x] # NoRow =>
        /\ tokens[x].age # "unissued"
        /\ contexts[x].credential = tokens[x].credential

FlowInv == FlowTypeOK /\ RowsMatchTokens /\ LiveAccessIsCurrent

\* What the table of credentials says of a live token.
CredentialStands(t) ==
    t.credential # NoCredential =>
        /\ devCredentials[t.credential] # NoRow
        /\ ~devCredentials[t.credential].revoked
        /\ devCredentials[t.credential].secret = t.secret
        /\ t.permissions \subseteq devCredentials[t.credential].permissions

\* LiveAccessIsCurrent for one token.
Stands(x) ==
    tokens[x].age = "live" /\ ~Withdrawn(x) =>
        contexts[x] # NoRow /\ ~contexts[x].revoked /\ CredentialStands(tokens[x])

\* LiveAccessIsCurrent, token by token.
LEMMA StandsForAll ==
    /\ LiveAccessIsCurrent <=> (flowState # "absent" => \A x \in ContextIds : Stands(x))
    /\ LiveAccessIsCurrent' <=> (flowState' # "absent" => \A x \in ContextIds : Stands(x)')
  BY DEF LiveAccessIsCurrent, Stands, CredentialStands

\* The rows of the tables, field by field.
LEMMA FlowFields ==
    ASSUME FlowTypeOK
    PROVE  /\ \A c \in Credentials : devCredentials[c] # NoRow => devCredentials[c] \in CredentialRow
           /\ \A x \in ContextIds : contexts[x] # NoRow => contexts[x] \in ContextRow
           /\ \A x \in ContextIds :
                 /\ tokens[x] \in Token
                 /\ tokens[x].credential \in Credentials \cup {NoCredential}
           /\ \A r \in Minters : minting[r] # Idle =>
                 minting[r] \in [kind: {"mint"}, credential: Credentials,
                                 secret: 1 .. MaxSecrets, permissions: SUBSET Permissions]
  BY DEF FlowTypeOK, Token

\* The tables start empty.
LEMMA FlowInitInv == FlowInit => FlowInv
  <1> SUFFICES ASSUME FlowInit PROVE FlowInv
    OBVIOUS
  <1>1. FlowTypeOK
    BY FlowAssumption DEF FlowInit, FlowTypeOK, Token
  <1>2. \A x \in ContextIds : tokens[x].age = "unissued" /\ contexts[x] = NoRow
    BY DEF FlowInit
  <1>3. RowsMatchTokens
    BY <1>2 DEF RowsMatchTokens
  <1>4. LiveAccessIsCurrent
    BY <1>2 DEF LiveAccessIsCurrent
  <1> QED BY <1>1, <1>3, <1>4 DEF FlowInv

\* Revoking contexts writes their rows and one event for each, and nothing else.
LEMMA RevokeStep ==
    ASSUME FlowTypeOK, NEW xs \in SUBSET ContextIds, \A x \in xs : contexts[x] # NoRow,
           RevokeContexts(xs)
    PROVE  /\ contexts' \in [ContextIds -> ContextRow \cup {NoRow}]
           /\ revocations' \in [ContextIds -> {"none", "pending", "delivered"}]
           /\ \A x \in xs : /\ contexts'[x].credential = contexts[x].credential
                            /\ revocations'[x] = "pending"
           /\ \A x \in ContextIds \ xs : contexts'[x] = contexts[x] /\ revocations'[x] = revocations[x]
  <1>1. \A x \in xs : contexts[x] \in ContextRow
    BY FlowFields
  <1>2. \A x \in xs : /\ [contexts[x] EXCEPT !.revoked = TRUE] \in ContextRow
                      /\ [contexts[x] EXCEPT !.revoked = TRUE].credential = contexts[x].credential
    BY <1>1 DEF ContextRow
  <1>3. \A x \in ContextIds : /\ contexts'[x] = IF x \in xs THEN [contexts[x] EXCEPT !.revoked = TRUE]
                                                          ELSE contexts[x]
                              /\ revocations'[x] = IF x \in xs THEN "pending" ELSE revocations[x]
    BY DEF RevokeContexts
  <1>4. \A x \in ContextIds : contexts'[x] \in ContextRow \cup {NoRow}
    <2> SUFFICES ASSUME NEW x \in ContextIds PROVE contexts'[x] \in ContextRow \cup {NoRow}
      OBVIOUS
    <2>1. contexts[x] \in ContextRow \cup {NoRow}
      BY DEF FlowTypeOK
    <2>2. CASE x \in xs
      <3>1. contexts'[x] = [contexts[x] EXCEPT !.revoked = TRUE]
        BY <1>3, <2>2
      <3> QED BY <1>2, <2>2, <3>1
    <2>3. CASE x \notin xs
      <3>1. contexts'[x] = contexts[x]
        BY <1>3, <2>3
      <3> QED BY <2>1, <3>1
    <2> QED BY <2>2, <2>3
  <1>5. contexts' \in [ContextIds -> ContextRow \cup {NoRow}]
    BY <1>4 DEF RevokeContexts
  <1>6. revocations' \in [ContextIds -> {"none", "pending", "delivered"}]
    BY DEF RevokeContexts, FlowTypeOK
  <1> QED BY <1>2, <1>3, <1>5, <1>6

\* Revoking contexts leaves the others as they were.
LEMMA RevokeKeepsOthers ==
    ASSUME FlowInv, NEW xs \in SUBSET ContextIds, \A x \in xs : contexts[x] # NoRow,
           RevokeContexts(xs), UNCHANGED <<flowState, tokens, flowDenied>>, flowState # "absent",
           \A x \in ContextIds \ xs :
              tokens[x].age = "live" /\ CredentialStands(tokens[x]) /\ contexts[x] # NoRow /\ ~contexts[x].revoked
                 => CredentialStands(tokens[x])'
    PROVE  RowsMatchTokens' /\ LiveAccessIsCurrent'
  <1>typ. FlowTypeOK
    BY DEF FlowInv
  <1>1. /\ \A x \in xs : contexts'[x].credential = contexts[x].credential /\ revocations'[x] = "pending"
        /\ \A x \in ContextIds \ xs : contexts'[x] = contexts[x] /\ revocations'[x] = revocations[x]
    BY <1>typ, RevokeStep
  <1>2. RowsMatchTokens'
    BY <1>1 DEF FlowInv, RowsMatchTokens
  <1>3. \A x \in ContextIds : Stands(x)
    BY StandsForAll DEF FlowInv
  <1>4. ASSUME NEW x \in ContextIds PROVE Stands(x)'
    <2>1. CASE x \in xs
      BY <1>1, <2>1 DEF Stands, Withdrawn
    <2>2. CASE x \notin xs
      BY <1>1, <1>3, <2>2 DEF Stands, Withdrawn
    <2> QED BY <2>1, <2>2
  <1> QED BY <1>2, <1>4, StandsForAll

\* A token stands if its row, its withdrawal and its credential are as before.
LEMMA SameToken ==
    ASSUME NEW x \in ContextIds, Stands(x),
           contexts'[x] = contexts[x], tokens'[x] = tokens[x],
           Withdrawn(x) => Withdrawn(x)',
           tokens[x].age = "live" /\ CredentialStands(tokens[x]) => CredentialStands(tokens[x])'
    PROVE  Stands(x)'
  BY DEF Stands

\* A new context: its row is inserted, old rows are pruned and the token is signed.
LEMMA InsertStep ==
    ASSUME FlowInv, flowState # "absent", NEW x \in ContextIds, NEW c \in Credentials \cup {NoCredential},
           NEW s \in 0 .. MaxSecrets, NEW perms \in SUBSET Permissions,
           tokens[x].age = "unissued", InsertContext(x, c), Sign(x, c, s, perms),
           UNCHANGED <<flowState, devCredentials, revocations, flowDenied>>,
           c # NoCredential =>
              /\ devCredentials[c] # NoRow
              /\ ~devCredentials[c].revoked
              /\ devCredentials[c].secret = s
              /\ perms \subseteq devCredentials[c].permissions
    PROVE  /\ contexts' \in [ContextIds -> ContextRow \cup {NoRow}]
           /\ tokens' \in [ContextIds -> Token]
           /\ RowsMatchTokens' /\ LiveAccessIsCurrent'
  <1>typ. FlowTypeOK
    BY DEF FlowInv
  <1> DEFINE row == [kind |-> "context", credential |-> c, revoked |-> FALSE]
             rows == [contexts EXCEPT ![x] = row]
             token == [age |-> "live", credential |-> c, secret |-> s, permissions |-> perms]
  <1>1. row \in ContextRow /\ row # NoRow /\ row.credential = c /\ row.revoked = FALSE
    BY DEF ContextRow, NoRow
  <1>2. token \in Token /\ token.age = "live" /\ token.credential = c /\ token.secret = s
        /\ token.permissions = perms
    BY DEF Token
  <1>3. tokens' = [tokens EXCEPT ![x] = token]
    BY DEF Sign
  <1>4. contexts' = Prune(rows)
    BY DEF InsertContext
  <1> HIDE DEF row, token
  <1>5. tokens' \in [ContextIds -> Token] /\ tokens'[x] = token
        /\ \A y \in ContextIds : y # x => tokens'[y] = tokens[y]
    BY <1>2, <1>3, <1>typ DEF FlowTypeOK
  <1>6. rows \in [ContextIds -> ContextRow \cup {NoRow}] /\ rows[x] = row
        /\ \A y \in ContextIds : y # x => rows[y] = contexts[y]
    BY <1>1, <1>typ DEF FlowTypeOK
  <1> HIDE DEF rows
  <1>7. /\ contexts' = [y \in ContextIds |-> contexts'[y]]
        /\ \A y \in ContextIds :
             /\ contexts'[y] = NoRow \/ contexts'[y] = rows[y]
             /\ rows[y] # NoRow /\ ~rows[y].revoked /\ tokens[y].age \notin {"expired", "past"}
                   => contexts'[y] = rows[y]
    BY <1>4 DEF Prune
  <1>8. contexts' \in [ContextIds -> ContextRow \cup {NoRow}]
    BY <1>6, <1>7
  <1>9. contexts'[x] = row
    BY <1>1, <1>6, <1>7
  <1>10. RowsMatchTokens'
    <2> SUFFICES ASSUME NEW y \in ContextIds, contexts'[y] # NoRow
                 PROVE  tokens'[y].age # "unissued" /\ contexts'[y].credential = tokens'[y].credential
      BY DEF RowsMatchTokens
    <2>1. CASE y = x
      BY <2>1, <1>1, <1>2, <1>5, <1>9
    <2>2. CASE y # x
      BY <2>2, <1>5, <1>6, <1>7 DEF FlowInv, RowsMatchTokens
    <2> QED BY <2>1, <2>2
  <1>11. \A y \in ContextIds : Stands(y)
    BY StandsForAll DEF FlowInv
  <1>12. ASSUME NEW y \in ContextIds PROVE Stands(y)'
    <2>1. CASE y = x
      <3>1. CredentialStands(token)'
        BY <1>2 DEF CredentialStands
      <3> QED BY <2>1, <3>1, <1>1, <1>5, <1>9 DEF Stands
    <2>2. CASE y # x
      <3>1. CredentialStands(tokens[y])' <=> CredentialStands(tokens[y])
        <4>1. tokens'[y] = tokens[y]
          BY <2>2, <1>5
        <4> QED BY <4>1 DEF CredentialStands
      <3> QED BY <2>2, <3>1, <1>5, <1>6, <1>7, <1>11 DEF Stands, Withdrawn
    <2> QED BY <2>1, <2>2
  <1> QED BY <1>5, <1>8, <1>10, <1>12, StandsForAll

\* Every step keeps the invariant.
LEMMA FlowStepInv == FlowInv /\ [FlowNext]_flowVars => FlowInv'
  <1> SUFFICES ASSUME FlowInv, [FlowNext]_flowVars PROVE FlowInv'
    OBVIOUS
  <1>typ. FlowTypeOK
    BY DEF FlowInv
  <1>st. flowState # "absent" => \A x \in ContextIds : Stands(x)
    BY StandsForAll DEF FlowInv
  <1>1. CASE UNCHANGED flowVars
    BY <1>1 DEF flowVars, FlowInv, FlowTypeOK, RowsMatchTokens, LiveAccessIsCurrent, Withdrawn
  <1>2. ASSUME NEW c \in Credentials, NEW perms \in SUBSET Permissions,
               CreateRealtimeDeveloperCredential(c, perms)
        PROVE  FlowInv'
    <2> DEFINE row == [kind |-> "credential", secret |-> 1, permissions |-> perms,
                       revoked |-> FALSE, expired |-> FALSE]
    <2>1. /\ devCredentials[c] = NoRow
          /\ devCredentials' = [devCredentials EXCEPT ![c] = row]
          /\ UNCHANGED <<flowState, issuerActions, contexts, tokens, minting, revocations, flowDenied>>
      BY <1>2 DEF CreateRealtimeDeveloperCredential, InsertDeveloperCredential
    <2>2. row \in CredentialRow
      BY FlowAssumption DEF CredentialRow
    <2> HIDE DEF row
    <2>3. FlowTypeOK'
      BY <2>1, <2>2, <1>typ DEF FlowTypeOK
    <2>4. \A d \in Credentials : d # c => devCredentials'[d] = devCredentials[d]
      BY <2>1, <1>typ DEF FlowTypeOK
    <2>5. ASSUME flowState' # "absent", NEW x \in ContextIds PROVE Stands(x)'
      <3>1. CredentialStands(tokens[x]) => CredentialStands(tokens[x])'
        BY <2>1, <2>4, <1>typ, FlowFields DEF CredentialStands
      <3> QED BY <3>1, <2>1, <2>5, <1>st, SameToken DEF Withdrawn
    <2> QED BY <2>1, <2>3, <2>5, StandsForAll DEF FlowInv, RowsMatchTokens
  <1>3. ASSUME NEW c \in Credentials, RevokeRealtimeDeveloperCredential(c) PROVE FlowInv'
    <2> DEFINE xs == LiveContexts(c)
    <2>1. /\ flowState # "absent" /\ devCredentials[c] # NoRow
          /\ devCredentials' = [devCredentials EXCEPT ![c] = [devCredentials[c] EXCEPT !.revoked = TRUE]]
          /\ RevokeContexts(xs)
          /\ UNCHANGED <<flowState, issuerActions, tokens, minting, flowDenied>>
      BY <1>3 DEF RevokeRealtimeDeveloperCredential, RevokeFlowDeveloperCredential, RealtimeService
    <2>2. xs \in SUBSET ContextIds /\ \A x \in xs : contexts[x] # NoRow
      BY DEF LiveContexts
    <2>3. [devCredentials[c] EXCEPT !.revoked = TRUE] \in CredentialRow
      BY <2>1, <1>typ, FlowFields DEF CredentialRow
    <2>4. devCredentials' \in [Credentials -> CredentialRow \cup {NoRow}]
          /\ \A d \in Credentials : d # c => devCredentials'[d] = devCredentials[d]
      BY <2>1, <2>3, <1>typ DEF FlowTypeOK
    <2>5. FlowTypeOK'
      BY <2>1, <2>2, <2>4, <1>typ, RevokeStep DEF FlowTypeOK
    <2>6. ASSUME NEW x \in ContextIds \ xs, tokens[x].age = "live", CredentialStands(tokens[x]),
                 contexts[x] # NoRow, ~contexts[x].revoked
          PROVE  CredentialStands(tokens[x])'
      <3>1. tokens[x].credential # c
        BY <2>6 DEF LiveContexts, FlowInv, RowsMatchTokens
      <3> QED BY <3>1, <2>1, <2>4, <2>6, <1>typ, FlowFields DEF CredentialStands
    <2> HIDE DEF xs
    <2>7. RowsMatchTokens' /\ LiveAccessIsCurrent'
      BY <2>1, <2>2, <2>6, RevokeKeepsOthers
    <2> QED BY <2>5, <2>7 DEF FlowInv
  <1>4. ASSUME NEW c \in Credentials, RotateRealtimeDeveloperCredential(c) PROVE FlowInv'
    <2> DEFINE xs == LiveContexts(c)
    <2>1. /\ flowState # "absent" /\ devCredentials[c] # NoRow /\ devCredentials[c].secret < MaxSecrets
          /\ devCredentials' = [devCredentials EXCEPT ![c] =
                                  [devCredentials[c] EXCEPT !.secret = devCredentials[c].secret + 1]]
          /\ RevokeContexts(xs)
          /\ UNCHANGED <<flowState, issuerActions, tokens, minting, flowDenied>>
      BY <1>4 DEF RotateRealtimeDeveloperCredential, RotateFlowDeveloperCredential, RealtimeService
    <2>2. xs \in SUBSET ContextIds /\ \A x \in xs : contexts[x] # NoRow
      BY DEF LiveContexts
    <2>c. devCredentials[c] \in CredentialRow /\ devCredentials[c].secret \in 1 .. MaxSecrets
      BY <2>1, <1>typ, FlowFields DEF CredentialRow
    <2>s. devCredentials[c].secret + 1 \in 1 .. MaxSecrets
      BY <2>1, <2>c, FlowAssumption
    <2>3. [devCredentials[c] EXCEPT !.secret = devCredentials[c].secret + 1] \in CredentialRow
      BY <2>c, <2>s DEF CredentialRow
    <2>4. devCredentials' \in [Credentials -> CredentialRow \cup {NoRow}]
          /\ \A d \in Credentials : d # c => devCredentials'[d] = devCredentials[d]
      BY <2>1, <2>3, <1>typ DEF FlowTypeOK
    <2>5. FlowTypeOK'
      BY <2>1, <2>2, <2>4, <1>typ, RevokeStep DEF FlowTypeOK
    <2>6. ASSUME NEW x \in ContextIds \ xs, tokens[x].age = "live", CredentialStands(tokens[x]),
                 contexts[x] # NoRow, ~contexts[x].revoked
          PROVE  CredentialStands(tokens[x])'
      <3>1. tokens[x].credential # c
        BY <2>6 DEF LiveContexts, FlowInv, RowsMatchTokens
      <3> QED BY <3>1, <2>1, <2>4, <2>6, <1>typ, FlowFields DEF CredentialStands
    <2> HIDE DEF xs
    <2>7. RowsMatchTokens' /\ LiveAccessIsCurrent'
      BY <2>1, <2>2, <2>6, RevokeKeepsOthers
    <2> QED BY <2>5, <2>7 DEF FlowInv
  <1>5. ASSUME NEW x \in ContextIds, NEW perms \in SUBSET Permissions,
               CreateRealtimeAccessCredential(x, perms)
        PROVE  FlowInv'
    <2>1. /\ tokens[x].age = "unissued" /\ flowState = "ready"
          /\ InsertContext(x, NoCredential) /\ Sign(x, NoCredential, 0, perms)
          /\ UNCHANGED <<flowState, issuerActions, devCredentials, minting, revocations, flowDenied>>
      BY <1>5 DEF CreateRealtimeAccessCredential, RecordFlowAccessContext
    <2>2. 0 \in 0 .. MaxSecrets
      BY FlowAssumption
    <2>3. /\ contexts' \in [ContextIds -> ContextRow \cup {NoRow}]
          /\ tokens' \in [ContextIds -> Token]
          /\ RowsMatchTokens' /\ LiveAccessIsCurrent'
      BY <2>1, <2>2, InsertStep
    <2> QED BY <2>1, <2>3, <1>typ DEF FlowInv, FlowTypeOK
  <1>6. ASSUME NEW r \in Minters, NEW c \in Credentials, NEW perms \in SUBSET Permissions,
               AuthorizeFlowDeveloperCredential(r, c, perms)
        PROVE  FlowInv'
    <2>1. /\ devCredentials[c] # NoRow
          /\ minting' = [minting EXCEPT ![r] = [kind |-> "mint", credential |-> c,
                           secret |-> devCredentials[c].secret, permissions |-> perms]]
          /\ UNCHANGED <<flowState, issuerActions, devCredentials, contexts, tokens, revocations,
                         flowDenied>>
      BY <1>6 DEF AuthorizeFlowDeveloperCredential, ActiveCredential
    <2>2. devCredentials[c].secret \in 1 .. MaxSecrets
      BY <2>1, <1>typ, FlowFields DEF CredentialRow
    <2>3. FlowTypeOK'
      BY <2>1, <2>2, <1>typ DEF FlowTypeOK
    <2> QED BY <2>1, <2>3 DEF FlowInv, RowsMatchTokens, LiveAccessIsCurrent, Withdrawn
  <1>7. ASSUME NEW r \in Minters, NEW x \in ContextIds, MintFlowAccessContext(r, x) PROVE FlowInv'
    <2> DEFINE m == minting[r]
    <2>1. /\ m # Idle /\ MintAccepted(m) /\ tokens[x].age = "unissued"
          /\ InsertContext(x, m.credential) /\ Sign(x, m.credential, m.secret, m.permissions)
          /\ minting' = [minting EXCEPT ![r] = Idle]
          /\ UNCHANGED <<flowState, issuerActions, devCredentials, revocations, flowDenied>>
      BY <1>7 DEF MintFlowAccessContext
    <2>2. m.credential \in Credentials /\ m.secret \in 1 .. MaxSecrets /\ m.permissions \in SUBSET Permissions
      BY <2>1, <1>typ, FlowFields
    <2>3. m.secret \in 0 .. MaxSecrets
      BY <2>2, FlowAssumption
    <2>4. /\ flowState = "ready" /\ devCredentials[m.credential] # NoRow
          /\ ~devCredentials[m.credential].revoked
          /\ devCredentials[m.credential].secret = m.secret
          /\ m.permissions \subseteq devCredentials[m.credential].permissions
      BY <2>1 DEF MintAccepted, Presents, ActiveCredential
    <2>m. minting' \in [Minters -> {Idle} \cup [kind: {"mint"}, credential: Credentials,
                          secret: 1 .. MaxSecrets, permissions: SUBSET Permissions]]
      BY <2>1, <1>typ DEF FlowTypeOK
    <2> HIDE DEF m
    <2>5. /\ contexts' \in [ContextIds -> ContextRow \cup {NoRow}]
          /\ tokens' \in [ContextIds -> Token]
          /\ RowsMatchTokens' /\ LiveAccessIsCurrent'
      BY <2>1, <2>2, <2>3, <2>4, InsertStep
    <2> QED BY <2>1, <2>m, <2>5, <1>typ DEF FlowInv, FlowTypeOK
  <1>8. ASSUME NEW r \in Minters, MintRefused(r) PROVE FlowInv'
    <2>1. /\ minting' = [minting EXCEPT ![r] = Idle]
          /\ UNCHANGED <<flowState, issuerActions, devCredentials, contexts, tokens, revocations,
                         flowDenied>>
      BY <1>8 DEF MintRefused
    <2>2. FlowTypeOK'
      BY <2>1, <1>typ DEF FlowTypeOK
    <2> QED BY <2>1, <2>2 DEF FlowInv, RowsMatchTokens, LiveAccessIsCurrent, Withdrawn
  <1>9. ASSUME NEW x \in ContextIds, RevokeFlowAccessContext(x),
               UNCHANGED <<flowState, issuerActions, devCredentials, tokens, minting, flowDenied>>
        PROVE  FlowInv'
    <2>1. contexts[x] # NoRow /\ RevokeContexts({x})
      BY <1>9 DEF RevokeFlowAccessContext
    <2>2. {x} \in SUBSET ContextIds /\ \A y \in {x} : contexts[y] # NoRow
      BY <2>1
    <2>3. /\ contexts' \in [ContextIds -> ContextRow \cup {NoRow}]
          /\ revocations' \in [ContextIds -> {"none", "pending", "delivered"}]
          /\ contexts'[x].credential = contexts[x].credential
          /\ \A y \in ContextIds \ {x} : contexts'[y] = contexts[y]
      BY <2>1, <2>2, <1>typ, RevokeStep
    <2>4. FlowTypeOK'
      BY <2>3, <1>9, <1>typ DEF FlowTypeOK
    <2>5. RowsMatchTokens'
      BY <2>1, <2>3, <1>9 DEF FlowInv, RowsMatchTokens
    <2>6. CASE flowState # "absent"
      <3>1. \A y \in ContextIds : CredentialStands(tokens[y])' <=> CredentialStands(tokens[y])
        BY <1>9 DEF CredentialStands
      <3>2. LiveAccessIsCurrent'
        BY <3>1, <2>1, <2>2, <2>6, <1>9, RevokeKeepsOthers
      <3> QED BY <2>4, <2>5, <3>2 DEF FlowInv
    <2>7. CASE flowState = "absent"
      BY <2>4, <2>5, <2>7, <1>9 DEF FlowInv, LiveAccessIsCurrent
    <2> QED BY <2>6, <2>7
  <1>10. ASSUME NEW x \in ContextIds, DropRevocation(x) PROVE FlowInv'
    <2>1. /\ tokens[x].age = "past"
          /\ revocations' = [revocations EXCEPT ![x] = "delivered"]
          /\ UNCHANGED <<flowState, issuerActions, devCredentials, contexts, tokens, minting, flowDenied>>
      BY <1>10 DEF DropRevocation, RevocationExpired
    <2>2. FlowTypeOK'
      BY <2>1, <1>typ DEF FlowTypeOK
    <2>3. \A y \in ContextIds : y # x => revocations'[y] = revocations[y]
      BY <2>1, <1>typ DEF FlowTypeOK
    <2>4. ASSUME flowState' # "absent", NEW y \in ContextIds PROVE Stands(y)'
      <3>1. Stands(y)
        BY <2>1, <2>4, <1>st
      <3>2. CASE y = x
        BY <3>2, <2>1 DEF Stands
      <3>3. CASE y # x
        BY <3>1, <3>3, <2>1, <2>3 DEF Stands, Withdrawn, CredentialStands
      <3> QED BY <3>2, <3>3
    <2> QED BY <2>1, <2>2, <2>4, StandsForAll DEF FlowInv, RowsMatchTokens
  <1>11. ASSUME NEW x \in ContextIds, NEW answered \in BOOLEAN,
                DeliverPrincipalContextRevocation(x, answered)
         PROVE  FlowInv'
    <2>1. /\ flowDenied' = flowDenied \cup {x}
          /\ revocations' = [revocations EXCEPT ![x] = IF answered THEN "delivered" ELSE @]
          /\ UNCHANGED <<flowState, issuerActions, devCredentials, contexts, tokens, minting>>
      BY <1>11 DEF DeliverPrincipalContextRevocation
    <2>2. FlowTypeOK'
      BY <2>1, <1>typ DEF FlowTypeOK
    <2>3. \A y \in ContextIds : y # x => revocations'[y] = revocations[y]
      BY <2>1, <1>typ DEF FlowTypeOK
    <2>4. ASSUME flowState' # "absent", NEW y \in ContextIds PROVE Stands(y)'
      <3>1. Stands(y)
        BY <2>1, <2>4, <1>st
      <3> QED BY <3>1, <2>1, <2>3 DEF Stands, Withdrawn, CredentialStands
    <2> QED BY <2>1, <2>2, <2>4, StandsForAll DEF FlowInv, RowsMatchTokens
  <1>12. ASSUME NEW st \in {"ready", "busy", "deleting", "absent"}, FlowServiceChanges(st)
         PROVE  FlowInv'
    <2>1. /\ flowState # "absent" /\ flowState' = st
          /\ UNCHANGED <<issuerActions, tokens, minting, revocations, flowDenied>>
      BY <1>12 DEF FlowServiceChanges
    <2>2. CASE st = "absent"
      <3>1. /\ devCredentials' = [c \in Credentials |-> NoRow]
            /\ contexts' = [x \in ContextIds |-> NoRow]
        BY <1>12, <2>2 DEF FlowServiceChanges
      <3>2. FlowTypeOK'
        BY <2>1, <3>1, <1>typ DEF FlowTypeOK
      <3> QED BY <2>1, <2>2, <3>1, <3>2 DEF FlowInv, RowsMatchTokens, LiveAccessIsCurrent
    <2>3. CASE st # "absent"
      <3>1. UNCHANGED <<devCredentials, contexts>>
        BY <1>12, <2>3 DEF FlowServiceChanges
      <3>2. FlowTypeOK'
        BY <2>1, <3>1, <1>typ DEF FlowTypeOK
      <3> QED BY <2>1, <3>1, <3>2 DEF FlowInv, RowsMatchTokens, LiveAccessIsCurrent, Withdrawn
    <2> QED BY <2>2, <2>3
  <1>13. ASSUME NEW a \in SUBSET (Permissions \cup {IssueAction}), IssuerChanges(a) PROVE FlowInv'
    BY <1>13, <1>typ
    DEF IssuerChanges, FlowInv, FlowTypeOK, RowsMatchTokens, LiveAccessIsCurrent, Withdrawn
  <1>14. ASSUME NEW x \in ContextIds, ContextAges(x) PROVE FlowInv'
    <2>1. PICK age \in {"expired", "past"} :
             /\ tokens' = [tokens EXCEPT ![x] = [tokens[x] EXCEPT !.age = age]]
             /\ UNCHANGED <<flowState, issuerActions, devCredentials, contexts, minting, revocations,
                            flowDenied>>
      BY <1>14 DEF ContextAges
    <2> DEFINE new == [tokens[x] EXCEPT !.age = age]
    <2>2. new \in Token /\ new.age = age /\ new.credential = tokens[x].credential
      BY <1>typ, FlowFields DEF Token
    <2> HIDE DEF new
    <2>3. /\ tokens' \in [ContextIds -> Token] /\ tokens'[x] = new
          /\ \A y \in ContextIds : y # x => tokens'[y] = tokens[y]
      BY <2>1, <2>2, <1>typ DEF FlowTypeOK, new
    <2>4. FlowTypeOK'
      BY <2>1, <2>3, <1>typ DEF FlowTypeOK
    <2>5. RowsMatchTokens'
      BY <2>1, <2>2, <2>3 DEF FlowInv, RowsMatchTokens
    <2>6. ASSUME flowState' # "absent", NEW y \in ContextIds PROVE Stands(y)'
      <3>1. Stands(y)
        BY <2>1, <2>6, <1>st
      <3>2. CASE y = x
        BY <3>2, <2>2, <2>3 DEF Stands
      <3>3. CASE y # x
        BY <3>1, <3>3, <2>1, <2>3 DEF Stands, Withdrawn, CredentialStands
      <3> QED BY <3>2, <3>3
    <2> QED BY <2>4, <2>5, <2>6, StandsForAll DEF FlowInv
  <1>15. ASSUME NEW c \in Credentials, CredentialExpires(c) PROVE FlowInv'
    <2> DEFINE new == [devCredentials[c] EXCEPT !.expired = TRUE]
    <2>1. /\ devCredentials[c] # NoRow /\ devCredentials' = [devCredentials EXCEPT ![c] = new]
          /\ UNCHANGED <<flowState, issuerActions, contexts, tokens, minting, revocations, flowDenied>>
      BY <1>15 DEF CredentialExpires
    <2>2. /\ new \in CredentialRow /\ new.revoked = devCredentials[c].revoked
          /\ new.secret = devCredentials[c].secret /\ new.permissions = devCredentials[c].permissions
      BY <2>1, <1>typ, FlowFields DEF CredentialRow
    <2>3. new # NoRow
      BY <2>2 DEF CredentialRow, NoRow
    <2> HIDE DEF new
    <2>4. /\ devCredentials' \in [Credentials -> CredentialRow \cup {NoRow}] /\ devCredentials'[c] = new
          /\ \A d \in Credentials : d # c => devCredentials'[d] = devCredentials[d]
      BY <2>1, <2>2, <1>typ DEF FlowTypeOK
    <2>5. FlowTypeOK'
      BY <2>1, <2>4, <1>typ DEF FlowTypeOK
    <2>6. ASSUME flowState' # "absent", NEW x \in ContextIds PROVE Stands(x)'
      <3>1. CredentialStands(tokens[x]) => CredentialStands(tokens[x])'
        BY <2>1, <2>2, <2>3, <2>4, <1>typ, FlowFields DEF CredentialStands
      <3> QED BY <3>1, <2>1, <2>6, <1>st, SameToken DEF Withdrawn
    <2> QED BY <2>1, <2>5, <2>6, StandsForAll DEF FlowInv, RowsMatchTokens
  <1>16. ASSUME NEW x \in ContextIds,
                RevokeRealtimeAccessContext(x) \/ \E c \in Credentials : RevokeDeveloperAccessContext(c, x)
         PROVE  FlowInv'
    BY <1>9, <1>16 DEF RevokeRealtimeAccessContext, RevokeDeveloperAccessContext
  <1> QED
    BY <1>1, <1>2, <1>3, <1>4, <1>5, <1>6, <1>7, <1>8, <1>10, <1>11, <1>12, <1>13, <1>14, <1>15, <1>16
    DEF FlowNext

\* The tables of developer credentials and contexts keep their types.
THEOREM FlowTypes == FlowSpec => []FlowTypeOK
  <1>1. FlowInv => FlowTypeOK
    BY DEF FlowInv
  <1> QED BY <1>1, FlowInitInv, FlowStepInv, PTL DEF FlowSpec

\* mint_flow_access_context_with_developer_credential, the revocations and the pruning
\* of the history: every token that Flow still accepts has a row that an operator can
\* revoke and a credential that allows it, however the requests interleave.
THEOREM LiveAccess == FlowSpec => []LiveAccessIsCurrent
  <1>1. FlowInv => LiveAccessIsCurrent
    BY DEF FlowInv
  <1> QED BY <1>1, FlowInitInv, FlowStepInv, PTL DEF FlowSpec

-----------------------------------------------------------------------------
(***************************************************************************)
(* Backup destinations.                                                    *)
(***************************************************************************)

Holds(h, d) == destWriters[h].step \in {"locked", "stored", "answered"} /\ destWriters[h].destination = d

\* The advisory lock has one holder.
OneHolder == \A d \in Destinations : \A g, h \in DestWriters : Holds(g, d) /\ Holds(h, d) => g = h

\* Whoever works on a destination has found its row.
RowsExist ==
    /\ \A h \in DestWriters : destWriters[h] # DestIdle => destRows[destWriters[h].destination] # NoDestination
    /\ \A r \in Refreshers : refreshers[r] # DestIdle => destRows[refreshers[r].destination] # NoDestination
    /\ \A d \in Destinations : destOutcome[d] = "applied" => destRows[d] # NoDestination

\* A writer's own credentials are where it has put them, unless a late write came after.
WritersArePrecise ==
    \A h \in DestWriters :
        LET w == destWriters[h]
        IN  /\ w.step \in {"stored", "answered"} /\ "secret" \notin overtaken[w.destination] =>
                  secretKeys[w.destination] = w.key
            /\ w.step = "answered" => destOutcome[w.destination] # "applied"
            /\ w.step = "answered" /\ "provider" \notin overtaken[w.destination] =>
                  providerKeys[w.destination] = w.key

\* A rotation that was carried through stands until the next one stores its credentials
\* or a late write comes.
AppliedStands ==
    \A d \in Destinations : destOutcome[d] = "applied" =>
        /\ "provider" \notin overtaken[d] => destRows[d].state = StateOf(providerKeys[d])
        /\ overtaken[d] = {} =>
             secretKeys[d] = providerKeys[d]
             \/ \E h \in DestWriters : Holds(h, d) /\ destWriters[h].step = "stored"

\* A refresh that may still write has asked about the credentials that are in force.
RefreshersAreCurrent ==
    \A r \in Refreshers :
        LET x == refreshers[r]
        IN  x.step = "asked" /\ x.current /\ x.answer # "unknown"
                /\ destOutcome[x.destination] = "applied"
                /\ "provider" \notin overtaken[x.destination] =>
                    x.answer = StateOf(providerKeys[x.destination])

DestInv ==
    /\ DestTypeOK
    /\ OneHolder
    /\ RowsExist
    /\ WritersArePrecise
    /\ AppliedStands
    /\ RefreshersAreCurrent

\* Handlers and refreshes, field by field.
LEMMA DestFields ==
    ASSUME DestTypeOK
    PROVE  /\ \A h \in DestWriters :
                 /\ destWriters[h] = DestIdle <=> destWriters[h].step = "idle"
                 /\ destWriters[h] # DestIdle =>
                       /\ destWriters[h] \in DestWriter /\ destWriters[h].destination \in Destinations
                       /\ destWriters[h].key \in S3Keys
                       /\ destWriters[h].step \in {"found", "locked", "stored", "answered"}
           /\ \A r \in Refreshers :
                 /\ refreshers[r] = DestIdle <=> refreshers[r].step = "idle"
                 /\ refreshers[r] # DestIdle =>
                       /\ refreshers[r] \in Refresher /\ refreshers[r].destination \in Destinations
                       /\ refreshers[r].answer \in {"ready", "pending", "unknown"}
           /\ \A d \in Destinations : destRows[d] # NoDestination => destRows[d] \in DestinationRow
  <1>1. \A h \in DestWriters :
           /\ destWriters[h] = DestIdle <=> destWriters[h].step = "idle"
           /\ destWriters[h] # DestIdle => destWriters[h] \in DestWriter
    BY DEF DestTypeOK, DestWriter, DestIdle
  <1>2. \A r \in Refreshers :
           /\ refreshers[r] = DestIdle <=> refreshers[r].step = "idle"
           /\ refreshers[r] # DestIdle => refreshers[r] \in Refresher
    BY DEF DestTypeOK, Refresher, DestIdle
  <1>3. \A d \in Destinations : destRows[d] # NoDestination => destRows[d] \in DestinationRow
    BY DEF DestTypeOK
  <1>4. \A w \in DestWriter : /\ w.destination \in Destinations /\ w.key \in S3Keys
                              /\ w.step \in {"found", "locked", "stored", "answered"}
    BY DEF DestWriter
  <1>5. \A x \in Refresher : x.destination \in Destinations /\ x.answer \in {"ready", "pending", "unknown"}
    BY DEF Refresher
  <1> QED BY <1>1, <1>2, <1>3, <1>4, <1>5

\* One handler moves on.
LEMMA WriterMoves ==
    ASSUME DestTypeOK, NEW h \in DestWriters, NEW new \in {DestIdle} \cup DestWriter,
           destWriters' = [destWriters EXCEPT ![h] = new]
    PROVE  /\ destWriters' \in [DestWriters -> {DestIdle} \cup DestWriter]
           /\ destWriters'[h] = new
           /\ \A g \in DestWriters : g # h => destWriters'[g] = destWriters[g]
  BY DEF DestTypeOK

\* One refresh moves on.
LEMMA RefresherMoves ==
    ASSUME DestTypeOK, NEW r \in Refreshers, NEW new \in {DestIdle} \cup Refresher,
           refreshers' = [refreshers EXCEPT ![r] = new]
    PROVE  /\ refreshers' \in [Refreshers -> {DestIdle} \cup Refresher]
           /\ refreshers'[r] = new
           /\ \A q \in Refreshers : q # r => refreshers'[q] = refreshers[q]
  BY DEF DestTypeOK

\* The rows of a destination that exists keep existing, with another state.
LEMMA StateWritten ==
    ASSUME DestTypeOK, NEW d \in Destinations, NEW s \in {"pending", "ready"},
           destRows[d] # NoDestination, destRows' = [destRows EXCEPT ![d].state = s]
    PROVE  /\ destRows' \in [Destinations -> {NoDestination} \cup DestinationRow]
           /\ destRows'[d].state = s
           /\ \A e \in Destinations : destRows[e] # NoDestination => destRows'[e] # NoDestination
           /\ \A e \in Destinations : e # d => destRows'[e] = destRows[e]
  <1> DEFINE new == [destRows[d] EXCEPT !.state = s]
  <1>1. destRows[d] \in DestinationRow /\ destRows' = [destRows EXCEPT ![d] = new]
    BY DestFields
  <1>2. new \in DestinationRow /\ new.state = s
    BY <1>1 DEF DestinationRow
  <1> HIDE DEF new
  <1>3. /\ destRows' \in [Destinations -> {NoDestination} \cup DestinationRow] /\ destRows'[d] = new
        /\ \A e \in Destinations : e # d => destRows'[e] = destRows[e]
    BY <1>1, <1>2 DEF DestTypeOK
  <1> QED BY <1>2, <1>3, DestinationsAssumption

\* A handler that begins, with its row found or made.
LEMMA FoundStep ==
    ASSUME DestInv, NEW h \in DestWriters, NEW d \in Destinations, NEW key \in S3Keys,
           destWriters[h] = DestIdle,
           destWriters' = [destWriters EXCEPT ![h] = [step |-> "found", destination |-> d, key |-> key]],
           destRows' \in [Destinations -> {NoDestination} \cup DestinationRow],
           destRows'[d] # NoDestination,
           \A e \in Destinations : destRows[e] # NoDestination => destRows'[e] = destRows[e],
           UNCHANGED <<secretKeys, providerKeys, lateWrites, refreshers, destOutcome, overtaken>>
    PROVE  DestInv'
  <1> DEFINE new == [step |-> "found", destination |-> d, key |-> key]
  <1>typ. DestTypeOK
    BY DEF DestInv
  <1>1. new \in DestWriter /\ new.step = "found" /\ new.destination = d
    BY DEF DestWriter
  <1>2. destWriters' = [destWriters EXCEPT ![h] = new]
    OBVIOUS
  <1> HIDE DEF new
  <1>3. /\ destWriters' \in [DestWriters -> {DestIdle} \cup DestWriter] /\ destWriters'[h] = new
        /\ \A g \in DestWriters : g # h => destWriters'[g] = destWriters[g]
    BY <1>1, <1>2, <1>typ, WriterMoves
  <1>4. DestTypeOK'
    BY <1>3, <1>typ DEF DestTypeOK
  <1>5. \A g \in DestWriters, e \in Destinations : Holds(g, e)' <=> Holds(g, e)
    BY <1>1, <1>3 DEF Holds, DestIdle
  <1>6. OneHolder'
    BY <1>5 DEF DestInv, OneHolder
  <1>7. RowsExist'
    <2>1. \A g \in DestWriters : destWriters'[g] # DestIdle => destRows'[destWriters'[g].destination] # NoDestination
      BY <1>1, <1>3, <1>typ, DestFields DEF DestInv, RowsExist
    <2>2. \A r \in Refreshers : refreshers[r] # DestIdle => destRows'[refreshers[r].destination] # NoDestination
      BY <1>typ, DestFields DEF DestInv, RowsExist
    <2> QED BY <2>1, <2>2 DEF DestInv, RowsExist
  <1>8. WritersArePrecise'
    BY <1>1, <1>3 DEF DestInv, WritersArePrecise
  <1>9. AppliedStands'
    <2> SUFFICES ASSUME NEW e \in Destinations, destOutcome[e] = "applied"
                 PROVE  /\ "provider" \notin overtaken'[e] => destRows'[e].state = StateOf(providerKeys[e])
                        /\ overtaken'[e] = {} =>
                             secretKeys[e] = providerKeys[e]
                             \/ \E g \in DestWriters : Holds(g, e)' /\ destWriters'[g].step = "stored"
      BY DEF AppliedStands, StateOf
    <2>1. destRows'[e] = destRows[e]
      BY DEF DestInv, RowsExist
    <2>2. \A g \in DestWriters : destWriters[g].step = "stored" => destWriters'[g].step = "stored"
      BY <1>3 DEF DestIdle
    <2> QED BY <2>1, <2>2, <1>5 DEF DestInv, AppliedStands
  <1>10. RefreshersAreCurrent'
    BY DEF DestInv, RefreshersAreCurrent, StateOf
  <1> QED BY <1>4, <1>6, <1>7, <1>8, <1>9, <1>10 DEF DestInv

\* apply takes the lock, which nobody holds.
LEMMA ApplyLocksInv == ASSUME DestInv, NEW h \in DestWriters, ApplyLocks(h) PROVE DestInv'
  <1> DEFINE w == destWriters[h]
             new == [w EXCEPT !.step = "locked"]
  <1>typ. DestTypeOK
    BY DEF DestInv
  <1>1. /\ w.step = "found" /\ Holders(w.destination) = {} /\ destWriters' = [destWriters EXCEPT ![h] = new]
        /\ UNCHANGED <<destRows, secretKeys, providerKeys, lateWrites, refreshers, destOutcome, overtaken>>
    BY DEF ApplyLocks, LockIsFree
  <1>2. w # DestIdle /\ w \in DestWriter
    BY <1>1, <1>typ, DestFields DEF DestIdle
  <1>3. new \in DestWriter /\ new.step = "locked" /\ new.destination = w.destination
    BY <1>2 DEF DestWriter
  <1> HIDE DEF new
  <1>4. /\ destWriters' \in [DestWriters -> {DestIdle} \cup DestWriter] /\ destWriters'[h] = new
        /\ \A g \in DestWriters : g # h => destWriters'[g] = destWriters[g]
    BY <1>1, <1>3, <1>typ, WriterMoves
  <1>5. DestTypeOK'
    BY <1>1, <1>4, <1>typ DEF DestTypeOK
  <1>6. \A g \in DestWriters : ~Holds(g, w.destination)
    BY <1>1 DEF Holders, Holds
  <1>7. /\ \A g \in DestWriters, e \in Destinations : g # h => (Holds(g, e)' <=> Holds(g, e))
        /\ \A e \in Destinations : Holds(h, e)' => e = w.destination
    BY <1>3, <1>4 DEF Holds
  <1>8. OneHolder'
    <2> HIDE DEF w
    <2> QED BY <1>6, <1>7 DEF DestInv, OneHolder
  <1>9. RowsExist'
    BY <1>1, <1>2, <1>3, <1>4 DEF DestInv, RowsExist
  <1>10. WritersArePrecise'
    BY <1>1, <1>3, <1>4 DEF DestInv, WritersArePrecise
  <1>11. AppliedStands'
    <2>1. \A g \in DestWriters, e \in Destinations :
            Holds(g, e) /\ destWriters[g].step = "stored" => Holds(g, e)' /\ destWriters'[g].step = "stored"
      BY <1>1, <1>4, <1>7
    <2> QED BY <2>1, <1>1 DEF DestInv, AppliedStands, StateOf
  <1>12. RefreshersAreCurrent'
    BY <1>1 DEF DestInv, RefreshersAreCurrent, StateOf
  <1> QED BY <1>5, <1>8, <1>9, <1>10, <1>11, <1>12 DEF DestInv

\* The secret manager takes the credentials; nobody else holds the lock.
LEMMA ApplyStoresInv == ASSUME DestInv, NEW h \in DestWriters, ApplyStores(h) PROVE DestInv'
  <1> DEFINE w == destWriters[h]
             new == [w EXCEPT !.step = "stored"]
  <1>typ. DestTypeOK
    BY DEF DestInv
  <1>1. /\ w.step = "locked" /\ destWriters' = [destWriters EXCEPT ![h] = new]
        /\ secretKeys' = [secretKeys EXCEPT ![w.destination] = w.key]
        /\ overtaken' = [overtaken EXCEPT ![w.destination] = overtaken[w.destination] \ {"secret"}]
        /\ UNCHANGED <<destRows, providerKeys, lateWrites, refreshers, destOutcome>>
    BY DEF ApplyStores, SecretManagerTakes
  <1>2. w # DestIdle /\ w \in DestWriter /\ w.destination \in Destinations /\ w.key \in S3Keys
    BY <1>1, <1>typ, DestFields DEF DestIdle
  <1>3. new \in DestWriter /\ new.step = "stored" /\ new.destination = w.destination /\ new.key = w.key
    BY <1>2 DEF DestWriter
  <1> HIDE DEF new
  <1>4. /\ destWriters' \in [DestWriters -> {DestIdle} \cup DestWriter] /\ destWriters'[h] = new
        /\ \A g \in DestWriters : g # h => destWriters'[g] = destWriters[g]
    BY <1>1, <1>3, <1>typ, WriterMoves
  <1>5. /\ secretKeys' \in [Destinations -> S3Keys \cup {NoS3Key}] /\ secretKeys'[w.destination] = w.key
        /\ \A e \in Destinations : e # w.destination =>
             secretKeys'[e] = secretKeys[e] /\ overtaken'[e] = overtaken[e]
        /\ overtaken' \in [Destinations -> SUBSET Places]
        /\ \A e \in Destinations : "provider" \in overtaken[e] => "provider" \in overtaken'[e]
    BY <1>1, <1>2, <1>typ DEF DestTypeOK
  <1>6. DestTypeOK'
    BY <1>1, <1>4, <1>5, <1>typ DEF DestTypeOK
  <1>7. \A g \in DestWriters, e \in Destinations : Holds(g, e)' <=> Holds(g, e)
    BY <1>1, <1>3, <1>4 DEF Holds
  <1>8. \A g \in DestWriters : g # h => ~Holds(g, w.destination)
    BY <1>1, <1>2 DEF DestInv, OneHolder, Holds
  <1>9. OneHolder'
    BY <1>7 DEF DestInv, OneHolder
  <1>10. RowsExist'
    BY <1>1, <1>2, <1>3, <1>4 DEF DestInv, RowsExist
  <1>11. WritersArePrecise'
    <2> SUFFICES ASSUME NEW g \in DestWriters
                 PROVE  LET x == destWriters'[g]
                        IN  /\ x.step \in {"stored", "answered"} /\ "secret" \notin overtaken'[x.destination] =>
                                  secretKeys'[x.destination] = x.key
                            /\ x.step = "answered" => destOutcome[x.destination] # "applied"
                            /\ x.step = "answered" /\ "provider" \notin overtaken'[x.destination] =>
                                  providerKeys[x.destination] = x.key
      BY <1>1 DEF WritersArePrecise
    <2>1. CASE g = h
      BY <2>1, <1>3, <1>4, <1>5
    <2>2. CASE g # h
      <3>1. destWriters[g].step \in {"stored", "answered"} =>
              destWriters[g].destination # w.destination /\ destWriters[g].destination \in Destinations
        BY <2>2, <1>8, <1>typ, DestFields DEF Holds, DestIdle
      <3> QED BY <2>2, <3>1, <1>4, <1>5 DEF DestInv, WritersArePrecise
    <2> QED BY <2>1, <2>2
  <1>12. AppliedStands'
    <2> SUFFICES ASSUME NEW e \in Destinations, destOutcome[e] = "applied"
                 PROVE  /\ "provider" \notin overtaken'[e] => destRows[e].state = StateOf(providerKeys[e])
                        /\ overtaken'[e] = {} =>
                             secretKeys'[e] = providerKeys[e]
                             \/ \E g \in DestWriters : Holds(g, e)' /\ destWriters'[g].step = "stored"
      BY <1>1 DEF AppliedStands, StateOf
    <2>1. CASE e = w.destination
      <3>1. Holds(h, e)' /\ destWriters'[h].step = "stored"
        BY <2>1, <1>3, <1>4 DEF Holds
      <3> QED BY <3>1, <1>5 DEF DestInv, AppliedStands
    <2>2. CASE e # w.destination
      <3>1. \A g \in DestWriters : Holds(g, e) /\ destWriters[g].step = "stored" =>
                                   Holds(g, e)' /\ destWriters'[g].step = "stored"
        BY <1>1, <1>4, <1>7
      <3> QED BY <2>2, <3>1, <1>5 DEF DestInv, AppliedStands
    <2> QED BY <2>1, <2>2
  <1>13. RefreshersAreCurrent'
    <2> SUFFICES ASSUME NEW r \in Refreshers, refreshers[r].step = "asked", refreshers[r].current,
                        refreshers[r].answer # "unknown",
                        destOutcome[refreshers[r].destination] = "applied",
                        "provider" \notin overtaken'[refreshers[r].destination]
                 PROVE  refreshers[r].answer = StateOf(providerKeys[refreshers[r].destination])
      BY <1>1 DEF RefreshersAreCurrent, StateOf
    <2>1. refreshers[r].destination \in Destinations
      BY <1>typ, DestFields DEF DestIdle
    <2> QED BY <2>1, <1>5 DEF DestInv, RefreshersAreCurrent
  <1> QED BY <1>6, <1>9, <1>10, <1>11, <1>12, <1>13 DEF DestInv

\* The provider takes the credentials; what was applied before is superseded.
LEMMA ApplySendsInv == ASSUME DestInv, NEW h \in DestWriters, ApplySends(h) PROVE DestInv'
  <1> DEFINE w == destWriters[h]
             d == w.destination
             new == [w EXCEPT !.step = "answered"]
  <1>typ. DestTypeOK
    BY DEF DestInv
  <1>1. /\ w.step = "stored" /\ destWriters' = [destWriters EXCEPT ![h] = new]
        /\ providerKeys' = [providerKeys EXCEPT ![d] = w.key]
        /\ destOutcome' = [destOutcome EXCEPT ![d] = "sent"]
        /\ overtaken' = [overtaken EXCEPT ![d] = overtaken[d] \ {"provider"}]
        /\ UNCHANGED <<destRows, secretKeys, lateWrites, refreshers>>
    BY DEF ApplySends, ProviderTakes
  <1>2. w # DestIdle /\ w \in DestWriter /\ d \in Destinations /\ w.key \in S3Keys
    BY <1>1, <1>typ, DestFields DEF DestIdle
  <1>3. new \in DestWriter /\ new.step = "answered" /\ new.destination = d /\ new.key = w.key
    BY <1>2 DEF DestWriter
  <1> HIDE DEF new
  <1>4. /\ destWriters' \in [DestWriters -> {DestIdle} \cup DestWriter] /\ destWriters'[h] = new
        /\ \A g \in DestWriters : g # h => destWriters'[g] = destWriters[g]
    BY <1>1, <1>3, <1>typ, WriterMoves
  <1>5. /\ providerKeys' \in [Destinations -> S3Keys \cup {NoS3Key}] /\ providerKeys'[d] = w.key
        /\ \A e \in Destinations : e # d => providerKeys'[e] = providerKeys[e]
        /\ destOutcome' \in [Destinations -> {"none", "sent", "applied", "failed"}]
        /\ destOutcome'[d] = "sent"
        /\ \A e \in Destinations : e # d =>
             destOutcome'[e] = destOutcome[e] /\ overtaken'[e] = overtaken[e]
        /\ overtaken' \in [Destinations -> SUBSET Places]
        /\ "secret" \in overtaken[d] => "secret" \in overtaken'[d]
    BY <1>1, <1>2, <1>typ DEF DestTypeOK
  <1>6. DestTypeOK'
    BY <1>1, <1>4, <1>5, <1>typ DEF DestTypeOK
  <1>7. \A g \in DestWriters, e \in Destinations : Holds(g, e)' <=> Holds(g, e)
    BY <1>1, <1>3, <1>4 DEF Holds
  <1>8. \A g \in DestWriters : g # h => ~Holds(g, d)
    BY <1>1, <1>2 DEF DestInv, OneHolder, Holds
  <1>9. OneHolder'
    BY <1>7 DEF DestInv, OneHolder
  <1>10. RowsExist'
    BY <1>1, <1>2, <1>3, <1>4, <1>5 DEF DestInv, RowsExist
  <1>11. WritersArePrecise'
    <2> SUFFICES ASSUME NEW g \in DestWriters
                 PROVE  LET x == destWriters'[g]
                        IN  /\ x.step \in {"stored", "answered"} /\ "secret" \notin overtaken'[x.destination] =>
                                  secretKeys[x.destination] = x.key
                            /\ x.step = "answered" => destOutcome'[x.destination] # "applied"
                            /\ x.step = "answered" /\ "provider" \notin overtaken'[x.destination] =>
                                  providerKeys'[x.destination] = x.key
      BY <1>1 DEF WritersArePrecise
    <2>1. CASE g = h
      BY <2>1, <1>1, <1>3, <1>4, <1>5 DEF DestInv, WritersArePrecise
    <2>2. CASE g # h
      <3>1. destWriters[g].step \in {"stored", "answered"} =>
              destWriters[g].destination # d /\ destWriters[g].destination \in Destinations
        BY <2>2, <1>8, <1>typ, DestFields DEF Holds, DestIdle
      <3> QED BY <2>2, <3>1, <1>4, <1>5 DEF DestInv, WritersArePrecise
    <2> QED BY <2>1, <2>2
  <1>12. AppliedStands'
    <2> SUFFICES ASSUME NEW e \in Destinations, destOutcome'[e] = "applied"
                 PROVE  /\ "provider" \notin overtaken'[e] => destRows[e].state = StateOf(providerKeys'[e])
                        /\ overtaken'[e] = {} =>
                             secretKeys[e] = providerKeys'[e]
                             \/ \E g \in DestWriters : Holds(g, e)' /\ destWriters'[g].step = "stored"
      BY <1>1 DEF AppliedStands, StateOf
    <2>1. e # d /\ destOutcome[e] = "applied" /\ providerKeys'[e] = providerKeys[e]
      BY <1>5
    <2>2. \A g \in DestWriters : Holds(g, e) /\ destWriters[g].step = "stored" =>
                                 Holds(g, e)' /\ destWriters'[g].step = "stored"
      BY <2>1, <1>1, <1>4, <1>7 DEF Holds
    <2> QED BY <1>1, <2>1, <2>2 DEF DestInv, AppliedStands
  <1>13. RefreshersAreCurrent'
    <2> SUFFICES ASSUME NEW r \in Refreshers, refreshers[r].step = "asked", refreshers[r].current,
                        refreshers[r].answer # "unknown",
                        destOutcome'[refreshers[r].destination] = "applied",
                        "provider" \notin overtaken'[refreshers[r].destination]
                 PROVE  refreshers[r].answer = StateOf(providerKeys'[refreshers[r].destination])
      BY <1>1 DEF RefreshersAreCurrent, StateOf
    <2>1. refreshers[r].destination \in Destinations
      BY <1>typ, DestFields DEF DestIdle
    <2> QED BY <2>1, <1>5 DEF DestInv, RefreshersAreCurrent
  <1> QED BY <1>6, <1>9, <1>10, <1>11, <1>12, <1>13 DEF DestInv

\* The move of updated_at takes the right to write from whoever has read the row.
LEMMA StampedStep ==
    ASSUME DestTypeOK, NEW d \in Destinations
    PROVE  /\ Stamped(d) \in [Refreshers -> {DestIdle} \cup Refresher]
           /\ \A r \in Refreshers :
                /\ Stamped(d)[r].step = refreshers[r].step
                /\ Stamped(d)[r] = DestIdle <=> refreshers[r] = DestIdle
                /\ refreshers[r] # DestIdle =>
                     /\ Stamped(d)[r].destination = refreshers[r].destination
                     /\ Stamped(d)[r].answer = refreshers[r].answer
                     /\ refreshers[r].destination = d => Stamped(d)[r].current = FALSE
                     /\ refreshers[r].destination # d => Stamped(d)[r] = refreshers[r]
  <1>1. ASSUME NEW r \in Refreshers
        PROVE  /\ Stamped(d)[r] \in {DestIdle} \cup Refresher
               /\ Stamped(d)[r].step = refreshers[r].step
               /\ Stamped(d)[r] = DestIdle <=> refreshers[r] = DestIdle
               /\ refreshers[r] # DestIdle =>
                    /\ Stamped(d)[r].destination = refreshers[r].destination
                    /\ Stamped(d)[r].answer = refreshers[r].answer
                    /\ refreshers[r].destination = d => Stamped(d)[r].current = FALSE
                    /\ refreshers[r].destination # d => Stamped(d)[r] = refreshers[r]
    <2> DEFINE new == [refreshers[r] EXCEPT !.current = FALSE]
    <2>1. CASE refreshers[r] # DestIdle /\ refreshers[r].destination = d
      <3>1. Stamped(d)[r] = new /\ refreshers[r] \in Refresher
        BY <2>1, DestFields DEF Stamped
      <3>2. /\ new \in Refresher /\ new.step = refreshers[r].step
            /\ new.destination = refreshers[r].destination
            /\ new.answer = refreshers[r].answer /\ new.current = FALSE
        BY <3>1 DEF Refresher
      <3> HIDE DEF new
      <3>3. new # DestIdle
        BY <3>2, <2>1, DestFields DEF DestIdle
      <3> QED BY <2>1, <3>1, <3>2, <3>3
    <2>2. CASE ~(refreshers[r] # DestIdle /\ refreshers[r].destination = d)
      <3>1. Stamped(d)[r] = refreshers[r]
        BY <2>2 DEF Stamped
      <3> QED BY <2>2, <3>1 DEF DestTypeOK
    <2> QED BY <2>1, <2>2
  <1>2. Stamped(d) \in [Refreshers -> {DestIdle} \cup Refresher]
    BY <1>1 DEF Stamped
  <1> QED BY <1>1, <1>2

\* The answer is written, and whoever asked before may not write any more.
LEMMA ApplyCommitsInv == ASSUME DestInv, NEW h \in DestWriters, ApplyCommits(h) PROVE DestInv'
  <1> DEFINE w == destWriters[h]
             d == w.destination
  <1>typ. DestTypeOK
    BY DEF DestInv
  <1>1. /\ w.step = "answered" /\ destWriters' = [destWriters EXCEPT ![h] = DestIdle]
        /\ destRows' = [destRows EXCEPT ![d].state = StateOf(w.key)]
        /\ destOutcome' = [destOutcome EXCEPT ![d] = "applied"]
        /\ refreshers' = Stamped(d)
        /\ UNCHANGED <<secretKeys, providerKeys, lateWrites, overtaken>>
    BY DEF ApplyCommits
  <1>2. w # DestIdle /\ w \in DestWriter /\ d \in Destinations /\ w.key \in S3Keys
    BY <1>1, <1>typ, DestFields DEF DestIdle
  <1>3. /\ destRows[d] # NoDestination
        /\ "secret" \notin overtaken[d] => secretKeys[d] = w.key
        /\ "provider" \notin overtaken[d] => providerKeys[d] = w.key
    BY <1>1, <1>2 DEF DestInv, RowsExist, WritersArePrecise
  <1>5. /\ destWriters' \in [DestWriters -> {DestIdle} \cup DestWriter] /\ destWriters'[h] = DestIdle
        /\ \A g \in DestWriters : g # h => destWriters'[g] = destWriters[g]
    BY <1>1, <1>typ, WriterMoves
  <1>6. /\ destRows' \in [Destinations -> {NoDestination} \cup DestinationRow]
        /\ destRows'[d].state = StateOf(w.key)
        /\ \A e \in Destinations : destRows[e] # NoDestination => destRows'[e] # NoDestination
        /\ \A e \in Destinations : e # d => destRows'[e] = destRows[e]
    <2> DEFINE s == StateOf(w.key)
    <2>1. s \in {"pending", "ready"} /\ destRows' = [destRows EXCEPT ![d].state = s]
      BY <1>1 DEF StateOf
    <2> HIDE DEF s, d
    <2>2. /\ destRows' \in [Destinations -> {NoDestination} \cup DestinationRow]
          /\ destRows'[d].state = s
          /\ \A e \in Destinations : destRows[e] # NoDestination => destRows'[e] # NoDestination
          /\ \A e \in Destinations : e # d => destRows'[e] = destRows[e]
      BY <2>1, <1>2, <1>3, <1>typ, StateWritten
    <2> QED BY <2>2 DEF s
  <1>7. /\ destOutcome' \in [Destinations -> {"none", "sent", "applied", "failed"}]
        /\ destOutcome'[d] = "applied" /\ \A e \in Destinations : e # d => destOutcome'[e] = destOutcome[e]
    BY <1>1, <1>2, <1>typ DEF DestTypeOK
  <1>8. /\ refreshers' \in [Refreshers -> {DestIdle} \cup Refresher]
        /\ \A r \in Refreshers :
             /\ refreshers'[r].step = refreshers[r].step
             /\ refreshers'[r] = DestIdle <=> refreshers[r] = DestIdle
             /\ refreshers[r] # DestIdle =>
                  /\ refreshers'[r].destination = refreshers[r].destination
                  /\ refreshers'[r].answer = refreshers[r].answer
                  /\ refreshers[r].destination = d => refreshers'[r].current = FALSE
                  /\ refreshers[r].destination # d => refreshers'[r] = refreshers[r]
    BY <1>1, <1>2, <1>typ, StampedStep
  <1>9. DestTypeOK'
    BY <1>1, <1>5, <1>6, <1>7, <1>8, <1>typ DEF DestTypeOK
  <1>10. \A g \in DestWriters, e \in Destinations : Holds(g, e)' => Holds(g, e) /\ g # h
    BY <1>5 DEF Holds, DestIdle
  <1>11. \A g \in DestWriters : g # h => ~Holds(g, d)
    BY <1>1, <1>2 DEF DestInv, OneHolder, Holds
  <1>12. OneHolder'
    BY <1>10 DEF DestInv, OneHolder
  <1>13. RowsExist'
    <2>1. \A g \in DestWriters : destWriters'[g] # DestIdle => destRows'[destWriters'[g].destination] # NoDestination
      BY <1>5, <1>6, <1>typ, DestFields DEF DestInv, RowsExist
    <2>2. \A r \in Refreshers : refreshers'[r] # DestIdle => destRows'[refreshers'[r].destination] # NoDestination
      BY <1>6, <1>8, <1>typ, DestFields DEF DestInv, RowsExist
    <2>3. \A e \in Destinations : destOutcome'[e] = "applied" => destRows'[e] # NoDestination
      BY <1>3, <1>6, <1>7 DEF DestInv, RowsExist
    <2> QED BY <2>1, <2>2, <2>3 DEF RowsExist
  <1>14. WritersArePrecise'
    <2> SUFFICES ASSUME NEW g \in DestWriters
                 PROVE  LET x == destWriters'[g]
                        IN  /\ x.step \in {"stored", "answered"} /\ "secret" \notin overtaken'[x.destination] =>
                                  secretKeys[x.destination] = x.key
                            /\ x.step = "answered" => destOutcome'[x.destination] # "applied"
                            /\ x.step = "answered" /\ "provider" \notin overtaken'[x.destination] =>
                                  providerKeys[x.destination] = x.key
      BY <1>1 DEF WritersArePrecise
    <2>1. CASE g = h
      BY <2>1, <1>5 DEF DestIdle
    <2>2. CASE g # h
      <3>1. destWriters[g].step \in {"stored", "answered"} =>
              destWriters[g].destination # d /\ destWriters[g].destination \in Destinations
        BY <2>2, <1>11, <1>typ, DestFields DEF Holds, DestIdle
      <3> QED BY <1>1, <2>2, <3>1, <1>5, <1>7 DEF DestInv, WritersArePrecise
    <2> QED BY <2>1, <2>2
  <1>15. AppliedStands'
    <2> SUFFICES ASSUME NEW e \in Destinations, destOutcome'[e] = "applied"
                 PROVE  /\ "provider" \notin overtaken'[e] => destRows'[e].state = StateOf(providerKeys[e])
                        /\ overtaken'[e] = {} =>
                             secretKeys[e] = providerKeys[e]
                             \/ \E g \in DestWriters : Holds(g, e)' /\ destWriters'[g].step = "stored"
      BY <1>1 DEF AppliedStands, StateOf
    <2>1. CASE e = d
      BY <2>1, <1>1, <1>3, <1>6, <1>7
    <2>2. CASE e # d
      <3>1. \A g \in DestWriters : Holds(g, e) /\ destWriters[g].step = "stored" =>
                                   Holds(g, e)' /\ destWriters'[g].step = "stored"
        BY <1>1, <1>5 DEF Holds
      <3> QED BY <1>1, <2>2, <3>1, <1>6, <1>7 DEF DestInv, AppliedStands
    <2> QED BY <2>1, <2>2
  <1>16. RefreshersAreCurrent'
    <2> SUFFICES ASSUME NEW r \in Refreshers, refreshers'[r].step = "asked", refreshers'[r].current,
                        refreshers'[r].answer # "unknown",
                        destOutcome'[refreshers'[r].destination] = "applied",
                        "provider" \notin overtaken'[refreshers'[r].destination]
                 PROVE  refreshers'[r].answer = StateOf(providerKeys[refreshers'[r].destination])
      BY <1>1 DEF RefreshersAreCurrent, StateOf
    <2>1. refreshers[r] # DestIdle /\ refreshers[r].destination \in Destinations
      BY <1>8, <1>typ, DestFields DEF DestIdle
    <2>2. refreshers[r].destination # d /\ refreshers'[r] = refreshers[r]
      BY <2>1, <1>8
    <2> QED BY <1>1, <2>1, <2>2, <1>7 DEF DestInv, RefreshersAreCurrent
  <1> QED BY <1>9, <1>12, <1>13, <1>14, <1>15, <1>16 DEF DestInv

\* A write that fails after it has stored anything is known to have failed.
LEMMA ApplyFailsInv == ASSUME DestInv, NEW h \in DestWriters, ApplyFails(h) PROVE DestInv'
  <1> DEFINE w == destWriters[h]
             d == w.destination
  <1>typ. DestTypeOK
    BY DEF DestInv
  <1>1. /\ w # DestIdle /\ destWriters' = [destWriters EXCEPT ![h] = DestIdle]
        /\ UNCHANGED <<destRows, secretKeys, providerKeys, refreshers, overtaken>>
    BY DEF ApplyFails
  <1>2. w \in DestWriter /\ d \in Destinations /\ w.key \in S3Keys
    BY <1>1, <1>typ, DestFields
  <1>3. \/ w.step \in {"found", "locked"} /\ UNCHANGED <<lateWrites, destOutcome>>
        \/ /\ w.step \in {"locked", "stored", "answered"}
           /\ destOutcome' = [destOutcome EXCEPT ![d] = "failed"]
           /\ \/ UNCHANGED lateWrites
              \/ lateWrites' = lateWrites \cup {<<"secret", d, w.key>>}
              \/ lateWrites' = lateWrites \cup {<<"provider", d, w.key>>}
    BY DEF ApplyFails
  <1>4. /\ destWriters' \in [DestWriters -> {DestIdle} \cup DestWriter] /\ destWriters'[h] = DestIdle
        /\ \A g \in DestWriters : g # h => destWriters'[g] = destWriters[g]
    BY <1>1, <1>typ, WriterMoves
  <1>5. /\ destOutcome' \in [Destinations -> {"none", "sent", "applied", "failed"}]
        /\ \A e \in Destinations :
             \/ destOutcome'[e] = destOutcome[e]
             \/ e = d /\ destOutcome'[e] = "failed" /\ w.step \in {"locked", "stored", "answered"}
        /\ w.step \in {"stored", "answered"} => destOutcome'[d] = "failed"
    BY <1>2, <1>3, <1>typ DEF DestTypeOK
  <1>6. lateWrites' \in SUBSET (Places \X Destinations \X S3Keys)
    <2>1. <<"secret", d, w.key>> \in Places \X Destinations \X S3Keys
      BY <1>2 DEF Places
    <2>2. <<"provider", d, w.key>> \in Places \X Destinations \X S3Keys
      BY <1>2 DEF Places
    <2> QED BY <2>1, <2>2, <1>3, <1>typ DEF DestTypeOK
  <1>7. DestTypeOK'
    BY <1>1, <1>4, <1>5, <1>6, <1>typ DEF DestTypeOK
  <1>8. \A g \in DestWriters, e \in Destinations : Holds(g, e)' => Holds(g, e) /\ g # h
    BY <1>4 DEF Holds, DestIdle
  <1>9. OneHolder'
    BY <1>8 DEF DestInv, OneHolder
  <1>10. RowsExist'
    BY <1>1, <1>4, <1>5 DEF DestInv, RowsExist
  <1>11. WritersArePrecise'
    <2> SUFFICES ASSUME NEW g \in DestWriters
                 PROVE  LET x == destWriters'[g]
                        IN  /\ x.step \in {"stored", "answered"} /\ "secret" \notin overtaken'[x.destination] =>
                                  secretKeys[x.destination] = x.key
                            /\ x.step = "answered" => destOutcome'[x.destination] # "applied"
                            /\ x.step = "answered" /\ "provider" \notin overtaken'[x.destination] =>
                                  providerKeys[x.destination] = x.key
      BY <1>1 DEF WritersArePrecise
    <2>1. CASE g = h
      BY <2>1, <1>4 DEF DestIdle
    <2>2. CASE g # h
      <3>1. ASSUME destWriters[g].step \in {"stored", "answered"}
            PROVE  destOutcome'[destWriters[g].destination] = destOutcome[destWriters[g].destination]
        <4>1. destWriters[g].destination \in Destinations /\ Holds(g, destWriters[g].destination)
          BY <3>1, <1>typ, DestFields DEF Holds, DestIdle
        <4>2. w.step \in {"locked", "stored", "answered"} => Holds(h, d)
          BY DEF Holds
        <4> QED BY <2>2, <4>1, <4>2, <1>2, <1>5 DEF DestInv, OneHolder
      <3> QED BY <1>1, <2>2, <3>1, <1>4 DEF DestInv, WritersArePrecise
    <2> QED BY <2>1, <2>2
  <1>12. AppliedStands'
    <2> SUFFICES ASSUME NEW e \in Destinations, destOutcome'[e] = "applied"
                 PROVE  /\ "provider" \notin overtaken'[e] => destRows[e].state = StateOf(providerKeys[e])
                        /\ overtaken'[e] = {} =>
                             secretKeys[e] = providerKeys[e]
                             \/ \E g \in DestWriters : Holds(g, e)' /\ destWriters'[g].step = "stored"
      BY <1>1 DEF AppliedStands, StateOf
    <2>1. destOutcome[e] = "applied"
      BY <1>5
    <2>2. \A g \in DestWriters : Holds(g, e) /\ destWriters[g].step = "stored" =>
                                 Holds(g, e)' /\ destWriters'[g].step = "stored"
      <3> SUFFICES ASSUME NEW g \in DestWriters, Holds(g, e), destWriters[g].step = "stored"
                   PROVE  Holds(g, e)' /\ destWriters'[g].step = "stored"
        OBVIOUS
      <3>1. g # h
        BY <1>5 DEF Holds
      <3> QED BY <3>1, <1>4 DEF Holds
    <2> QED BY <1>1, <2>1, <2>2 DEF DestInv, AppliedStands
  <1>13. RefreshersAreCurrent'
    <2> SUFFICES ASSUME NEW r \in Refreshers, refreshers[r].step = "asked", refreshers[r].current,
                        refreshers[r].answer # "unknown",
                        destOutcome'[refreshers[r].destination] = "applied",
                        "provider" \notin overtaken'[refreshers[r].destination]
                 PROVE  refreshers[r].answer = StateOf(providerKeys[refreshers[r].destination])
      BY <1>1 DEF RefreshersAreCurrent, StateOf
    <2>1. refreshers[r].destination \in Destinations
      BY <1>typ, DestFields DEF DestIdle
    <2> QED BY <1>1, <2>1, <1>5 DEF DestInv, RefreshersAreCurrent
  <1> QED BY <1>7, <1>9, <1>10, <1>11, <1>12, <1>13 DEF DestInv

\* A late write marks the place where it arrives.
LEMMA LateWriteInv ==
    ASSUME DestInv, NEW place \in Places, NEW d \in Destinations, NEW key \in S3Keys,
           LateWriteArrives(place, d, key)
    PROVE  DestInv'
  <1>typ. DestTypeOK
    BY DEF DestInv
  <1>1. /\ lateWrites' \subseteq lateWrites
        /\ \/ /\ place = "secret" /\ secretKeys' = [secretKeys EXCEPT ![d] = key]
              /\ UNCHANGED providerKeys
           \/ /\ place = "provider" /\ providerKeys' = [providerKeys EXCEPT ![d] = key]
              /\ UNCHANGED secretKeys
        /\ overtaken' = [overtaken EXCEPT ![d] = overtaken[d] \cup {place}]
        /\ UNCHANGED <<destRows, destWriters, refreshers, destOutcome>>
    BY DEF LateWriteArrives, ProviderTakes, SecretManagerTakes
  <1>2. /\ secretKeys' \in [Destinations -> S3Keys \cup {NoS3Key}]
        /\ providerKeys' \in [Destinations -> S3Keys \cup {NoS3Key}]
        /\ overtaken' \in [Destinations -> SUBSET Places]
    BY <1>1, <1>typ DEF DestTypeOK
  <1>3. \A e \in Destinations :
          /\ overtaken[e] \subseteq overtaken'[e]
          /\ "secret" \notin overtaken'[e] => secretKeys'[e] = secretKeys[e]
          /\ "provider" \notin overtaken'[e] => providerKeys'[e] = providerKeys[e]
    BY <1>1, <1>typ DEF DestTypeOK
  <1>4. DestTypeOK'
    BY <1>1, <1>2, <1>typ DEF DestTypeOK
  <1>5. OneHolder' /\ RowsExist'
    BY <1>1 DEF DestInv, OneHolder, Holds, RowsExist
  <1>6. WritersArePrecise'
    <2>1. \A h \in DestWriters : destWriters[h].step \in {"stored", "answered"} =>
             destWriters[h].destination \in Destinations
      BY <1>typ, DestFields DEF DestIdle
    <2> QED BY <2>1, <1>1, <1>3 DEF DestInv, WritersArePrecise
  <1>7. AppliedStands'
    <2> SUFFICES ASSUME NEW e \in Destinations, destOutcome[e] = "applied"
                 PROVE  /\ "provider" \notin overtaken'[e] => destRows[e].state = StateOf(providerKeys'[e])
                        /\ overtaken'[e] = {} =>
                             secretKeys'[e] = providerKeys'[e]
                             \/ \E h \in DestWriters : Holds(h, e) /\ destWriters[h].step = "stored"
      BY <1>1 DEF AppliedStands, StateOf, Holds
    <2>1. overtaken'[e] = {} => overtaken[e] = {}
      BY <1>3
    <2> QED BY <2>1, <1>3 DEF DestInv, AppliedStands
  <1>8. RefreshersAreCurrent'
    <2>1. \A r \in Refreshers : refreshers[r].step = "asked" => refreshers[r].destination \in Destinations
      BY <1>typ, DestFields DEF DestIdle
    <2> QED BY <2>1, <1>1, <1>3 DEF DestInv, RefreshersAreCurrent, StateOf
  <1> QED BY <1>4, <1>5, <1>6, <1>7, <1>8 DEF DestInv

\* A refresh moves on and writes nothing.
LEMMA RefresherOnly ==
    ASSUME DestInv, NEW r \in Refreshers, NEW new \in {DestIdle} \cup Refresher,
           refreshers' = [refreshers EXCEPT ![r] = new],
           new # DestIdle => destRows[new.destination] # NoDestination,
           new.step = "asked" /\ new.current /\ new.answer # "unknown"
                /\ destOutcome[new.destination] = "applied"
                /\ "provider" \notin overtaken[new.destination] =>
                    new.answer = StateOf(providerKeys[new.destination]),
           UNCHANGED <<destRows, secretKeys, providerKeys, lateWrites, destWriters, destOutcome, overtaken>>
    PROVE  DestInv'
  <1>typ. DestTypeOK
    BY DEF DestInv
  <1>1. /\ refreshers' \in [Refreshers -> {DestIdle} \cup Refresher] /\ refreshers'[r] = new
        /\ \A q \in Refreshers : q # r => refreshers'[q] = refreshers[q]
    BY <1>typ, RefresherMoves
  <1>2. DestTypeOK'
    BY <1>1, <1>typ DEF DestTypeOK
  <1>3. OneHolder' /\ WritersArePrecise' /\ AppliedStands'
    BY DEF DestInv, OneHolder, Holds, WritersArePrecise, AppliedStands, StateOf
  <1>4. RowsExist'
    BY <1>1 DEF DestInv, RowsExist
  <1>5. RefreshersAreCurrent'
    BY <1>1 DEF DestInv, RefreshersAreCurrent, StateOf
  <1> QED BY <1>2, <1>3, <1>4, <1>5 DEF DestInv

\* refresh_flash_backup_destination: the fence keeps answers about other credentials out.
LEMMA RefreshInv == ASSUME DestInv, NEW r \in Refreshers, RefreshDestination(r) PROVE DestInv'
  <1> DEFINE x == refreshers[r]
             d == x.destination
  <1>typ. DestTypeOK
    BY DEF DestInv
  <1>1. x.step = "asked" /\ UNCHANGED <<secretKeys, providerKeys, lateWrites, destWriters, destOutcome, overtaken>>
    BY DEF RefreshDestination
  <1>2. /\ x # DestIdle /\ x \in Refresher /\ d \in Destinations /\ destRows[d] # NoDestination
        /\ destRows[d] \in DestinationRow /\ x.answer \in {"ready", "pending", "unknown"}
    BY <1>1, <1>typ, DestFields DEF DestIdle, DestInv, RowsExist
  <1>3. CASE ~x.current
    <2>1. refreshers' = [refreshers EXCEPT ![r] = DestIdle] /\ UNCHANGED destRows
      BY <1>3 DEF RefreshDestination, RefreshFence
    <2>2. DestIdle.step = "idle"
      BY DEF DestIdle
    <2> QED BY <1>1, <2>1, <2>2, RefresherOnly
  <1>4. CASE x.current
    <2> DEFINE s == IF x.answer = "unknown" THEN destRows[d].state ELSE x.answer
    <2>1. /\ destRows' = [destRows EXCEPT ![d].state = s]
          /\ refreshers' = [Stamped(d) EXCEPT ![r] = DestIdle]
      BY <1>4 DEF RefreshDestination, RefreshFence
    <2>2. s \in {"pending", "ready"}
      BY <1>2 DEF DestinationRow
    <2>3. destOutcome[d] = "applied" /\ "provider" \notin overtaken[d] => s = StateOf(providerKeys[d])
      BY <1>1, <1>2, <1>4 DEF DestInv, AppliedStands, RefreshersAreCurrent
    <2> HIDE DEF s
    <2>4. /\ destRows' \in [Destinations -> {NoDestination} \cup DestinationRow]
          /\ destRows'[d].state = s
          /\ \A e \in Destinations : destRows[e] # NoDestination => destRows'[e] # NoDestination
          /\ \A e \in Destinations : e # d => destRows'[e] = destRows[e]
      <3> HIDE DEF d
      <3> QED BY <2>1, <2>2, <1>2, <1>typ, StateWritten
    <2>5. /\ refreshers' \in [Refreshers -> {DestIdle} \cup Refresher] /\ refreshers'[r] = DestIdle
          /\ \A q \in Refreshers : q # r => refreshers'[q] = Stamped(d)[q]
      BY <2>1, <1>2, <1>typ, StampedStep
    <2>6. \A q \in Refreshers : refreshers'[q] # DestIdle =>
             /\ refreshers[q] # DestIdle /\ refreshers'[q].destination = refreshers[q].destination
             /\ refreshers'[q].current => refreshers'[q] = refreshers[q]
      BY <2>5, <1>2, <1>typ, StampedStep
    <2>7. DestTypeOK'
      BY <1>1, <2>4, <2>5, <1>typ DEF DestTypeOK
    <2>8. OneHolder' /\ WritersArePrecise'
      BY <1>1 DEF DestInv, OneHolder, Holds, WritersArePrecise
    <2>9. RowsExist'
      <3>1. \A g \in DestWriters : destWriters[g] # DestIdle => destRows'[destWriters[g].destination] # NoDestination
        BY <2>4, <1>typ, DestFields DEF DestInv, RowsExist
      <3>2. \A q \in Refreshers : refreshers'[q] # DestIdle => destRows'[refreshers'[q].destination] # NoDestination
        BY <2>4, <2>6, <1>typ, DestFields DEF DestInv, RowsExist
      <3>3. \A e \in Destinations : destOutcome[e] = "applied" => destRows'[e] # NoDestination
        BY <2>4 DEF DestInv, RowsExist
      <3> QED BY <1>1, <3>1, <3>2, <3>3 DEF RowsExist
    <2>10. AppliedStands'
      <3> SUFFICES ASSUME NEW e \in Destinations, destOutcome[e] = "applied"
                   PROVE  /\ "provider" \notin overtaken'[e] => destRows'[e].state = StateOf(providerKeys[e])
                          /\ overtaken'[e] = {} =>
                               secretKeys[e] = providerKeys[e]
                               \/ \E g \in DestWriters : Holds(g, e) /\ destWriters[g].step = "stored"
        BY <1>1 DEF AppliedStands, StateOf, Holds
      <3> QED BY <1>1, <2>3, <2>4 DEF DestInv, AppliedStands
    <2>11. RefreshersAreCurrent'
      <3> SUFFICES ASSUME NEW q \in Refreshers, refreshers'[q].step = "asked", refreshers'[q].current,
                          refreshers'[q].answer # "unknown",
                          destOutcome[refreshers'[q].destination] = "applied",
                          "provider" \notin overtaken'[refreshers'[q].destination]
                   PROVE  refreshers'[q].answer = StateOf(providerKeys[refreshers'[q].destination])
        BY <1>1 DEF RefreshersAreCurrent, StateOf
      <3>1. refreshers'[q] = refreshers[q]
        BY <2>6 DEF DestIdle
      <3> QED BY <1>1, <3>1 DEF DestInv, RefreshersAreCurrent
    <2> QED BY <2>7, <2>8, <2>9, <2>10, <2>11 DEF DestInv
  <1> QED BY <1>3, <1>4

\* There are no destinations at first.
LEMMA DestInitInv == DestInit => DestInv
  <1> SUFFICES ASSUME DestInit PROVE DestInv
    OBVIOUS
  <1>1. DestTypeOK
    BY DEF DestInit, DestTypeOK
  <1>2. /\ \A h \in DestWriters : destWriters[h] = DestIdle
        /\ \A r \in Refreshers : refreshers[r] = DestIdle
        /\ \A d \in Destinations : destOutcome[d] = "none"
        /\ DestIdle.step = "idle"
    BY DEF DestInit, DestIdle
  <1> QED
    BY <1>1, <1>2 DEF DestInv, OneHolder, Holds, RowsExist, WritersArePrecise, AppliedStands,
                      RefreshersAreCurrent, DestIdle

\* Every step keeps the invariant.
LEMMA DestStepInv == DestInv /\ [DestNext]_destVars => DestInv'
  <1> SUFFICES ASSUME DestInv, [DestNext]_destVars PROVE DestInv'
    OBVIOUS
  <1>typ. DestTypeOK
    BY DEF DestInv
  <1>1. ASSUME UNCHANGED destVars PROVE DestInv'
    BY <1>1 DEF destVars, DestInv, DestTypeOK, OneHolder, Holds, RowsExist, WritersArePrecise,
                AppliedStands, RefreshersAreCurrent, StateOf
  <1>2. ASSUME NEW h \in DestWriters, NEW d \in Destinations, NEW key \in S3Keys,
               NEW name \in DestinationNames, CreateDestination(h, d, name, key)
        PROVE  DestInv'
    <2>1. /\ destWriters[h] = DestIdle /\ ReserveDestination(d, name)
          /\ destWriters' = [destWriters EXCEPT ![h] = [step |-> "found", destination |-> d, key |-> key]]
          /\ UNCHANGED <<secretKeys, providerKeys, lateWrites, refreshers, destOutcome, overtaken>>
      BY <1>2 DEF CreateDestination
    <2> DEFINE row == [name |-> name, state |-> "pending"]
    <2>2. row \in DestinationRow /\ row # NoDestination
      BY DestinationsAssumption DEF DestinationRow
    <2>3. \/ destRows[d] # NoDestination /\ UNCHANGED destRows
          \/ destRows[d] = NoDestination /\ destRows' = [destRows EXCEPT ![d] = row]
      BY <2>1 DEF ReserveDestination
    <2> HIDE DEF row
    <2>4. /\ destRows' \in [Destinations -> {NoDestination} \cup DestinationRow]
          /\ destRows'[d] # NoDestination
          /\ \A e \in Destinations : destRows[e] # NoDestination => destRows'[e] = destRows[e]
      BY <2>2, <2>3, <1>typ DEF DestTypeOK
    <2> QED BY <2>1, <2>4, FoundStep
  <1>3. ASSUME NEW h \in DestWriters, NEW d \in Destinations, NEW key \in S3Keys,
               RotateCredentials(h, d, key)
        PROVE  DestInv'
    BY <1>3, <1>typ, FoundStep DEF RotateCredentials, DestTypeOK
  <1>4. ASSUME NEW r \in Refreshers, NEW d \in Destinations, ReadToRefresh(r, d) PROVE DestInv'
    <2> DEFINE new == [step |-> "read", destination |-> d, current |-> TRUE, answer |-> "unknown"]
    <2>1. /\ destRows[d] # NoDestination /\ refreshers' = [refreshers EXCEPT ![r] = new]
          /\ UNCHANGED <<destRows, secretKeys, providerKeys, lateWrites, destWriters, destOutcome, overtaken>>
      BY <1>4 DEF ReadToRefresh
    <2>2. new \in Refresher /\ new.destination = d /\ new.answer = "unknown"
      BY DEF Refresher
    <2> HIDE DEF new
    <2> QED BY <2>1, <2>2, RefresherOnly
  <1>5. ASSUME NEW r \in Refreshers, AskProvider(r) PROVE DestInv'
    <2> DEFINE d == refreshers[r].destination
    <2>1. PICK answer \in {"unknown", StateOf(providerKeys[d])} :
            refreshers' = [refreshers EXCEPT ![r].step = "asked", ![r].answer = answer]
      BY <1>5 DEF AskProvider
    <2>2. /\ refreshers[r].step = "read"
          /\ UNCHANGED <<destRows, secretKeys, providerKeys, lateWrites, destWriters, destOutcome, overtaken>>
      BY <1>5 DEF AskProvider
    <2>3. refreshers[r] # DestIdle /\ refreshers[r] \in Refresher /\ destRows[d] # NoDestination
      BY <2>2, <1>typ, DestFields DEF DestIdle, DestInv, RowsExist
    <2>4. answer \in {"ready", "pending", "unknown"}
      BY <2>1 DEF StateOf
    <2> DEFINE new == [refreshers[r] EXCEPT !.step = "asked", !.answer = answer]
    <2>5. /\ refreshers' = [refreshers EXCEPT ![r] = new] /\ new \in Refresher
          /\ new.destination = d /\ new.answer = answer
      BY <2>1, <2>3, <2>4 DEF Refresher
    <2> HIDE DEF new
    <2> QED BY <2>1, <2>2, <2>3, <2>5, RefresherOnly
  <1> QED
    BY <1>1, <1>2, <1>3, <1>4, <1>5, ApplyLocksInv, ApplyStoresInv, ApplySendsInv,
       ApplyCommitsInv, ApplyFailsInv, LateWriteInv, RefreshInv
    DEF DestNext

\* apply and refresh_flash_backup_destination: with any number of handlers and refreshes,
\* a rotation that was carried through leaves the secret manager, the provider and the
\* row with the same credentials, until a write of another rotation that was given up
\* arrives there.
THEOREM DestinationConsistent == DestSpec => []DestinationIsConsistent
  <1>1. DestInv => DestinationIsConsistent
    BY DEF DestInv, AppliedStands, DestinationIsConsistent, Holders, Holds
  <1> QED BY <1>1, DestInitInv, DestStepInv, PTL DEF DestSpec
=============================================================================
