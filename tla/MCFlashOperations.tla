------------------------- MODULE MCFlashOperations -------------------------
(***************************************************************************)
(* The background loops of Flash for TLC: the reconciler of backups with   *)
(* retention and verification, the observer that rolls back, and the       *)
(* refresh of S3 destinations.  A behaviour is about one of the three,     *)
(* whose interleavings would only multiply the states.                     *)
(***************************************************************************)
EXTENDS MCFlashBackups, MCFlashRevisions, BackupDestinations

CONSTANT Parts  \* the ones a run asks about

VARIABLE part

operationsVars == <<vars, revisionsVars, destVars, part>>

\* Interchangeable processes and values; they are of different parts.
OperationsSymmetry == ReconcilerSymmetry \cup SecuritySymmetry

OperationsInit ==
    /\ part \in Parts
    /\ Init /\ RevisionsInit /\ DestInit

BackupsStep == part = "backups" /\ Next /\ UNCHANGED <<revisionsVars, destVars, part>>
RevisionsStep == part = "revisions" /\ RevisionsNext /\ UNCHANGED <<vars, destVars, part>>
DestinationsStep == part = "destinations" /\ DestNext /\ UNCHANGED <<vars, revisionsVars, part>>

OperationsNext == BackupsStep \/ RevisionsStep \/ DestinationsStep

OperationsSpec == OperationsInit /\ [][OperationsNext]_operationsVars

(***************************************************************************)
(* Fairness, each in its part.  That of FlashBackups.  And every replica   *)
(* observes every 15 seconds and carries on; the worker delivers           *)
(* (ServiceLifecycle) and the provider rolls out; some day nothing but the *)
(* end of the observation makes an observer give up.                       *)
(***************************************************************************)
BackupsFairness ==
    /\ <>[][Fault => \E r \in Reconcilers : Progress(r)]_vars
    /\ \A r \in Reconcilers : WF_vars(part = "backups" /\ Progress(r))
    /\ \A b \in Backups :
         /\ SF_vars(part = "backups" /\ \E r \in Reconcilers : ReadPending(r, b))
         /\ WF_vars(part = "backups" /\ \E state \in RestoreStates : EndRestore(b, state))
         /\ WF_vars(part = "backups" /\ \E phase \in {"ready", "error"} : ProviderMoves(b, phase))
         /\ WF_vars(part = "backups" /\ \E arrives \in BOOLEAN : DelayedPostEnds(b, arrives))

RevisionsFairness ==
    /\ <>[][\A o \in Observers : ~GiveUp(o) \/ ObserverAdvances(o)]_revisionsVars
    /\ \A o \in Observers :
         WF_revisionsVars(part = "revisions" /\ (ReadTarget(o) \/ ObserverAdvances(o)))
    /\ WF_revisionsVars(part = "revisions" /\ \E ready \in BOOLEAN : ProviderAnswersPut(ready))
    /\ WF_revisionsVars(part = "revisions" /\ MarkServiceInstance)
    /\ WF_revisionsVars(part = "revisions" /\ RuntimeRolls)

OperationsFairSpec == OperationsSpec /\ BackupsFairness /\ RevisionsFairness
=============================================================================
