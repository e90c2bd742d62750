---------------------------- MODULE DesiredState ----------------------------
(***************************************************************************)
(* What HeteroCloud promises about a managed service, whatever happens to  *)
(* its queue, its workers and its network: a request to change or remove   *)
(* the service replaces the desired state; the provider only ever moves    *)
(* forward, towards a state that was desired; the phase users read is      *)
(* "ready" only when the provider holds the desired state; and a removed   *)
(* service is gone from the provider and stays gone, unless the provider   *)
(* was found never to have held it: then an older state may still arrive.  *)
(***************************************************************************)
EXTENDS Naturals

CONSTANT Services

VARIABLES
  desired,   \* per service, the number of the desired state
  phase,     \* per service, what users read
  applied,   \* per service, what the provider holds
  missed     \* per service, the removal found nothing at the provider

vars == <<desired, phase, applied, missed>>

\* "pending" stands for provisioning and updating.
Alive == {"pending", "ready", "error"}

Init ==
  /\ desired = [s \in Services |-> 0]
  /\ phase = [s \in Services |-> "none"]
  /\ applied = [s \in Services |-> [generation |-> 0, present |-> FALSE]]
  /\ missed = [s \in Services |-> FALSE]

\* A user creates the service or replaces its desired state.
Accept(s) ==
  /\ phase[s] \in Alive \cup {"none"}
  /\ desired' = [desired EXCEPT ![s] = @ + 1]
  /\ phase' = [phase EXCEPT ![s] = "pending"]
  /\ UNCHANGED <<applied, missed>>

\* A user asks for the service to be removed: the last desired state.
Remove(s) ==
  /\ phase[s] \in Alive
  /\ desired' = [desired EXCEPT ![s] = @ + 1]
  /\ phase' = [phase EXCEPT ![s] = "deleting"]
  /\ UNCHANGED <<applied, missed>>

\* The provider moves to a state that is or was desired, never backwards, and
\* not at all once the service is removed, unless its removal was missed.
Apply(s, g, present) ==
  /\ phase[s] = "removed" => missed[s]
  /\ applied[s].generation <= g /\ g <= desired[s]
  /\ g = desired[s] => (present <=> phase[s] \in Alive)
  /\ applied' = [applied EXCEPT ![s] = [generation |-> g, present |-> present]]
  /\ UNCHANGED <<desired, phase, missed>>

\* The removal reaches a provider that has never held the service.
Miss(s) ==
  /\ phase[s] \in {"deleting", "removed"}
  /\ applied[s] = [generation |-> 0, present |-> FALSE]
  /\ missed' = [missed EXCEPT ![s] = TRUE]
  /\ UNCHANGED <<desired, phase, applied>>

\* The phase of the current desired state is reported.
Report(s, outcome) ==
  /\ phase[s] \in Alive
  /\ outcome = "ready" => applied[s] = [generation |-> desired[s], present |-> TRUE]
  /\ phase' = [phase EXCEPT ![s] = outcome]
  /\ UNCHANGED <<desired, applied, missed>>

\* The service disappears once the provider has removed it or had nothing.
Vanish(s) ==
  /\ phase[s] = "deleting"
  /\ missed[s] \/ applied[s] = [generation |-> desired[s], present |-> FALSE]
  /\ phase' = [phase EXCEPT ![s] = "removed"]
  /\ UNCHANGED <<desired, applied, missed>>

Next ==
  \E s \in Services :
    \/ Accept(s)
    \/ Remove(s)
    \/ \E g \in 0..desired[s], present \in BOOLEAN : Apply(s, g, present)
    \/ \E outcome \in Alive : Report(s, outcome)
    \/ Miss(s)
    \/ Vanish(s)

Spec == Init /\ [][Next]_vars
=============================================================================
