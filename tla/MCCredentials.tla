--------------------------- MODULE MCCredentials ---------------------------
(***************************************************************************)
(* Flow and registry credentials for TLC.  They share no state, so a       *)
(* behaviour is one of the one or of the other: their interleavings would  *)
(* only multiply the states.                                               *)
(***************************************************************************)
EXTENDS FlowAccess, RegistryCredentials

VARIABLE part

vars == <<flowVars, registryVars, part>>

Init ==
    /\ part \in {"flow", "registry"}
    /\ FlowInit
    /\ RegistryInit

FlowStep == part = "flow" /\ FlowNext /\ UNCHANGED <<registryVars, part>>
RegistryStep == part = "registry" /\ RegistryNext /\ UNCHANGED <<flowVars, part>>

Next == FlowStep \/ RegistryStep

\* The worker retries a revocation until it is answered, and time passes.
RevocationDelivered(x) ==
    /\ part = "flow"
    /\ DropRevocation(x) \/ DeliverPrincipalContextRevocation(x, TRUE)
    /\ UNCHANGED <<registryVars, part>>
TimePasses(x) ==
    /\ part = "flow"
    /\ ContextAges(x)
    /\ UNCHANGED <<registryVars, part>>

FairSpec ==
    /\ Init /\ [][Next]_vars
    /\ \A x \in ContextIds : WF_vars(RevocationDelivered(x)) /\ WF_vars(TimePasses(x))
=============================================================================
