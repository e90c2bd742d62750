---------------------------- MODULE MCAllocation ----------------------------
(***************************************************************************)
(* Allocation for TLC.  Accounts a1 (the management account) and a2 are of *)
(* one cloud organization, a3 of another.  A behaviour plays one scenario: *)
(* it uses that scenario's services and operations.                        *)
(***************************************************************************)
EXTENDS Allocation, TLC

CONSTANTS a1, a2, a3, u1, u2, Scenarios

VARIABLE scenario

vars == <<allocationVars, scenario>>

MCAccountOf == [s \in Services |->
    CASE s \in {"f1", "v1", "b1", "r1"} -> a1
      [] s \in {"f2", "r2"} -> a2
      [] s \in {"f3", "b3"} -> a3]
MCProviderOf == [s \in Services |->
    CASE s \in {"f1", "f2", "f3"} -> "flash"
      [] s \in {"b1", "b3"} -> "syouyu"
      [] s \in {"r1", "r2"} -> "flow"
      [] s = "v1" -> "vpc"]
MCCloudOf == [a \in Accounts |-> IF a = a3 THEN "other" ELSE "cloud"]
MCManagementOf == [c \in {"cloud", "other"} |-> IF c = "cloud" THEN a1 ELSE a3]
MCMembersOf == [a \in Accounts |-> IF a = a1 THEN {u1, u2} ELSE {u1}]
MCAdminsOf == [a \in Accounts |-> {u1}]

Same(services, each, total) ==
    [p \in QuotaProviders |-> [services |-> services, each |-> each, total |-> total]]
MCLimits == {Same(1, 1, 1), Same(2, 2, 3)}
MCCatalogues == {{NoUser}, {u1}, {u2}}

\* What each scenario is about.
ServicesOf(x) ==
    CASE x = "organization" -> {"r1", "r2"}
      [] x = "rooms" -> {"r1", "r2"}
      [] x = "members" -> {"r1"}
      [] x = "names" -> {"f1", "f3", "b1", "b3"}
      [] x = "network" -> {"f1", "v1"}
      [] x = "gpu" -> {"f1"}
OpsOf(x) ==
    CASE x = "organization" -> {"create", "update", "delete", "quota"}
      [] x = "rooms" -> {"create", "update", "delete", "defaults"}
      [] x = "members" -> {"create", "member", "assign"}
      [] x = "names" -> {"create", "delete"}
      [] x = "network" -> {"create", "update", "delete"}
      [] x = "gpu" -> {"create", "update", "start", "stop", "sync"}

ActorsOf(x) ==
    IF x = "members" THEN {u1, Robot} ELSE {u1}

\* The variety of specifications a scenario needs.
SpecsOf == [x \in Scenarios |-> [s \in Services |->
    {spec \in ValidSpecs[s] :
        /\ x \in {"names", "network", "gpu"} => spec.units = 1
        /\ IF x = "network" THEN spec.public => spec.groups = {"g"}
           ELSE spec.vpc = NoVpc /\ ~spec.public
        /\ ~spec.stopped
        /\ x # "gpu" => ~spec.gpu}]]

Init ==
    /\ scenario \in Scenarios
    /\ AllocationInit
    /\ scenario \notin {"rooms", "members"} => \A p \in QuotaProviders : defaults[p].total > 1
    /\ scenario # "gpu" => access = {NoUser}

Next ==
    /\ AllocationNext(ServicesOf(scenario), {a1}, SpecsOf[scenario], ActorsOf(scenario), OpsOf(scenario))
    /\ UNCHANGED scenario

Spec == Init /\ [][Next]_vars

AllocationSymmetry == Permutations(Txns)
=============================================================================
