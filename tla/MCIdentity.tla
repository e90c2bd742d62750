----------------------------- MODULE MCIdentity -----------------------------
(***************************************************************************)
(* Accounts with login through the identity provider, and the device login *)
(* of the command line client, for TLC.  A behaviour is one of the one or  *)
(* of the other.                                                           *)
(***************************************************************************)
EXTENDS OidcLogin, DeviceLogin, TLC

VARIABLE part

vars == <<accountVars, oidcVars, deviceVars, part>>

\* The identity asserts the address that users also register with.
SameAddress == [s \in Identities |-> CHOOSE e \in Emails : e # AdminEmail]

\* Browsers are interchangeable, and so are people and codes.
IdentitySymmetry == Permutations(Clients) \cup Permutations(People) \cup Permutations(Codes)

Init ==
    /\ part \in {"accounts", "logins", "devices"}
    /\ OidcInit
    /\ DeviceInit
    /\ part # "devices" => tenancy = {}

\* Three users with one login through the provider, or several such logins without
\* invitations.
AccountsStep ==
    /\ part \in {"accounts", "logins"}
    /\ OidcNext
    /\ part = "accounts" => Len(started') <= 1
    /\ part = "logins" => invitations' = invitations
    /\ UNCHANGED <<deviceVars, part>>

DevicesStep == part = "devices" /\ DeviceNext /\ UNCHANGED <<accountVars, oidcVars, part>>

Next == AccountsStep \/ DevicesStep

Spec == Init /\ [][Next]_vars
=============================================================================
