---------------------------- MODULE IamPolicies ----------------------------
(***************************************************************************)
(* Evaluation of IAM policies: which statements apply to a request, and    *)
(* how identity policies, the administrator's implicit policy, the         *)
(* permissions boundary, the service control policies of every level and   *)
(* a session policy combine; and the trust policies of roles.              *)
(*                                                                         *)
(* Names of actions and resources, and the patterns for them, are          *)
(* sequences of symbols.  A document is a set of statements: neither their *)
(* order nor a repetition matters to the evaluation, and neither does the  *)
(* order of policies.                                                      *)
(***************************************************************************)
EXTENDS Naturals, Sequences, FiniteSets

----------------------------------------------------------------------------
(* Patterns.                                                               *)

\* The loop of pattern_matches: p and v are the next symbols of the pattern
\* and of the value; on a mismatch it returns to the symbol after the last
\* star (star, zero when there was none) and lets the star take one more.
PatternMatches(pattern, value) ==
    LET Loop[p \in Nat, v \in Nat, star \in Nat, retry \in Nat] ==
            IF v = Len(value)
            THEN \A rest \in p + 1 .. Len(pattern) : pattern[rest] = "*"
            ELSE IF p < Len(pattern) /\ pattern[p + 1] \in {"?", value[v + 1]}
            THEN Loop[p + 1, v + 1, star, retry]
            ELSE IF p < Len(pattern) /\ pattern[p + 1] = "*"
            THEN Loop[p + 1, v, p + 1, v]
            ELSE star > 0 /\ Loop[star, retry + 1, star, retry + 1]
    IN Loop[0, 0, 0, 0]

\* What a pattern means: a star stands for any sequence of symbols and a
\* question mark for any one symbol.
Glob(pattern, value) ==
    LET Match[p \in Nat, v \in Nat] ==
            IF p = Len(pattern) THEN v = Len(value)
            ELSE IF pattern[p + 1] = "*" THEN \E w \in v .. Len(value) : Match[p + 1, w]
            ELSE v < Len(value) /\ pattern[p + 1] \in {"?", value[v + 1]} /\ Match[p + 1, v + 1]
    IN Match[0, 0]

----------------------------------------------------------------------------
(* Documents.                                                              *)

DateOperators == {"DateEquals", "DateNotEquals", "DateLessThan", "DateLessThanEquals",
                  "DateGreaterThan", "DateGreaterThanEquals"}

\* The only key of a condition is aws:CurrentTime, and its dates parse.
ValidConditions(conditions) ==
    \A c \in conditions : c.operator \in DateOperators /\ c.dates # {}

\* Exactly one of Action and NotAction, and of Resource and NotResource.
ValidStatement(s) ==
    /\ (s.actions = {}) # (s.notActions = {})
    /\ (s.resources = {}) # (s.notResources = {})
    /\ ValidConditions(s.conditions)

ValidDocument(document) == document # {} /\ \A s \in document : ValidStatement(s)

DateMatches(operator, now, date) ==
    CASE operator \in {"DateEquals", "DateNotEquals"} -> now = date
      [] operator = "DateLessThan" -> now < date
      [] operator = "DateLessThanEquals" -> now <= date
      [] operator = "DateGreaterThan" -> now > date
      [] operator = "DateGreaterThanEquals" -> now >= date

ConditionsMatch(s, request) ==
    \A c \in s.conditions :
        IF c.operator = "DateNotEquals"
        THEN \A date \in c.dates : ~DateMatches(c.operator, request.at, date)
        ELSE \E date \in c.dates : DateMatches(c.operator, request.at, date)

AnyMatches(patterns, value) == \E x \in patterns : PatternMatches(x, value)

Applies(s, request) ==
    /\ AnyMatches(s.actions \cup s.notActions, request.action) = (s.notActions = {})
    /\ AnyMatches(s.resources \cup s.notResources, request.resource) = (s.notResources = {})
    /\ ConditionsMatch(s, request)

----------------------------------------------------------------------------
(* Evaluation.                                                             *)

Decide(same, allow, deny) == IF same /\ ~deny /\ allow THEN "allow" ELSE "deny"

Evaluation(decision, allow, deny, reason) ==
    [decision |-> decision, allow |-> allow, deny |-> deny, reason |-> reason]

Effective(effect, request, policies) ==
    \E d \in policies : \E s \in d : s.effect = effect /\ Applies(s, request)

Decided(allow, deny) ==
    Evaluation(Decide(TRUE, allow, deny), allow, deny,
               IF deny THEN "explicit_deny" ELSE IF allow THEN "explicit_allow" ELSE "default_deny")

Authorize(request, policies) ==
    IF ~request.same THEN Evaluation("deny", FALSE, FALSE, "cross_organization")
    ELSE Decided(Effective("Allow", request, policies), Effective("Deny", request, policies))

ImplicitlyAllowed(e) ==
    IF e.reason = "default_deny" THEN Evaluation("allow", TRUE, e.deny, "administrator_allow") ELSE e

AuthorizeWithAdministrator(request, policies, administrator) ==
    IF administrator THEN ImplicitlyAllowed(Authorize(request, policies))
    ELSE Authorize(request, policies)

Limited(identity, limit) ==
    IF limit.decision = "allow" THEN identity
    ELSE Evaluation("deny", identity.allow, limit.deny,
                    IF limit.deny THEN "permissions_boundary_explicit_deny"
                    ELSE "permissions_boundary_no_allow")

\* A boundary limits what an identity was granted and grants nothing.
\* It is a set of at most one document.
EnforcePermissionsBoundary(request, identity, boundary) ==
    IF boundary = {} \/ identity.decision = "deny" THEN identity
    ELSE Limited(identity, Authorize(request, boundary))

Controlled(identity, results) ==
    IF \E e \in results : e.deny
    THEN Evaluation("deny", identity.allow, TRUE, "scp_explicit_deny")
    ELSE IF \E e \in results : e.decision = "deny"
    THEN Evaluation("deny", identity.allow, FALSE, "scp_no_allow")
    ELSE identity

\* levels is the set of the policies of each level: the root, the units below
\* it and the account itself.
EnforceServiceControlPolicies(request, identity, levels) ==
    IF identity.decision = "deny" THEN identity
    ELSE Controlled(identity, {Authorize(request, policies) : policies \in levels})

EnforceSessionPolicy(request, identity, sessionPolicy) ==
    IF identity.decision = "deny" THEN identity
    ELSE [EnforcePermissionsBoundary(request, identity, sessionPolicy) EXCEPT !.reason =
            CASE @ = "permissions_boundary_explicit_deny" -> "session_policy_explicit_deny"
              [] @ = "permissions_boundary_no_allow" -> "session_policy_no_allow"
              [] OTHER -> @]

----------------------------------------------------------------------------
(* Trust policies.                                                         *)

ValidTrust(trust) ==
    trust # {} /\ \A s \in trust : s.actions # {} /\ s.principals # {}

\* A principal of a statement is everyone, an account (as number or as its
\* root), or one identity.  A deny that matches decides.
TrustApplies(s, account, principal) ==
    /\ \E x \in s.actions : PatternMatches(x, <<"sts", "AssumeRole">>)
    /\ \E t \in s.principals : \/ t.kind = "everyone"
                               \/ t.kind = "account" /\ t.id = account
                               \/ t.kind = "identity" /\ t.id = principal

TrustPermits(trust, account, principal) ==
    LET effects == {s.effect : s \in {s \in trust : TrustApplies(s, account, principal)}}
    IN "Allow" \in effects /\ "Deny" \notin effects
=============================================================================
