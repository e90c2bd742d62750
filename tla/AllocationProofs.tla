-------------------------- MODULE AllocationProofs --------------------------
(***************************************************************************)
(* The allocating transactions, for every number of sessions, services,    *)
(* accounts and limits.                                                    *)
(*                                                                         *)
(* What a transaction has decided on stays true until it commits, because  *)
(* whatever could make it false needs a lock that the transaction holds.   *)
(* The invariant says so for each kind of request (Stands), next to what   *)
(* is true of the table itself (RowsAreSound) and of the locks.            *)
(***************************************************************************)
EXTENDS Allocation, FiniteSetTheorems, WellFoundedInduction, TLAPS

(***************************************************************************)
(* Requests and sessions                                                   *)
(***************************************************************************)
Changes == {"create", "update", "start", "stop"}
OnService == Changes \cup {"delete"}
OnAccount == {"quota", "member", "assign"}

\* Syouyu's services, and no others, name a bucket, and a port is taken by a Flash service that
\* is reached through the shared range.
Fits(s, spec) ==
    /\ spec \in SpecOf
    /\ spec.bucket # NoBucket <=> ProviderOf[s] = "syouyu"
    /\ spec.port # NoPort => ProviderOf[s] = "flash" /\ TakesPort(spec)

\* What a synchronization of the catalogue goes on with.
ValidThen(r) ==
    /\ r.op \in {DisplayedOnly, "create", "update"}
    /\ r.op # DisplayedOnly => r.svc \in Services /\ Fits(r.svc, r.spec)
    /\ r.op = "create" => r.actor \in Actors

ValidRequest(r) ==
    /\ r.op \in Operations
    /\ r.op \in OnService => r.svc \in Services
    /\ r.op \in {"create", "update"} => Fits(r.svc, r.spec)
    /\ r.op \in {"start", "stop"} => ProviderOf[r.svc] = "flash"
    /\ r.op = "create" => r.owner \in Users \cup {NoUser}
    /\ r.op \in OnAccount => r.account \in Accounts
    /\ r.op \in {"quota", "member"} => r.limits \in Limits \cup {NoLimit}
    /\ r.op = "defaults" => r.limits \in Limits
    /\ r.op \in {"member", "assign"} => r.user \in Users
    /\ r.op = "assign" => r.target \in Services \cup {Robot}
    /\ r.op = "sync" => /\ ValidThen(r.then)
                        /\ r = [op |-> "sync", catalogue |-> r.catalogue, then |-> r.then]

\* A session holds a part of the locks of its request, and all once it has decided.
ValidSession(x) ==
    x # Idle =>
        /\ x = [req |-> x.req, held |-> x.held, checked |-> x.checked, spec |-> x.spec]
        /\ ValidRequest(x.req)
        /\ x.held \in 0 .. Len(LockPlan(x.req))
        /\ x.checked \in BOOLEAN
        /\ x.checked => x.held = Len(LockPlan(x.req))
        /\ x.spec \in SpecOf \cup {NoSpec}

SessionsAreValid ==
    /\ txn = [t \in Txns |-> txn[t]]
    /\ \A t \in Txns : ValidSession(txn[t])

\* PostgreSQL grants no lock that conflicts with one that is held.
LocksExclude ==
    \A t, u \in Txns : t # u =>
        \A l \in HeldBy(t), m \in HeldBy(u) : ~Conflicting(l, m)

(***************************************************************************)
(* The table                                                               *)
(***************************************************************************)
RowsFit == \A s \in Services : Present(s) => Fits(s, svc[s].spec)

\* A service is attached to a VPC of its own account.
Attachable(s, spec) ==
    ProviderOf[s] = "flash" /\ spec.vpc # NoVpc =>
        /\ Live(spec.vpc)
        /\ AccountOf[spec.vpc] = AccountOf[s]
        /\ spec.groups \subseteq svc[spec.vpc].spec.groups

AttachmentsAreOwn == \A s \in Services : Present(s) => Attachable(s, svc[s].spec)

TablesAreTyped ==
    /\ QuotasTypeOK
    /\ member = [a \in Accounts |-> member[a]]
    /\ gpu \subseteq ActiveUsers \cup {NoUser}

RowsAreSound ==
    /\ TablesAreTyped
    /\ RowsFit
    /\ NamesAreUnique
    /\ AttachmentsAreOwn
    /\ MemberLimitsCoverAll

(***************************************************************************)
(* What a session has decided on                                           *)
(***************************************************************************)
BucketIsFree(s, spec) ==
    spec.bucket # NoBucket =>
        \A q \in Services \ {s} : Present(q) => svc[q].spec.bucket # spec.bucket
PortIsFree(s, spec) ==
    spec.port # NoPort =>
        \A q \in Services \ {s} : Live(q) => svc[q].spec.port # spec.port
KeepsAttached(v, groups) ==
    \A q \in AttachedTo(v) : svc[q].spec.groups \subseteq groups

ChangeStands(s, spec) ==
    /\ Fits(s, spec)
    /\ BucketIsFree(s, spec)
    /\ PortIsFree(s, spec)
    /\ Attachable(s, spec)
    /\ ProviderOf[s] = "vpc" => KeepsAttached(s, spec.groups)

RequestStands(r, spec) ==
    /\ r.op \in Changes => ChangeStands(r.svc, spec)
    /\ r.op = "create" => /\ ~Present(r.svc)
                          /\ Metered(r.svc) /\ r.owner = NoUser => ~HasMemberLimits(AccountOf[r.svc])
    /\ r.op \in OnService \ {"create"} => Live(r.svc)
    /\ r.op = "delete" /\ ProviderOf[r.svc] = "vpc" => AttachedTo(r.svc) = {}
    /\ r.op \in {"member", "assign"} => r.user \in MembersOf[r.account]
    /\ r.op = "member" /\ r.limits # NoLimit => UnassignedServices(r.account) = {}
    /\ r.op = "assign" => r.target = Robot \/ r.target \in UnassignedServices(r.account)

DecisionsStand ==
    \A t \in Txns : txn[t] # Idle /\ txn[t].checked => RequestStands(txn[t].req, txn[t].spec)

IInv ==
    /\ SessionsAreValid
    /\ LocksExclude
    /\ RowsAreSound
    /\ DecisionsStand
-----------------------------------------------------------------------------
(***************************************************************************)
(* Locks                                                                   *)
(***************************************************************************)
\* The account a request is about.
Subject(r) == IF r.op \in OnService THEN AccountOf[r.svc] ELSE r.account

\* The place of a lock in the order in which all transactions take them.
Rank(l) == CASE l.name[1] = "defaults" -> 1
             [] l.name[1] = "cloud" -> 2
             [] l.name[1] = "account" -> 3
             [] OTHER -> 4

\* The ranks of the locks that the functions of the store take.
LEMMA LockRanks ==
    /\ Rank(Shared(<<"defaults">>)) = 1 /\ Rank(Exclusive(<<"defaults">>)) = 1
    /\ \A c : Rank(Exclusive(<<"cloud", c>>)) = 2
    /\ \A a : Rank(Exclusive(<<"account", a>>)) = 3
    /\ Rank(Exclusive(<<"flash">>)) = 4
    /\ Rank(Exclusive(<<"buckets">>)) = 4
  BY DEF Rank, Shared, Exclusive

\* What a plan has to offer: it climbs, and it has the account and the names.
Climbs(plan) ==
    /\ Len(plan) \in 1 .. 4
    /\ \A i \in 1 .. Len(plan) : Rank(plan[i]) \in 1 .. 4
    /\ \A i, j \in 1 .. Len(plan) : i < j => Rank(plan[i]) < Rank(plan[j])

\* lock_tenant_allocations alone.
LEMMA TenantPlan ==
    ASSUME NEW a
    PROVE  /\ Len(TenantLocks(a)) = 3
           /\ TenantLocks(a)[3] = Exclusive(<<"account", a>>)
           /\ Climbs(TenantLocks(a))
  <1> DEFINE x == Shared(<<"defaults">>)
             y == Exclusive(<<"cloud", CloudOf[a]>>)
             z == Exclusive(<<"account", a>>)
  <1>1. Rank(x) = 1 /\ Rank(y) = 2 /\ Rank(z) = 3
    BY LockRanks
  <1>2. TenantLocks(a) = <<x, y, z>>
    BY DEF TenantLocks
  <1> HIDE DEF x, y, z
  <1>3. Climbs(<<x, y, z>>)
    BY <1>1 DEF Climbs
  <1> QED
    BY <1>2, <1>3 DEF z

\* lock_tenant_allocations and a lock on names after it.
LEMMA NamedPlan ==
    ASSUME NEW a, NEW l, Rank(l) = 4
    PROVE  /\ Len(TenantLocks(a) \o <<l>>) = 4
           /\ (TenantLocks(a) \o <<l>>)[3] = Exclusive(<<"account", a>>)
           /\ (TenantLocks(a) \o <<l>>)[4] = l
           /\ Climbs(TenantLocks(a) \o <<l>>)
  <1> DEFINE x == Shared(<<"defaults">>)
             y == Exclusive(<<"cloud", CloudOf[a]>>)
             z == Exclusive(<<"account", a>>)
  <1>1. Rank(x) = 1 /\ Rank(y) = 2 /\ Rank(z) = 3
    BY LockRanks
  <1>2. TenantLocks(a) = <<x, y, z>>
    BY DEF TenantLocks
  <1> HIDE DEF x, y, z
  <1> DEFINE L == {x, y, z, l}
             plan == <<x, y, z>> \o <<l>>
  <1>3. <<x, y, z>> \in Seq(L) /\ <<l>> \in Seq(L) /\ Len(<<x, y, z>>) = 3 /\ Len(<<l>>) = 1
    OBVIOUS
  <1>4. /\ Len(plan) = 4
        /\ plan[1] = x /\ plan[2] = y /\ plan[3] = z /\ plan[4] = l
    BY <1>3
  <1> HIDE DEF plan
  <1>5. \A i \in 1 .. 4 : Rank(plan[i]) = i
    <2> SUFFICES ASSUME NEW i \in 1 .. 4 PROVE Rank(plan[i]) = i
      OBVIOUS
    <2>1. i = 1 \/ i = 2 \/ i = 3 \/ i = 4
      OBVIOUS
    <2> QED
      BY <1>1, <1>4, <2>1
  <1>6. Climbs(plan)
    BY <1>4, <1>5 DEF Climbs
  <1> QED
    BY <1>2, <1>4, <1>6 DEF plan, z

\* One lock.
LEMMA SinglePlan ==
    ASSUME NEW l, Rank(l) \in 1 .. 4
    PROVE  Len(<<l>>) = 1 /\ Climbs(<<l>>)
  BY DEF Climbs

\* The plan of a valid request.
LEMMA PlanOfRequest ==
    ASSUME NEW r, ValidRequest(r)
    PROVE  /\ Climbs(LockPlan(r))
           /\ r.op \in OnService \cup OnAccount =>
                /\ 3 \in 1 .. Len(LockPlan(r))
                /\ LockPlan(r)[3] = Exclusive(<<"account", Subject(r)>>)
           /\ r.op \in Changes /\ ProviderOf[r.svc] = "flash" =>
                /\ 4 \in 1 .. Len(LockPlan(r))
                /\ LockPlan(r)[4] = Exclusive(<<"flash">>)
           /\ r.op \in Changes /\ ProviderOf[r.svc] = "syouyu" =>
                /\ 4 \in 1 .. Len(LockPlan(r))
                /\ LockPlan(r)[4] = Exclusive(<<"buckets">>)
  <1>1. CASE r.op \in Changes
    <2>1. LockPlan(r) = TenantLocks(AccountOf[r.svc]) \o NameLocks(r.svc) /\ Subject(r) = AccountOf[r.svc]
      BY <1>1 DEF LockPlan, Changes, Subject, OnService
    <2>2. CASE ProviderOf[r.svc] = "flash"
      <3>1. NameLocks(r.svc) = <<Exclusive(<<"flash">>)>>
        BY <2>2 DEF NameLocks
      <3> QED
        BY <2>1, <2>2, <3>1, LockRanks, NamedPlan
    <2>3. CASE ProviderOf[r.svc] = "syouyu"
      <3>1. NameLocks(r.svc) = <<Exclusive(<<"buckets">>)>>
        BY <2>3 DEF NameLocks
      <3> QED
        BY <2>1, <2>3, <3>1, LockRanks, NamedPlan
    <2>4. CASE ProviderOf[r.svc] \notin {"flash", "syouyu"}
      <3>1. NameLocks(r.svc) = << >>
        BY <2>4 DEF NameLocks
      <3>2. TenantLocks(AccountOf[r.svc]) \o << >> = TenantLocks(AccountOf[r.svc])
        BY DEF TenantLocks
      <3> QED
        BY <2>1, <2>4, <3>1, <3>2, TenantPlan
    <2> QED
      BY <2>2, <2>3, <2>4
  <1>2. CASE r.op \in OnAccount \cup {"delete"}
    <2>1. LockPlan(r) = TenantLocks(Subject(r)) /\ r.op \notin Changes
      BY <1>2 DEF LockPlan, OnAccount, Changes, Subject, OnService
    <2> QED
      BY <2>1, TenantPlan
  <1>3. CASE r.op \in {"defaults", "sync"}
    <2>1. /\ LockPlan(r) \in {<<Exclusive(<<"defaults">>)>>, <<Exclusive(<<"flash">>)>>}
          /\ r.op \notin OnService \cup OnAccount /\ r.op \notin Changes
      BY <1>3 DEF LockPlan, OnAccount, Changes, OnService
    <2> QED
      BY <2>1, LockRanks, SinglePlan
  <1> QED
    BY <1>1, <1>2, <1>3 DEF ValidRequest, Operations, OnAccount, Changes
\* Two sessions that have all their locks do not share an exclusive one.
LEMMA Alone ==
    ASSUME LocksExclude, NEW t \in Txns, NEW u \in Txns, AllHeld(t), AllHeld(u), NEW name,
           NEW i \in 1 .. Len(LockPlan(txn[t].req)), LockPlan(txn[t].req)[i] = Exclusive(name),
           NEW j \in 1 .. Len(LockPlan(txn[u].req)), LockPlan(txn[u].req)[j] = Exclusive(name)
    PROVE  t = u
  <1>1. Exclusive(name) \in HeldBy(t) /\ Exclusive(name) \in HeldBy(u)
    BY DEF AllHeld, HeldBy
  <1>2. Conflicting(Exclusive(name), Exclusive(name))
    BY DEF Conflicting, Exclusive
  <1> QED
    BY <1>1, <1>2 DEF LocksExclude

\* Sessions about one account decide and commit one after the other, and so do those
\* that change names of one kind.
LEMMA SubjectsDiffer ==
    ASSUME SessionsAreValid, LocksExclude, NEW t \in Txns, NEW u \in Txns, t # u,
           AllHeld(t), AllHeld(u)
    PROVE  /\ txn[t].req.op \in OnService \cup OnAccount /\ txn[u].req.op \in OnService \cup OnAccount =>
                Subject(txn[t].req) # Subject(txn[u].req)
           /\ txn[t].req.op \in Changes /\ txn[u].req.op \in Changes =>
                \A p \in {"flash", "syouyu"} :
                    ~(ProviderOf[txn[t].req.svc] = p /\ ProviderOf[txn[u].req.svc] = p)
  <1>1. ValidRequest(txn[t].req) /\ ValidRequest(txn[u].req)
    BY DEF SessionsAreValid, ValidSession, AllHeld
  <1>2. txn[t].req.op \in OnService \cup OnAccount /\ txn[u].req.op \in OnService \cup OnAccount =>
          Subject(txn[t].req) # Subject(txn[u].req)
    <2> SUFFICES ASSUME txn[t].req.op \in OnService \cup OnAccount,
                        txn[u].req.op \in OnService \cup OnAccount,
                        Subject(txn[t].req) = Subject(txn[u].req)
                 PROVE  FALSE
      OBVIOUS
    <2> DEFINE name == <<"account", Subject(txn[t].req)>>
    <2>1. /\ 3 \in 1 .. Len(LockPlan(txn[t].req)) /\ LockPlan(txn[t].req)[3] = Exclusive(name)
          /\ 3 \in 1 .. Len(LockPlan(txn[u].req)) /\ LockPlan(txn[u].req)[3] = Exclusive(name)
      BY <1>1, PlanOfRequest
    <2> HIDE DEF name
    <2> QED
      BY <2>1, Alone
  <1>3. ASSUME txn[t].req.op \in Changes, txn[u].req.op \in Changes, NEW p \in {"flash", "syouyu"},
               ProviderOf[txn[t].req.svc] = p, ProviderOf[txn[u].req.svc] = p
        PROVE  FALSE
    <2> DEFINE name == IF p = "flash" THEN <<"flash">> ELSE <<"buckets">>
    <2>1. /\ 4 \in 1 .. Len(LockPlan(txn[t].req)) /\ LockPlan(txn[t].req)[4] = Exclusive(name)
          /\ 4 \in 1 .. Len(LockPlan(txn[u].req)) /\ LockPlan(txn[u].req)[4] = Exclusive(name)
      BY <1>1, <1>3, PlanOfRequest
    <2> HIDE DEF name
    <2> QED
      BY <2>1, Alone
  <1> QED
    BY <1>2, <1>3

\* The session with the highest of the locks that are waited for waits for nobody
\* that waits: whoever has that lock would be waiting for a higher one.
LEMMA ClimbingAvoidsDeadlock == SessionsAreValid => NoDeadlock
  <1> SUFFICES ASSUME SessionsAreValid, NEW T \in (SUBSET Txns) \ {{}},
                      \A t \in T : \E u \in T : Blocks(u, t)
               PROVE  FALSE
    BY DEF NoDeadlock
  <1> DEFINE Level(t) == Rank(NextLock(t))
  <1>1. ASSUME NEW t \in T
        PROVE  /\ Level(t) \in 1 .. 4
               /\ \E u \in T : Level(u) > Level(t)
    <2>1. PICK u \in T : Blocks(u, t)
      BY <1>1
    <2>2. PICK v \in T : Blocks(v, u)
      BY <2>1
    <2>3. /\ txn[t] # Idle /\ ~AllHeld(t) /\ txn[u] # Idle /\ ~AllHeld(u)
      BY <2>1, <2>2 DEF Blocks
    <2>4. /\ Climbs(LockPlan(txn[t].req)) /\ txn[t].held \in 0 .. Len(LockPlan(txn[t].req))
          /\ Climbs(LockPlan(txn[u].req)) /\ txn[u].held \in 0 .. Len(LockPlan(txn[u].req))
      BY <2>3, PlanOfRequest DEF SessionsAreValid, ValidSession
    <2>5. PICK l \in HeldBy(u) : Conflicting(l, NextLock(t))
      BY <2>1 DEF Blocks
    <2>6. Rank(l) = Level(t)
      BY <2>5 DEF Conflicting, Rank
    <2>7. PICK i \in 1 .. txn[u].held : l = LockPlan(txn[u].req)[i]
      BY <2>3, <2>5 DEF HeldBy
    <2>8. /\ txn[t].held + 1 \in 1 .. Len(LockPlan(txn[t].req))
          /\ txn[u].held + 1 \in 1 .. Len(LockPlan(txn[u].req))
          /\ i \in 1 .. Len(LockPlan(txn[u].req)) /\ i < txn[u].held + 1
      BY <2>3, <2>4, <2>7 DEF AllHeld, Climbs
    <2>9. Rank(l) < Level(u) /\ Level(t) \in 1 .. 4
      BY <2>4, <2>7, <2>8 DEF Climbs, NextLock
    <2> QED
      BY <2>6, <2>9
  <1> HIDE DEF Level
  <1>2. \A t \in T : Level(t) # 4
    BY <1>1
  <1>3. \A t \in T : Level(t) # 3
    BY <1>1, <1>2
  <1>4. \A t \in T : Level(t) # 2
    BY <1>1, <1>2, <1>3
  <1>5. \A t \in T : Level(t) # 1
    BY <1>1, <1>2, <1>3, <1>4
  <1> QED
    BY <1>1, <1>2, <1>3, <1>4, <1>5

\* A session that moves on with the locks it has, or with none.
LEMMA SessionMoves ==
    ASSUME SessionsAreValid, LocksExclude, NEW t \in Txns, NEW new, ValidSession(new),
           new # Idle => \/ new.held = 0
                         \/ /\ txn[t] # Idle /\ new.held = txn[t].held
                            /\ LockPlan(new.req) = LockPlan(txn[t].req),
           txn' = [txn EXCEPT ![t] = new]
    PROVE  SessionsAreValid' /\ LocksExclude'
  <1>1. txn'[t] = new /\ \A u \in Txns \ {t} : txn'[u] = txn[u]
    BY DEF SessionsAreValid
  <1>2. txn' = [u \in Txns |-> txn'[u]]
    BY DEF SessionsAreValid
  <1>3. HeldBy(t)' \subseteq HeldBy(t) /\ \A u \in Txns \ {t} : HeldBy(u)' = HeldBy(u)
    BY <1>1 DEF HeldBy
  <1>4. LocksExclude'
    BY <1>3 DEF LocksExclude
  <1>5. SessionsAreValid'
    BY <1>1, <1>2 DEF SessionsAreValid
  <1> QED
    BY <1>4, <1>5

\* A session that takes its next lock, which conflicts with none that is held.
LEMMA LockTaken ==
    ASSUME SessionsAreValid, LocksExclude, NEW t \in Txns, TakeLock(t)
    PROVE  /\ SessionsAreValid' /\ LocksExclude'
           /\ txn'[t] # Idle => ~txn'[t].checked
           /\ \A u \in Txns \ {t} : txn'[u] = txn[u]
  <1> DEFINE old == txn[t]
             new == [old EXCEPT !.held = old.held + 1]
  <1>1. /\ old # Idle /\ ~AllHeld(t) /\ \A u \in Txns : ~Blocks(u, t)
        /\ txn' = [txn EXCEPT ![t] = new]
    BY DEF TakeLock
  <1>2. /\ old = [req |-> old.req, held |-> old.held, checked |-> old.checked, spec |-> old.spec]
        /\ ValidRequest(old.req) /\ old.held \in 0 .. Len(LockPlan(old.req))
        /\ old.checked \in BOOLEAN /\ ~old.checked /\ old.spec \in SpecOf \cup {NoSpec}
    BY <1>1 DEF SessionsAreValid, ValidSession, AllHeld
  <1>3. Len(LockPlan(old.req)) \in 1 .. 4
    BY <1>2, PlanOfRequest DEF Climbs
  <1>4. new = [req |-> old.req, held |-> old.held + 1, checked |-> old.checked, spec |-> old.spec]
    BY <1>2
  <1>5. /\ new.req = old.req /\ new.held = old.held + 1 /\ new.checked = old.checked
        /\ new.spec = old.spec
    BY <1>4
  <1>6. old.held + 1 \in 0 .. Len(LockPlan(old.req))
    BY <1>1, <1>2, <1>3 DEF AllHeld
  <1> HIDE DEF new
  <1>7. ValidSession(new)
    BY <1>2, <1>4, <1>5, <1>6 DEF ValidSession
  <1>8. txn'[t] = new /\ \A u \in Txns \ {t} : txn'[u] = txn[u]
    BY <1>1 DEF SessionsAreValid
  <1>9. txn' = [u \in Txns |-> txn'[u]]
    BY <1>1 DEF SessionsAreValid
  <1>10. SessionsAreValid'
    BY <1>7, <1>8, <1>9 DEF SessionsAreValid
  <1>11. \A i \in 1 .. old.held + 1 : i \in 1 .. old.held \/ i = old.held + 1
    BY <1>2, <1>3
  <1>12. HeldBy(t)' \subseteq HeldBy(t) \cup {NextLock(t)}
    BY <1>1, <1>5, <1>8, <1>11 DEF HeldBy, NextLock
  <1>13. \A u \in Txns \ {t} : HeldBy(u)' = HeldBy(u)
    BY <1>8 DEF HeldBy
  <1>14. \A u \in Txns \ {t} : \A m \in HeldBy(u) : ~Conflicting(m, NextLock(t))
    BY <1>1 DEF Blocks
  <1>15. \A l, m : Conflicting(l, m) <=> Conflicting(m, l)
    BY DEF Conflicting
  <1>16. LocksExclude'
    <2> SUFFICES ASSUME NEW u \in Txns, NEW v \in Txns, u # v,
                        NEW l \in HeldBy(u)', NEW m \in HeldBy(v)'
                 PROVE  ~Conflicting(l, m)
      BY DEF LocksExclude
    <2> QED
      BY <1>12, <1>13, <1>14, <1>15 DEF LocksExclude
  <1> QED
    BY <1>2, <1>5, <1>8, <1>10, <1>16
-----------------------------------------------------------------------------
(***************************************************************************)
(* The table under a commit                                                *)
(***************************************************************************)
\* What makes a row fit to be written.
RowStands(s, row) ==
    /\ row \in Row
    /\ Fits(s, row.spec)
    /\ BucketIsFree(s, row.spec)
    /\ row.state # "deleting" => PortIsFree(s, row.spec)
    /\ Attachable(s, row.spec)
    /\ ProviderOf[s] = "vpc" =>
          \A q \in AttachedTo(s) : row.state # "deleting" /\ svc[q].spec.groups \subseteq row.spec.groups
    /\ row.state # "deleting" /\ Metered(s) /\ row.owner = NoUser => ~HasMemberLimits(AccountOf[s])

\* The row of s alone is written.
LEMMA RowWritten ==
    ASSUME svc \in [Services -> Row \cup {Absent}], NEW s \in Services, NEW row \in Row,
           svc' = [svc EXCEPT ![s] = row]
    PROVE  /\ svc' \in [Services -> Row \cup {Absent}]
           /\ svc'[s] = row /\ row # Absent
           /\ \A q \in Services \ {s} : svc'[q] = svc[q]
  BY QuotasAssumption

\* Writing a row that stands leaves the table sound.
LEMMA RowCommitted ==
    ASSUME RowsAreSound, NEW s \in Services, NEW row, RowStands(s, row),
           svc' = [svc EXCEPT ![s] = row],
           UNCHANGED <<defaults, override, member, robot, gpu>>
    PROVE  RowsAreSound'
  <1> USE DEF Present, Live
  <1>1. svc \in [Services -> Row \cup {Absent}]
    BY DEF RowsAreSound, TablesAreTyped, QuotasTypeOK
  <1>2. /\ svc' \in [Services -> Row \cup {Absent}]
        /\ svc'[s] = row /\ row # Absent
        /\ \A q \in Services \ {s} : svc'[q] = svc[q]
    BY <1>1, RowWritten DEF RowStands
  <1>3. TablesAreTyped'
    BY <1>2 DEF RowsAreSound, TablesAreTyped, QuotasTypeOK
  <1>4. RowsFit'
    BY <1>2 DEF RowsAreSound, RowsFit, RowStands
  <1>5. NamesAreUnique'
    <2> SUFFICES ASSUME NEW p \in Services, NEW q \in Services, p # q, svc'[p] # Absent, svc'[q] # Absent
                 PROVE  /\ svc'[p].spec.bucket = svc'[q].spec.bucket => svc'[p].spec.bucket = NoBucket
                        /\ /\ svc'[p].state # "deleting" /\ svc'[q].state # "deleting"
                           /\ svc'[p].spec.port = svc'[q].spec.port
                           => svc'[p].spec.port = NoPort
      BY DEF NamesAreUnique
    <2>1. CASE p # s /\ q # s
      <3>1. svc'[p] = svc[p] /\ svc'[q] = svc[q]
        BY <1>2, <2>1
      <3> QED
        BY <3>1 DEF RowsAreSound, NamesAreUnique
    <2>2. CASE p = s
      <3>1. svc'[p] = row /\ svc'[q] = svc[q]
        BY <1>2, <2>2
      <3> QED
        BY <2>2, <3>1 DEF RowStands, BucketIsFree, PortIsFree
    <2>3. CASE q = s
      <3>1. svc'[q] = row /\ svc'[p] = svc[p]
        BY <1>2, <2>3
      <3> QED
        BY <2>3, <3>1 DEF RowStands, BucketIsFree, PortIsFree
    <2> QED
      BY <2>1, <2>2, <2>3
  <1>6. AttachmentsAreOwn'
    <2> SUFFICES ASSUME NEW q \in Services, svc'[q] # Absent, ProviderOf[q] = "flash",
                        svc'[q].spec.vpc # NoVpc
                 PROVE  /\ svc'[svc'[q].spec.vpc] # Absent
                        /\ svc'[svc'[q].spec.vpc].state # "deleting"
                        /\ AccountOf[svc'[q].spec.vpc] = AccountOf[q]
                        /\ svc'[q].spec.groups \subseteq svc'[svc'[q].spec.vpc].spec.groups
      BY DEF AttachmentsAreOwn, Attachable
    <2> DEFINE v == svc'[q].spec.vpc
    <2>1. v \in Services /\ ProviderOf[v] = "vpc"
      <3>1. svc'[q].spec \in SpecOf
        BY <1>4 DEF RowsFit, Fits
      <3>2. v \in Vpcs
        BY <3>1 DEF SpecOf
      <3> QED
        BY <3>2 DEF Vpcs
    <2>2. CASE q = s
      <3>1. v # s /\ v = row.spec.vpc /\ svc'[q] = row
        BY <1>2, <2>1, <2>2
      <3>2. svc'[v] = svc[v]
        BY <1>2, <2>1, <3>1
      <3> HIDE DEF v
      <3> QED
        BY <2>2, <3>1, <3>2 DEF RowStands, Attachable, v
    <2>3. CASE q # s
      <3>1. /\ svc'[q] = svc[q] /\ v = svc[q].spec.vpc
        BY <1>2, <2>3
      <3>2. /\ svc[v] # Absent /\ svc[v].state # "deleting" /\ AccountOf[v] = AccountOf[q]
            /\ svc[q].spec.groups \subseteq svc[v].spec.groups
        BY <3>1 DEF RowsAreSound, AttachmentsAreOwn, Attachable
      <3>3. CASE v = s
        <4>1. q \in AttachedTo(s)
          BY <3>1, <3>3 DEF AttachedTo
        <4>2. row.state # "deleting" /\ svc[q].spec.groups \subseteq row.spec.groups
          BY <2>1, <3>3, <4>1 DEF RowStands
        <4>3. svc'[v] = row /\ row # Absent
          BY <1>2, <3>3
        <4> HIDE DEF v
        <4> QED
          BY <3>1, <3>2, <4>2, <4>3 DEF v
      <3>4. CASE v # s
        <4>1. svc'[v] = svc[v]
          BY <1>2, <2>1, <3>4
        <4> HIDE DEF v
        <4> QED
          BY <3>1, <3>2, <4>1 DEF v
      <3> QED
        BY <3>3, <3>4
    <2> QED
      BY <2>2, <2>3
  <1>7. MemberLimitsCoverAll'
    <2> SUFFICES ASSUME NEW a \in Accounts, HasMemberLimits(a)', NEW q \in Services,
                        svc'[q] # Absent, svc'[q].state # "deleting",
                        AccountOf[q] = a, Metered(q), svc'[q].owner = NoUser
                 PROVE  FALSE
      BY DEF MemberLimitsCoverAll, UnassignedServices, Metered
    <2>1. HasMemberLimits(a)
      BY DEF HasMemberLimits
    <2>2. CASE q = s
      BY <1>2, <2>1, <2>2 DEF RowStands
    <2>3. CASE q # s
      <3>1. svc'[q] = svc[q]
        BY <1>2, <2>3
      <3>2. q \in UnassignedServices(a)
        BY <3>1 DEF UnassignedServices, Metered
      <3> QED
        BY <2>1, <3>2 DEF RowsAreSound, MemberLimitsCoverAll
    <2> QED
      BY <2>2, <2>3
  <1> QED
    BY <1>3, <1>4, <1>5, <1>6, <1>7 DEF RowsAreSound

\* What a session has decided on survives whatever leaves the rows of its account alone,
\* but for those that are gone at last, and takes no name of the kind it is giving away.
Spares(a) ==
    \A q \in Services : AccountOf[q] = a =>
        \/ svc'[q] = svc[q]
        \/ svc[q] # Absent /\ svc[q].state = "deleting" /\ svc'[q] = Absent

NoNewBucket ==
    \A q \in Services : svc'[q] # Absent /\ svc'[q].spec.bucket # NoBucket =>
        svc[q] # Absent /\ svc[q].spec.bucket = svc'[q].spec.bucket

NoNewPort ==
    \A q \in Services :
        svc'[q] # Absent /\ svc'[q].state # "deleting" /\ svc'[q].spec.port # NoPort =>
            svc[q] # Absent /\ svc[q].state # "deleting" /\ svc[q].spec.port = svc'[q].spec.port

LEMMA DecisionSurvives ==
    ASSUME AttachmentsAreOwn', NEW r, NEW spec, ValidRequest(r), RequestStands(r, spec),
           r.op \in OnService \cup OnAccount => Spares(Subject(r)) /\ member'[Subject(r)] = member[Subject(r)],
           r.op \in Changes /\ ProviderOf[r.svc] = "syouyu" => NoNewBucket,
           r.op \in Changes /\ ProviderOf[r.svc] = "flash" => NoNewPort
    PROVE  RequestStands(r, spec)'
  <1> USE DEF Present, Live
  <1>1. ASSUME r.op \in OnService
        PROVE  /\ r.svc \in Services
               /\ r.op = "create" => svc'[r.svc] = Absent
               /\ r.op # "create" => /\ svc'[r.svc] # Absent
                                     /\ svc'[r.svc].state # "deleting"
               /\ member'[AccountOf[r.svc]] = member[AccountOf[r.svc]]
    <2>1. /\ r.svc \in Services /\ Spares(AccountOf[r.svc])
          /\ member'[AccountOf[r.svc]] = member[AccountOf[r.svc]]
      BY <1>1 DEF ValidRequest, Subject
    <2>2. \/ svc'[r.svc] = svc[r.svc]
          \/ svc[r.svc] # Absent /\ svc[r.svc].state = "deleting" /\ svc'[r.svc] = Absent
      BY <2>1 DEF Spares
    <2>3. CASE r.op = "create"
      BY <2>1, <2>2, <2>3 DEF RequestStands
    <2>4. CASE r.op # "create"
      BY <1>1, <2>1, <2>2, <2>4 DEF RequestStands
    <2> QED
      BY <2>3, <2>4
  <1>2. ASSUME r.op \in OnService, NEW q \in AttachedTo(r.svc)'
        PROVE  q \in AttachedTo(r.svc) /\ svc'[q] = svc[q]
    <2>1. q \in Services /\ svc'[q] # Absent /\ ProviderOf[q] = "flash" /\ svc'[q].spec.vpc = r.svc
      BY <1>2 DEF AttachedTo
    <2>2. r.svc # NoVpc
      BY <1>1, <1>2, QuotasAssumption
    <2>3. AccountOf[r.svc] = AccountOf[q]
      BY <2>1, <2>2 DEF AttachmentsAreOwn, Attachable
    <2>4. Spares(AccountOf[r.svc])
      BY <1>2 DEF Subject
    <2>5. svc'[q] = svc[q]
      BY <2>1, <2>3, <2>4 DEF Spares
    <2> QED
      BY <2>1, <2>5 DEF AttachedTo
  <1>3. ASSUME r.op \in Changes
        PROVE  ChangeStands(r.svc, spec)'
    <2>1. r.op \in OnService /\ ChangeStands(r.svc, spec)
      BY <1>3 DEF RequestStands, OnService
    <2>2. BucketIsFree(r.svc, spec)'
      <3> SUFFICES ASSUME spec.bucket # NoBucket, NEW q \in Services \ {r.svc},
                          svc'[q] # Absent, svc'[q].spec.bucket = spec.bucket
                   PROVE  FALSE
        BY DEF BucketIsFree
      <3>1. ProviderOf[r.svc] = "syouyu"
        BY <2>1 DEF ChangeStands, Fits
      <3>2. svc[q] # Absent /\ svc[q].spec.bucket = spec.bucket
        BY <1>3, <3>1 DEF NoNewBucket
      <3> QED
        BY <2>1, <3>2 DEF ChangeStands, BucketIsFree
    <2>3. PortIsFree(r.svc, spec)'
      <3> SUFFICES ASSUME spec.port # NoPort, NEW q \in Services \ {r.svc},
                          svc'[q] # Absent, svc'[q].state # "deleting", svc'[q].spec.port = spec.port
                   PROVE  FALSE
        BY DEF PortIsFree
      <3>1. ProviderOf[r.svc] = "flash"
        BY <2>1 DEF ChangeStands, Fits
      <3>2. svc[q] # Absent /\ svc[q].state # "deleting" /\ svc[q].spec.port = spec.port
        BY <1>3, <3>1 DEF NoNewPort
      <3> QED
        BY <2>1, <3>2 DEF ChangeStands, PortIsFree
    <2>4. Attachable(r.svc, spec)'
      <3> SUFFICES ASSUME ProviderOf[r.svc] = "flash", spec.vpc # NoVpc
                   PROVE  /\ svc'[spec.vpc] # Absent /\ svc'[spec.vpc].state # "deleting"
                          /\ AccountOf[spec.vpc] = AccountOf[r.svc]
                          /\ spec.groups \subseteq svc'[spec.vpc].spec.groups
        BY DEF Attachable
      <3>1. /\ svc[spec.vpc] # Absent /\ svc[spec.vpc].state # "deleting"
            /\ AccountOf[spec.vpc] = AccountOf[r.svc]
            /\ spec.groups \subseteq svc[spec.vpc].spec.groups
        BY <2>1 DEF ChangeStands, Attachable
      <3>2. spec.vpc \in Services
        BY <2>1 DEF ChangeStands, Fits, SpecOf, Vpcs
      <3>3. Spares(AccountOf[r.svc])
        BY <2>1 DEF Subject
      <3>4. svc'[spec.vpc] = svc[spec.vpc]
        BY <3>1, <3>2, <3>3 DEF Spares
      <3> QED
        BY <3>1, <3>4
    <2>5. ProviderOf[r.svc] = "vpc" => KeepsAttached(r.svc, spec.groups)'
      BY <1>2, <2>1 DEF ChangeStands, KeepsAttached
    <2> QED
      BY <2>1, <2>2, <2>3, <2>4, <2>5 DEF ChangeStands
  <1>4. ASSUME NEW a, Spares(a), NEW q
        PROVE  q \in UnassignedServices(a)' <=> q \in UnassignedServices(a)
    <2> DEFINE Held(row) == row # Absent /\ row.state # "deleting" /\ row.owner = NoUser
    <2>1. ASSUME q \in Services, AccountOf[q] = a PROVE Held(svc'[q]) <=> Held(svc[q])
      BY <1>4, <2>1 DEF Spares
    <2> QED
      BY <2>1 DEF UnassignedServices
  <1>5. r.op = "create" => (Metered(r.svc) /\ r.owner = NoUser => ~HasMemberLimits(AccountOf[r.svc])')
    BY <1>1 DEF RequestStands, HasMemberLimits, OnService, Changes
  <1>6. r.op = "delete" /\ ProviderOf[r.svc] = "vpc" => AttachedTo(r.svc)' = {}
    BY <1>2 DEF RequestStands, OnService
  <1>7. r.op \in OnAccount => Spares(r.account)
    BY DEF Subject, OnAccount, OnService, Changes
  <1>8. /\ r.op = "member" /\ r.limits # NoLimit => UnassignedServices(r.account)' = {}
        /\ r.op = "assign" => r.target = Robot \/ r.target \in UnassignedServices(r.account)'
    BY <1>4, <1>7 DEF RequestStands, OnAccount
  <1>9. /\ r.op = "create" => ~Present(r.svc)'
        /\ r.op \in OnService \ {"create"} => Live(r.svc)'
    BY <1>1 DEF OnService, Changes
  <1>10. r.op \in {"member", "assign"} => r.user \in MembersOf[r.account]
    BY DEF RequestStands
  <1> QED
    BY <1>3, <1>5, <1>6, <1>8, <1>9, <1>10 DEF RequestStands
-----------------------------------------------------------------------------
(***************************************************************************)
(* Steps of one session                                                    *)
(***************************************************************************)
\* A decision does not depend on anything but services and members' limits.
LEMMA DecisionIsAboutTables ==
    ASSUME UNCHANGED <<svc, member>>, NEW r, NEW spec, RequestStands(r, spec)
    PROVE  RequestStands(r, spec)'
  BY DEF RequestStands, ChangeStands, BucketIsFree, PortIsFree, Attachable, KeepsAttached,
         AttachedTo, UnassignedServices, HasMemberLimits, Present, Live

\* Limits of accounts, assignments of robots and GPUs may change under all of this.
LEMMA RowsStay ==
    ASSUME RowsAreSound, UNCHANGED <<svc, member>>, defaults' \in Limits,
           override' \in [Accounts -> Limits \cup {NoLimit}],
           robot' \in [Accounts -> Users \cup {NoUser}], gpu' \subseteq ActiveUsers \cup {NoUser}
    PROVE  RowsAreSound'
  <1>1. TablesAreTyped'
    BY QuotasAssumption DEF RowsAreSound, TablesAreTyped, QuotasTypeOK
  <1>2. RowsFit' /\ NamesAreUnique' /\ AttachmentsAreOwn' /\ MemberLimitsCoverAll'
    BY DEF RowsAreSound, RowsFit, NamesAreUnique, AttachmentsAreOwn, Attachable,
           MemberLimitsCoverAll, HasMemberLimits, UnassignedServices, Present, Live
  <1> QED
    BY <1>1, <1>2 DEF RowsAreSound

\* A session moves on and no service or member's limit changes.
LEMMA SessionStep ==
    ASSUME IInv, NEW t \in Txns, NEW new, ValidSession(new),
           new # Idle => \/ new.held = 0
                         \/ /\ txn[t] # Idle /\ new.held = txn[t].held
                            /\ LockPlan(new.req) = LockPlan(txn[t].req),
           new # Idle /\ new.checked => RequestStands(new.req, new.spec),
           txn' = [txn EXCEPT ![t] = new], UNCHANGED <<svc, member>>, RowsAreSound'
    PROVE  IInv'
  <1>1. SessionsAreValid' /\ LocksExclude'
    BY SessionMoves DEF IInv
  <1>2. \A u \in Txns : txn'[u] = IF u = t THEN new ELSE txn[u]
    BY DEF IInv, SessionsAreValid
  <1>3. DecisionsStand'
    <2> SUFFICES ASSUME NEW u \in Txns, txn'[u] # Idle, txn'[u].checked
                 PROVE  RequestStands(txn[u].req, txn[u].spec)'
      BY DEF DecisionsStand
    <2>1. PICK r, spec : r = txn'[u].req /\ spec = txn'[u].spec
      OBVIOUS
    <2>2. RequestStands(r, spec)
      BY <1>2, <2>1 DEF IInv, DecisionsStand
    <2>3. RequestStands(r, spec)'
      BY <2>2, DecisionIsAboutTables
    <2> QED
      BY <2>1, <2>3
  <1> QED
    BY <1>1, <1>3 DEF IInv

\* A session ends, or a row goes, and what the other sessions have decided on survives.
LEMMA OthersSurvive ==
    ASSUME IInv, RowsAreSound', SessionsAreValid', LocksExclude',
           \A u \in Txns : txn'[u] # Idle => txn'[u] = txn[u],
           \A u \in Txns : txn'[u] # Idle /\ txn[u].checked =>
              /\ txn[u].req.op \in OnService \cup OnAccount =>
                    /\ Spares(Subject(txn[u].req))
                    /\ member'[Subject(txn[u].req)] = member[Subject(txn[u].req)]
              /\ txn[u].req.op \in Changes /\ ProviderOf[txn[u].req.svc] = "syouyu" => NoNewBucket
              /\ txn[u].req.op \in Changes /\ ProviderOf[txn[u].req.svc] = "flash" => NoNewPort
    PROVE  IInv'
  <1>1. DecisionsStand'
    <2> SUFFICES ASSUME NEW u \in Txns, txn'[u] # Idle, txn'[u].checked
                 PROVE  RequestStands(txn[u].req, txn[u].spec)'
      BY DEF DecisionsStand
    <2>1. txn'[u] = txn[u]
      OBVIOUS
    <2>2. PICK r, spec : r = txn[u].req /\ spec = txn[u].spec
      OBVIOUS
    <2>3. RequestStands(r, spec) /\ ValidRequest(r)
      BY <2>1, <2>2 DEF IInv, DecisionsStand, SessionsAreValid, ValidSession
    <2>4. /\ r.op \in OnService \cup OnAccount =>
                Spares(Subject(r)) /\ member'[Subject(r)] = member[Subject(r)]
          /\ r.op \in Changes /\ ProviderOf[r.svc] = "syouyu" => NoNewBucket
          /\ r.op \in Changes /\ ProviderOf[r.svc] = "flash" => NoNewPort
      BY <2>1, <2>2
    <2>5. RequestStands(r, spec)'
      BY <2>3, <2>4, DecisionSurvives DEF RowsAreSound
    <2> QED
      BY <2>1, <2>2, <2>5
  <1> QED
    BY <1>1 DEF IInv

\* A session that has decided commits a row of its account.
LEMMA RowCommit ==
    ASSUME IInv, NEW t \in Txns, txn[t] # Idle, txn[t].checked,
           txn[t].req.op \in OnService \cup OnAccount,
           NEW s \in Services, AccountOf[s] = Subject(txn[t].req),
           NEW row, RowStands(s, row), svc' = [svc EXCEPT ![s] = row],
           \/ txn[t].req.op \in Changes /\ txn[t].req.svc = s
           \/ /\ Present(s) /\ row.spec = svc[s].spec
              /\ row.state # "deleting" => Live(s),
           UNCHANGED <<defaults, override, member, robot, gpu>>,
           Finished(t)
    PROVE  IInv'
  <1> USE DEF Present, Live
  <1>1. RowsAreSound'
    BY RowCommitted DEF IInv
  <1>2. txn' = [txn EXCEPT ![t] = Idle] /\ ValidSession(Idle)
    BY DEF Finished, ValidSession
  <1>3. SessionsAreValid' /\ LocksExclude'
    BY <1>2, SessionMoves DEF IInv
  <1>4. \A u \in Txns : txn'[u] = IF u = t THEN Idle ELSE txn[u]
    BY <1>2 DEF IInv, SessionsAreValid
  <1>5. /\ svc'[s] = row /\ row # Absent
        /\ \A q \in Services \ {s} : svc'[q] = svc[q]
    BY RowWritten DEF IInv, RowsAreSound, TablesAreTyped, QuotasTypeOK, RowStands
  <1>6. ASSUME NEW u \in Txns \ {t}, txn[u] # Idle, txn[u].checked
        PROVE  /\ txn[u].req.op \in OnService \cup OnAccount =>
                    /\ Spares(Subject(txn[u].req))
                    /\ member'[Subject(txn[u].req)] = member[Subject(txn[u].req)]
               /\ txn[u].req.op \in Changes /\ ProviderOf[txn[u].req.svc] = "syouyu" => NoNewBucket
               /\ txn[u].req.op \in Changes /\ ProviderOf[txn[u].req.svc] = "flash" => NoNewPort
    <2>1. AllHeld(t) /\ AllHeld(u)
      BY <1>6 DEF IInv, SessionsAreValid, ValidSession, AllHeld
    <2>2. txn[u].req.op \in OnService \cup OnAccount => Subject(txn[u].req) # AccountOf[s]
      BY <2>1, SubjectsDiffer DEF IInv
    <2>3. ASSUME txn[u].req.op \in Changes, txn[t].req.op \in Changes, txn[t].req.svc = s,
                 NEW p \in {"flash", "syouyu"}, ProviderOf[txn[u].req.svc] = p
          PROVE  ProviderOf[s] # p
      BY <2>1, <2>3, SubjectsDiffer DEF IInv
    <2>4. txn[u].req.op \in OnService \cup OnAccount => Spares(Subject(txn[u].req))
      BY <1>5, <2>2 DEF Spares
    <2>5. ASSUME txn[u].req.op \in Changes, ProviderOf[txn[u].req.svc] = "syouyu" PROVE NoNewBucket
      <3>1. row.spec.bucket # NoBucket => svc[s] # Absent /\ svc[s].spec.bucket = row.spec.bucket
        BY <2>3, <2>5 DEF RowStands, Fits
      <3> QED
        BY <1>5, <3>1 DEF NoNewBucket
    <2>6. ASSUME txn[u].req.op \in Changes, ProviderOf[txn[u].req.svc] = "flash" PROVE NoNewPort
      <3>1. row.spec.port # NoPort /\ row.state # "deleting" =>
              svc[s] # Absent /\ svc[s].state # "deleting" /\ svc[s].spec.port = row.spec.port
        BY <2>3, <2>6 DEF RowStands, Fits
      <3> QED
        BY <1>5, <3>1 DEF NoNewPort
    <2> QED
      BY <2>4, <2>5, <2>6
  <1> QED
    BY <1>1, <1>3, <1>4, <1>6, OthersSurvive
-----------------------------------------------------------------------------
(***************************************************************************)
(* Decisions                                                               *)
(***************************************************************************)
\* The first free port is free.
LEMMA MinIsMember ==
    ASSUME NEW S \in SUBSET Nat, S # {}
    PROVE  Min(S) \in S
  <1> DEFINE R == OpToRel(<, Nat)
  <1>1. \A x, y \in Nat : y < x => <<y, x>> \in R
    BY DEF OpToRel
  <1>2. \E x \in S : \A y \in S : ~(<<y, x>> \in R)
    <2> HIDE DEF R
    <2> QED BY WFMin, NatLessThanWellFounded DEF R
  <1>3. \E x \in S : \A y \in S : ~(y < x)
    <2> HIDE DEF R
    <2> QED BY <1>1, <1>2
  <1>4. \E x \in S : \A y \in S : x =< y
    BY <1>3
  <1> QED
    BY <1>4 DEF Min

\* prepare_flash_spec assigns a port that no live service has.
LEMMA PortAssigned ==
    ASSUME RowsAreSound, NEW s \in Services, NEW spec, NEW port \in AssignedPorts(s, spec)
    PROVE  /\ port \in Ports \cup {NoPort}
           /\ port # NoPort => TakesPort(spec)
           /\ port # NoPort => \A q \in Services \ {s} : Live(q) => svc[q].spec.port # port
  <1> DEFINE own == IF Present(s) THEN {svc[s].spec.port} \cap Ports ELSE {}
             free == Ports \ PortsTaken(s)
  <1>1. free # {} => Min(free) \in free
    BY MinIsMember, QuotasAssumption
  <1>2. \/ port = NoPort /\ ~TakesPort(spec)
        \/ TakesPort(spec) /\ port \in free
    <2> HIDE DEF free
    <2> QED BY <1>1 DEF AssignedPorts, free
  <1>3. ASSUME port # NoPort, NEW q \in Services \ {s}, Live(q) PROVE svc[q].spec.port # port
    <2>1. Fits(q, svc[q].spec)
      BY <1>3 DEF RowsAreSound, RowsFit, Live
    <2>2. svc[q].spec.port = port => svc[q].spec.port \in PortsTaken(s)
      BY <1>3, <2>1 DEF PortsTaken, Fits
    <2> QED
      BY <1>2, <1>3, <2>2
  <1> QED
    BY <1>2, <1>3

\* What the preparation of a specification hands on.
LEMMA PreparedStands ==
    ASSUME RowsAreSound, NEW s \in Services, NEW person, NEW asked, Fits(s, asked),
           NEW spec \in Prepared(s, person, asked)
    PROVE  /\ Fits(s, spec)
           /\ BucketIsFree(s, spec)
           /\ PortIsFree(s, spec)
           /\ ProviderOf[s] = "vpc" => KeepsAttached(s, spec.groups)
  <1>1. CASE ProviderOf[s] = "flash"
    <2>1. spec \in PrepareFlashSpec(s, person, asked)
      BY <1>1 DEF Prepared
    <2>2. PICK port \in AssignedPorts(s, asked) : spec = [asked EXCEPT !.port = port]
      BY <2>1 DEF PrepareFlashSpec
    <2>3. /\ port \in Ports \cup {NoPort}
          /\ port # NoPort => TakesPort(asked)
          /\ port # NoPort => \A q \in Services \ {s} : Live(q) => svc[q].spec.port # port
      BY PortAssigned
    <2>4. /\ spec \in SpecOf /\ spec.port = port /\ spec.bucket = asked.bucket
          /\ spec.public = asked.public /\ spec.vpc = asked.vpc
      BY <2>2, <2>3 DEF Fits, SpecOf
    <2> QED
      BY <1>1, <2>3, <2>4 DEF Fits, BucketIsFree, PortIsFree, TakesPort
  <1>2. CASE ProviderOf[s] = "syouyu"
    <2>1. spec = asked /\ \A r \in Services \ {s} : Present(r) => svc[r].spec.bucket # spec.bucket
      BY <1>2 DEF Prepared, PrepareSyouyuSpec
    <2> QED
      BY <1>2, <2>1 DEF Fits, BucketIsFree, PortIsFree
  <1>3. CASE ProviderOf[s] = "vpc"
    <2>1. spec = asked /\ \A q \in AttachedTo(s) : svc[q].spec.groups \subseteq spec.groups
      BY <1>3 DEF Prepared, PrepareVpcSpec
    <2> QED
      BY <1>3, <2>1 DEF Fits, BucketIsFree, PortIsFree, KeepsAttached
  <1>4. CASE ProviderOf[s] = "flow"
    <2>1. spec = asked
      BY <1>4 DEF Prepared, PrepareFlowSpec
    <2> QED
      BY <1>4, <2>1 DEF Fits, BucketIsFree, PortIsFree
  <1>5. ProviderOf[s] \in {"flow", "flash", "syouyu", "vpc"}
    BY QuotasAssumption DEF Providers, QuotaProviders
  <1> QED
    BY <1>1, <1>2, <1>3, <1>4, <1>5

\* The specification of a live service stands where it is.
LEMMA OwnSpecStands ==
    ASSUME RowsAreSound, NEW s \in Services, Live(s)
    PROVE  ChangeStands(s, svc[s].spec)
  <1> DEFINE spec == svc[s].spec
  <1>1. Present(s) /\ Fits(s, spec) /\ Attachable(s, spec)
    BY DEF RowsAreSound, RowsFit, AttachmentsAreOwn, Live
  <1>2. BucketIsFree(s, spec)
    BY <1>1 DEF RowsAreSound, NamesAreUnique, BucketIsFree
  <1>3. PortIsFree(s, spec)
    BY <1>1 DEF RowsAreSound, NamesAreUnique, PortIsFree, Live
  <1>4. KeepsAttached(s, spec.groups)
    <2> SUFFICES ASSUME NEW q \in AttachedTo(s) PROVE svc[q].spec.groups \subseteq spec.groups
      BY DEF KeepsAttached
    <2>1. q \in Services /\ Present(q) /\ ProviderOf[q] = "flash" /\ svc[q].spec.vpc = s
      BY DEF AttachedTo
    <2> QED
      BY <2>1, QuotasAssumption DEF RowsAreSound, AttachmentsAreOwn, Attachable
  <1> QED
    BY <1>1, <1>2, <1>3, <1>4 DEF ChangeStands

\* Whatever the store accepts under its locks stands.
LEMMA AcceptedStands ==
    ASSUME RowsAreSound, NEW r, ValidRequest(r), NEW spec \in Accepted(r)
    PROVE  RequestStands(r, spec) /\ spec \in SpecOf \cup {NoSpec}
  <1> USE DEF Changes, OnService, OnAccount
  <1>1. ASSUME NEW s \in Services, NEW person, NEW asked, Fits(s, asked),
               spec \in Prepared(s, person, asked), NEW owner, NEW reduction,
               MaySpend(s, owner, spec, reduction)
        PROVE  ChangeStands(s, spec) /\ spec \in SpecOf
    <2>1. /\ Fits(s, spec) /\ BucketIsFree(s, spec) /\ PortIsFree(s, spec)
          /\ ProviderOf[s] = "vpc" => KeepsAttached(s, spec.groups)
      BY <1>1, PreparedStands
    <2>2. Attachable(s, spec)
      BY <1>1 DEF MaySpend, AttachmentAccepted, Attachable
    <2> QED
      BY <2>1, <2>2 DEF ChangeStands, Fits
  <1>2. CASE r.op = "create"
    <2>1. /\ spec \in Prepared(r.svc, r.person, r.spec) /\ MaySpend(r.svc, r.owner, spec, FALSE)
          /\ ~Present(r.svc)
          /\ Metered(r.svc) /\ r.owner = NoUser => ~HasMemberLimits(AccountOf[r.svc])
      BY <1>2 DEF Accepted, CreateAccepted
    <2>2. r.svc \in Services /\ Fits(r.svc, r.spec)
      BY <1>2 DEF ValidRequest
    <2>3. ChangeStands(r.svc, spec) /\ spec \in SpecOf
      BY <1>1, <2>1, <2>2
    <2> QED
      BY <1>2, <2>1, <2>3 DEF RequestStands
  <1>3. CASE r.op = "update"
    <2>1. Live(r.svc) /\ spec \in UpdateAccepted(r)
      BY <1>3 DEF Accepted, UpdateAccepted
    <2> DEFINE starting == svc[r.svc].spec.stopped /\ ~r.spec.stopped
    <2>2. /\ spec \in Prepared(r.svc, r.person, r.spec)
          /\ MaySpend(r.svc, svc[r.svc].owner, spec, ~starting)
      BY <2>1 DEF UpdateAccepted
    <2>3. r.svc \in Services /\ Fits(r.svc, r.spec)
      BY <1>3 DEF ValidRequest
    <2> HIDE DEF starting
    <2>4. ChangeStands(r.svc, spec) /\ spec \in SpecOf
      BY <1>1, <2>2, <2>3
    <2> QED
      BY <1>3, <2>1, <2>4 DEF RequestStands
  <1>4. CASE r.op = "start"
    <2> DEFINE asked == [svc[r.svc].spec EXCEPT !.stopped = FALSE]
    <2>1. Live(r.svc) /\ spec \in StartAccepted(r)
      BY <1>4 DEF Accepted, StartAccepted
    <2>2. /\ spec \in Prepared(r.svc, r.person, asked)
          /\ MaySpend(r.svc, svc[r.svc].owner, spec, FALSE)
      BY <2>1 DEF StartAccepted
    <2>3. r.svc \in Services /\ Fits(r.svc, svc[r.svc].spec)
      BY <1>4, <2>1 DEF ValidRequest, RowsAreSound, RowsFit, Live
    <2>4. Fits(r.svc, asked)
      BY <2>3 DEF Fits, SpecOf, TakesPort
    <2> HIDE DEF asked
    <2>5. ChangeStands(r.svc, spec) /\ spec \in SpecOf
      BY <1>1, <2>2, <2>3, <2>4
    <2> QED
      BY <1>4, <2>1, <2>5 DEF RequestStands
  <1>5. CASE r.op = "stop"
    <2> DEFINE own == svc[r.svc].spec
    <2>1. Live(r.svc) /\ spec = [own EXCEPT !.stopped = TRUE]
      BY <1>5 DEF Accepted, StopAccepted
    <2>2. r.svc \in Services
      BY <1>5 DEF ValidRequest
    <2>3. ChangeStands(r.svc, own)
      BY <2>1, <2>2, OwnSpecStands
    <2>4. /\ spec \in SpecOf /\ spec.port = own.port /\ spec.bucket = own.bucket
          /\ spec.public = own.public /\ spec.vpc = own.vpc /\ spec.groups = own.groups
      BY <2>1, <2>3 DEF ChangeStands, Fits, SpecOf
    <2> HIDE DEF own
    <2>5. ChangeStands(r.svc, spec)
      BY <2>3, <2>4 DEF ChangeStands, Fits, BucketIsFree, PortIsFree, Attachable, KeepsAttached,
                        TakesPort
    <2> QED
      BY <1>5, <2>1, <2>4, <2>5 DEF RequestStands
  <1>6. CASE r.op = "delete"
    BY <1>6 DEF Accepted, DeleteAccepted, RequestStands
  <1>7. CASE r.op = "member"
    BY <1>7 DEF Accepted, MemberQuotaAccepted, RequestStands, UnassignedResources
  <1>8. CASE r.op = "assign"
    BY <1>8 DEF Accepted, AssignAccepted, RequestStands
  <1>9. CASE r.op \in {"quota", "defaults", "sync"}
    BY <1>9 DEF Accepted, RequestStands
  <1> QED
    BY <1>2, <1>3, <1>4, <1>5, <1>6, <1>7, <1>8, <1>9 DEF ValidRequest, Operations
-----------------------------------------------------------------------------
(***************************************************************************)
(* Requests                                                                *)
(***************************************************************************)
\* A session begins a valid request.
LEMMA BegunIsValid ==
    ASSUME NEW r, ValidRequest(r)
    PROVE  ValidSession(Begun(r)) /\ Begun(r).held = 0 /\ ~Begun(r).checked
  <1>1. Len(LockPlan(r)) \in 1 .. 4
    BY PlanOfRequest DEF Climbs
  <1> QED
    BY <1>1 DEF Begun, ValidSession

LEMMA BeginStep ==
    ASSUME IInv, NEW t \in Txns, NEW r, ValidRequest(r), Begin(t, r), UNCHANGED quotaVars
    PROVE  IInv'
  <1> DEFINE new == Begun(r)
  <1>1. ValidSession(new) /\ new.held = 0 /\ ~new.checked
    BY BegunIsValid
  <1>2. txn' = [txn EXCEPT ![t] = new]
    BY DEF Begin
  <1>3. RowsAreSound'
    BY RowsStay DEF IInv, quotaVars, RowsAreSound, TablesAreTyped, QuotasTypeOK
  <1> HIDE DEF new
  <1> QED
    BY <1>1, <1>2, <1>3, SessionStep DEF quotaVars

\* What passes the validation of the domain types fits.
LEMMA ValidSpecFits ==
    ASSUME NEW s \in Services, NEW spec \in ValidSpecs[s]
    PROVE  Fits(s, spec)
  <1>1. /\ spec \in SpecOf /\ spec.port = NoPort
        /\ CASE ProviderOf[s] = "flow" -> ValidFlowSpec(spec)
             [] ProviderOf[s] = "flash" -> ValidFlashSpec(spec)
             [] ProviderOf[s] = "syouyu" -> ValidSyouyuSpec(spec)
             [] ProviderOf[s] = "vpc" -> ValidVpcSpec(spec)
    BY DEF ValidSpecs
  <1>2. ProviderOf[s] \in {"flow", "flash", "syouyu", "vpc"}
    BY QuotasAssumption DEF Providers, QuotaProviders
  <1>3. ProviderOf[s] = "syouyu" <=> spec.bucket # NoBucket
    BY <1>1, <1>2 DEF ValidFlowSpec, ValidFlashSpec, ValidVpcSpec, ValidSyouyuSpec
  <1> QED
    BY <1>1, <1>3 DEF Fits

\* A creation is charged to a person or to nobody.
LEMMA CreateIsValid ==
    ASSUME RowsAreSound, NEW s \in Services, NEW actor \in Actors, actor \in Services => Present(actor),
           NEW spec, Fits(s, spec)
    PROVE  ValidRequest(CreateFor(s, actor, spec))
  <1>1. QuotaUser(AccountOf[s], actor) \in Users \cup {NoUser}
    <2> DEFINE Owners == Users \cup {NoUser}
               ofRobot == robot[AccountOf[s]]
               ofService == svc[actor].owner
    <2>1. ofRobot \in Owners
      BY QuotasAssumption DEF RowsAreSound, TablesAreTyped, QuotasTypeOK
    <2>2. actor \in Services => ofService \in Owners
      <3> SUFFICES ASSUME actor \in Services PROVE svc[actor].owner \in Owners
        OBVIOUS
      <3>1. svc[actor] \in Row
        BY DEF RowsAreSound, TablesAreTyped, QuotasTypeOK, Present
      <3> QED
        BY <3>1 DEF Row
    <2>3. QuotaUser(AccountOf[s], actor) = CASE actor \in Users -> actor
                                             [] actor = Robot -> ofRobot
                                             [] actor \in Services -> ofService
      BY DEF QuotaUser
    <2>4. actor \in Users \/ actor = Robot \/ actor \in Services
      BY DEF Actors
    <2>5. actor \in Users => actor \in Owners
      OBVIOUS
    <2> HIDE DEF Owners, ofRobot, ofService
    <2>6. QuotaUser(AccountOf[s], actor) \in Owners
      BY <2>1, <2>2, <2>3, <2>4, <2>5
    <2> QED
      BY <2>6 DEF Owners
  <1> DEFINE owner == QuotaUser(AccountOf[s], actor)
  <1> HIDE DEF owner
  <1>2. /\ CreateFor(s, actor, spec).op = "create" /\ CreateFor(s, actor, spec).svc = s
        /\ CreateFor(s, actor, spec).spec = spec /\ CreateFor(s, actor, spec).owner = owner
    BY DEF CreateFor, owner
  <1>3. owner \in Users \cup {NoUser}
    BY <1>1 DEF owner
  <1> QED
    BY <1>2, <1>3 DEF ValidRequest, OnService, OnAccount, Changes, Operations

LEMMA ChangeIsValid ==
    ASSUME NEW s \in Services, NEW actor, NEW spec, Fits(s, spec)
    PROVE  ValidRequest(ChangeFor(s, actor, spec))
  BY DEF ChangeFor, ValidRequest, OnService, OnAccount, Changes, Operations

\* A synchronization goes on with a valid request, or ends.
LEMMA SyncIsValid ==
    ASSUME NEW r, ValidThen(r)
    PROVE  ValidRequest(SyncThen(r))
  BY DEF SyncThen, ValidRequest, OnService, OnAccount, Changes, Operations

\* Every route hands a valid request to the store.
LEMMA AskStep ==
    ASSUME IInv, NEW t \in Txns, Ask(t, Services, Accounts, ValidSpecs, Actors, Operations)
    PROVE  IInv'
  <1>0. RowsAreSound
    BY DEF IInv
  <1>1. ASSUME NEW s \in Services, NEW actor \in Actors, NEW spec \in ValidSpecs[s],
               AskCreate(t, s, actor, spec)
        PROVE  IInv'
    <2>1. UNCHANGED quotaVars /\ (actor \in Services => Present(actor))
      BY <1>1 DEF AskCreate, CreateRealtimeService, CreateFlashService, CreateSyouyuBucket,
                  CreateVpc, Live
    <2>2. Fits(s, spec)
      BY ValidSpecFits
    <2> DEFINE then == [op |-> "create", svc |-> s, actor |-> actor, spec |-> spec]
    <2>3. Begin(t, CreateFor(s, actor, spec)) \/ Begin(t, SyncThen(then))
      BY <1>1 DEF AskCreate, CreateRealtimeService, CreateFlashService, CreateSyouyuBucket, CreateVpc
    <2>4. ValidRequest(CreateFor(s, actor, spec))
      BY <1>0, <2>1, <2>2, CreateIsValid
    <2>5. ValidThen(then)
      BY <2>2 DEF ValidThen, DisplayedOnly
    <2> HIDE DEF then
    <2>6. ValidRequest(SyncThen(then))
      BY <2>5, SyncIsValid
    <2> QED
      BY <2>1, <2>3, <2>4, <2>6, BeginStep
  <1>2. ASSUME NEW s \in Services, NEW actor \in Actors, NEW spec \in ValidSpecs[s],
               AskUpdate(t, s, actor, spec)
        PROVE  IInv'
    <2>1. UNCHANGED quotaVars
      BY <1>2 DEF AskUpdate, UpdateRealtimeService, UpdateFlashService, UpdateSyouyuBucket, UpdateVpc
    <2>2. Fits(s, spec)
      BY ValidSpecFits
    <2> DEFINE then == ChangeFor(s, actor, spec)
    <2>3. \/ Begin(t, then) \/ Begin(t, SyncThen(then))
          \/ Present(s) /\ Begin(t, ChangeFor(s, actor, svc[s].spec))
      BY <1>2 DEF AskUpdate, UpdateRealtimeService, UpdateFlashService, UpdateSyouyuBucket, UpdateVpc
    <2>4. ValidRequest(then)
      BY <2>2, ChangeIsValid
    <2>5. ValidThen(then)
      BY <2>2 DEF ValidThen, DisplayedOnly, ChangeFor
    <2> HIDE DEF then
    <2>6. ValidRequest(SyncThen(then))
      BY <2>5, SyncIsValid
    <2>7. Present(s) => ValidRequest(ChangeFor(s, actor, svc[s].spec))
      BY <1>0, ChangeIsValid DEF RowsAreSound, RowsFit
    <2> QED
      BY <2>1, <2>3, <2>4, <2>6, <2>7, BeginStep
  <1>3. ASSUME NEW s \in Services, NEW actor \in Actors, NEW op, SetFlashServiceExecution(t, s, actor, op)
        PROVE  IInv'
    <2> DEFINE r == [op |-> op, svc |-> s, person |-> PersonOf(actor)]
    <2>1. UNCHANGED quotaVars /\ Begin(t, r) /\ op \in {"start", "stop"} /\ ProviderOf[s] = "flash"
      BY <1>3 DEF SetFlashServiceExecution
    <2>2. ValidRequest(r)
      BY <2>1 DEF ValidRequest, OnService, OnAccount, Changes, Operations
    <2> HIDE DEF r
    <2> QED
      BY <2>1, <2>2, BeginStep
  <1>4. ASSUME NEW s \in Services, DeleteService(t, s) PROVE IInv'
    <2> DEFINE r == [op |-> "delete", svc |-> s]
    <2>1. UNCHANGED quotaVars /\ Begin(t, r)
      BY <1>4 DEF DeleteService
    <2>2. ValidRequest(r)
      BY DEF ValidRequest, OnService, OnAccount, Changes, Operations
    <2> HIDE DEF r
    <2> QED
      BY <2>1, <2>2, BeginStep
  <1>5. ASSUME NEW limits \in Limits, UpdateOwnerQuotaDefaults(t, limits) PROVE IInv'
    <2> DEFINE r == [op |-> "defaults", limits |-> limits]
    <2>1. UNCHANGED quotaVars /\ Begin(t, r)
      BY <1>5 DEF UpdateOwnerQuotaDefaults
    <2>2. ValidRequest(r)
      BY DEF ValidRequest, OnService, OnAccount, Changes, Operations
    <2> HIDE DEF r
    <2> QED
      BY <2>1, <2>2, BeginStep
  <1>6. ASSUME NEW a \in Accounts, NEW limits \in Limits \cup {NoLimit},
               UpdateOwnerOrganizationQuota(t, a, limits)
        PROVE  IInv'
    <2> DEFINE r == [op |-> "quota", account |-> a, limits |-> limits]
    <2>1. UNCHANGED quotaVars /\ Begin(t, r)
      BY <1>6 DEF UpdateOwnerOrganizationQuota
    <2>2. ValidRequest(r)
      BY DEF ValidRequest, OnService, OnAccount, Changes, Operations
    <2> HIDE DEF r
    <2> QED
      BY <2>1, <2>2, BeginStep
  <1>7. ASSUME NEW a \in Accounts, NEW limits \in Limits \cup {NoLimit}, NEW u \in Users,
               UpdateMemberQuota(t, a, u, limits)
        PROVE  IInv'
    <2> DEFINE r == [op |-> "member", account |-> a, user |-> u, limits |-> limits]
    <2>1. UNCHANGED quotaVars /\ Begin(t, r)
      BY <1>7 DEF UpdateMemberQuota
    <2>2. ValidRequest(r)
      BY DEF ValidRequest, OnService, OnAccount, Changes, Operations
    <2> HIDE DEF r
    <2> QED
      BY <2>1, <2>2, BeginStep
  <1>8. ASSUME NEW a \in Accounts, NEW u \in Users, NEW target \in Services \cup {Robot},
               AssignQuotaResource(t, a, target, u)
        PROVE  IInv'
    <2> DEFINE r == [op |-> "assign", account |-> a, target |-> target, user |-> u]
    <2>1. UNCHANGED quotaVars /\ Begin(t, r)
      BY <1>8 DEF AssignQuotaResource
    <2>2. ValidRequest(r)
      BY DEF ValidRequest, OnService, OnAccount, Changes, Operations
    <2> HIDE DEF r
    <2> QED
      BY <2>1, <2>2, BeginStep
  <1>9. ASSUME NEW users, ListGpus(t) \/ UpdateOwnerGpuAccess(t, users) PROVE IInv'
    <2> DEFINE then == [op |-> DisplayedOnly]
    <2>1. UNCHANGED quotaVars /\ Begin(t, SyncThen(then))
      BY <1>9 DEF ListGpus, UpdateOwnerGpuAccess
    <2>2. ValidThen(then)
      BY DEF ValidThen, DisplayedOnly
    <2> HIDE DEF then
    <2>3. ValidRequest(SyncThen(then))
      BY <2>2, SyncIsValid
    <2> QED
      BY <2>1, <2>3, BeginStep
  <1> QED
    BY <1>1, <1>2, <1>3, <1>4, <1>5, <1>6, <1>7, <1>8, <1>9 DEF Ask
-----------------------------------------------------------------------------
(***************************************************************************)
(* Transactions                                                            *)
(***************************************************************************)
\* What is known of a session that is under way.
LEMMA SessionFields ==
    ASSUME IInv, NEW t \in Txns, txn[t] # Idle
    PROVE  /\ txn[t] = [req |-> txn[t].req, held |-> txn[t].held, checked |-> txn[t].checked,
                        spec |-> txn[t].spec]
           /\ ValidRequest(txn[t].req)
           /\ txn[t].held \in 0 .. Len(LockPlan(txn[t].req))
           /\ txn[t].checked \in BOOLEAN
           /\ txn[t].checked => txn[t].held = Len(LockPlan(txn[t].req))
           /\ txn[t].checked => RequestStands(txn[t].req, txn[t].spec)
           /\ txn[t].spec \in SpecOf \cup {NoSpec}
  BY DEF IInv, SessionsAreValid, ValidSession, DecisionsStand

\* A session ends and changes at most limits of accounts, robots and GPUs.
LEMMA EndStep ==
    ASSUME IInv, NEW t \in Txns, Finished(t), UNCHANGED <<svc, member>>, defaults' \in Limits,
           override' \in [Accounts -> Limits \cup {NoLimit}],
           robot' \in [Accounts -> Users \cup {NoUser}], gpu' \subseteq ActiveUsers \cup {NoUser}
    PROVE  IInv'
  <1>1. RowsAreSound'
    BY RowsStay DEF IInv
  <1>2. ValidSession(Idle) /\ txn' = [txn EXCEPT ![t] = Idle]
    BY DEF ValidSession, Finished
  <1> QED
    BY <1>1, <1>2, SessionStep

\* The tables of limits have their types.
LEMMA LimitTypes ==
    ASSUME IInv
    PROVE  /\ svc \in [Services -> Row \cup {Absent}]
           /\ defaults \in Limits /\ override \in [Accounts -> Limits \cup {NoLimit}]
           /\ member = [a \in Accounts |-> member[a]]
           /\ \A a \in Accounts : member[a] \in [MembersOf[a] -> Limits \cup {NoLimit}]
           /\ robot \in [Accounts -> Users \cup {NoUser}] /\ gpu \subseteq ActiveUsers \cup {NoUser}
  BY DEF IInv, RowsAreSound, TablesAreTyped, QuotasTypeOK

\* Asking the provider, taking locks and deciding.
LEMMA DecidingStep ==
    ASSUME IInv, NEW t \in Txns,
           FetchCatalogue(t) \/ ProviderUnavailable(t) \/ TakeLock(t) \/ Check(t) \/ Refuse(t)
    PROVE  IInv'
  <1> DEFINE old == txn[t]
  <1>1. UNCHANGED quotaVars
    BY DEF FetchCatalogue, ProviderUnavailable, TakeLock, Check, Refuse
  <1>2. UNCHANGED <<svc, defaults, override, member, robot, gpu>>
    BY <1>1 DEF quotaVars
  <1>3. RowsAreSound'
    BY <1>2, LimitTypes, RowsStay DEF IInv
  <1>4. ASSUME FetchCatalogue(t) PROVE IInv'
    <2> DEFINE asked == [old.req EXCEPT !.catalogue = access]
               new == [old EXCEPT !.req = asked]
    <2>1. old # Idle /\ old.req.op = "sync" /\ txn' = [txn EXCEPT ![t] = new]
      BY <1>4 DEF FetchCatalogue
    <2>2. ValidRequest(old.req)
      BY <2>1, SessionFields
    <2>3. old.req = [op |-> "sync", catalogue |-> old.req.catalogue, then |-> old.req.then]
          /\ ValidThen(old.req.then)
      BY <2>1, <2>2 DEF ValidRequest
    <2>4. asked = [op |-> "sync", catalogue |-> access, then |-> old.req.then]
      BY <2>3
    <2> HIDE DEF asked
    <2>5. ValidRequest(asked) /\ asked.op = "sync"
      BY <2>3, <2>4 DEF ValidRequest, OnService, OnAccount, Changes, Operations
    <2>6. LockPlan(asked) = LockPlan(old.req)
      BY <2>1, <2>5 DEF LockPlan
    <2>7. new = [req |-> asked, held |-> old.held, checked |-> old.checked, spec |-> old.spec]
      <3>1. PICK q, h, c, p : old = [req |-> q, held |-> h, checked |-> c, spec |-> p]
        BY <2>1, SessionFields
      <3> HIDE DEF old
      <3> QED
        BY <3>1
    <2>8. new.req = asked /\ new.held = old.held /\ new.checked = old.checked /\ new.spec = old.spec
      BY <2>7
    <2> HIDE DEF new
    <2>9. ValidSession(new)
      <3>1. /\ old.held \in 0 .. Len(LockPlan(asked)) /\ old.checked \in BOOLEAN
            /\ old.checked => old.held = Len(LockPlan(asked))
            /\ old.spec \in SpecOf \cup {NoSpec}
        BY <2>1, <2>6, SessionFields
      <3> HIDE DEF old
      <3>2. new = [req |-> new.req, held |-> new.held, checked |-> new.checked, spec |-> new.spec]
        BY <2>7, <2>8
      <3> QED
        BY <2>5, <2>8, <3>1, <3>2 DEF ValidSession
    <2>10. RequestStands(new.req, new.spec)
      BY <2>5, <2>8 DEF RequestStands, OnService, Changes
    <2> QED
      BY <1>2, <1>3, <2>1, <2>6, <2>8, <2>9, <2>10, SessionStep
  <1>5. ASSUME ProviderUnavailable(t) \/ Refuse(t) PROVE IInv'
    <2>1. Finished(t)
      BY <1>5 DEF ProviderUnavailable, Refuse, Finished
    <2> QED
      BY <1>2, <2>1, LimitTypes, EndStep
  <1>6. ASSUME TakeLock(t) PROVE IInv'
    <2>1. /\ SessionsAreValid' /\ LocksExclude'
          /\ txn'[t] # Idle => ~txn'[t].checked
          /\ \A u \in Txns \ {t} : txn'[u] = txn[u]
      BY <1>6, LockTaken DEF IInv
    <2>2. DecisionsStand'
      <3> SUFFICES ASSUME NEW u \in Txns, txn'[u] # Idle, txn'[u].checked
                   PROVE  RequestStands(txn[u].req, txn[u].spec)'
        BY DEF DecisionsStand
      <3>1. txn'[u] = txn[u]
        BY <2>1
      <3>2. PICK r, spec : r = txn[u].req /\ spec = txn[u].spec
        OBVIOUS
      <3>3. RequestStands(r, spec)
        BY <3>1, <3>2 DEF IInv, DecisionsStand
      <3>4. RequestStands(r, spec)'
        BY <1>2, <3>3, DecisionIsAboutTables
      <3> QED
        BY <3>1, <3>2, <3>4
    <2> QED
      BY <1>3, <2>1, <2>2 DEF IInv
  <1>7. ASSUME Check(t) PROVE IInv'
    <2>1. PICK spec \in Accepted(old.req) :
            txn' = [txn EXCEPT ![t] = [old EXCEPT !.checked = TRUE, !.spec = spec]]
      BY <1>7 DEF Check
    <2> DEFINE new == [old EXCEPT !.checked = TRUE, !.spec = spec]
    <2>2. old # Idle /\ old.held = Len(LockPlan(old.req))
      BY <1>7 DEF Check, AllHeld
    <2>3. RequestStands(old.req, spec) /\ spec \in SpecOf \cup {NoSpec}
      BY <2>2, SessionFields, AcceptedStands DEF IInv
    <2>4. new = [req |-> old.req, held |-> old.held, checked |-> TRUE, spec |-> spec]
      <3>1. PICK q, h, c, p : old = [req |-> q, held |-> h, checked |-> c, spec |-> p]
        BY <2>2, SessionFields
      <3> DEFINE yes == TRUE
                 mid == [old EXCEPT !.checked = yes]
      <3>2. new = [mid EXCEPT !.spec = spec]
        BY Zenon
      <3> HIDE DEF old, yes, new
      <3>3. mid = [req |-> old.req, held |-> old.held, checked |-> yes, spec |-> p]
        BY <3>1
      <3> HIDE DEF mid
      <3>4. [mid EXCEPT !.spec = spec]
              = [req |-> old.req, held |-> old.held, checked |-> yes, spec |-> spec]
        BY <3>3
      <3> QED
        BY <3>2, <3>4, Zenon DEF yes
    <2>5. new.req = old.req /\ new.held = old.held /\ new.checked = TRUE /\ new.spec = spec
      BY <2>4
    <2> HIDE DEF new
    <2>6. ValidSession(new)
      <3>1. /\ ValidRequest(old.req) /\ old.held \in 0 .. Len(LockPlan(old.req))
            /\ spec \in SpecOf \cup {NoSpec}
        BY <2>2, <2>3, SessionFields
      <3> HIDE DEF old
      <3>2. new = [req |-> new.req, held |-> new.held, checked |-> new.checked, spec |-> new.spec]
        BY <2>4, <2>5
      <3> QED
        BY <2>2, <2>5, <3>1, <3>2 DEF ValidSession
    <2>7. txn' = [txn EXCEPT ![t] = new]
      BY <2>1 DEF new
    <2> QED
      BY <1>2, <1>3, <2>2, <2>3, <2>5, <2>6, <2>7, SessionStep
  <1> QED
    BY <1>4, <1>5, <1>6, <1>7

\* Rows written by creations, changes, deletions and assignments.
LEMMA RowStep ==
    ASSUME IInv, NEW t \in Txns, CommitCreate(t) \/ CommitChange(t) \/ BeginDelete(t)
    PROVE  IInv'
  <1> USE DEF Changes, OnService, OnAccount
  <1> DEFINE r == txn[t].req
             s == r.svc
             spec == txn[t].spec
  <1>1. /\ txn[t] # Idle /\ txn[t].checked /\ r.op \in OnService /\ Finished(t)
        /\ UNCHANGED <<defaults, override, member, robot, gpu>>
    BY DEF CommitCreate, CommitChange, BeginDelete, Committing
  <1>2. s \in Services /\ RequestStands(r, spec) /\ ValidRequest(r) /\ Subject(r) = AccountOf[s]
    BY <1>1, SessionFields DEF ValidRequest, Subject
  <1>3. RowsAreSound /\ svc \in [Services -> Row \cup {Absent}]
    BY LimitTypes DEF IInv
  <1>4. ASSUME Live(s)
        PROVE  /\ svc[s] \in Row /\ svc[s].spec \in SpecOf
               /\ svc[s].state \in {"live", "deleting"} /\ svc[s].owner \in Users \cup {NoUser}
               /\ Metered(s) /\ svc[s].owner = NoUser => ~HasMemberLimits(AccountOf[s])
    <2>1. svc[s] \in Row
      BY <1>2, <1>3, <1>4 DEF Live, Present
    <2>2. Metered(s) /\ svc[s].owner = NoUser => s \in UnassignedServices(AccountOf[s])
      BY <1>2, <1>4 DEF UnassignedServices, Metered
    <2>3. AccountOf[s] \in Accounts
      BY <1>2, QuotasAssumption
    <2>4. Metered(s) /\ svc[s].owner = NoUser => ~HasMemberLimits(AccountOf[s])
      BY <1>3, <2>2, <2>3 DEF RowsAreSound, MemberLimitsCoverAll
    <2> QED
      BY <2>1, <2>4 DEF Row
  <1>5. ASSUME CommitCreate(t) PROVE IInv'
    <2> DEFINE row == [owner |-> r.owner, state |-> "live", spec |-> spec]
    <2>1. r.op = "create" /\ svc' = [svc EXCEPT ![s] = row]
      BY <1>5 DEF CommitCreate, Committing
    <2>2. /\ ChangeStands(s, spec) /\ r.owner \in Users \cup {NoUser}
          /\ Metered(s) /\ r.owner = NoUser => ~HasMemberLimits(AccountOf[s])
      BY <1>2, <2>1 DEF RequestStands, ValidRequest
    <2>3. row \in Row /\ row.owner = r.owner /\ row.state = "live" /\ row.spec = spec
      BY <2>2 DEF Row, ChangeStands, Fits
    <2> HIDE DEF row
    <2>4. RowStands(s, row)
      BY <2>2, <2>3 DEF RowStands, ChangeStands, KeepsAttached
    <2> QED
      BY <1>1, <1>2, <2>1, <2>4, RowCommit
  <1>6. ASSUME CommitChange(t) PROVE IInv'
    <2> DEFINE row == [svc[s] EXCEPT !.spec = spec]
    <2>1. r.op \in {"update", "start", "stop"} /\ svc' = [svc EXCEPT ![s] = row]
      BY <1>6 DEF CommitChange, Committing
    <2>2. ChangeStands(s, spec) /\ Live(s)
      BY <1>2, <2>1 DEF RequestStands
    <2>3. row \in Row /\ row.owner = svc[s].owner /\ row.state = svc[s].state /\ row.spec = spec
      BY <1>4, <2>2 DEF Row, ChangeStands, Fits
    <2> HIDE DEF row
    <2>4. RowStands(s, row)
      BY <1>4, <2>2, <2>3 DEF RowStands, ChangeStands, KeepsAttached, Live
    <2> QED
      BY <1>1, <1>2, <2>1, <2>4, RowCommit
  <1>7. ASSUME BeginDelete(t) PROVE IInv'
    <2> DEFINE row == [svc[s] EXCEPT !.state = "deleting"]
    <2>1. r.op = "delete" /\ svc' = [svc EXCEPT ![s] = row]
      BY <1>7 DEF BeginDelete, Committing
    <2>2. Live(s) /\ (ProviderOf[s] = "vpc" => AttachedTo(s) = {})
      BY <1>2, <2>1 DEF RequestStands
    <2>3. ChangeStands(s, svc[s].spec)
      BY <1>2, <1>3, <2>2, OwnSpecStands
    <2>4. row \in Row /\ row.state = "deleting" /\ row.spec = svc[s].spec
      BY <1>4, <2>2 DEF Row
    <2> HIDE DEF row
    <2>5. RowStands(s, row)
      BY <2>2, <2>3, <2>4 DEF RowStands, ChangeStands
    <2> QED
      BY <1>1, <1>2, <2>1, <2>2, <2>4, <2>5, RowCommit DEF Live
  <1> QED
    BY <1>5, <1>6, <1>7

\* A resource is handed to a member.
LEMMA AssignStep ==
    ASSUME IInv, NEW t \in Txns, CommitAssign(t)
    PROVE  IInv'
  <1> USE DEF Changes, OnService, OnAccount
  <1> DEFINE r == txn[t].req
             s == r.target
  <1>1. /\ txn[t] # Idle /\ txn[t].checked /\ r.op = "assign" /\ Finished(t)
        /\ UNCHANGED <<defaults, override, member, gpu>>
    BY DEF CommitAssign, Committing
  <1>2. /\ ValidRequest(r) /\ RequestStands(r, txn[t].spec)
        /\ r.account \in Accounts /\ r.user \in Users /\ Subject(r) = r.account
    BY <1>1, SessionFields DEF ValidRequest, Subject
  <1>3. CASE s = Robot
    <2>1. robot' = [robot EXCEPT ![r.account] = r.user] /\ UNCHANGED svc
      BY <1>3 DEF CommitAssign
    <2> QED
      BY <1>1, <1>2, <2>1, LimitTypes, EndStep
  <1>4. CASE s # Robot
    <2> DEFINE row == [svc[s] EXCEPT !.owner = r.user]
    <2>1. svc' = [svc EXCEPT ![s] = row] /\ UNCHANGED robot
      BY <1>4 DEF CommitAssign
    <2>2. s \in UnassignedServices(r.account)
      BY <1>1, <1>2, <1>4 DEF RequestStands
    <2>3. s \in Services /\ Live(s) /\ AccountOf[s] = r.account
      BY <2>2 DEF UnassignedServices
    <2>4. svc[s] \in Row
      BY <2>3, LimitTypes DEF Live, Present
    <2>5. ChangeStands(s, svc[s].spec)
      BY <2>3, OwnSpecStands DEF IInv
    <2>6. row \in Row /\ row.owner = r.user /\ row.state = svc[s].state /\ row.spec = svc[s].spec
      BY <1>2, <2>4 DEF Row
    <2>7. r.user # NoUser
      BY <1>2, QuotasAssumption
    <2> HIDE DEF row
    <2>8. RowStands(s, row)
      BY <2>3, <2>5, <2>6, <2>7 DEF RowStands, ChangeStands, KeepsAttached, Live
    <2> QED
      BY <1>1, <1>2, <2>1, <2>3, <2>6, <2>8, RowCommit DEF Live
  <1> QED
    BY <1>3, <1>4

\* The limits of accounts.
LEMMA LimitStep ==
    ASSUME IInv, NEW t \in Txns, CommitDefaults(t) \/ CommitQuota(t)
    PROVE  IInv'
  <1> DEFINE r == txn[t].req
  <1>1. txn[t] # Idle /\ Finished(t) /\ UNCHANGED <<svc, member, robot, gpu>>
    BY DEF CommitDefaults, CommitQuota, Committing
  <1>2. ValidRequest(r)
    BY <1>1, SessionFields
  <1>3. CASE CommitDefaults(t)
    <2>1. r.op = "defaults" /\ defaults' = r.limits /\ UNCHANGED override
      BY <1>3 DEF CommitDefaults, Committing
    <2>2. defaults' \in Limits
      BY <1>2, <2>1 DEF ValidRequest
    <2> QED
      BY <1>1, <2>1, <2>2, LimitTypes, EndStep
  <1>4. CASE CommitQuota(t)
    <2>1. r.op = "quota" /\ override' = [override EXCEPT ![r.account] = r.limits] /\ UNCHANGED defaults
      BY <1>4 DEF CommitQuota, Committing
    <2>2. r.account \in Accounts /\ r.limits \in Limits \cup {NoLimit}
      BY <1>2, <2>1 DEF ValidRequest, OnAccount
    <2>3. override' \in [Accounts -> Limits \cup {NoLimit}]
      BY <2>1, <2>2, LimitTypes
    <2> QED
      BY <1>1, <2>1, <2>3, LimitTypes, EndStep
  <1> QED
    BY <1>3, <1>4

\* The limits of a member: set only while everything in the account belongs to somebody.
LEMMA MemberStep ==
    ASSUME IInv, NEW t \in Txns, CommitMemberQuota(t)
    PROVE  IInv'
  <1> DEFINE r == txn[t].req
             a == r.account
             u == r.user
  <1>1. /\ txn[t] # Idle /\ txn[t].checked /\ r.op = "member" /\ Finished(t)
        /\ member' = [member EXCEPT ![a][u] = r.limits]
        /\ UNCHANGED <<svc, defaults, override, robot, gpu>>
    BY DEF CommitMemberQuota, Committing
  <1>2. ValidRequest(r) /\ RequestStands(r, txn[t].spec)
    BY <1>1, SessionFields
  <1>3. /\ a \in Accounts /\ r.limits \in Limits \cup {NoLimit} /\ u \in MembersOf[a]
        /\ r.limits # NoLimit => UnassignedServices(a) = {}
    BY <1>1, <1>2 DEF ValidRequest, RequestStands, OnAccount
  <1>4. Subject(r) = a /\ r.op \in OnAccount
    BY <1>1 DEF Subject, OnAccount, OnService, Changes
  <1> DEFINE row == [member[a] EXCEPT ![u] = r.limits]
  <1>5. row \in [MembersOf[a] -> Limits \cup {NoLimit}]
        /\ \A v \in MembersOf[a] : row[v] # NoLimit => member[a][v] # NoLimit \/ r.limits # NoLimit
    BY <1>3, LimitTypes
  <1>6. member' = [member EXCEPT ![a] = row]
    BY <1>1
  <1> HIDE DEF row
  <1>7. /\ member' = [b \in Accounts |-> member'[b]] /\ member'[a] = row
        /\ \A b \in Accounts \ {a} : member'[b] = member[b]
    BY <1>3, <1>6, LimitTypes
  <1>8. RowsAreSound'
    <2>1. TablesAreTyped'
      BY <1>1, <1>5, <1>7 DEF IInv, RowsAreSound, TablesAreTyped, QuotasTypeOK
    <2>2. RowsFit' /\ NamesAreUnique' /\ AttachmentsAreOwn'
      BY <1>1 DEF IInv, RowsAreSound, RowsFit, NamesAreUnique, AttachmentsAreOwn, Attachable, Present, Live
    <2>3. MemberLimitsCoverAll'
      <3> SUFFICES ASSUME NEW b \in Accounts, HasMemberLimits(b)', UnassignedServices(b)' # {}
                   PROVE  FALSE
        BY DEF MemberLimitsCoverAll
      <3>1. UnassignedServices(b) # {}
        BY <1>1 DEF UnassignedServices, Present, Live
      <3>2. ~HasMemberLimits(b)
        BY <3>1 DEF IInv, RowsAreSound, MemberLimitsCoverAll
      <3> QED
        BY <1>3, <1>5, <1>7, <3>1, <3>2 DEF HasMemberLimits
    <2> QED
      BY <2>1, <2>2, <2>3 DEF RowsAreSound
  <1>9. txn' = [txn EXCEPT ![t] = Idle] /\ ValidSession(Idle)
    BY <1>1 DEF Finished, ValidSession
  <1>10. SessionsAreValid' /\ LocksExclude'
    BY <1>9, SessionMoves DEF IInv
  <1>11. \A w \in Txns : txn'[w] = IF w = t THEN Idle ELSE txn[w]
    BY <1>9 DEF IInv, SessionsAreValid
  <1>12. NoNewBucket /\ NoNewPort /\ \A b : Spares(b)
    BY <1>1 DEF Spares, NoNewBucket, NoNewPort
  <1>13. ASSUME NEW w \in Txns, txn'[w] # Idle, txn[w].checked, txn[w].req.op \in OnService \cup OnAccount
         PROVE  member'[Subject(txn[w].req)] = member[Subject(txn[w].req)]
    <2>1. w # t /\ txn[w] # Idle
      BY <1>11, <1>13
    <2>2. AllHeld(t) /\ AllHeld(w)
      BY <1>1, <1>13, <2>1, SessionFields DEF AllHeld
    <2>3. Subject(txn[w].req) # a
      BY <1>4, <1>13, <2>1, <2>2, SubjectsDiffer DEF IInv
    <2>4. Subject(txn[w].req) \in Accounts
      <3>1. ValidRequest(txn[w].req)
        BY <2>1, SessionFields
      <3> QED
        BY <1>13, <3>1, QuotasAssumption DEF ValidRequest, Subject
    <2> QED
      BY <1>7, <2>3, <2>4
  <1> QED
    BY <1>8, <1>10, <1>11, <1>12, <1>13, OthersSurvive

\* The catalogue is written, and a request for a GPU goes on.
LEMMA SyncStep ==
    ASSUME IInv, NEW t \in Txns, CommitSync(t)
    PROVE  IInv'
  <1> DEFINE next == txn[t].req.then
             gone == next.actor \in Services /\ ~Present(next.actor)
             created == CreateFor(next.svc, next.actor, next.spec)
             new == CASE next.op = DisplayedOnly -> Idle
                      [] next.op = "update" -> Begun(next)
                      [] next.op = "create" -> IF gone THEN Idle ELSE Begun(created)
  <1>1. /\ txn[t] # Idle /\ txn[t].req.op = "sync"
        /\ gpu' \subseteq ActiveUsers \cup {NoUser}
        /\ txn' = [txn EXCEPT ![t] = new]
        /\ UNCHANGED <<svc, defaults, override, member, robot>>
    BY DEF CommitSync, Committing, KeptUsers
  <1>2. ValidThen(next)
    BY <1>1, SessionFields DEF ValidRequest
  <1>3. next.op = "update" => ValidRequest(next)
    BY <1>2 DEF ValidThen, ValidRequest, OnService, OnAccount, Changes, Operations, DisplayedOnly
  <1>4. next.op = "create" /\ ~gone => ValidRequest(created)
    <2> SUFFICES ASSUME next.op = "create", ~gone PROVE ValidRequest(created)
      OBVIOUS
    <2>1. /\ next.svc \in Services /\ Fits(next.svc, next.spec) /\ next.actor \in Actors
          /\ next.actor \in Services => Present(next.actor)
      BY <1>2 DEF ValidThen, DisplayedOnly
    <2> QED
      BY <2>1, CreateIsValid DEF IInv
  <1>5. next.op \in {DisplayedOnly, "create", "update"}
    BY <1>2 DEF ValidThen
  <1> HIDE DEF next, gone, created
  <1>6. new = Idle \/ \E r : ValidRequest(r) /\ new = Begun(r)
    BY <1>3, <1>4, <1>5 DEF DisplayedOnly
  <1> HIDE DEF new
  <1>7. ValidSession(new) /\ (new # Idle => new.held = 0 /\ ~new.checked)
    <2>1. CASE new = Idle
      BY <2>1 DEF ValidSession
    <2>2. CASE \E r : ValidRequest(r) /\ new = Begun(r)
      BY <2>2, BegunIsValid
    <2> QED
      BY <1>6, <2>1, <2>2
  <1>8. RowsAreSound'
    BY <1>1, RowsStay, LimitTypes DEF IInv
  <1> QED
    BY <1>1, <1>7, <1>8, SessionStep

\* A table changes under sessions that stay where they are.
LEMMA TableStep ==
    ASSUME IInv, RowsAreSound', UNCHANGED <<txn, member>>, NoNewBucket, NoNewPort, \A a : Spares(a)
    PROVE  IInv'
  <1>1. SessionsAreValid' /\ LocksExclude'
    BY DEF IInv, SessionsAreValid, LocksExclude, HeldBy
  <1> QED
    BY <1>1, OthersSurvive

\* The worker takes no lock: a row that is being deleted was in nobody's way.
LEMMA DeletedStep ==
    ASSUME IInv, NEW s \in Services, CompleteDelete(s)
    PROVE  IInv'
  <1> USE DEF Present, Live
  <1>1. /\ svc[s] # Absent /\ svc[s].state = "deleting" /\ svc' = [svc EXCEPT ![s] = Absent]
        /\ UNCHANGED <<defaults, override, member, robot, gpu, txn>>
    BY DEF CompleteDelete
  <1>2. /\ svc' \in [Services -> Row \cup {Absent}] /\ svc'[s] = Absent
        /\ \A q \in Services \ {s} : svc'[q] = svc[q]
    BY <1>1, LimitTypes
  <1>3. \A q \in Services : svc'[q] # Absent => svc'[q] = svc[q] /\ q # s
    BY <1>2
  <1>4. TablesAreTyped'
    BY <1>1, <1>2 DEF IInv, RowsAreSound, TablesAreTyped, QuotasTypeOK
  <1>5. RowsFit' /\ NamesAreUnique'
    BY <1>3 DEF IInv, RowsAreSound, RowsFit, NamesAreUnique
  <1>6. AttachmentsAreOwn'
    <2> SUFFICES ASSUME NEW q \in Services, svc'[q] # Absent,
                        ProviderOf[q] = "flash", svc'[q].spec.vpc # NoVpc
                 PROVE  /\ svc'[svc'[q].spec.vpc] # Absent /\ svc'[svc'[q].spec.vpc].state # "deleting"
                        /\ AccountOf[svc'[q].spec.vpc] = AccountOf[q]
                        /\ svc'[q].spec.groups \subseteq svc'[svc'[q].spec.vpc].spec.groups
      BY DEF AttachmentsAreOwn, Attachable
    <2>1. svc'[q] = svc[q]
      BY <1>3
    <2> DEFINE v == svc[q].spec.vpc
    <2>2. /\ svc[v] # Absent /\ svc[v].state # "deleting" /\ AccountOf[v] = AccountOf[q]
          /\ svc[q].spec.groups \subseteq svc[v].spec.groups /\ Fits(q, svc[q].spec)
      BY <2>1 DEF IInv, RowsAreSound, AttachmentsAreOwn, Attachable, RowsFit
    <2>3. v \in Services \ {s}
      BY <1>1, <2>1, <2>2 DEF Fits, SpecOf, Vpcs
    <2> QED
      BY <1>2, <2>1, <2>2, <2>3
  <1>7. MemberLimitsCoverAll'
    <2>1. \A a : UnassignedServices(a)' \subseteq UnassignedServices(a)
      BY <1>3 DEF UnassignedServices
    <2>2. \A a : HasMemberLimits(a)' => HasMemberLimits(a)
      BY <1>1 DEF HasMemberLimits
    <2> QED
      BY <2>1, <2>2 DEF IInv, RowsAreSound, MemberLimitsCoverAll
  <1>8. RowsAreSound'
    BY <1>4, <1>5, <1>6, <1>7 DEF RowsAreSound
  <1>9. NoNewBucket /\ NoNewPort /\ \A a : Spares(a)
    BY <1>1, <1>2, <1>3 DEF NoNewBucket, NoNewPort, Spares
  <1> QED
    BY <1>1, <1>8, <1>9, TableStep
-----------------------------------------------------------------------------
(***************************************************************************)
(* The invariant                                                           *)
(***************************************************************************)
\* An empty table.
LEMMA InitIsSound == AllocationInit => IInv
  <1> SUFFICES ASSUME AllocationInit PROVE IInv
    OBVIOUS
  <1> USE DEF AllocationInit
  <1>1. SessionsAreValid /\ LocksExclude /\ DecisionsStand
    BY DEF SessionsAreValid, ValidSession, LocksExclude, HeldBy, DecisionsStand
  <1>2. \A s \in Services : ~Present(s) /\ ~Live(s)
    BY DEF Present, Live
  <1>3. TablesAreTyped
    BY QuotasAssumption DEF TablesAreTyped, QuotasTypeOK, KeptUsers
  <1>4. RowsFit /\ NamesAreUnique /\ AttachmentsAreOwn
    BY <1>2 DEF RowsFit, NamesAreUnique, AttachmentsAreOwn
  <1>5. MemberLimitsCoverAll
    BY <1>2 DEF MemberLimitsCoverAll, UnassignedServices
  <1> QED
    BY <1>1, <1>3, <1>4, <1>5 DEF IInv, RowsAreSound

\* Every step of a session, and of the worker.
LEMMA StepIsSound ==
    ASSUME IInv, [AllocationNext(Services, Accounts, ValidSpecs, Actors, Operations)]_allocationVars
    PROVE  IInv'
  <1>1. CASE UNCHANGED allocationVars
    <2>1. UNCHANGED <<svc, defaults, override, member, robot, gpu, txn>>
      BY <1>1 DEF allocationVars, quotaVars
    <2>2. RowsAreSound'
      BY <2>1, RowsStay, LimitTypes DEF IInv
    <2>3. NoNewBucket /\ NoNewPort /\ \A a : Spares(a)
      BY <2>1 DEF NoNewBucket, NoNewPort, Spares
    <2> QED
      BY <2>1, <2>2, <2>3, TableStep
  <1>2. ASSUME NEW t \in Txns, Ask(t, Services, Accounts, ValidSpecs, Actors, Operations)
        PROVE  IInv'
    BY <1>2, AskStep
  <1>3. ASSUME NEW t \in Txns, Transact(t)
        PROVE  IInv'
    <2>1. CASE FetchCatalogue(t) \/ ProviderUnavailable(t) \/ TakeLock(t) \/ Check(t) \/ Refuse(t)
      BY <2>1, DecidingStep
    <2>2. CASE CommitCreate(t) \/ CommitChange(t) \/ BeginDelete(t)
      BY <2>2, RowStep
    <2>3. CASE CommitDefaults(t) \/ CommitQuota(t)
      BY <2>3, LimitStep
    <2>4. CASE CommitMemberQuota(t)
      BY <2>4, MemberStep
    <2>5. CASE CommitAssign(t)
      BY <2>5, AssignStep
    <2>6. CASE CommitSync(t)
      BY <2>6, SyncStep
    <2> QED
      BY <1>3, <2>1, <2>2, <2>3, <2>4, <2>5, <2>6 DEF Transact
  <1>4. ASSUME NEW s \in Services, CompleteDelete(s)
        PROVE  IInv'
    BY <1>4, DeletedStep
  <1> QED
    BY <1>1, <1>2, <1>3, <1>4 DEF AllocationNext

\* Decisions stand until they are committed.
LEMMA Invariance == AllocationSpec => []IInv
  BY InitIsSound, StepIsSound, PTL DEF AllocationSpec

-----------------------------------------------------------------------------
(***************************************************************************)
(* What a session may spend: its decision leaves every limit that it is    *)
(* counted towards respected, or adds nothing to what exceeds it.          *)
(***************************************************************************)
Room(S, s, spec, limits) ==
    /\ Live(s) \/ Cardinality(S \ {s}) + 1 <= limits.services
    /\ \/ Live(s) /\ spec.units <= svc[s].spec.units
       \/ Cardinality(UnitsOf(S \ {s})) + spec.units <= limits.total

Funded(s, owner, spec) ==
    LET a == AccountOf[s]
        c == CloudOf[a]
        p == ProviderOf[s]
    IN  /\ Room(Allocated(a, p), s, spec, ResourceQuota(a)[p])
        /\ ServiceQuotasEnabled => Room(CloudAllocated(c, p), s, spec, CloudQuota(c)[p])
        /\ owner \in MembersOf[a] => Room(OwnedBy(a, p, owner), s, spec, MemberQuota(a, owner)[p])

ChargedTo(r) == IF r.op = "create" THEN r.owner ELSE svc[r.svc].owner

AdmissionsStand ==
    \A t \in Txns :
        txn[t] # Idle /\ txn[t].checked /\ txn[t].req.op \in Changes /\ Metered(txn[t].req.svc) =>
            Funded(txn[t].req.svc, ChargedTo(txn[t].req), txn[t].spec)
-----------------------------------------------------------------------------
(***************************************************************************)
(* Sums of units                                                           *)
(***************************************************************************)
Counted(f, S) == UNION {{s} \X (1 .. f[s].spec.units) : s \in S}

\* Rows with a number of units.
Rows(f, S) == \A s \in S : f[s].spec.units \in 1 .. MaxUnits

LEMMA CountedMeans ==
    ASSUME NEW f, NEW S, NEW x
    PROVE  x \in Counted(f, S) <=> \E s \in S : x \in {s} \X (1 .. f[s].spec.units)
  BY DEF Counted

LEMMA CountedFinite ==
    ASSUME NEW f, NEW S \in SUBSET Services, Rows(f, S)
    PROVE  /\ IsFiniteSet(Counted(f, S)) /\ Cardinality(Counted(f, S)) \in Nat
           /\ IsFiniteSet(S) /\ Cardinality(S) \in Nat
  <1>1. Counted(f, S) \in SUBSET (Services \X (1 .. MaxUnits))
    <2> SUFFICES ASSUME NEW x \in Counted(f, S) PROVE x \in Services \X (1 .. MaxUnits)
      OBVIOUS
    <2>1. PICK s \in S : x \in {s} \X (1 .. f[s].spec.units)
      BY CountedMeans
    <2>2. f[s].spec.units \in 1 .. MaxUnits /\ s \in Services
      BY DEF Rows
    <2>3. 1 .. f[s].spec.units \subseteq 1 .. MaxUnits
      BY <2>2, QuotasAssumption
    <2> QED
      BY <2>1, <2>2, <2>3
  <1>2. IsFiniteSet(Services) /\ IsFiniteSet(1 .. MaxUnits)
    BY QuotasAssumption, FS_Interval
  <1>3. IsFiniteSet(Services \X (1 .. MaxUnits))
    BY <1>2, FS_Product
  <1>4. IsFiniteSet(Counted(f, S)) /\ IsFiniteSet(S)
    BY <1>1, <1>2, <1>3, FS_Subset
  <1> QED
    BY <1>4, FS_CardinalityType

\* A service adds its units to the others'.
LEMMA CountedSplit ==
    ASSUME NEW f, NEW S \in SUBSET Services, Rows(f, S), NEW s \in S
    PROVE  /\ Cardinality(Counted(f, S)) = Cardinality(Counted(f, S \ {s})) + f[s].spec.units
           /\ Cardinality(S) = Cardinality(S \ {s}) + 1
  <1> DEFINE k == f[s].spec.units
             A == Counted(f, S \ {s})
             B == {s} \X (1 .. k)
  <1>1. k \in Nat
    BY QuotasAssumption DEF Rows
  <1>2. Counted(f, S) = A \cup B
    <2> HIDE DEF k
    <2>1. \A x : x \in Counted(f, S) <=> \E q \in S : x \in {q} \X (1 .. f[q].spec.units)
      BY CountedMeans
    <2>2. \A x : x \in A <=> \E q \in S \ {s} : x \in {q} \X (1 .. f[q].spec.units)
      BY CountedMeans
    <2>3. B = {s} \X (1 .. f[s].spec.units)
      BY DEF k
    <2> HIDE DEF A, B
    <2>4. \A x : x \in Counted(f, S) <=> x \in A \/ x \in B
      BY <2>1, <2>2, <2>3, Zenon
    <2> QED
      BY <2>4, Zenon
  <1>3. A \cap B = {}
    <2> SUFFICES ASSUME NEW x \in A, x \in B PROVE FALSE
      OBVIOUS
    <2>1. PICK q \in S \ {s} : x \in {q} \X (1 .. f[q].spec.units)
      BY CountedMeans
    <2> QED
      BY <2>1
  <1>4. IsFiniteSet(A) /\ Cardinality(A) \in Nat
    <2>1. S \ {s} \in SUBSET Services /\ Rows(f, S \ {s})
      BY DEF Rows
    <2> QED
      BY <2>1, CountedFinite
  <1>5. IsFiniteSet(B) /\ Cardinality(B) = k
    <2> HIDE DEF k
    <2>1. IsFiniteSet(1 .. k) /\ Cardinality(1 .. k) = k
      <3>1. IsFiniteSet(1 .. k) /\ Cardinality(1 .. k) = IF 1 > k THEN 0 ELSE k - 1 + 1
        BY <1>1, FS_Interval
      <3> DEFINE n == Cardinality(1 .. k)
      <3> HIDE DEF n
      <3>2. n = k
        BY <1>1, <3>1 DEF n
      <3> QED
        BY <3>1, <3>2 DEF n
    <2>2. IsFiniteSet({s}) /\ Cardinality({s}) = 1
      BY FS_Singleton
    <2>3. IsFiniteSet(B) /\ Cardinality(B) = Cardinality({s}) * Cardinality(1 .. k)
      BY <2>1, <2>2, FS_Product
    <2> HIDE DEF B
    <2>4. Cardinality(B) = 1 * k
      BY <2>1, <2>2, <2>3
    <2> QED
      BY <1>1, <2>3, <2>4
  <1> HIDE DEF A, B, k
  <1>6. Cardinality(A \cup B) = Cardinality(A) + Cardinality(B) - Cardinality(A \cap B)
    BY <1>4, <1>5, FS_Union
  <1>7. Cardinality(A \cap B) = 0
    BY <1>3, FS_EmptySet
  <1>8. Cardinality(Counted(f, S)) = Cardinality(A \cup B)
    BY <1>2, Zenon
  <1>9. Cardinality(Counted(f, S)) = Cardinality(A) + k
    BY <1>1, <1>4, <1>5, <1>6, <1>7, <1>8
  <1>10. Cardinality(S) = Cardinality(S \ {s}) + 1
    <2>1. IsFiniteSet(S) /\ Cardinality(S) \in Nat
      BY CountedFinite
    <2>2. Cardinality(S \ {s}) = Cardinality(S) - 1
      BY <2>1, FS_RemoveElement
    <2> QED
      BY <2>1, <2>2
  <1> QED
    BY <1>9, <1>10 DEF A, k

\* Only the units of the services counted matter.
LEMMA CountedSame ==
    ASSUME NEW f, NEW g, NEW S, \A q \in S : g[q].spec.units = f[q].spec.units
    PROVE  Counted(g, S) = Counted(f, S)
  <1>1. \A x : x \in Counted(g, S) <=> x \in Counted(f, S)
    BY CountedMeans
  <1> QED
    BY <1>1, Zenon

LEMMA CountedSmaller ==
    ASSUME NEW f, NEW S \in SUBSET Services, Rows(f, S), NEW T \in SUBSET S
    PROVE  /\ Cardinality(Counted(f, T)) <= Cardinality(Counted(f, S))
           /\ Cardinality(T) <= Cardinality(S)
  <1>1. Counted(f, T) \in SUBSET Counted(f, S)
    BY CountedMeans
  <1> QED
    BY <1>1, CountedFinite, FS_Subset
-----------------------------------------------------------------------------
(***************************************************************************)
(* Room                                                                    *)
(***************************************************************************)
\* Where there was room for the row of s, writing it brings usage above no limit that it
\* was not above before.
LEMMA RoomCovers ==
    ASSUME NEW f, NEW g, NEW S \in SUBSET Services, NEW T \in SUBSET Services, NEW s,
           Rows(f, S), Rows(g, T), T \ {s} = S \ {s},
           \A q \in S \ {s} : g[q].spec.units = f[q].spec.units,
           NEW most \in Nat, NEW total \in Nat,
           s \in T => s \in S \/ Cardinality(S \ {s}) + 1 <= most,
           s \in T => \/ s \in S /\ g[s].spec.units <= f[s].spec.units
                      \/ Cardinality(Counted(f, S \ {s})) + g[s].spec.units <= total
    PROVE  /\ Cardinality(T) > Cardinality(S) => Cardinality(T) <= most
           /\ Cardinality(Counted(g, T)) > Cardinality(Counted(f, S)) => Cardinality(Counted(g, T)) <= total
  <1> DEFINE R == S \ {s}
             n == Cardinality(R)
             c == Cardinality(Counted(f, R))
  <1>1. Counted(g, R) = Counted(f, R)
    BY CountedSame
  <1>2. n \in Nat /\ c \in Nat
    <2>1. R \in SUBSET Services /\ Rows(f, R)
      BY DEF Rows
    <2> QED
      BY <2>1, CountedFinite
  <1>3. s \in S => /\ Cardinality(S) = n + 1
                   /\ Cardinality(Counted(f, S)) = c + f[s].spec.units
                   /\ f[s].spec.units \in Nat
    <2>1. s \in S => f[s].spec.units \in Nat
      BY QuotasAssumption DEF Rows
    <2>2. s \in S => /\ Cardinality(S) = Cardinality(S \ {s}) + 1
                     /\ Cardinality(Counted(f, S)) = Cardinality(Counted(f, S \ {s})) + f[s].spec.units
      BY CountedSplit
    <2> QED
      BY <2>1, <2>2
  <1>4. s \notin S => S = R
    OBVIOUS
  <1>5. s \notin S => Cardinality(S) = n /\ Cardinality(Counted(f, S)) = c
    BY <1>4, Zenon
  <1>6. s \in T => /\ Cardinality(T) = n + 1
                   /\ Cardinality(Counted(g, T)) = c + g[s].spec.units
                   /\ g[s].spec.units \in Nat
    <2> SUFFICES ASSUME s \in T
                 PROVE  /\ Cardinality(T) = n + 1
                        /\ Cardinality(Counted(g, T)) = c + g[s].spec.units
                        /\ g[s].spec.units \in Nat
      OBVIOUS
    <2>1. /\ Cardinality(Counted(g, T)) = Cardinality(Counted(g, T \ {s})) + g[s].spec.units
          /\ Cardinality(T) = Cardinality(T \ {s}) + 1
      BY CountedSplit
    <2>2. T \ {s} = R /\ Counted(g, T \ {s}) = Counted(f, R)
      BY <1>1
    <2>3. Cardinality(T \ {s}) = n /\ Cardinality(Counted(g, T \ {s})) = c
      BY <2>2, Zenon
    <2>4. g[s].spec.units \in Nat
      BY QuotasAssumption DEF Rows
    <2> HIDE DEF n, c
    <2> QED
      BY <2>1, <2>3, <2>4
  <1>7. s \notin T => T = R /\ Counted(g, T) = Counted(f, R)
    BY <1>1
  <1>8. s \notin T => Cardinality(T) = n /\ Cardinality(Counted(g, T)) = c
    BY <1>7, Zenon
  <1>9. /\ s \in T => s \in S \/ n + 1 <= most
        /\ s \in T => \/ s \in S /\ g[s].spec.units <= f[s].spec.units
                      \/ c + g[s].spec.units <= total
    OBVIOUS
  <1> DEFINE mS == Cardinality(S)
             mT == Cardinality(T)
             cS == Cardinality(Counted(f, S))
             cT == Cardinality(Counted(g, T))
             x == f[s].spec.units
             y == g[s].spec.units
  <1>10. /\ s \in S => mS = n + 1 /\ cS = c + x /\ x \in Nat
         /\ s \notin S => mS = n /\ cS = c
         /\ s \in T => mT = n + 1 /\ cT = c + y /\ y \in Nat
         /\ s \notin T => mT = n /\ cT = c
         /\ s \in T => s \in S \/ n + 1 <= most
         /\ s \in T => (s \in S /\ y <= x) \/ c + y <= total
    BY <1>3, <1>5, <1>6, <1>8, <1>9
  <1> HIDE DEF n, c, mS, mT, cS, cT, x, y
  <1>11. (mT > mS => mT <= most) /\ (cT > cS => cT <= total)
    BY <1>2, <1>10
  <1> QED
    BY <1>11 DEF mS, mT, cS, cT

\* Where others have only gone, there is still room.
LEMMA RoomRemains ==
    ASSUME NEW f, NEW g, NEW S \in SUBSET Services, NEW T \in SUBSET S, Rows(f, S),
           \A q \in T : g[q].spec.units = f[q].spec.units,
           NEW most \in Nat, NEW total \in Nat, NEW k \in Nat
    PROVE  /\ Cardinality(S) + 1 <= most => Cardinality(T) + 1 <= most
           /\ Cardinality(Counted(f, S)) + k <= total => Cardinality(Counted(g, T)) + k <= total
  <1>1. Counted(g, T) = Counted(f, T)
    BY CountedSame
  <1>2. /\ Cardinality(Counted(f, T)) <= Cardinality(Counted(f, S))
        /\ Cardinality(T) <= Cardinality(S)
    BY CountedSmaller
  <1>3. /\ Cardinality(S) \in Nat /\ Cardinality(Counted(f, S)) \in Nat
        /\ Cardinality(T) \in Nat /\ Cardinality(Counted(f, T)) \in Nat
    <2>1. T \in SUBSET Services /\ Rows(f, T)
      BY DEF Rows
    <2> QED
      BY <2>1, CountedFinite
  <1> DEFINE a == Cardinality(S)
             b == Cardinality(T)
             c == Cardinality(Counted(f, S))
             d == Cardinality(Counted(f, T))
             e == Cardinality(Counted(g, T))
  <1>4. e = d
    BY <1>1, Zenon
  <1>5. a \in Nat /\ b \in Nat /\ c \in Nat /\ d \in Nat /\ b <= a /\ d <= c
    BY <1>2, <1>3
  <1> HIDE DEF a, b, c, d, e
  <1>6. (a + 1 <= most => b + 1 <= most) /\ (c + k <= total => e + k <= total)
    BY <1>4, <1>5
  <1> QED
    BY <1>6 DEF a, b, c, e

\* What Exceeds does not refuse has room.
LEMMA NotExceeding ==
    ASSUME NEW S \in SUBSET Services, NEW s \in Services, NEW spec, spec.units \in Nat,
           Rows(svc, S), Live(s) => svc[s].spec.units \in 1 .. MaxUnits,
           NEW limits, limits.services \in Nat, limits.total \in Nat,
           NEW previous, previous = {} \/ (previous = {s} /\ Live(s)),
           ~Exceeds(S, s, spec, limits, previous)
    PROVE  Room(S, s, spec, limits)
  <1> DEFINE n == Cardinality(S \ {s})
             c == Cardinality(UnitsOf(S \ {s}))
             old == Cardinality(UnitsOf(previous))
             reducible == previous # {}
  <1>1. \A R : UnitsOf(R) = Counted(svc, R)
    BY DEF UnitsOf, Counted
  <1>2. n \in Nat /\ c \in Nat
    <2>1. S \ {s} \in SUBSET Services /\ Rows(svc, S \ {s})
      BY DEF Rows
    <2>2. UnitsOf(S \ {s}) = Counted(svc, S \ {s})
      BY <1>1
    <2>3. Cardinality(S \ {s}) \in Nat /\ Cardinality(Counted(svc, S \ {s})) \in Nat
      BY <2>1, CountedFinite
    <2> QED
      BY <2>2, <2>3, Zenon
  <1>3. previous = {s} => old = svc[s].spec.units
    <2> SUFFICES ASSUME previous = {s}, Live(s) PROVE old = svc[s].spec.units
      BY Zenon
    <2>1. {s} \in SUBSET Services /\ Rows(svc, {s}) /\ s \in {s} /\ svc[s].spec.units \in Nat
      BY QuotasAssumption DEF Rows
    <2>2. Cardinality(Counted(svc, {s})) = Cardinality(Counted(svc, {s} \ {s})) + svc[s].spec.units
      BY <2>1, CountedSplit
    <2>3. Counted(svc, {s} \ {s}) = {}
      BY CountedMeans
    <2>4. Cardinality(Counted(svc, {s} \ {s})) = 0
      BY <2>3, FS_EmptySet, Zenon
    <2>5. UnitsOf(previous) = Counted(svc, {s})
      BY <1>1
    <2>6. old = Cardinality(Counted(svc, {s}))
      BY <2>5, Zenon
    <2> DEFINE x == Cardinality(Counted(svc, {s} \ {s}))
    <2> HIDE DEF x, old
    <2> QED
      BY <2>1, <2>2, <2>4, <2>6 DEF x
  <1>4. Usage(S \ {s}).services = n /\ Usage(S \ {s}).total = c
    BY DEF Usage
  <1>5. /\ ~Over(n + 1, limits.services, n + 1, reducible)
        /\ ~Over(c + spec.units, limits.total, c + old, reducible)
    BY <1>4 DEF Exceeds
  <1>6. limits.services \in Nat /\ limits.total \in Nat
    OBVIOUS
  <1>7. previous # {} => previous = {s} /\ Live(s) /\ svc[s].spec.units \in Nat
    BY QuotasAssumption
  <1> HIDE DEF n, c, old
  <1>8. CASE previous = {}
    <2>1. n + 1 <= limits.services /\ c + spec.units <= limits.total
      BY <1>2, <1>5, <1>6, <1>8 DEF Over
    <2> QED
      BY <2>1 DEF Room, n, c
  <1>9. CASE previous # {}
    <2>1. /\ Live(s) /\ old = svc[s].spec.units /\ svc[s].spec.units \in Nat
          /\ c + spec.units <= limits.total \/ c + spec.units <= c + old
      BY <1>2, <1>3, <1>5, <1>6, <1>7, <1>9 DEF Over
    <2>2. c + spec.units <= c + old => spec.units <= svc[s].spec.units
      BY <1>2, <2>1
    <2> QED
      BY <2>1, <2>2 DEF Room, c
  <1> QED
    BY <1>8, <1>9
-----------------------------------------------------------------------------
(***************************************************************************)
(* The locks that keep an admission true                                   *)
(***************************************************************************)
Tenant == OnService \cup OnAccount

\* What lock_tenant_allocations takes first.
LEMMA TenantFirst ==
    ASSUME NEW r, ValidRequest(r), r.op \in Tenant
    PROVE  /\ 1 \in 1 .. Len(LockPlan(r)) /\ LockPlan(r)[1] = Shared(<<"defaults">>)
           /\ 2 \in 1 .. Len(LockPlan(r)) /\ LockPlan(r)[2] = Exclusive(<<"cloud", CloudOf[Subject(r)]>>)
  <1> DEFINE x == Shared(<<"defaults">>)
             y == Exclusive(<<"cloud", CloudOf[Subject(r)]>>)
             z == Exclusive(<<"account", Subject(r)>>)
  <1>1. TenantLocks(Subject(r)) = <<x, y, z>>
    BY DEF TenantLocks
  <1>2. \E names : LockPlan(r) = TenantLocks(Subject(r)) \o names /\ (names = << >> \/ \E l : names = <<l>>)
    <2>1. CASE r.op \in Changes
      <3>1. LockPlan(r) = TenantLocks(AccountOf[r.svc]) \o NameLocks(r.svc) /\ Subject(r) = AccountOf[r.svc]
        BY <2>1 DEF LockPlan, Changes, Subject, OnService
      <3>2. NameLocks(r.svc) = << >> \/ \E l : NameLocks(r.svc) = <<l>>
        BY DEF NameLocks
      <3> QED
        BY <3>1, <3>2
    <2>2. CASE r.op \notin Changes
      <3>1. LockPlan(r) = TenantLocks(Subject(r))
        BY <2>2 DEF LockPlan, Changes, Subject, OnService, OnAccount, Tenant
      <3>2. TenantLocks(Subject(r)) \o << >> = TenantLocks(Subject(r))
        BY DEF TenantLocks
      <3> QED
        BY <3>1, <3>2
    <2> QED
      BY <2>1, <2>2
  <1> HIDE DEF x, y, z
  <1>3. PICK names : LockPlan(r) = <<x, y, z>> \o names /\ (names = << >> \/ \E l : names = <<l>>)
    BY <1>1, <1>2
  <1>4. CASE names = << >>
    BY <1>3, <1>4 DEF x, y
  <1>5. CASE \E l : names = <<l>>
    <2>1. PICK l : names = <<l>>
      BY <1>5
    <2> DEFINE L == {x, y, z, l}
    <2>2. <<x, y, z>> \in Seq(L) /\ <<l>> \in Seq(L) /\ Len(<<x, y, z>>) = 3 /\ Len(<<l>>) = 1
      OBVIOUS
    <2>3. /\ Len(<<x, y, z>> \o <<l>>) = 4
          /\ (<<x, y, z>> \o <<l>>)[1] = x /\ (<<x, y, z>> \o <<l>>)[2] = y
      BY <2>2
    <2> QED
      BY <1>3, <2>1, <2>3 DEF x, y
  <1> QED
    BY <1>3, <1>4, <1>5

\* Sessions of one cloud organization decide and commit one after the other, and no default
\* changes under any of them.
LEMMA CloudsDiffer ==
    ASSUME IInv, NEW t \in Txns, NEW u \in Txns, t # u, AllHeld(t), AllHeld(u),
           txn[t].req.op \in Tenant
    PROVE  /\ txn[u].req.op \in Tenant => CloudOf[Subject(txn[t].req)] # CloudOf[Subject(txn[u].req)]
           /\ txn[u].req.op # "defaults"
  <1>1. ValidRequest(txn[t].req) /\ ValidRequest(txn[u].req) /\ LocksExclude
    BY DEF IInv, SessionsAreValid, ValidSession, AllHeld
  <1>2. /\ Shared(<<"defaults">>) \in HeldBy(t)
        /\ 2 \in 1 .. Len(LockPlan(txn[t].req))
        /\ LockPlan(txn[t].req)[2] = Exclusive(<<"cloud", CloudOf[Subject(txn[t].req)]>>)
    BY <1>1, TenantFirst DEF HeldBy, AllHeld
  <1>3. ASSUME txn[u].req.op \in Tenant, CloudOf[Subject(txn[t].req)] = CloudOf[Subject(txn[u].req)]
        PROVE  FALSE
    <2>1. /\ 2 \in 1 .. Len(LockPlan(txn[u].req))
          /\ LockPlan(txn[u].req)[2] = Exclusive(<<"cloud", CloudOf[Subject(txn[t].req)]>>)
      BY <1>1, <1>3, TenantFirst
    <2> QED
      BY <1>1, <1>2, <2>1, Alone
  <1>4. ASSUME txn[u].req.op = "defaults"
        PROVE  FALSE
    <2>1. LockPlan(txn[u].req) = <<Exclusive(<<"defaults">>)>>
      BY <1>4 DEF LockPlan
    <2>2. Exclusive(<<"defaults">>) \in HeldBy(u)
      BY <2>1 DEF HeldBy, AllHeld
    <2>3. Conflicting(Shared(<<"defaults">>), Exclusive(<<"defaults">>))
      BY DEF Conflicting, Shared, Exclusive
    <2> QED
      BY <1>1, <1>2, <2>2, <2>3 DEF LocksExclude
  <1> QED
    BY <1>3, <1>4

\* A step leaves a cloud organization alone, but for rows that are gone at last.
Quiet(c) ==
    /\ \A q \in Services : CloudOf[AccountOf[q]] = c =>
          \/ svc'[q] = svc[q]
          \/ svc[q] # Absent /\ svc[q].state = "deleting" /\ svc'[q] = Absent
    /\ defaults' = defaults
    /\ \A a \in Accounts : CloudOf[a] = c =>
          override'[a] = override[a] /\ member'[a] = member[a] /\ robot'[a] = robot[a]

\* A commit writes what is its account's.
Within(a) ==
    /\ \A q \in Services : AccountOf[q] # a => svc'[q] = svc[q]
    /\ defaults' = defaults
    /\ \A b \in Accounts \ {a} :
          override'[b] = override[b] /\ member'[b] = member[b] /\ robot'[b] = robot[b]

LEMMA CommitsWithin ==
    ASSUME IInv, NEW t \in Txns, txn[t] # Idle, txn[t].checked, txn[t].req.op \in Tenant,
           \/ CommitCreate(t) \/ CommitChange(t) \/ BeginDelete(t) \/ CommitQuota(t)
           \/ CommitMemberQuota(t) \/ CommitAssign(t)
    PROVE  Within(Subject(txn[t].req))
  <1> USE DEF Changes, OnService, OnAccount
  <1> DEFINE r == txn[t].req
  <1>1. ValidRequest(r) /\ RequestStands(r, txn[t].spec)
    BY SessionFields
  <1>2. /\ svc = [q \in Services |-> svc[q]] /\ override = [a \in Accounts |-> override[a]]
        /\ member = [a \in Accounts |-> member[a]] /\ robot = [a \in Accounts |-> robot[a]]
    BY LimitTypes DEF IInv, RowsAreSound, TablesAreTyped, QuotasTypeOK
  <1>3. ASSUME NEW s, AccountOf[s] = Subject(r), NEW row, svc' = [svc EXCEPT ![s] = row],
               UNCHANGED <<defaults, override, member, robot>>
        PROVE  Within(Subject(r))
    BY <1>2, <1>3 DEF Within
  <1>4. CASE CommitCreate(t) \/ CommitChange(t) \/ BeginDelete(t)
    <2>1. Subject(r) = AccountOf[r.svc] /\ UNCHANGED <<defaults, override, member, robot>>
      BY <1>4 DEF CommitCreate, CommitChange, BeginDelete, Committing, Subject
    <2>2. \E row : svc' = [svc EXCEPT ![r.svc] = row]
      BY <1>4 DEF CommitCreate, CommitChange, BeginDelete
    <2> QED
      BY <1>3, <2>1, <2>2
  <1>5. CASE CommitQuota(t)
    <2>1. /\ override' = [override EXCEPT ![r.account] = r.limits] /\ Subject(r) = r.account
          /\ UNCHANGED <<svc, defaults, member, robot>>
      BY <1>5 DEF CommitQuota, Committing, Subject
    <2> QED
      BY <1>2, <2>1 DEF Within
  <1>6. CASE CommitMemberQuota(t)
    <2>1. /\ \E row : member' = [member EXCEPT ![r.account] = row]
          /\ Subject(r) = r.account /\ UNCHANGED <<svc, defaults, override, robot>>
      BY <1>6 DEF CommitMemberQuota, Committing, Subject
    <2> QED
      BY <1>2, <2>1 DEF Within
  <1>7. CASE CommitAssign(t)
    <2>1. r.op = "assign" /\ Subject(r) = r.account /\ UNCHANGED <<defaults, override, member>>
      BY <1>7 DEF CommitAssign, Committing, Subject
    <2>2. CASE r.target = Robot
      BY <1>2, <1>7, <2>1, <2>2 DEF CommitAssign, Within
    <2>3. CASE r.target # Robot
      <3>1. AccountOf[r.target] = r.account
        BY <1>1, <2>1, <2>3 DEF RequestStands, UnassignedServices
      <3>2. robot' = robot /\ \E row : svc' = [svc EXCEPT ![r.target] = row]
        BY <1>7, <2>3 DEF CommitAssign
      <3> QED
        BY <1>3, <2>1, <3>1, <3>2
    <2> QED
      BY <2>2, <2>3
  <1> QED
    BY <1>4, <1>5, <1>6, <1>7

\* A request begins, and no table changes.
LEMMA AskBegins ==
    ASSUME NEW t \in Txns, Ask(t, Services, Accounts, ValidSpecs, Actors, Operations)
    PROVE  UNCHANGED quotaVars /\ \E r : txn' = [txn EXCEPT ![t] = Begun(r)]
  <1> DEFINE Goal == UNCHANGED quotaVars /\ \E r : txn' = [txn EXCEPT ![t] = Begun(r)]
  <1>1. ASSUME NEW r, Begin(t, r), UNCHANGED quotaVars PROVE Goal
    BY <1>1 DEF Begin
  <1>2. ASSUME NEW s, NEW actor, NEW spec, AskCreate(t, s, actor, spec) PROVE Goal
    <2> HIDE DEF Goal
    <2> QED
      BY <1>1, <1>2 DEF AskCreate, CreateRealtimeService, CreateFlashService, CreateSyouyuBucket, CreateVpc
  <1>3. ASSUME NEW s, NEW actor, NEW spec, AskUpdate(t, s, actor, spec) PROVE Goal
    <2> HIDE DEF Goal
    <2> QED
      BY <1>1, <1>3 DEF AskUpdate, UpdateRealtimeService, UpdateFlashService, UpdateSyouyuBucket, UpdateVpc
  <1>4. ASSUME NEW s, NEW actor, NEW op, SetFlashServiceExecution(t, s, actor, op) \/ DeleteService(t, s)
        PROVE  Goal
    <2> HIDE DEF Goal
    <2> QED
      BY <1>1, <1>4 DEF SetFlashServiceExecution, DeleteService
  <1>5. ASSUME NEW a, NEW u, NEW limits, NEW target,
               \/ UpdateOwnerQuotaDefaults(t, limits) \/ UpdateOwnerOrganizationQuota(t, a, limits)
               \/ UpdateMemberQuota(t, a, u, limits) \/ AssignQuotaResource(t, a, target, u)
        PROVE  Goal
    <2> HIDE DEF Goal
    <2> QED
      BY <1>1, <1>5 DEF UpdateOwnerQuotaDefaults, UpdateOwnerOrganizationQuota, UpdateMemberQuota,
                        AssignQuotaResource
  <1>6. ASSUME NEW users, ListGpus(t) \/ UpdateOwnerGpuAccess(t, users) PROVE Goal
    <2> HIDE DEF Goal
    <2> QED
      BY <1>1, <1>6 DEF ListGpus, UpdateOwnerGpuAccess
  <1> HIDE DEF Goal
  <1>7. Goal
    BY <1>2, <1>3, <1>4, <1>5, <1>6 DEF Ask
  <1> QED
    BY <1>7 DEF Goal

\* Under a session that has decided, its organization is quiet, unless the step is its own.
LEMMA OthersAreQuiet ==
    ASSUME IInv, [AllocationNext(Services, Accounts, ValidSpecs, Actors, Operations)]_allocationVars,
           NEW t \in Txns, txn'[t] # Idle, txn'[t].checked, txn'[t].req.op \in Tenant
    PROVE  \/ txn'[t] = txn[t] /\ Quiet(CloudOf[Subject(txn[t].req)])
           \/ Check(t)
  <1> DEFINE c == CloudOf[Subject(txn[t].req)]
             Goal == txn'[t] = txn[t] /\ Quiet(c)
  <1>1. txn = [u \in Txns |-> txn[u]]
    BY DEF IInv, SessionsAreValid
  <1>2. ASSUME UNCHANGED quotaVars PROVE Quiet(c)
    BY <1>2 DEF quotaVars, Quiet
  <1>3. ASSUME NEW u \in Txns, NEW new, new = Idle \/ ~new.checked, txn' = [txn EXCEPT ![u] = new]
        PROVE  t # u /\ txn'[t] = txn[t]
    BY <1>1, <1>3
  <1>4. CASE UNCHANGED allocationVars
    BY <1>2, <1>4 DEF allocationVars, quotaVars
  <1>5. ASSUME NEW u \in Txns, Ask(u, Services, Accounts, ValidSpecs, Actors, Operations)
        PROVE  Goal
    <2>1. UNCHANGED quotaVars /\ \E r : txn' = [txn EXCEPT ![u] = Begun(r)]
      BY <1>5, AskBegins
    <2>2. \A r : Begun(r).checked = FALSE
      BY DEF Begun
    <2> QED
      BY <1>2, <1>3, <2>1, <2>2
  <1>6. ASSUME NEW s \in Services, CompleteDelete(s)
        PROVE  Goal
    <2>1. /\ txn' = txn /\ UNCHANGED <<defaults, override, member, robot>>
          /\ svc[s] # Absent /\ svc[s].state = "deleting" /\ svc' = [svc EXCEPT ![s] = Absent]
      BY <1>6 DEF CompleteDelete, Present
    <2> QED
      BY <2>1, LimitTypes DEF Quiet
  <1>7. ASSUME NEW u \in Txns, FetchCatalogue(u)
        PROVE  Goal
    <2>1. /\ UNCHANGED quotaVars /\ txn[u] # Idle /\ txn[u].req.op = "sync"
          /\ txn' = [txn EXCEPT ![u] = [txn[u] EXCEPT !.req = [txn[u].req EXCEPT !.catalogue = access]]]
      BY <1>7 DEF FetchCatalogue
    <2>2. t # u
      <3>1. ASSUME t = u PROVE FALSE
        <4> DEFINE old == txn[u]
                   asked == [old.req EXCEPT !.catalogue = access]
                   new == [old EXCEPT !.req = asked]
        <4>1. ValidRequest(old.req)
          BY <2>1, SessionFields
        <4>2. old.req = [op |-> "sync", catalogue |-> old.req.catalogue, then |-> old.req.then]
          BY <2>1, <4>1 DEF ValidRequest
        <4>3. asked.op = "sync"
          BY <4>2
        <4>4. PICK q, h, k, p : old = [req |-> q, held |-> h, checked |-> k, spec |-> p]
          <5>1. old # Idle
            BY <2>1
          <5>2. old = [req |-> old.req, held |-> old.held, checked |-> old.checked, spec |-> old.spec]
            BY <5>1, SessionFields
          <5> QED
            BY <5>2, Zenon
        <4>5. txn' = [txn EXCEPT ![u] = new]
          BY <2>1, Zenon
        <4> HIDE DEF asked, old
        <4>6. new.req = asked
          BY <4>4
        <4> HIDE DEF new
        <4>7. txn'[u] = new
          BY <1>1, <4>5
        <4> QED
          BY <3>1, <4>3, <4>6, <4>7 DEF Tenant, OnService, OnAccount, Changes
      <3> QED
        BY <3>1
    <2> QED
      BY <1>1, <1>2, <2>1, <2>2
  <1>8. ASSUME NEW u \in Txns, TakeLock(u)
        PROVE  Goal
    <2>1. UNCHANGED quotaVars
      BY <1>8 DEF TakeLock
    <2>2. /\ txn'[u] # Idle => ~txn'[u].checked
          /\ \A w \in Txns \ {u} : txn'[w] = txn[w]
      BY <1>8, LockTaken DEF IInv
    <2> QED
      BY <1>2, <2>1, <2>2
  <1>9. ASSUME NEW u \in Txns, ProviderUnavailable(u) \/ Refuse(u)
        PROVE  Goal
    <2>1. UNCHANGED quotaVars /\ txn' = [txn EXCEPT ![u] = Idle]
      BY <1>9 DEF ProviderUnavailable, Refuse
    <2> QED
      BY <1>2, <1>3, <2>1
  <1>10. ASSUME NEW u \in Txns, Check(u), u # t
         PROVE  Goal
    <2>1. UNCHANGED quotaVars /\ \E new : txn' = [txn EXCEPT ![u] = new]
      BY <1>10 DEF Check
    <2> QED
      BY <1>1, <1>2, <1>10, <2>1
  <1>11. ASSUME NEW u \in Txns, CommitSync(u)
         PROVE  Goal
    <2>1. UNCHANGED <<svc, defaults, override, member, robot>>
      BY <1>11 DEF CommitSync
    <2>2. \E new : (new = Idle \/ \E r : new = Begun(r)) /\ txn' = [txn EXCEPT ![u] = new]
      <3> DEFINE next == txn[u].req.then
      <3>1. ValidThen(next)
        BY <1>11, SessionFields DEF CommitSync, Committing, ValidRequest
      <3>2. next.op \in {DisplayedOnly, "create", "update"}
        BY <3>1 DEF ValidThen
      <3> QED
        BY <1>11, <3>2 DEF CommitSync, DisplayedOnly
    <2>3. \A r : Begun(r).checked = FALSE
      BY DEF Begun
    <2> QED
      BY <1>3, <2>1, <2>2, <2>3 DEF Quiet
  <1>12. ASSUME NEW u \in Txns,
                \/ CommitCreate(u) \/ CommitChange(u) \/ BeginDelete(u) \/ CommitQuota(u)
                \/ CommitMemberQuota(u) \/ CommitAssign(u) \/ CommitDefaults(u)
         PROVE  Goal
    <2>1. Finished(u) /\ txn[u] # Idle /\ txn[u].checked
      BY <1>12 DEF CommitCreate, CommitChange, BeginDelete, CommitQuota, CommitMemberQuota, CommitAssign,
                   CommitDefaults, Committing
    <2>2. t # u /\ txn'[t] = txn[t]
      BY <1>3, <2>1 DEF Finished
    <2>3. AllHeld(t) /\ AllHeld(u)
      BY <2>1, <2>2, SessionFields DEF AllHeld
    <2>4. /\ txn[u].req.op \in Tenant => c # CloudOf[Subject(txn[u].req)]
          /\ txn[u].req.op # "defaults"
      BY <2>2, <2>3, CloudsDiffer
    <2>5. /\ ~CommitDefaults(u)
          /\ txn[u].req.op \in Tenant
      BY <1>12, <2>4 DEF CommitCreate, CommitChange, BeginDelete, CommitQuota, CommitMemberQuota, CommitAssign,
                   CommitDefaults, Committing, Tenant, OnService, OnAccount, Changes
    <2>6. Within(Subject(txn[u].req))
      BY <1>12, <2>1, <2>5, CommitsWithin
    <2>7. Quiet(c)
      BY <2>4, <2>5, <2>6 DEF Within, Quiet
    <2> QED
      BY <2>2, <2>7
  <1> HIDE DEF Goal
  <1>13. ASSUME NEW u \in Txns, Transact(u) PROVE Goal \/ Check(t)
    BY <1>7, <1>8, <1>9, <1>10, <1>11, <1>12, <1>13 DEF Transact
  <1> QED
    BY <1>4, <1>5, <1>6, <1>13 DEF AllocationNext, Goal
-----------------------------------------------------------------------------
(***************************************************************************)
(* Admissions                                                              *)
(***************************************************************************)
\* Limits in force are numbers.
LEMMA LimitsAreNumbers ==
    ASSUME IInv, NEW a \in Accounts, NEW p \in QuotaProviders
    PROVE  /\ ResourceQuota(a)[p].services \in Nat /\ ResourceQuota(a)[p].total \in Nat
           /\ CloudQuota(CloudOf[a])[p].services \in Nat /\ CloudQuota(CloudOf[a])[p].total \in Nat
           /\ \A u \in MembersOf[a] : /\ MemberQuota(a, u)[p].services \in Nat
                                      /\ MemberQuota(a, u)[p].total \in Nat
  <1>1. ASSUME NEW limits \in Limits
        PROVE  limits[p].services \in Nat /\ limits[p].total \in Nat
    BY QuotasAssumption DEF LimitsOf
  <1>2. ASSUME NEW b \in Accounts PROVE ResourceQuota(b) \in Limits
    BY LimitTypes DEF ResourceQuota
  <1>3. ManagementOf[CloudOf[a]] \in Accounts
    BY QuotasAssumption
  <1>4. ASSUME NEW u \in MembersOf[a]
        PROVE  MemberQuota(a, u)[p].services \in Nat /\ MemberQuota(a, u)[p].total \in Nat
    <2>1. CASE member[a][u] = NoLimit
      BY <1>1, <1>2, <2>1 DEF MemberQuota
    <2>2. CASE member[a][u] # NoLimit
      <3>1. member[a][u] \in Limits
        BY <2>2, LimitTypes
      <3> DEFINE x == ResourceQuota(a)[p]
                 y == member[a][u][p]
                 N == {"services", "each", "total"}
      <3>2. MemberQuota(a, u)[p] = [f \in N |-> Min({x[f], y[f]})]
        BY <2>2 DEF MemberQuota, CappedLimits
      <3>3. /\ x.services \in Nat /\ x.total \in Nat /\ y.services \in Nat /\ y.total \in Nat
        BY <1>1, <1>2, <3>1
      <3> HIDE DEF x, y
      <3>4. ASSUME NEW m \in Nat, NEW n \in Nat PROVE Min({m, n}) \in Nat
        BY MinIsMember
      <3>5. Min({x.services, y.services}) \in Nat /\ Min({x.total, y.total}) \in Nat
        BY <3>3, <3>4
      <3> QED
        BY <3>2, <3>5
    <2> QED
      BY <2>1, <2>2
  <1> QED
    BY <1>1, <1>2, <1>3, <1>4 DEF CloudQuota

\* Under a session that has decided, nothing is spent that it counts on.
LEMMA FundedSurvives ==
    ASSUME IInv, NEW s \in Services, NEW owner, NEW spec, spec.units \in Nat, Metered(s),
           Quiet(CloudOf[AccountOf[s]]), Live(s) \/ ~Present(s), Funded(s, owner, spec)
    PROVE  Funded(s, owner, spec)'
  <1> DEFINE a == AccountOf[s]
             c == CloudOf[a]
             p == ProviderOf[s]
  <1>1. a \in Accounts /\ p \in QuotaProviders /\ ManagementOf[c] \in Accounts /\ CloudOf[ManagementOf[c]] = c
    BY QuotasAssumption DEF Metered
  <1>2. svc'[s] = svc[s]
    BY DEF Quiet, Live, Present
  <1>3. /\ ResourceQuota(a)' = ResourceQuota(a) /\ CloudQuota(c)' = CloudQuota(c)
        /\ MemberQuota(a, owner)' = MemberQuota(a, owner)
    BY <1>1 DEF Quiet, ResourceQuota, CloudQuota, MemberQuota
  <1>4. \A R : UnitsOf(R) = Counted(svc, R) /\ UnitsOf(R)' = Counted(svc', R)
    BY DEF UnitsOf, Counted
  <1>5. ASSUME NEW S \in SUBSET Services, NEW T \in SUBSET S, Rows(svc, S),
               \A q \in T : svc'[q].spec.units = svc[q].spec.units,
               NEW limits, limits.services \in Nat, limits.total \in Nat, Room(S, s, spec, limits)
        PROVE  Room(T, s, spec, limits)'
    <2>1. /\ S \ {s} \in SUBSET Services /\ T \ {s} \in SUBSET (S \ {s}) /\ Rows(svc, S \ {s})
          /\ \A q \in T \ {s} : svc'[q].spec.units = svc[q].spec.units
      BY <1>5 DEF Rows
    <2>2. /\ Cardinality(S \ {s}) + 1 <= limits.services => Cardinality(T \ {s}) + 1 <= limits.services
          /\ Cardinality(Counted(svc, S \ {s})) + spec.units <= limits.total
                => Cardinality(Counted(svc', T \ {s})) + spec.units <= limits.total
      BY <1>5, <2>1, RoomRemains
    <2>3. UnitsOf(S \ {s}) = Counted(svc, S \ {s}) /\ UnitsOf(T \ {s})' = Counted(svc', T \ {s})
      BY <1>4
    <2>4. /\ Live(s) \/ Cardinality(S \ {s}) + 1 <= limits.services
          /\ \/ Live(s) /\ spec.units <= svc[s].spec.units
             \/ Cardinality(UnitsOf(S \ {s})) + spec.units <= limits.total
      BY <1>5 DEF Room
    <2>5. Live(s)' <=> Live(s)
      BY <1>2 DEF Live, Present
    <2> QED
      BY <1>2, <2>2, <2>3, <2>4, <2>5 DEF Room
  <1>6. ASSUME NEW S \in SUBSET Services, \A q \in S : svc[q] # Absent
        PROVE  Rows(svc, S)
    BY <1>6, LimitTypes DEF Rows, Row, SpecOf
  <1>7. \A q \in Services : CloudOf[AccountOf[q]] = c =>
          \/ svc'[q] = svc[q]
          \/ svc[q] # Absent /\ svc[q].state = "deleting" /\ svc'[q] = Absent
    BY DEF Quiet
  <1>8. Room(Allocated(a, p), s, spec, ResourceQuota(a)[p])'
    <2>1. PICK S, limits : S = Allocated(a, p) /\ limits = ResourceQuota(a)[p]
      OBVIOUS
    <2>2. Allocated(a, p)' = S
      BY <1>7, <2>1 DEF Allocated, Live, Present
    <2>3. /\ S \in SUBSET Services /\ \A q \in S : svc[q] # Absent
          /\ \A q \in S : svc'[q].spec.units = svc[q].spec.units
      BY <1>7, <2>1 DEF Allocated, Live, Present
    <2>4. limits.services \in Nat /\ limits.total \in Nat /\ Room(S, s, spec, limits)
      BY <1>1, <2>1, LimitsAreNumbers DEF Funded
    <2>5. Room(S, s, spec, limits)'
      BY <1>5, <1>6, <2>3, <2>4
    <2> QED
      BY <1>3, <2>1, <2>2, <2>5 DEF Room
  <1>9. ASSUME ServiceQuotasEnabled
        PROVE  Room(CloudAllocated(c, p), s, spec, CloudQuota(c)[p])'
    <2>1. PICK S, T, limits : S = CloudAllocated(c, p) /\ T = CloudAllocated(c, p)' /\ limits = CloudQuota(c)[p]
      OBVIOUS
    <2>2. /\ S \in SUBSET Services /\ \A q \in S : svc[q] # Absent
          /\ T \in SUBSET S
          /\ \A q \in T : svc'[q].spec.units = svc[q].spec.units
      BY <1>7, <2>1 DEF CloudAllocated, Present
    <2>3. limits.services \in Nat /\ limits.total \in Nat /\ Room(S, s, spec, limits)
      BY <1>1, <1>9, <2>1, LimitsAreNumbers DEF Funded
    <2>4. Room(T, s, spec, limits)'
      BY <1>5, <1>6, <2>2, <2>3
    <2> QED
      BY <1>3, <2>1, <2>4 DEF Room
  <1>10. ASSUME owner \in MembersOf[a]
         PROVE  Room(OwnedBy(a, p, owner), s, spec, MemberQuota(a, owner)[p])'
    <2>1. PICK S, limits : S = OwnedBy(a, p, owner) /\ limits = MemberQuota(a, owner)[p]
      OBVIOUS
    <2>2. OwnedBy(a, p, owner)' = S
      BY <1>7, <2>1 DEF OwnedBy, Allocated, Live, Present
    <2>3. /\ S \in SUBSET Services /\ \A q \in S : svc[q] # Absent
          /\ \A q \in S : svc'[q].spec.units = svc[q].spec.units
      BY <1>7, <2>1 DEF OwnedBy, Allocated, Live, Present
    <2>4. limits.services \in Nat /\ limits.total \in Nat /\ Room(S, s, spec, limits)
      BY <1>1, <1>10, <2>1, LimitsAreNumbers DEF Funded
    <2>5. Room(S, s, spec, limits)'
      BY <1>5, <1>6, <2>3, <2>4
    <2> QED
      BY <1>3, <2>1, <2>2, <2>5 DEF Room
  <1> QED
    BY <1>8, <1>9, <1>10 DEF Funded

\* What the checks let pass has room.
LEMMA SpendingIsFunded ==
    ASSUME IInv, NEW s \in Services, Metered(s), NEW person, NEW asked, Fits(s, asked),
           NEW spec \in Prepared(s, person, asked), NEW owner, NEW reduction,
           MaySpend(s, owner, spec, reduction)
    PROVE  Funded(s, owner, spec)
  <1> DEFINE a == AccountOf[s]
             c == CloudOf[a]
             p == ProviderOf[s]
  <1>1. a \in Accounts /\ p \in QuotaProviders
    BY QuotasAssumption DEF Metered
  <1>2. ASSUME NEW S \in SUBSET Services, \A q \in S : svc[q] # Absent
        PROVE  Rows(svc, S)
    BY <1>2, LimitTypes DEF Rows, Row, SpecOf
  <1>3. Live(s) => svc[s].spec.units \in 1 .. MaxUnits
    BY LimitTypes DEF Live, Present, Row, SpecOf
  <1>4. spec.units = asked.units /\ AccountAdmits(s, asked)
    <2>1. CASE p = "flow"
      BY <2>1 DEF Prepared, PrepareFlowSpec
    <2>2. CASE p = "syouyu"
      BY <2>2 DEF Prepared, PrepareSyouyuSpec
    <2>3. CASE p = "flash"
      <3>1. spec \in PrepareFlashSpec(s, person, asked)
        BY <2>3 DEF Prepared
      <3>2. AccountAdmits(s, asked) /\ \E port : spec = [asked EXCEPT !.port = port]
        BY <3>1 DEF PrepareFlashSpec
      <3> QED
        BY <3>2 DEF Fits, SpecOf
    <2> QED
      BY <1>1, <2>1, <2>2, <2>3 DEF QuotaProviders
  <1>5. spec.units \in Nat
    BY <1>4, QuotasAssumption DEF Fits, SpecOf
  <1>6. Room(Allocated(a, p), s, spec, ResourceQuota(a)[p])
    <2> DEFINE S == Allocated(a, p)
    <2>1. /\ Cardinality(S \ {s}) + 1 <= ResourceQuota(a)[p].services
          /\ Cardinality(UnitsOf(S \ {s})) + spec.units <= ResourceQuota(a)[p].total
      BY <1>4 DEF AccountAdmits, Usage
    <2> HIDE DEF S
    <2> QED
      BY <2>1 DEF Room, S
  <1>7. ASSUME ServiceQuotasEnabled
        PROVE  Room(CloudAllocated(c, p), s, spec, CloudQuota(c)[p])
    <2> DEFINE S == CloudAllocated(c, p)
               limits == CloudQuota(c)[p]
               previous == IF reduction /\ Live(s) THEN {s} ELSE {}
    <2>1. ~Exceeds(S, s, spec, limits, previous)
      BY <1>7 DEF MaySpend, CloudAdmits
    <2>2. limits.services \in Nat /\ limits.total \in Nat
      BY <1>1, LimitsAreNumbers
    <2>3. S \in SUBSET Services /\ \A q \in S : svc[q] # Absent
      BY DEF CloudAllocated, Present
    <2>4. previous = {} \/ (previous = {s} /\ Live(s))
      OBVIOUS
    <2> HIDE DEF S, limits, previous
    <2>5. Room(S, s, spec, limits)
      BY <1>2, <1>3, <1>5, <2>1, <2>2, <2>3, <2>4, NotExceeding
    <2> QED
      BY <2>5 DEF S, limits
  <1>8. ASSUME owner \in MembersOf[a]
        PROVE  Room(OwnedBy(a, p, owner), s, spec, MemberQuota(a, owner)[p])
    <2> DEFINE S == OwnedBy(a, p, owner)
               limits == MemberQuota(a, owner)[p]
               previous == IF reduction THEN S \cap {s} ELSE {}
    <2>1. owner # NoUser
      BY <1>1, <1>8, QuotasAssumption
    <2>2. ~Exceeds(S, s, spec, limits, previous)
      BY <2>1 DEF MaySpend, MemberAdmits
    <2>3. limits.services \in Nat /\ limits.total \in Nat
      BY <1>1, <1>8, LimitsAreNumbers
    <2>4. S \in SUBSET Services /\ \A q \in S : svc[q] # Absent /\ Live(q)
      BY DEF OwnedBy, Allocated, Live, Present
    <2>5. previous = {} \/ (previous = {s} /\ Live(s))
      BY <2>4
    <2> HIDE DEF S, limits, previous
    <2>6. Room(S, s, spec, limits)
      BY <1>2, <1>3, <1>5, <2>2, <2>3, <2>4, <2>5, NotExceeding
    <2> QED
      BY <2>6 DEF S, limits
  <1> QED
    BY <1>6, <1>7, <1>8 DEF Funded

\* Whatever the store accepts under its locks is funded.
LEMMA AcceptedIsFunded ==
    ASSUME IInv, NEW r, ValidRequest(r), r.op \in Changes, Metered(r.svc), NEW spec \in Accepted(r)
    PROVE  Funded(r.svc, ChargedTo(r), spec)
  <1> USE DEF Changes, OnService
  <1> DEFINE s == r.svc
  <1>1. s \in Services /\ RowsAreSound
    BY DEF ValidRequest, IInv
  <1>2. CASE r.op = "create"
    <2>1. spec \in Prepared(s, r.person, r.spec) /\ MaySpend(s, r.owner, spec, FALSE)
      BY <1>2 DEF Accepted, CreateAccepted
    <2>2. Fits(s, r.spec) /\ ChargedTo(r) = r.owner
      BY <1>2 DEF ValidRequest, ChargedTo
    <2> QED
      BY <1>1, <2>1, <2>2, SpendingIsFunded
  <1>3. CASE r.op = "update"
    <2> DEFINE starting == svc[s].spec.stopped /\ ~r.spec.stopped
    <2>1. spec \in UpdateAccepted(r)
      BY <1>3 DEF Accepted
    <2>2. spec \in Prepared(s, r.person, r.spec) /\ MaySpend(s, svc[s].owner, spec, ~starting)
      BY <2>1 DEF UpdateAccepted
    <2>3. Fits(s, r.spec) /\ ChargedTo(r) = svc[s].owner
      BY <1>3 DEF ValidRequest, ChargedTo
    <2> HIDE DEF starting
    <2> QED
      BY <1>1, <2>2, <2>3, SpendingIsFunded
  <1>4. CASE r.op = "start"
    <2> DEFINE asked == [svc[s].spec EXCEPT !.stopped = FALSE]
    <2>1. Live(s) /\ spec \in StartAccepted(r)
      BY <1>4 DEF Accepted, StartAccepted
    <2>2. spec \in Prepared(s, r.person, asked) /\ MaySpend(s, svc[s].owner, spec, FALSE)
      BY <2>1 DEF StartAccepted
    <2>3. Fits(s, svc[s].spec) /\ ChargedTo(r) = svc[s].owner
      BY <1>1, <1>4, <2>1 DEF RowsAreSound, RowsFit, Live, ChargedTo
    <2>4. Fits(s, asked)
      BY <2>3 DEF Fits, SpecOf, TakesPort
    <2> HIDE DEF asked
    <2> QED
      BY <1>1, <2>2, <2>3, <2>4, SpendingIsFunded
  <1>5. CASE r.op = "stop"
    <2> DEFINE own == svc[s].spec
    <2>1. Live(s) /\ spec = [own EXCEPT !.stopped = TRUE]
      BY <1>5 DEF Accepted, StopAccepted
    <2>2. Fits(s, own)
      BY <1>1, <2>1 DEF RowsAreSound, RowsFit, Live
    <2>3. own.units \in Nat /\ spec.units = own.units
      BY <2>1, <2>2, QuotasAssumption DEF Fits, SpecOf
    <2>4. spec.units <= svc[s].spec.units
      BY <2>3
    <2> QED
      BY <2>1, <2>4 DEF Funded, Room
  <1> QED
    BY <1>2, <1>3, <1>4, <1>5

\* A decision is written down next to its request.
LEMMA CheckWrites ==
    ASSUME IInv, NEW t \in Txns, Check(t)
    PROVE  /\ UNCHANGED quotaVars /\ txn[t] # Idle
           /\ txn'[t].req = txn[t].req /\ txn'[t].spec \in Accepted(txn[t].req)
  <1> DEFINE old == txn[t]
  <1>1. UNCHANGED quotaVars /\ old # Idle
    BY DEF Check, AllHeld
  <1>2. PICK spec \in Accepted(old.req) :
          txn' = [txn EXCEPT ![t] = [old EXCEPT !.checked = TRUE, !.spec = spec]]
    BY DEF Check
  <1> DEFINE new == [old EXCEPT !.checked = TRUE, !.spec = spec]
  <1>3. new = [req |-> old.req, held |-> old.held, checked |-> TRUE, spec |-> spec]
    <2>1. PICK q, h, c, p : old = [req |-> q, held |-> h, checked |-> c, spec |-> p]
      BY <1>1, SessionFields
    <2> DEFINE yes == TRUE
               mid == [old EXCEPT !.checked = yes]
    <2>2. new = [mid EXCEPT !.spec = spec]
      BY Zenon
    <2> HIDE DEF old, yes, new
    <2>3. mid = [req |-> old.req, held |-> old.held, checked |-> yes, spec |-> p]
      BY <2>1
    <2> HIDE DEF mid
    <2>4. [mid EXCEPT !.spec = spec]
            = [req |-> old.req, held |-> old.held, checked |-> yes, spec |-> spec]
      BY <2>3
    <2> QED
      BY <2>2, <2>4, Zenon DEF yes
  <1>4. new.req = old.req /\ new.spec = spec
    BY <1>3
  <1> HIDE DEF new
  <1>5. txn' = [txn EXCEPT ![t] = new] /\ txn = [u \in Txns |-> txn[u]]
    BY <1>2 DEF new, IInv, SessionsAreValid
  <1>6. txn'[t] = new
    BY <1>5
  <1> QED
    BY <1>1, <1>4, <1>6

\* What an admission is about is in the tables of services and limits.
LEMMA FundedIsAboutTables ==
    ASSUME UNCHANGED quotaVars, NEW s, NEW owner, NEW spec, Funded(s, owner, spec)
    PROVE  Funded(s, owner, spec)'
  <1>1. UNCHANGED <<svc, defaults, override, member>>
    BY DEF quotaVars
  <1>2. \A a, p, u, c : /\ Allocated(a, p)' = Allocated(a, p) /\ OwnedBy(a, p, u)' = OwnedBy(a, p, u)
                        /\ CloudAllocated(c, p)' = CloudAllocated(c, p)
    BY <1>1 DEF Allocated, OwnedBy, CloudAllocated, Live, Present
  <1>3. \A a, u, c : /\ ResourceQuota(a)' = ResourceQuota(a) /\ CloudQuota(c)' = CloudQuota(c)
                     /\ MemberQuota(a, u)' = MemberQuota(a, u)
    BY <1>1 DEF ResourceQuota, CloudQuota, MemberQuota
  <1>4. ASSUME NEW S, NEW limits, Room(S, s, spec, limits)
        PROVE  Room(S, s, spec, limits)'
    BY <1>1, <1>4 DEF Room, UnitsOf, Live, Present
  <1> DEFINE a == AccountOf[s]
             c == CloudOf[a]
             p == ProviderOf[s]
  <1>5. Room(Allocated(a, p), s, spec, ResourceQuota(a)[p])'
    <2>1. PICK S, limits : S = Allocated(a, p) /\ limits = ResourceQuota(a)[p]
      OBVIOUS
    <2>2. Room(S, s, spec, limits)'
      BY <1>4, <2>1 DEF Funded
    <2> QED
      BY <1>2, <1>3, <2>1, <2>2 DEF Room
  <1>6. ASSUME ServiceQuotasEnabled
        PROVE  Room(CloudAllocated(c, p), s, spec, CloudQuota(c)[p])'
    <2>1. PICK S, limits : S = CloudAllocated(c, p) /\ limits = CloudQuota(c)[p]
      OBVIOUS
    <2>2. Room(S, s, spec, limits)'
      BY <1>4, <1>6, <2>1 DEF Funded
    <2> QED
      BY <1>2, <1>3, <2>1, <2>2 DEF Room
  <1>7. ASSUME owner \in MembersOf[a]
        PROVE  Room(OwnedBy(a, p, owner), s, spec, MemberQuota(a, owner)[p])'
    <2>1. PICK S, limits : S = OwnedBy(a, p, owner) /\ limits = MemberQuota(a, owner)[p]
      OBVIOUS
    <2>2. Room(S, s, spec, limits)'
      BY <1>4, <1>7, <2>1 DEF Funded
    <2> QED
      BY <1>2, <1>3, <2>1, <2>2 DEF Room
  <1> QED
    BY <1>5, <1>6, <1>7 DEF Funded

\* An admission stands until it is committed.
LEMMA AdmissionStep ==
    ASSUME IInv, AdmissionsStand,
           [AllocationNext(Services, Accounts, ValidSpecs, Actors, Operations)]_allocationVars
    PROVE  AdmissionsStand'
  <1> SUFFICES ASSUME NEW t \in Txns, txn'[t] # Idle, txn'[t].checked, txn'[t].req.op \in Changes,
                      Metered(txn'[t].req.svc)
               PROVE  Funded(txn[t].req.svc, ChargedTo(txn[t].req), txn[t].spec)'
    BY DEF AdmissionsStand, Metered
  <1>1. CASE Check(t)
    <2>1. /\ UNCHANGED quotaVars /\ txn[t] # Idle /\ ValidRequest(txn[t].req)
          /\ txn'[t].req = txn[t].req /\ txn'[t].spec \in Accepted(txn[t].req)
      BY <1>1, CheckWrites, SessionFields
    <2>2. PICK r, spec, owner : r = txn[t].req /\ spec = txn'[t].spec /\ owner = ChargedTo(txn[t].req)
      OBVIOUS
    <2>3. Funded(r.svc, owner, spec)
      BY <2>1, <2>2, AcceptedIsFunded
    <2>4. Funded(r.svc, owner, spec)'
      BY <2>1, <2>3, FundedIsAboutTables
    <2>5. ChargedTo(txn[t].req)' = owner
      BY <2>1, <2>2 DEF ChargedTo, quotaVars
    <2> QED
      BY <2>1, <2>2, <2>4, <2>5
  <1>2. CASE txn'[t] = txn[t] /\ Quiet(CloudOf[Subject(txn[t].req)])
    <2>1. PICK r, spec, owner : r = txn[t].req /\ spec = txn[t].spec /\ owner = ChargedTo(txn[t].req)
      OBVIOUS
    <2>2. ValidRequest(r) /\ RequestStands(r, spec)
      BY <1>2, <2>1, SessionFields
    <2>3. r.svc \in Services /\ Subject(r) = AccountOf[r.svc] /\ r.op \in Changes /\ Metered(r.svc)
      BY <1>2, <2>1, <2>2 DEF ValidRequest, Subject, OnService
    <2>4. spec.units \in Nat /\ (Live(r.svc) \/ ~Present(r.svc))
      BY <2>2, <2>3, QuotasAssumption DEF RequestStands, ChangeStands, Fits, SpecOf, OnService, Changes
    <2>5. Funded(r.svc, owner, spec)
      BY <1>2, <2>1 DEF AdmissionsStand
    <2>6. Quiet(CloudOf[AccountOf[r.svc]])
      BY <1>2, <2>1, <2>3
    <2>7. Funded(r.svc, owner, spec)'
      BY <2>3, <2>4, <2>5, <2>6, FundedSurvives
    <2>8. svc'[r.svc] = svc[r.svc]
      BY <2>3, <2>4, <2>6 DEF Quiet, Live, Present
    <2>9. ChargedTo(txn[t].req)' = owner
      BY <1>2, <2>1, <2>8 DEF ChargedTo
    <2> QED
      BY <1>2, <2>1, <2>7, <2>9
  <1> QED
    BY <1>1, <1>2, OthersAreQuiet DEF Tenant, OnService

LEMMA AdmissionInvariance == AllocationSpec => [](IInv /\ AdmissionsStand)
  <1>1. AllocationInit => AdmissionsStand
    BY DEF AllocationInit, AdmissionsStand
  <1> QED
    BY <1>1, InitIsSound, StepIsSound, AdmissionStep, PTL DEF AllocationSpec

-----------------------------------------------------------------------------
(***************************************************************************)
(* Grants                                                                  *)
(***************************************************************************)
\* Where others have only gone, the same request exceeds nothing new.
LEMMA ExceedsSurvives ==
    ASSUME NEW S \in SUBSET Services, NEW T \in SUBSET S, Rows(svc, S),
           \A q \in T : svc'[q].spec.units = svc[q].spec.units,
           NEW s \in Services, svc'[s] = svc[s], NEW x, NEW y, y.units = x.units, x.units \in Nat,
           NEW limits, limits.services \in Nat, limits.total \in Nat,
           NEW previous, previous = {} \/ (previous = {s} /\ svc[s].spec.units \in 1 .. MaxUnits),
           ~Exceeds(S, s, x, limits, previous)
    PROVE  ~Exceeds(T, s, y, limits, previous)'
  <1> DEFINE n == Cardinality(S \ {s})
             c == Cardinality(Counted(svc, S \ {s}))
             m == Cardinality(T \ {s})
             d == Cardinality(Counted(svc', T \ {s}))
             old == Cardinality(Counted(svc, previous))
             new == Cardinality(Counted(svc', previous))
             reducible == previous # {}
  <1>1. \A R : UnitsOf(R) = Counted(svc, R) /\ UnitsOf(R)' = Counted(svc', R)
    BY DEF UnitsOf, Counted
  <1>2. /\ S \ {s} \in SUBSET Services /\ Rows(svc, S \ {s})
        /\ T \ {s} \in SUBSET (S \ {s}) /\ \A q \in T \ {s} : svc'[q].spec.units = svc[q].spec.units
    BY DEF Rows
  <1>3. n \in Nat /\ c \in Nat
    BY <1>2, CountedFinite
  <1>4. m \in Nat /\ d \in Nat
    <2>1. T \ {s} \in SUBSET Services /\ Rows(svc', T \ {s})
      BY <1>2 DEF Rows
    <2> QED
      BY <2>1, CountedFinite
  <1>5. m <= n /\ d <= c
    <2>1. Counted(svc', T \ {s}) = Counted(svc, T \ {s})
      BY <1>2, CountedSame
    <2>2. /\ Cardinality(Counted(svc, T \ {s})) <= c /\ m <= n
      BY <1>2, CountedSmaller
    <2>3. d = Cardinality(Counted(svc, T \ {s}))
      BY <2>1, Zenon
    <2> HIDE DEF c, d
    <2> QED
      BY <2>2, <2>3
  <1>6. old \in Nat /\ new = old
    <2>1. \A q \in previous : svc'[q].spec.units = svc[q].spec.units
      OBVIOUS
    <2>2. Counted(svc', previous) = Counted(svc, previous)
      BY <2>1, CountedSame
    <2>3. previous \in SUBSET Services /\ Rows(svc, previous)
      BY DEF Rows
    <2>4. Cardinality(Counted(svc, previous)) \in Nat
      BY <2>3, CountedFinite
    <2> QED
      BY <2>2, <2>4, Zenon
  <1>7. /\ ~Over(n + 1, limits.services, n + 1, reducible)
        /\ ~Over(c + x.units, limits.total, c + old, reducible)
        /\ ~Over(x.units, limits.each, old, reducible)
    <2>1. Cardinality(UnitsOf(S \ {s})) = c /\ Cardinality(UnitsOf(previous)) = old
      BY <1>1, Zenon
    <2>2. Usage(S \ {s}).services = n /\ Usage(S \ {s}).total = c
      BY <2>1 DEF Usage
    <2> HIDE DEF n, c, old
    <2> QED
      BY <2>1, <2>2 DEF Exceeds
  <1>8. Exceeds(T, s, y, limits, previous)' =>
          \/ Over(m + 1, limits.services, m + 1, reducible)
          \/ Over(d + y.units, limits.total, d + new, reducible)
          \/ Over(y.units, limits.each, new, reducible)
    <2>1. Cardinality(UnitsOf(T \ {s}))' = d /\ Cardinality(UnitsOf(previous))' = new
      BY <1>1, Zenon
    <2>2. Usage(T \ {s})'.services = m /\ Usage(T \ {s})'.total = d
      BY <2>1 DEF Usage
    <2> HIDE DEF m, d, new
    <2> QED
      BY <2>1, <2>2 DEF Exceeds, Over
  <1> DEFINE k == x.units
             most == limits.services
             total == limits.total
  <1>9. k \in Nat /\ y.units = k /\ most \in Nat /\ total \in Nat
    OBVIOUS
  <1> HIDE DEF n, c, m, d, old, new, reducible
  <1>10. ~Over(y.units, limits.each, new, reducible)
    BY <1>6, <1>7
  <1> HIDE DEF k, most, total
  <1>11. ~Over(m + 1, most, m + 1, reducible)
    BY <1>3, <1>4, <1>5, <1>7, <1>9 DEF Over, most
  <1>12. ~Over(d + k, total, d + new, reducible)
    <2>1. ~Over(c + k, total, c + old, reducible)
      BY <1>7 DEF k, total
    <2> QED
      BY <1>3, <1>4, <1>5, <1>6, <1>9, <2>1 DEF Over
  <1> QED
    BY <1>8, <1>9, <1>10, <1>11, <1>12 DEF most, total

\* Rows that count the same are used the same.
LEMMA UsageSame ==
    ASSUME NEW S, \A q \in S : svc'[q].spec.units = svc[q].spec.units
    PROVE  Usage(S)' = Usage(S) /\ Cardinality(UnitsOf(S))' = Cardinality(UnitsOf(S))
  <1>1. Counted(svc', S) = Counted(svc, S)
    BY CountedSame
  <1>2. UnitsOf(S) = Counted(svc, S) /\ UnitsOf(S)' = Counted(svc', S)
    BY DEF UnitsOf, Counted
  <1>3. UnitsOf(S)' = UnitsOf(S)
    BY <1>1, <1>2
  <1> QED
    BY <1>3, Zenon DEF Usage

\* What a quiet organization leaves alone.
LEMMA QuietTables ==
    ASSUME IInv, NEW s \in Services, Quiet(CloudOf[AccountOf[s]]), Live(s) \/ ~Present(s)
    PROVE  /\ svc'[s] = svc[s]
           /\ ResourceQuota(AccountOf[s])' = ResourceQuota(AccountOf[s])
           /\ CloudQuota(CloudOf[AccountOf[s]])' = CloudQuota(CloudOf[AccountOf[s]])
           /\ \A u : MemberQuota(AccountOf[s], u)' = MemberQuota(AccountOf[s], u)
           /\ HasMemberLimits(AccountOf[s])' <=> HasMemberLimits(AccountOf[s])
           /\ \A p : Allocated(AccountOf[s], p)' = Allocated(AccountOf[s], p)
           /\ \A p, u : OwnedBy(AccountOf[s], p, u)' = OwnedBy(AccountOf[s], p, u)
           /\ \A p, q : q \in Allocated(AccountOf[s], p) => svc'[q] = svc[q]
  <1> DEFINE a == AccountOf[s]
             c == CloudOf[a]
  <1>1. a \in Accounts /\ ManagementOf[c] \in Accounts /\ CloudOf[ManagementOf[c]] = c
    BY QuotasAssumption
  <1>2. svc'[s] = svc[s]
    BY DEF Quiet, Live, Present
  <1>3. /\ ResourceQuota(a)' = ResourceQuota(a) /\ CloudQuota(c)' = CloudQuota(c)
        /\ \A u : MemberQuota(a, u)' = MemberQuota(a, u)
    BY <1>1 DEF Quiet, ResourceQuota, CloudQuota, MemberQuota
  <1>4. HasMemberLimits(a)' <=> HasMemberLimits(a)
    BY <1>1 DEF Quiet, HasMemberLimits
  <1>5. \A q \in Services : CloudOf[AccountOf[q]] = c =>
          \/ svc'[q] = svc[q]
          \/ svc[q] # Absent /\ svc[q].state = "deleting" /\ svc'[q] = Absent
    BY DEF Quiet
  <1>6. ASSUME NEW p
        PROVE  Allocated(a, p)' = Allocated(a, p) /\ \A q \in Allocated(a, p) : svc'[q] = svc[q]
    BY <1>5 DEF Allocated, Live, Present
  <1>7. ASSUME NEW p, NEW u
        PROVE  OwnedBy(a, p, u)' = OwnedBy(a, p, u)
    BY <1>6 DEF OwnedBy
  <1> QED
    BY <1>2, <1>3, <1>4, <1>6, <1>7

\* The account admits what it has admitted.
LEMMA AccountStillAdmits ==
    ASSUME IInv, NEW s \in Services, Quiet(CloudOf[AccountOf[s]]), Live(s) \/ ~Present(s),
           NEW spec, AccountAdmits(s, spec)
    PROVE  AccountAdmits(s, spec)'
  <1> DEFINE p == ProviderOf[s]
             S == Allocated(AccountOf[s], p)
  <1>1. PICK limits, R : limits = ResourceQuota(AccountOf[s])[p] /\ R = S \ {s}
    OBVIOUS
  <1>2. \A q \in R : svc'[q].spec.units = svc[q].spec.units
    BY <1>1, QuietTables
  <1>3. Usage(R)' = Usage(R)
    BY <1>2, UsageSame
  <1>4. ResourceQuota(AccountOf[s])'[p] = limits /\ Allocated(AccountOf[s], p)' \ {s} = R
    BY <1>1, QuietTables
  <1>5. Usage(Allocated(AccountOf[s], p) \ {s})' = Usage(R)
    BY <1>3, <1>4 DEF Usage, UnitsOf
  <1>6. Usage(Allocated(AccountOf[s], p) \ {s}) = Usage(R)
    BY <1>1
  <1> QED
    BY <1>1, <1>4, <1>5, <1>6 DEF AccountAdmits

\* What may be spent may be spent still, and the port does not matter.
LEMMA StillMaySpend ==
    ASSUME IInv, NEW s \in Services, Quiet(CloudOf[AccountOf[s]]), Live(s) \/ ~Present(s),
           NEW x, NEW y, x.units \in Nat, x.vpc \in Services \cup {NoVpc},
           y.units = x.units, y.vpc = x.vpc, y.groups = x.groups,
           NEW owner, NEW reduction, MaySpend(s, owner, x, reduction)
    PROVE  MaySpend(s, owner, y, reduction)'
  <1> DEFINE a == AccountOf[s]
             c == CloudOf[a]
             p == ProviderOf[s]
  <1>1. a \in Accounts /\ svc'[s] = svc[s]
    BY QuotasAssumption, QuietTables
  <1>2. ASSUME Metered(s), ServiceQuotasEnabled
        PROVE  CloudAdmits(s, y, reduction)'
    <2>1. PICK S, T, limits, previous :
            /\ S = CloudAllocated(c, p) /\ T = CloudAllocated(c, p)' /\ limits = CloudQuota(c)[p]
            /\ previous = IF reduction /\ Live(s) THEN {s} ELSE {}
      OBVIOUS
    <2>2. /\ S \in SUBSET Services /\ \A q \in S : svc[q] # Absent
          /\ T \in SUBSET S
          /\ \A q \in T : svc'[q].spec.units = svc[q].spec.units
      BY <2>1 DEF CloudAllocated, Present, Quiet
    <2>3. Rows(svc, S) /\ (Live(s) => svc[s].spec.units \in 1 .. MaxUnits)
      BY <2>2, LimitTypes DEF Rows, Row, SpecOf, Live, Present
    <2>4. limits.services \in Nat /\ limits.total \in Nat
      BY <1>1, <1>2, <2>1, LimitsAreNumbers DEF Metered
    <2>5. ~Exceeds(S, s, x, limits, previous)
      BY <1>2, <2>1 DEF MaySpend, CloudAdmits
    <2>6. previous = {} \/ (previous = {s} /\ svc[s].spec.units \in 1 .. MaxUnits)
      BY <2>1, <2>3
    <2>7. ~Exceeds(T, s, y, limits, previous)'
      BY <1>1, <2>2, <2>3, <2>4, <2>5, <2>6, ExceedsSurvives
    <2>8. CloudQuota(c)'[p] = limits /\ (IF reduction /\ Live(s)' THEN {s} ELSE {}) = previous
      BY <1>1, <2>1, QuietTables DEF Live, Present
    <2>9. Exceeds(CloudAllocated(c, p), s, y, CloudQuota(c)[p], IF reduction /\ Live(s) THEN {s} ELSE {})'
             => Exceeds(T, s, y, limits, previous)'
      BY <2>1, <2>8 DEF Exceeds, Usage, UnitsOf
    <2> QED
      BY <2>7, <2>9 DEF CloudAdmits
  <1>3. ASSUME Metered(s), owner # NoUser
        PROVE  MemberAdmits(s, owner, y, reduction)'
    <2>1. PICK S, limits, previous :
            /\ S = OwnedBy(a, p, owner) /\ limits = MemberQuota(a, owner)[p]
            /\ previous = IF reduction THEN S \cap {s} ELSE {}
      OBVIOUS
    <2>2. \A q \in S : svc'[q] = svc[q]
      BY <2>1, QuietTables DEF OwnedBy
    <2>3. /\ Usage(S \ {s})' = Usage(S \ {s})
          /\ Cardinality(UnitsOf(previous))' = Cardinality(UnitsOf(previous))
      <3>1. /\ \A q \in S \ {s} : svc'[q].spec.units = svc[q].spec.units
            /\ \A q \in previous : svc'[q].spec.units = svc[q].spec.units
        BY <2>1, <2>2
      <3> QED
        BY <3>1, UsageSame
    <2>4. ~Exceeds(S, s, x, limits, previous)
      BY <1>3, <2>1 DEF MaySpend, MemberAdmits
    <2>5. ~Exceeds(S, s, y, limits, previous)'
      BY <2>3, <2>4 DEF Exceeds
    <2>6. OwnedBy(a, p, owner)' = S /\ MemberQuota(a, owner)'[p] = limits
      BY <2>1, QuietTables
    <2>7. MemberAdmits(s, owner, y, reduction)' <=> ~Exceeds(S, s, y, limits, previous)'
      BY <2>1, <2>6 DEF MemberAdmits, Exceeds, Usage, UnitsOf
    <2> QED
      BY <2>5, <2>7
  <1>4. ASSUME p = "flash"
        PROVE  AttachmentAccepted(s, y)'
    <2> SUFFICES ASSUME x.vpc # NoVpc
                 PROVE  /\ Live(x.vpc)' /\ AccountOf[x.vpc] = a
                        /\ x.groups \subseteq svc'[x.vpc].spec.groups
      BY DEF AttachmentAccepted
    <2>1. Live(x.vpc) /\ AccountOf[x.vpc] = a /\ x.groups \subseteq svc[x.vpc].spec.groups /\ x.vpc \in Services
      BY <1>4 DEF MaySpend, AttachmentAccepted
    <2>2. svc'[x.vpc] = svc[x.vpc]
      BY <2>1 DEF Quiet, Live, Present
    <2> QED
      BY <2>1, <2>2 DEF Live, Present
  <1>5. ~ServiceQuotasEnabled => CloudAdmits(s, y, reduction)'
    BY DEF CloudAdmits
  <1> QED
    BY <1>2, <1>3, <1>4, <1>5 DEF MaySpend, Metered

\* No name is taken that a session is giving away.
NamesKept(s) ==
    /\ ProviderOf[s] = "flash" => NoNewPort /\ gpu' = gpu
    /\ ProviderOf[s] = "syouyu" => NoNewBucket

\* What was prepared for a request can be prepared again, with the same or another port.
LEMMA StillPrepared ==
    ASSUME IInv, IInv', NEW s \in Services, Quiet(CloudOf[AccountOf[s]]), Live(s) \/ ~Present(s),
           NamesKept(s), NEW person, NEW asked, Fits(s, asked), NEW x \in Prepared(s, person, asked)
    PROVE  \E y \in Prepared(s, person, asked)' : \E m, n :
              x = [asked EXCEPT !.port = m] /\ y = [asked EXCEPT !.port = n]
  <1> DEFINE p == ProviderOf[s]
             Goal == \E y \in Prepared(s, person, asked)' : \E m, n :
                        x = [asked EXCEPT !.port = m] /\ y = [asked EXCEPT !.port = n]
  <1>1. p \in {"flow", "flash", "syouyu", "vpc"}
    BY QuotasAssumption DEF Providers, QuotaProviders
  <1>2. svc'[s] = svc[s]
    BY QuietTables
  <1>3. asked = [asked EXCEPT !.port = asked.port]
    BY DEF Fits, SpecOf
  <1>4. ASSUME x = asked, asked \in Prepared(s, person, asked)' PROVE Goal
    BY <1>3, <1>4
  <1>5. CASE p = "flow"
    <2>1. x = asked /\ AccountAdmits(s, asked)
      BY <1>5 DEF Prepared, PrepareFlowSpec
    <2>2. AccountAdmits(s, asked)'
      BY <2>1, AccountStillAdmits
    <2>3. asked \in Prepared(s, person, asked)'
      BY <1>5, <2>2 DEF Prepared, PrepareFlowSpec
    <2> QED
      BY <1>4, <2>1, <2>3
  <1>6. CASE p = "syouyu"
    <2>1. /\ x = asked /\ AccountAdmits(s, asked)
          /\ \A r \in Services \ {s} : svc[r] # Absent => svc[r].spec.bucket # asked.bucket
          /\ svc[s] # Absent => asked.bucket = svc[s].spec.bucket
      BY <1>6 DEF Prepared, PrepareSyouyuSpec, Present
    <2>2. AccountAdmits(s, asked)'
      BY <2>1, AccountStillAdmits
    <2>3. asked.bucket # NoBucket /\ NoNewBucket
      BY <1>6 DEF Fits, NamesKept
    <2>4. \A r \in Services \ {s} : svc'[r] # Absent => svc'[r].spec.bucket # asked.bucket
      BY <2>1, <2>3 DEF NoNewBucket
    <2>5. asked \in PrepareSyouyuSpec(s, asked)'
      BY <1>2, <2>1, <2>2, <2>4 DEF PrepareSyouyuSpec, Present
    <2>6. asked \in Prepared(s, person, asked)'
      BY <1>6, <2>5 DEF Prepared
    <2> QED
      BY <1>4, <2>1, <2>6
  <1>7. CASE p = "vpc"
    <2> DEFINE W == {w \in Vpcs : Present(w) /\ AccountOf[w] = AccountOf[s]}
    <2>1. /\ x = asked
          /\ ~Present(s) => Cardinality(W) < MaxVpcs
          /\ \A q \in AttachedTo(s) : svc[q].spec.groups \subseteq asked.groups
      BY <1>7 DEF Prepared, PrepareVpcSpec
    <2>2. ~Present(s)' => Cardinality(W)' < MaxVpcs
      <3> DEFINE b == Cardinality(W)
                 d == Cardinality(W')
      <3>1. W' \in SUBSET W /\ W \in SUBSET Services
        BY DEF Vpcs, Quiet, Present
      <3>2. IsFiniteSet(W)
        BY <3>1, FS_Subset, QuotasAssumption
      <3>3. d <= b
        BY <3>1, <3>2, FS_Subset
      <3>4. b \in Nat /\ d \in Nat
        BY <3>1, <3>2, FS_Subset, FS_CardinalityType
      <3>5. Present(s)' <=> Present(s)
        BY <1>2 DEF Present
      <3> HIDE DEF b, d
      <3>6. ~Present(s)' => d < MaxVpcs
        <4>1. ~Present(s) => b < MaxVpcs
          BY <2>1 DEF b
        <4> QED
          BY <3>3, <3>4, <3>5, <4>1, QuotasAssumption
      <3> QED
        BY <3>6 DEF d
    <2>3. \A q \in AttachedTo(s)' : svc'[q].spec.groups \subseteq asked.groups
      <3> SUFFICES ASSUME NEW q \in Services, svc'[q] # Absent, ProviderOf[q] = "flash", svc'[q].spec.vpc = s
                   PROVE  svc'[q].spec.groups \subseteq asked.groups
        BY DEF AttachedTo, Present
      <3>1. s # NoVpc
        BY QuotasAssumption
      <3>2. AccountOf[s] = AccountOf[q]
        BY <3>1 DEF IInv, RowsAreSound, AttachmentsAreOwn, Attachable, Present
      <3>3. svc'[q] = svc[q]
        BY <3>2 DEF Quiet
      <3> QED
        BY <2>1, <3>3 DEF AttachedTo, Present
    <2>4. asked \in PrepareVpcSpec(s, asked)'
      BY <2>2, <2>3 DEF PrepareVpcSpec
    <2>5. asked \in Prepared(s, person, asked)'
      BY <1>7, <2>4 DEF Prepared
    <2> QED
      BY <1>4, <2>1, <2>5
  <1>8. CASE p = "flash"
    <2>1. PICK m \in AssignedPorts(s, asked) :
            x = [asked EXCEPT !.port = m] /\ GpuAccess(person, asked) /\ AccountAdmits(s, asked)
      BY <1>8 DEF Prepared, PrepareFlashSpec
    <2>2. AccountAdmits(s, asked)'
      BY <2>1, AccountStillAdmits
    <2>3. GpuAccess(person, asked)'
      BY <1>8, <2>1 DEF GpuAccess, NamesKept
    <2>4. TakesPort(asked) => m \in Ports /\ m \notin PortsTaken(s)
      <3> DEFINE own == IF Present(s) THEN {svc[s].spec.port} \cap Ports ELSE {}
                 free == Ports \ PortsTaken(s)
      <3> SUFFICES ASSUME TakesPort(asked) PROVE m \in free
        OBVIOUS
      <3>1. m \in IF own \cap free # {} THEN own \cap free ELSE IF free # {} THEN {Min(free)} ELSE {}
        BY <2>1 DEF AssignedPorts
      <3>2. free # {} => Min(free) \in free
        BY MinIsMember, QuotasAssumption
      <3> HIDE DEF free, own
      <3> QED
        BY <3>1, <3>2
    <2>5. TakesPort(asked) => m \in Ports \ PortsTaken(s)'
      <3> SUFFICES ASSUME TakesPort(asked), NEW q \in Services \ {s},
                          Live(q)', ProviderOf[q] = "flash", TakesPort(svc'[q].spec), svc'[q].spec.port = m
                   PROVE  FALSE
        BY <2>4 DEF PortsTaken
      <3>1. m # NoPort
        BY <2>4, QuotasAssumption
      <3>2. Live(q) /\ svc[q].spec.port = m
        BY <1>8, <3>1 DEF NamesKept, NoNewPort, Live, Present
      <3>3. TakesPort(svc[q].spec)
        BY <3>1, <3>2 DEF IInv, RowsAreSound, RowsFit, Fits, Live
      <3> QED
        BY <2>4, <3>2, <3>3 DEF PortsTaken
    <2>6. \E n : n \in AssignedPorts(s, asked)'
      BY <2>5 DEF AssignedPorts
    <2>7. PICK n : n \in AssignedPorts(s, asked)'
      BY <2>6
    <2>8. [asked EXCEPT !.port = n] \in PrepareFlashSpec(s, person, asked)'
      BY <2>2, <2>3, <2>7 DEF PrepareFlashSpec
    <2>9. [asked EXCEPT !.port = n] \in Prepared(s, person, asked)'
      BY <1>8, <2>8 DEF Prepared
    <2> QED
      BY <2>1, <2>9
  <1> QED
    BY <1>1, <1>5, <1>6, <1>7, <1>8

\* A session has been granted what its request is granted in this state.
Granted(r, spec) ==
    \E x \in Accepted(r) : spec = x \/ spec = [x EXCEPT !.port = spec.port]

\* Specifications that agree but for the port.
WithPort(spec, port) == [spec EXCEPT !.port = port]

LEMMA PortAside ==
    ASSUME NEW asked \in SpecOf, NEW m, NEW n, NEW spec,
           NEW x, x = WithPort(asked, m), NEW y, y = WithPort(asked, n),
           spec = x \/ spec = WithPort(x, spec.port)
    PROVE  /\ spec = WithPort(y, spec.port)
           /\ x.units \in Nat /\ x.vpc \in Services \cup {NoVpc}
           /\ y.units = x.units /\ y.vpc = x.vpc /\ y.groups = x.groups
  <1> USE DEF WithPort
  <1>1. /\ x.units = asked.units /\ x.vpc = asked.vpc /\ x.groups = asked.groups
        /\ y.units = asked.units /\ y.vpc = asked.vpc /\ y.groups = asked.groups
    BY DEF SpecOf
  <1>2. asked.units \in Nat /\ asked.vpc \in Services \cup {NoVpc}
    BY QuotasAssumption DEF SpecOf, Vpcs
  <1>3. spec = [asked EXCEPT !.port = spec.port]
    <2>1. CASE spec = x
      <3>1. spec.port = m
        BY <2>1 DEF SpecOf
      <3> QED
        BY <2>1, <3>1
    <2>2. CASE spec = [x EXCEPT !.port = spec.port]
      <3>1. PICK k : k = spec.port
        OBVIOUS
      <3>2. spec = [x EXCEPT !.port = k]
        BY <2>2, <3>1, Zenon
      <3>3. [x EXCEPT !.port = k] = [asked EXCEPT !.port = k]
        BY DEF SpecOf
      <3> QED
        BY <3>1, <3>2, <3>3, Zenon
    <2> QED
      BY <2>1, <2>2
  <1>4. PICK k : k = spec.port
    OBVIOUS
  <1>5. [y EXCEPT !.port = k] = [asked EXCEPT !.port = k]
    BY DEF SpecOf
  <1>6. spec = [y EXCEPT !.port = spec.port]
    BY <1>3, <1>4, <1>5, Zenon
  <1> QED
    BY <1>1, <1>2, <1>6

\* A service that was granted its specification is granted it again.
LEMMA ChangeStillGranted ==
    ASSUME IInv, IInv', NEW s \in Services, Quiet(CloudOf[AccountOf[s]]), Live(s) \/ ~Present(s),
           NamesKept(s), NEW person, NEW asked, Fits(s, asked), NEW x \in Prepared(s, person, asked),
           NEW owner, NEW reduction, MaySpend(s, owner, x, reduction),
           NEW spec, spec = x \/ spec = [x EXCEPT !.port = spec.port]
    PROVE  \E y \in Prepared(s, person, asked)' :
              MaySpend(s, owner, y, reduction)' /\ spec = [y EXCEPT !.port = spec.port]
  <1>1. PICK y \in Prepared(s, person, asked)' : \E m, n :
          x = [asked EXCEPT !.port = m] /\ y = [asked EXCEPT !.port = n]
    BY StillPrepared
  <1>2. asked \in SpecOf
    BY DEF Fits
  <1>3. /\ spec = [y EXCEPT !.port = spec.port]
        /\ x.units \in Nat /\ x.vpc \in Services \cup {NoVpc}
        /\ y.units = x.units /\ y.vpc = x.vpc /\ y.groups = x.groups
    <2>1. PICK m, n : x = WithPort(asked, m) /\ y = WithPort(asked, n)
      BY <1>1 DEF WithPort
    <2>2. spec = x \/ spec = WithPort(x, spec.port)
      BY Zenon DEF WithPort
    <2>3. /\ spec = WithPort(y, spec.port)
          /\ x.units \in Nat /\ x.vpc \in Services \cup {NoVpc}
          /\ y.units = x.units /\ y.vpc = x.vpc /\ y.groups = x.groups
      BY <1>2, <2>1, <2>2, PortAside
    <2> QED
      BY <2>3, Zenon DEF WithPort
  <1>4. MaySpend(s, owner, y, reduction)'
    BY <1>3, StillMaySpend
  <1> QED
    BY <1>1, <1>3, <1>4

\* What is granted stays so while the organization is quiet and no name is taken.
LEMMA GrantSurvives ==
    ASSUME IInv, IInv', NEW r, NEW spec, ValidRequest(r), r.op \in Tenant,
           RequestStands(r, spec), RequestStands(r, spec)', Quiet(CloudOf[Subject(r)]),
           r.op \in Changes => NamesKept(r.svc), Granted(r, spec)
    PROVE  Granted(r, spec)'
  <1> USE DEF Changes, OnService, OnAccount, Tenant
  <1> DEFINE s == r.svc
  <1>1. PICK x \in Accepted(r) : spec = x \/ spec = [x EXCEPT !.port = spec.port]
    BY DEF Granted
  <1>2. ASSUME x \in Accepted(r)' PROVE Granted(r, spec)'
    BY <1>1, <1>2 DEF Granted
  <1>3. ASSUME NEW y \in Accepted(r)', spec = [y EXCEPT !.port = spec.port] PROVE Granted(r, spec)'
    BY <1>3 DEF Granted
  <1>4. r.op \in OnService =>
          /\ s \in Services /\ Quiet(CloudOf[AccountOf[s]])
          /\ Live(s) \/ ~Present(s)
          /\ svc'[s] = svc[s]
    <2> SUFFICES ASSUME r.op \in OnService
                 PROVE  /\ s \in Services /\ Quiet(CloudOf[AccountOf[s]])
                        /\ Live(s) \/ ~Present(s)
                        /\ svc'[s] = svc[s]
      OBVIOUS
    <2>1. s \in Services /\ Subject(r) = AccountOf[s]
      BY DEF ValidRequest, Subject
    <2>2. Live(s) \/ ~Present(s)
      BY DEF RequestStands
    <2>3. Quiet(CloudOf[AccountOf[s]])
      BY <2>1
    <2> QED
      BY <2>1, <2>2, <2>3, QuietTables
  <1>5. CASE r.op = "create"
    <2>1. /\ x \in Prepared(s, r.person, r.spec) /\ ~Present(s)
          /\ r.owner # NoUser => r.owner \in MembersOf[AccountOf[s]]
          /\ Metered(s) /\ r.owner = NoUser => ~HasMemberLimits(AccountOf[s])
          /\ MaySpend(s, r.owner, x, FALSE)
      BY <1>5 DEF Accepted, CreateAccepted
    <2> DEFINE no == FALSE
    <2> HIDE DEF no
    <2>2. Fits(s, r.spec) /\ NamesKept(s)
      BY <1>5 DEF ValidRequest
    <2>3. PICK y \in Prepared(s, r.person, r.spec)' :
            MaySpend(s, r.owner, y, no)' /\ spec = [y EXCEPT !.port = spec.port]
      <3>1. MaySpend(s, r.owner, x, no)
        BY <2>1 DEF no
      <3> QED
        BY <1>1, <1>4, <1>5, <2>1, <2>2, <3>1, ChangeStillGranted
    <2>4. ~Present(s)' /\ (HasMemberLimits(AccountOf[s])' <=> HasMemberLimits(AccountOf[s]))
      BY <1>4, <1>5, <2>1, QuietTables DEF Present
    <2>5. y \in CreateAccepted(r)'
      BY <2>1, <2>3, <2>4 DEF CreateAccepted, Metered, no
    <2>6. y \in Accepted(r)'
      BY <1>5, <2>5 DEF Accepted
    <2> QED
      BY <1>3, <2>3, <2>6
  <1>6. CASE r.op = "update"
    <2>1. x \in UpdateAccepted(r)
      BY <1>6 DEF Accepted
    <2>2. PICK reduction, owner : /\ reduction = ~(svc[s].spec.stopped /\ ~r.spec.stopped)
                                  /\ owner = svc[s].owner
      OBVIOUS
    <2>3. Live(s) /\ x \in Prepared(s, r.person, r.spec) /\ MaySpend(s, owner, x, reduction)
      BY <2>1, <2>2 DEF UpdateAccepted
    <2>4. Fits(s, r.spec) /\ NamesKept(s)
      BY <1>6 DEF ValidRequest
    <2>5. PICK y \in Prepared(s, r.person, r.spec)' :
            MaySpend(s, owner, y, reduction)' /\ spec = [y EXCEPT !.port = spec.port]
      BY <1>1, <1>4, <1>6, <2>3, <2>4, ChangeStillGranted
    <2>6. Live(s)' /\ svc'[s] = svc[s]
      BY <1>4, <1>6, <2>3 DEF Live, Present
    <2>7. y \in UpdateAccepted(r)'
      <3>1. /\ reduction = ~(svc'[s].spec.stopped /\ ~r.spec.stopped)
            /\ owner = svc'[s].owner
        BY <2>2, <2>6
      <3> QED
        BY <2>5, <2>6, <3>1 DEF UpdateAccepted, MaySpend, CloudAdmits, MemberAdmits
    <2>8. y \in Accepted(r)'
      BY <1>6, <2>7 DEF Accepted
    <2> QED
      BY <1>3, <2>5, <2>8
  <1>7. CASE r.op = "start"
    <2>1. x \in StartAccepted(r)
      BY <1>7 DEF Accepted
    <2>2. PICK asked, owner : asked = [svc[s].spec EXCEPT !.stopped = FALSE] /\ owner = svc[s].owner
      OBVIOUS
    <2>3. /\ Live(s) /\ svc[s].spec.stopped
          /\ x \in Prepared(s, r.person, asked) /\ MaySpend(s, owner, x, FALSE)
      BY <2>1, <2>2 DEF StartAccepted
    <2> DEFINE no == FALSE
    <2> HIDE DEF no
    <2>4. Fits(s, asked) /\ NamesKept(s)
      <3>1. Fits(s, svc[s].spec)
        BY <1>4, <1>7, <2>3 DEF IInv, RowsAreSound, RowsFit, Live
      <3>2. Fits(s, [svc[s].spec EXCEPT !.stopped = FALSE])
        BY <3>1 DEF Fits, SpecOf, TakesPort
      <3> QED
        BY <1>7, <2>2, <3>2
    <2>5. PICK y \in Prepared(s, r.person, asked)' :
            MaySpend(s, owner, y, no)' /\ spec = [y EXCEPT !.port = spec.port]
      <3>1. MaySpend(s, owner, x, no)
        BY <2>3 DEF no
      <3> QED
        BY <1>1, <1>4, <1>7, <2>3, <2>4, <3>1, ChangeStillGranted
    <2>6. Live(s)' /\ svc'[s] = svc[s]
      BY <1>4, <1>7, <2>3 DEF Live, Present
    <2>7. y \in StartAccepted(r)'
      <3>1. /\ asked = [svc'[s].spec EXCEPT !.stopped = FALSE]
            /\ owner = svc'[s].owner /\ svc'[s].spec.stopped
        BY <2>2, <2>3, <2>6
      <3> QED
        BY <2>5, <2>6, <3>1 DEF StartAccepted, no
    <2>8. y \in Accepted(r)'
      BY <1>7, <2>7 DEF Accepted
    <2> QED
      BY <1>3, <2>5, <2>8
  <1>8. CASE r.op = "stop"
    <2>1. x \in StopAccepted(r)
      BY <1>8 DEF Accepted
    <2>2. svc'[s] = svc[s] /\ (Live(s)' <=> Live(s))
      BY <1>4, <1>8 DEF Live, Present
    <2>3. StopAccepted(r)' = StopAccepted(r)
      BY <2>2 DEF StopAccepted
    <2>4. x \in Accepted(r)'
      BY <1>8, <2>1, <2>3 DEF Accepted
    <2> QED
      BY <1>2, <2>4
  <1>9. CASE r.op = "delete"
    <2>1. x = NoSpec
      BY <1>9 DEF Accepted, DeleteAccepted
    <2>2. Live(s)' /\ (ProviderOf[s] = "vpc" => AttachedTo(s)' = {})
      BY <1>9 DEF RequestStands
    <2>3. x \in Accepted(r)'
      BY <1>9, <2>1, <2>2 DEF Accepted, DeleteAccepted
    <2> QED
      BY <1>2, <2>3
  <1>10. CASE r.op \in OnAccount
    <2>1. /\ r.account \in Accounts /\ Quiet(CloudOf[r.account])
          /\ ManagementOf[CloudOf[r.account]] \in Accounts
      BY <1>10, QuotasAssumption DEF ValidRequest, Subject
    <2>2. robot'[r.account] = robot[r.account] /\ ResourceQuota(r.account)' = ResourceQuota(r.account)
      BY <2>1 DEF Quiet, ResourceQuota
    <2>3. x = NoSpec
      BY <1>10 DEF Accepted, MemberQuotaAccepted, AssignAccepted
    <2>4. CASE r.op = "quota"
      <3>1. x \in Accepted(r)'
        BY <2>3, <2>4 DEF Accepted
      <3> QED
        BY <1>2, <3>1
    <2>5. CASE r.op = "member"
      <3>1. /\ r.user \in MembersOf[r.account]
            /\ r.limits # NoLimit =>
                  /\ ValidLimits(r.limits) /\ ~UnassignedResources(r.account)
                  /\ CappedLimits(ResourceQuota(r.account), r.limits) = r.limits
        BY <2>5 DEF Accepted, MemberQuotaAccepted
      <3>2. r.limits # NoLimit => ~UnassignedResources(r.account)'
        BY <2>2, <2>5, <3>1 DEF RequestStands, UnassignedResources
      <3>3. CappedLimits(ResourceQuota(r.account), r.limits)' = CappedLimits(ResourceQuota(r.account), r.limits)
        BY <2>2 DEF CappedLimits
      <3>4. x \in MemberQuotaAccepted(r)'
        BY <2>3, <3>1, <3>2, <3>3 DEF MemberQuotaAccepted, ValidLimits
      <3>5. x \in Accepted(r)'
        BY <2>5, <3>4 DEF Accepted
      <3> QED
        BY <1>2, <3>5
    <2>6. CASE r.op = "assign"
      <3>1. /\ r.user \in MembersOf[r.account]
            /\ r.target = Robot => robot[r.account] = NoUser
        BY <2>6 DEF Accepted, AssignAccepted
      <3>2. r.target # Robot => r.target \in UnassignedServices(r.account)'
        BY <2>6 DEF RequestStands
      <3>3. x \in AssignAccepted(r)'
        BY <2>2, <2>3, <3>1, <3>2 DEF AssignAccepted
      <3>4. x \in Accepted(r)'
        BY <2>6, <3>3 DEF Accepted
      <3> QED
        BY <1>2, <3>4
    <2> QED
      BY <1>10, <2>4, <2>5, <2>6
  <1> QED
    BY <1>5, <1>6, <1>7, <1>8, <1>9, <1>10

\* A commit of a service writes its row; only a change brings another specification.
LEMMA RowOfCommit ==
    ASSUME IInv, NEW t \in Txns,
           CommitCreate(t) \/ CommitChange(t) \/ BeginDelete(t) \/ CommitAssign(t)
    PROVE  \/ svc' = svc
           \/ \E s \in Services, row \in Row :
                 /\ svc' = [svc EXCEPT ![s] = row] /\ Fits(s, row.spec)
                 /\ \/ txn[t].req.op \in Changes /\ txn[t].req.svc = s
                    \/ Live(s) /\ row.spec = svc[s].spec
  <1> USE DEF Changes, OnService, OnAccount
  <1> DEFINE r == txn[t].req
             spec == txn[t].spec
             Wrote(s, row) == /\ svc' = [svc EXCEPT ![s] = row] /\ Fits(s, row.spec)
                              /\ \/ r.op \in Changes /\ r.svc = s
                                 \/ Live(s) /\ row.spec = svc[s].spec
  <1>1. txn[t] # Idle /\ txn[t].checked
    BY DEF CommitCreate, CommitChange, BeginDelete, CommitAssign, Committing
  <1>2. RequestStands(r, spec) /\ ValidRequest(r)
    BY <1>1, SessionFields
  <1>3. ASSUME NEW s \in Services, Live(s)
        PROVE  svc[s] \in Row /\ svc[s].spec \in SpecOf /\ Fits(s, svc[s].spec)
    BY <1>3, LimitTypes DEF Live, Present, IInv, RowsAreSound, RowsFit, Row
  <1>4. CASE CommitCreate(t)
    <2> DEFINE row == [owner |-> r.owner, state |-> "live", spec |-> spec]
    <2>1. r.op = "create" /\ svc' = [svc EXCEPT ![r.svc] = row]
      BY <1>4 DEF CommitCreate, Committing
    <2>2. r.svc \in Services /\ Fits(r.svc, spec) /\ r.owner \in Users \cup {NoUser}
      BY <1>2, <2>1 DEF RequestStands, ValidRequest, ChangeStands
    <2>3. row \in Row /\ row.spec = spec
      BY <2>2 DEF Row, Fits
    <2> HIDE DEF row
    <2>4. Wrote(r.svc, row)
      BY <2>1, <2>2, <2>3
    <2> QED
      BY <2>2, <2>3, <2>4
  <1>5. CASE CommitChange(t)
    <2> DEFINE row == [svc[r.svc] EXCEPT !.spec = spec]
    <2>1. r.op \in {"update", "start", "stop"} /\ svc' = [svc EXCEPT ![r.svc] = row]
      BY <1>5 DEF CommitChange, Committing
    <2>2. r.svc \in Services /\ Fits(r.svc, spec) /\ Live(r.svc)
      BY <1>2, <2>1 DEF RequestStands, ValidRequest, ChangeStands
    <2>3. row \in Row /\ row.spec = spec
      BY <1>3, <2>2 DEF Row, Fits
    <2> HIDE DEF row
    <2>4. Wrote(r.svc, row)
      BY <2>1, <2>2, <2>3
    <2> QED
      BY <2>2, <2>3, <2>4
  <1>6. CASE BeginDelete(t)
    <2> DEFINE row == [svc[r.svc] EXCEPT !.state = "deleting"]
    <2>1. r.op = "delete" /\ svc' = [svc EXCEPT ![r.svc] = row]
      BY <1>6 DEF BeginDelete, Committing
    <2>2. r.svc \in Services /\ Live(r.svc)
      BY <1>2, <2>1 DEF RequestStands, ValidRequest
    <2>3. row \in Row /\ row.spec = svc[r.svc].spec
      BY <1>3, <2>2 DEF Row
    <2> HIDE DEF row
    <2>4. Wrote(r.svc, row)
      BY <1>3, <2>1, <2>2, <2>3
    <2> QED
      BY <2>2, <2>3, <2>4
  <1>7. CASE CommitAssign(t)
    <2> DEFINE row == [svc[r.target] EXCEPT !.owner = r.user]
    <2>1. r.op = "assign" /\ (svc' = svc \/ (r.target # Robot /\ svc' = [svc EXCEPT ![r.target] = row]))
      BY <1>7 DEF CommitAssign, Committing
    <2> SUFFICES ASSUME r.target # Robot, svc' = [svc EXCEPT ![r.target] = row]
                 PROVE  \E s \in Services, new \in Row : Wrote(s, new)
      BY <2>1
    <2>2. r.target \in Services /\ Live(r.target) /\ r.user \in Users
      BY <1>2, <2>1 DEF RequestStands, ValidRequest, UnassignedServices
    <2>3. row \in Row /\ row.spec = svc[r.target].spec
      BY <1>3, <2>2 DEF Row
    <2> HIDE DEF row
    <2>4. Wrote(r.target, row)
      BY <1>3, <2>2, <2>3
    <2> QED
      BY <2>2, <2>3, <2>4
  <1> QED
    BY <1>4, <1>5, <1>6, <1>7

\* Under a session that has decided on a change, no name of its kind is taken and, where it may
\* use a GPU, the catalogue stays.
LEMMA NamesStay ==
    ASSUME IInv, [AllocationNext(Services, Accounts, ValidSpecs, Actors, Operations)]_allocationVars,
           NEW t \in Txns, txn[t] # Idle, txn[t].checked, txn[t].req.op \in Changes, txn'[t] = txn[t]
    PROVE  NamesKept(txn[t].req.svc)
  <1> USE DEF Live, Present
  <1> DEFINE s == txn[t].req.svc
  <1>1. AllHeld(t) /\ txn = [u \in Txns |-> txn[u]] /\ ValidRequest(txn[t].req)
    BY SessionFields DEF AllHeld, IInv, SessionsAreValid
  <1>2. ASSUME UNCHANGED <<svc, gpu>> PROVE NamesKept(s)
    BY <1>2 DEF NamesKept, NoNewPort, NoNewBucket
  <1>3. ASSUME UNCHANGED quotaVars PROVE NamesKept(s)
    BY <1>2, <1>3 DEF quotaVars
  <1>4. ASSUME NEW q \in Services, CompleteDelete(q) PROVE NamesKept(s)
    <2>1. svc' = [svc EXCEPT ![q] = Absent] /\ gpu' = gpu
      BY <1>4 DEF CompleteDelete
    <2>2. \A w \in Services : svc'[w] # Absent => svc'[w] = svc[w]
      BY <2>1, LimitTypes
    <2> QED
      BY <2>1, <2>2 DEF NamesKept, NoNewPort, NoNewBucket
  <1>5. ASSUME NEW u \in Txns, CommitSync(u) PROVE NamesKept(s)
    <2>1. /\ txn[u] # Idle /\ txn[u].checked /\ txn[u].req.op = "sync"
          /\ UNCHANGED svc
      BY <1>5 DEF CommitSync, Committing
    <2>2. u # t /\ AllHeld(u)
      BY <2>1, SessionFields DEF AllHeld, Changes
    <2>3. ProviderOf[s] # "flash"
      <3> SUFFICES ASSUME ProviderOf[s] = "flash" PROVE FALSE
        OBVIOUS
      <3> DEFINE name == <<"flash">>
      <3>1. 4 \in 1 .. Len(LockPlan(txn[t].req)) /\ LockPlan(txn[t].req)[4] = Exclusive(name)
        BY <1>1, PlanOfRequest
      <3>2. 1 \in 1 .. Len(LockPlan(txn[u].req)) /\ LockPlan(txn[u].req)[1] = Exclusive(name)
        BY <2>1 DEF LockPlan
      <3> HIDE DEF name
      <3> QED
        BY <1>1, <2>2, <3>1, <3>2, Alone DEF IInv
    <2> QED
      BY <2>1, <2>3 DEF NamesKept, NoNewBucket
  <1>6. ASSUME NEW u \in Txns, CommitCreate(u) \/ CommitChange(u) \/ BeginDelete(u) \/ CommitAssign(u)
        PROVE  NamesKept(s)
    <2>1. gpu' = gpu /\ txn[u] # Idle /\ txn[u].checked /\ Finished(u)
      BY <1>6 DEF CommitCreate, CommitChange, BeginDelete, CommitAssign, Committing
    <2>2. u # t /\ AllHeld(u)
      BY <1>1, <2>1, SessionFields DEF AllHeld, Finished
    <2> SUFFICES ASSUME NEW q \in Services, NEW row \in Row,
                        svc' = [svc EXCEPT ![q] = row], Fits(q, row.spec),
                        \/ txn[u].req.op \in Changes /\ txn[u].req.svc = q
                        \/ Live(q) /\ row.spec = svc[q].spec
                 PROVE  NamesKept(s)
      BY <1>2, <1>6, <2>1, RowOfCommit
    <2>3. svc'[q] = row /\ \A w \in Services \ {q} : svc'[w] = svc[w]
      BY LimitTypes
    <2>4. ASSUME NEW p \in {"flash", "syouyu"}, ProviderOf[s] = p, ProviderOf[q] = p
          PROVE  Live(q) /\ row.spec = svc[q].spec
      BY <1>1, <2>2, <2>4, SubjectsDiffer DEF IInv
    <2>5. ProviderOf[s] = "flash" => NoNewPort
      BY <2>3, <2>4 DEF NoNewPort, Fits
    <2>6. ProviderOf[s] = "syouyu" => NoNewBucket
      BY <2>3, <2>4 DEF NoNewBucket, Fits
    <2> QED
      BY <2>1, <2>5, <2>6 DEF NamesKept
  <1>7. ASSUME NEW u \in Txns, CommitDefaults(u) \/ CommitQuota(u) \/ CommitMemberQuota(u)
        PROVE  NamesKept(s)
    <2>1. UNCHANGED <<svc, gpu>>
      BY <1>7 DEF CommitDefaults, CommitQuota, CommitMemberQuota
    <2> QED
      BY <1>2, <2>1
  <1>8. ASSUME NEW u \in Txns,
               \/ Ask(u, Services, Accounts, ValidSpecs, Actors, Operations)
               \/ FetchCatalogue(u) \/ ProviderUnavailable(u) \/ TakeLock(u) \/ Check(u) \/ Refuse(u)
        PROVE  NamesKept(s)
    <2>1. UNCHANGED quotaVars
      BY <1>8, AskBegins DEF FetchCatalogue, ProviderUnavailable, TakeLock, Check, Refuse
    <2> QED
      BY <1>3, <2>1
  <1>9. CASE UNCHANGED allocationVars
    BY <1>3, <1>9 DEF allocationVars
  <1> QED
    BY <1>4, <1>5, <1>6, <1>7, <1>8, <1>9 DEF AllocationNext, Transact

\* A session about defaults or the catalogue has nothing to decide.
LEMMA PlainRequests ==
    ASSUME IInv, NEW r, ValidRequest(r), r.op \notin Tenant
    PROVE  Accepted(r) = {NoSpec} /\ Accepted(r)' = {NoSpec}
  BY DEF Accepted, Tenant, OnService, OnAccount, Changes

\* A session that has decided stays as it is until its own next step, but for the answer of
\* the provider to a synchronization.
LEMMA SessionStays ==
    ASSUME IInv, [AllocationNext(Services, Accounts, ValidSpecs, Actors, Operations)]_allocationVars,
           NEW t \in Txns, txn'[t] # Idle, txn'[t].checked, ~Check(t)
    PROVE  /\ txn[t] # Idle /\ txn[t].checked
           /\ txn'[t].spec = txn[t].spec /\ txn'[t].req.op = txn[t].req.op
  <1> DEFINE Goal == /\ txn[t] # Idle /\ txn[t].checked
                     /\ txn'[t].spec = txn[t].spec /\ txn'[t].req.op = txn[t].req.op
  <1>1. txn = [u \in Txns |-> txn[u]]
    BY DEF IInv, SessionsAreValid
  <1>2. ASSUME txn'[t] = txn[t] PROVE Goal
    BY <1>2
  <1>3. ASSUME NEW u \in Txns, NEW new, new = Idle \/ ~new.checked, txn' = [txn EXCEPT ![u] = new]
        PROVE  Goal
    BY <1>1, <1>3
  <1>4. \A r : Begun(r).checked = FALSE
    BY DEF Begun
  <1>5. ASSUME NEW u \in Txns, FetchCatalogue(u) PROVE Goal
    <2> DEFINE old == txn[u]
               asked == [old.req EXCEPT !.catalogue = access]
               new == [old EXCEPT !.req = asked]
    <2>1. old # Idle /\ old.req.op = "sync" /\ txn' = [txn EXCEPT ![u] = new]
      BY <1>5, Zenon DEF FetchCatalogue
    <2>2. old.req = [op |-> "sync", catalogue |-> old.req.catalogue, then |-> old.req.then]
      BY <2>1, SessionFields DEF ValidRequest
    <2>3. asked.op = old.req.op
      BY <2>1, <2>2
    <2>4. PICK q, h, k, p : old = [req |-> q, held |-> h, checked |-> k, spec |-> p]
      <3>1. old = [req |-> old.req, held |-> old.held, checked |-> old.checked, spec |-> old.spec]
        BY <2>1, SessionFields
      <3> QED
        BY <3>1, Zenon
    <2> HIDE DEF asked, old
    <2>5. new.req = asked /\ new.checked = old.checked /\ new.spec = old.spec
      BY <2>4
    <2> HIDE DEF new
    <2>6. CASE u = t
      <3>1. txn'[t] = new /\ old = txn[t]
        BY <1>1, <2>1, <2>6 DEF old
      <3> QED
        BY <2>1, <2>3, <2>5, <3>1
    <2>7. CASE u # t
      BY <1>1, <1>2, <2>1, <2>7
    <2> QED
      BY <2>6, <2>7
  <1>6. ASSUME NEW u \in Txns, TakeLock(u) PROVE Goal
    <2>1. /\ txn'[u] # Idle => ~txn'[u].checked
          /\ \A w \in Txns \ {u} : txn'[w] = txn[w]
      BY <1>6, LockTaken DEF IInv
    <2> QED
      BY <1>2, <2>1
  <1>7. ASSUME NEW u \in Txns, Check(u) PROVE Goal
    <2>1. u # t /\ \E new : txn' = [txn EXCEPT ![u] = new]
      BY <1>7 DEF Check
    <2> QED
      BY <1>1, <1>2, <2>1
  <1>8. ASSUME NEW u \in Txns, CommitSync(u) PROVE Goal
    <2> DEFINE next == txn[u].req.then
    <2>1. next.op \in {DisplayedOnly, "create", "update"}
      BY <1>8, SessionFields DEF CommitSync, Committing, ValidRequest, ValidThen
    <2>2. \E new : (new = Idle \/ \E r : new = Begun(r)) /\ txn' = [txn EXCEPT ![u] = new]
      BY <1>8, <2>1 DEF CommitSync, DisplayedOnly
    <2> QED
      BY <1>3, <1>4, <2>2
  <1>9. ASSUME NEW u \in Txns,
               \/ CommitCreate(u) \/ CommitChange(u) \/ BeginDelete(u) \/ CommitQuota(u)
               \/ CommitMemberQuota(u) \/ CommitAssign(u) \/ CommitDefaults(u)
               \/ ProviderUnavailable(u) \/ Refuse(u)
        PROVE  Goal
    <2>1. txn' = [txn EXCEPT ![u] = Idle]
      BY <1>9 DEF CommitCreate, CommitChange, BeginDelete, CommitQuota, CommitMemberQuota, CommitAssign,
                  CommitDefaults, Finished, ProviderUnavailable, Refuse
    <2> QED
      BY <1>3, <2>1
  <1>10. ASSUME NEW u \in Txns, Ask(u, Services, Accounts, ValidSpecs, Actors, Operations) PROVE Goal
    BY <1>3, <1>4, <1>10, AskBegins
  <1>11. ASSUME NEW q \in Services, CompleteDelete(q) PROVE Goal
    BY <1>2, <1>11 DEF CompleteDelete
  <1>12. ASSUME UNCHANGED allocationVars PROVE Goal
    BY <1>2, <1>12 DEF allocationVars
  <1> HIDE DEF Goal
  <1>13. ASSUME NEW u \in Txns, Transact(u) PROVE Goal
    BY <1>5, <1>6, <1>7, <1>8, <1>9, <1>13 DEF Transact
  <1>14. ASSUME AllocationNext(Services, Accounts, ValidSpecs, Actors, Operations) PROVE Goal
    <2>1. \/ \E u \in Txns : Transact(u) \/ Ask(u, Services, Accounts, ValidSpecs, Actors, Operations)
          \/ \E q \in Services : CompleteDelete(q)
      BY <1>14, Zenon DEF AllocationNext
    <2> QED
      BY <1>10, <1>11, <1>13, <2>1, Zenon
  <1>15. Goal
    BY <1>12, <1>14, Zenon
  <1> QED
    BY <1>15 DEF Goal

\* What is granted is about the tables.
LEMMA AcceptedIsAboutTables ==
    ASSUME UNCHANGED quotaVars, NEW r
    PROVE  Accepted(r)' = Accepted(r)
  <1>1. UNCHANGED <<svc, defaults, override, member, robot, gpu>>
    BY DEF quotaVars
  <1>2. \A s : (Live(s)' <=> Live(s)) /\ (Present(s)' <=> Present(s))
    BY <1>1 DEF Live, Present
  <1>3. \A a, p, u, c : /\ Allocated(a, p)' = Allocated(a, p) /\ OwnedBy(a, p, u)' = OwnedBy(a, p, u)
                        /\ CloudAllocated(c, p)' = CloudAllocated(c, p)
                        /\ ResourceQuota(a)' = ResourceQuota(a) /\ CloudQuota(c)' = CloudQuota(c)
                        /\ MemberQuota(a, u)' = MemberQuota(a, u)
    BY <1>1 DEF Allocated, OwnedBy, CloudAllocated, ResourceQuota, CloudQuota, MemberQuota, Live, Present
  <1>4. \A S : Usage(S)' = Usage(S) /\ UnitsOf(S)' = UnitsOf(S)
    BY <1>1 DEF Usage, UnitsOf
  <1>5. ASSUME NEW s, NEW spec, NEW owner, NEW reduction
        PROVE  /\ AccountAdmits(s, spec)' <=> AccountAdmits(s, spec)
               /\ MaySpend(s, owner, spec, reduction)' <=> MaySpend(s, owner, spec, reduction)
    <2>1. AccountAdmits(s, spec)' <=> AccountAdmits(s, spec)
      BY <1>1 DEF AccountAdmits, Allocated, ResourceQuota, Usage, UnitsOf, Live, Present
    <2>2. CloudAdmits(s, spec, reduction)' <=> CloudAdmits(s, spec, reduction)
      BY <1>1 DEF CloudAdmits, Exceeds, CloudAllocated, CloudQuota, ResourceQuota, Usage, UnitsOf, Live, Present
    <2>3. MemberAdmits(s, owner, spec, reduction)' <=> MemberAdmits(s, owner, spec, reduction)
      BY <1>1 DEF MemberAdmits, Exceeds, OwnedBy, Allocated, MemberQuota, ResourceQuota, Usage, UnitsOf, Live, Present
    <2>4. AttachmentAccepted(s, spec)' <=> AttachmentAccepted(s, spec)
      BY <1>1 DEF AttachmentAccepted, Live, Present
    <2> QED
      BY <2>1, <2>2, <2>3, <2>4 DEF MaySpend, Metered
  <1>6. ASSUME NEW s, NEW person, NEW spec
        PROVE  Prepared(s, person, spec)' = Prepared(s, person, spec)
    <2>1. PrepareFlowSpec(s, spec)' = PrepareFlowSpec(s, spec)
      BY <1>5 DEF PrepareFlowSpec
    <2>2. PrepareFlashSpec(s, person, spec)' = PrepareFlashSpec(s, person, spec)
      <3>1. AssignedPorts(s, spec)' = AssignedPorts(s, spec)
        BY <1>1 DEF AssignedPorts, PortsTaken, Live, Present
      <3>2. GpuAccess(person, spec)' <=> GpuAccess(person, spec)
        BY <1>1 DEF GpuAccess
      <3> QED
        BY <1>5, <3>1, <3>2 DEF PrepareFlashSpec
    <2>3. PrepareSyouyuSpec(s, spec)' = PrepareSyouyuSpec(s, spec)
      BY <1>1, <1>5 DEF PrepareSyouyuSpec, Present
    <2>4. PrepareVpcSpec(s, spec)' = PrepareVpcSpec(s, spec)
      BY <1>1 DEF PrepareVpcSpec, AttachedTo, Present
    <2> QED
      BY <2>1, <2>2, <2>3, <2>4 DEF Prepared
  <1>7. CreateAccepted(r)' = CreateAccepted(r)
    BY <1>1, <1>2, <1>5, <1>6 DEF CreateAccepted, HasMemberLimits
  <1>8. UpdateAccepted(r)' = UpdateAccepted(r) /\ StartAccepted(r)' = StartAccepted(r)
    BY <1>1, <1>2, <1>5, <1>6 DEF UpdateAccepted, StartAccepted
  <1>9. /\ StopAccepted(r)' = StopAccepted(r) /\ DeleteAccepted(r)' = DeleteAccepted(r)
        /\ MemberQuotaAccepted(r)' = MemberQuotaAccepted(r) /\ AssignAccepted(r)' = AssignAccepted(r)
    BY <1>1 DEF StopAccepted, DeleteAccepted, MemberQuotaAccepted, AssignAccepted, AttachedTo, ResourceQuota,
                CappedLimits, UnassignedServices, UnassignedResources, Live, Present
  <1> QED
    BY <1>7, <1>8, <1>9 DEF Accepted

\* A grant stands until it is committed.
LEMMA GrantsStep ==
    ASSUME IInv, IInv', GrantsStand,
           [AllocationNext(Services, Accounts, ValidSpecs, Actors, Operations)]_allocationVars
    PROVE  GrantsStand'
  <1> SUFFICES ASSUME NEW t \in Txns, txn'[t] # Idle, txn'[t].checked
               PROVE  \E spec \in Accepted(txn[t].req)' :
                         txn'[t].spec = spec \/ txn'[t].spec = [spec EXCEPT !.port = txn'[t].spec.port]
    BY DEF GrantsStand
  <1>1. PICK r, spec : r = txn'[t].req /\ spec = txn'[t].spec
    OBVIOUS
  <1>2. ASSUME Granted(r, spec)'
        PROVE  \E x \in Accepted(txn[t].req)' :
                  txn'[t].spec = x \/ txn'[t].spec = [x EXCEPT !.port = txn'[t].spec.port]
    <2>1. \E x \in Accepted(r)' : spec = x \/ spec = [x EXCEPT !.port = spec.port]
      BY <1>2 DEF Granted
    <2>2. Accepted(txn[t].req)' = Accepted(r)'
      BY <1>1 DEF Accepted, CreateAccepted, UpdateAccepted, StartAccepted, StopAccepted, DeleteAccepted,
                  MemberQuotaAccepted, AssignAccepted
    <2> QED
      BY <1>1, <2>1, <2>2, Zenon
  <1>3. CASE Check(t)
    <2>1. UNCHANGED quotaVars /\ txn'[t].req = txn[t].req /\ txn'[t].spec \in Accepted(txn[t].req)
      BY <1>3, CheckWrites
    <2>2. spec \in Accepted(r)'
      BY <1>1, <2>1, AcceptedIsAboutTables
    <2> QED
      BY <1>2, <2>2 DEF Granted
  <1>4. CASE ~Check(t) /\ r.op \in Tenant
    <2>1. txn'[t] = txn[t] /\ Quiet(CloudOf[Subject(txn[t].req)])
      BY <1>1, <1>4, OthersAreQuiet
    <2>2. r = txn[t].req /\ spec = txn[t].spec /\ txn[t] # Idle /\ txn[t].checked
      BY <1>1, <2>1
    <2>3. ValidRequest(r) /\ RequestStands(r, spec) /\ Quiet(CloudOf[Subject(r)])
      BY <2>1, <2>2, SessionFields
    <2>4. RequestStands(r, spec)'
      BY <1>1 DEF IInv, DecisionsStand
    <2>5. r.op \in Changes => NamesKept(r.svc)
      BY <2>1, <2>2, NamesStay
    <2>6. Granted(r, spec)
      BY <2>2 DEF GrantsStand, Granted
    <2>7. Granted(r, spec)'
      BY <1>4, <2>3, <2>4, <2>5, <2>6, GrantSurvives
    <2> QED
      BY <1>2, <2>7
  <1>5. CASE ~Check(t) /\ r.op \notin Tenant
    <2>1. /\ txn[t] # Idle /\ txn[t].checked
          /\ spec = txn[t].spec /\ r.op = txn[t].req.op
      BY <1>1, <1>5, SessionStays
    <2>2. ValidRequest(txn[t].req) /\ ValidRequest(r)
      BY <1>1, <2>1, SessionFields DEF IInv, SessionsAreValid, ValidSession
    <2>3. Accepted(txn[t].req) = {NoSpec} /\ Accepted(r)' = {NoSpec}
      BY <1>5, <2>1, <2>2, PlainRequests
    <2>4. \E x \in Accepted(txn[t].req) : spec = x \/ spec = [x EXCEPT !.port = spec.port]
      BY <2>1 DEF GrantsStand
    <2>5. Granted(r, spec)'
      BY <2>3, <2>4 DEF Granted
    <2> QED
      BY <1>2, <2>5
  <1> QED
    BY <1>3, <1>4, <1>5

\* A row that is written where there is room brings nothing above its limits.
LEMMA WriteRespects ==
    ASSUME IInv, NEW s \in Services, NEW row \in Row \cup {Absent}, svc' = [svc EXCEPT ![s] = row],
           UNCHANGED <<defaults, override, member>>,
           Metered(s) /\ row # Absent =>
              /\ row.state # "deleting" =>
                    Room(Allocated(AccountOf[s], ProviderOf[s]), s, row.spec,
                         ResourceQuota(AccountOf[s])[ProviderOf[s]])
              /\ ServiceQuotasEnabled =>
                    Room(CloudAllocated(CloudOf[AccountOf[s]], ProviderOf[s]), s, row.spec,
                         CloudQuota(CloudOf[AccountOf[s]])[ProviderOf[s]])
              /\ \A u \in MembersOf[AccountOf[s]] :
                    row.state # "deleting" /\ row.owner = u /\ member[AccountOf[s]][u] # NoLimit =>
                       /\ Live(s) => svc[s].owner = u
                       /\ Room(OwnedBy(AccountOf[s], ProviderOf[s], u), s, row.spec,
                               MemberQuota(AccountOf[s], u)[ProviderOf[s]])
    PROVE  GrowsWithinLimits
  <1>1. /\ svc \in [Services -> Row \cup {Absent}] /\ svc' \in [Services -> Row \cup {Absent}]
        /\ svc'[s] = row /\ \A q \in Services \ {s} : svc'[q] = svc[q]
    BY LimitTypes
  <1>2. \A a, u, c : /\ ResourceQuota(a)' = ResourceQuota(a) /\ CloudQuota(c)' = CloudQuota(c)
                     /\ MemberQuota(a, u)' = MemberQuota(a, u)
    BY DEF ResourceQuota, CloudQuota, MemberQuota
  <1>3. \A R : UnitsOf(R) = Counted(svc, R) /\ UnitsOf(R)' = Counted(svc', R)
    BY DEF UnitsOf, Counted
  <1>4. ASSUME NEW S \in SUBSET Services, NEW T \in SUBSET Services, T \ {s} = S \ {s},
               \A q \in S : svc[q] # Absent, \A q \in T : svc'[q] # Absent,
               NEW limits, limits.services \in Nat, limits.total \in Nat,
               s \in T => Room(S, s, row.spec, limits) /\ (Live(s) => s \in S)
        PROVE  /\ Cardinality(T) > Cardinality(S) => Cardinality(T) <= limits.services
               /\ Cardinality(Counted(svc', T)) > Cardinality(Counted(svc, S))
                     => Cardinality(Counted(svc', T)) <= limits.total
    <2>1. Rows(svc, S) /\ Rows(svc', T)
      BY <1>1, <1>4 DEF Rows, Row, SpecOf
    <2>2. \A q \in S \ {s} : svc'[q].spec.units = svc[q].spec.units
      BY <1>1, <1>4
    <2>3. UnitsOf(S \ {s}) = Counted(svc, S \ {s})
      BY <1>3
    <2>4. s \in T => /\ s \in S \/ Cardinality(S \ {s}) + 1 <= limits.services
                     /\ \/ s \in S /\ svc'[s].spec.units <= svc[s].spec.units
                        \/ Cardinality(UnitsOf(S \ {s})) + svc'[s].spec.units <= limits.total
      BY <1>1, <1>4 DEF Room
    <2>5. Cardinality(UnitsOf(S \ {s})) = Cardinality(Counted(svc, S \ {s}))
      BY <2>3, Zenon
    <2>6. s \in T => \/ s \in S /\ svc'[s].spec.units <= svc[s].spec.units
                     \/ Cardinality(Counted(svc, S \ {s})) + svc'[s].spec.units <= limits.total
      BY <2>4, <2>5
    <2>7. PICK f, g : f = svc /\ g = svc'
      OBVIOUS
    <2> QED
      BY <1>4, <2>1, <2>2, <2>4, <2>6, <2>7, RoomCovers
  <1> SUFFICES ASSUME NEW p \in QuotaProviders
               PROVE  /\ \A a \in Accounts :
                            \A f \in {"services", "total"} :
                               /\ Usage(Allocated(a, p))'[f] > Usage(Allocated(a, p))[f] =>
                                     Usage(Allocated(a, p))'[f] <= ResourceQuotaTenant(a, p)'.limits[f]
                               /\ \A u \in MembersOf[a] :
                                     (member'[a][u] # NoLimit /\
                                      OrganizationMemberQuota(a, p, u)'.usage[f] > OrganizationMemberQuota(a, p, u).usage[f]) =>
                                        OrganizationMemberQuota(a, p, u)'.usage[f] <= OrganizationMemberQuota(a, p, u)'.limits[f]
                      /\ \A c \in CloudOrganizations :
                            \A f \in {"services", "total"} :
                               ServiceQuotasEnabled /\ Usage(CloudAllocated(c, p))'[f] > Usage(CloudAllocated(c, p))[f] =>
                                  Usage(CloudAllocated(c, p))'[f] <= CloudQuota(c)'[p][f]
    BY DEF GrowsWithinLimits
  <1>5. ASSUME NEW a \in Accounts, NEW f \in {"services", "total"}
        PROVE  Usage(Allocated(a, p))'[f] > Usage(Allocated(a, p))[f] =>
                  Usage(Allocated(a, p))'[f] <= ResourceQuotaTenant(a, p)'.limits[f]
    <2>1. PICK S, T, limits : S = Allocated(a, p) /\ T = Allocated(a, p)' /\ limits = ResourceQuota(a)[p]
      OBVIOUS
    <2>2. /\ S \in SUBSET Services /\ T \in SUBSET Services /\ T \ {s} = S \ {s}
          /\ \A q \in S : svc[q] # Absent
          /\ \A q \in T : svc'[q] # Absent
          /\ s \in T => AccountOf[s] = a /\ ProviderOf[s] = p /\ row # Absent /\ row.state # "deleting"
          /\ s \in T /\ Live(s) => s \in S
      BY <1>1, <2>1 DEF Allocated, Live, Present
    <2>3. s \in T => Room(S, s, row.spec, limits)
      BY <2>1, <2>2 DEF Metered
    <2>4. limits.services \in Nat /\ limits.total \in Nat
      BY <1>5, <2>1, LimitsAreNumbers
    <2>5. /\ Cardinality(T) > Cardinality(S) => Cardinality(T) <= limits.services
          /\ Cardinality(Counted(svc', T)) > Cardinality(Counted(svc, S))
                => Cardinality(Counted(svc', T)) <= limits.total
      BY <1>4, <2>2, <2>3, <2>4
    <2>6. /\ Usage(Allocated(a, p)) = [services |-> Cardinality(S), total |-> Cardinality(Counted(svc, S))]
          /\ Usage(Allocated(a, p))' = [services |-> Cardinality(T), total |-> Cardinality(Counted(svc', T))]
      BY <2>1, Zenon DEF Usage, UnitsOf, Counted
    <2>7. ResourceQuotaTenant(a, p)'.limits = limits
      BY <1>2, <2>1 DEF ResourceQuotaTenant
    <2> QED
      BY <1>5, <2>5, <2>6, <2>7
  <1>6. ASSUME NEW a \in Accounts, NEW f \in {"services", "total"}, NEW u \in MembersOf[a], member'[a][u] # NoLimit
        PROVE  OrganizationMemberQuota(a, p, u)'.usage[f] > OrganizationMemberQuota(a, p, u).usage[f] =>
                  OrganizationMemberQuota(a, p, u)'.usage[f] <= OrganizationMemberQuota(a, p, u)'.limits[f]
    <2>1. PICK S, T, limits : S = OwnedBy(a, p, u) /\ T = OwnedBy(a, p, u)' /\ limits = MemberQuota(a, u)[p]
      OBVIOUS
    <2>2. /\ S \in SUBSET Services /\ T \in SUBSET Services /\ T \ {s} = S \ {s}
          /\ \A q \in S : svc[q] # Absent
          /\ \A q \in T : svc'[q] # Absent
          /\ s \in T => /\ AccountOf[s] = a /\ ProviderOf[s] = p /\ row # Absent /\ row.state # "deleting"
                        /\ row.owner = u
          /\ s \in T /\ Live(s) /\ svc[s].owner = u => s \in S
      BY <1>1, <2>1 DEF OwnedBy, Allocated, Live, Present
    <2>3. s \in T => Room(S, s, row.spec, limits) /\ (Live(s) => s \in S)
      BY <1>6, <2>1, <2>2 DEF Metered
    <2>4. limits.services \in Nat /\ limits.total \in Nat
      BY <1>6, <2>1, LimitsAreNumbers
    <2>5. /\ Cardinality(T) > Cardinality(S) => Cardinality(T) <= limits.services
          /\ Cardinality(Counted(svc', T)) > Cardinality(Counted(svc, S))
                => Cardinality(Counted(svc', T)) <= limits.total
      BY <1>4, <2>2, <2>3, <2>4
    <2>6. /\ Usage(OwnedBy(a, p, u)) = [services |-> Cardinality(S), total |-> Cardinality(Counted(svc, S))]
          /\ Usage(OwnedBy(a, p, u))' = [services |-> Cardinality(T), total |-> Cardinality(Counted(svc', T))]
      BY <2>1, Zenon DEF Usage, UnitsOf, Counted
    <2>7. /\ OrganizationMemberQuota(a, p, u)'.limits = limits
          /\ OrganizationMemberQuota(a, p, u).usage = Usage(OwnedBy(a, p, u))
          /\ OrganizationMemberQuota(a, p, u)'.usage = Usage(OwnedBy(a, p, u))'
      BY <1>2, <2>1 DEF OrganizationMemberQuota
    <2> QED
      BY <1>6, <2>5, <2>6, <2>7
  <1>7. ASSUME NEW c \in CloudOrganizations, NEW f \in {"services", "total"}, ServiceQuotasEnabled
        PROVE  Usage(CloudAllocated(c, p))'[f] > Usage(CloudAllocated(c, p))[f] =>
                  Usage(CloudAllocated(c, p))'[f] <= CloudQuota(c)'[p][f]
    <2>1. PICK S, T, limits : S = CloudAllocated(c, p) /\ T = CloudAllocated(c, p)' /\ limits = CloudQuota(c)[p]
      OBVIOUS
    <2>2. /\ S \in SUBSET Services /\ T \in SUBSET Services /\ T \ {s} = S \ {s}
          /\ \A q \in S : svc[q] # Absent
          /\ \A q \in T : svc'[q] # Absent
          /\ s \in T => CloudOf[AccountOf[s]] = c /\ ProviderOf[s] = p /\ row # Absent
          /\ s \in T /\ Live(s) => s \in S
      BY <1>1, <2>1 DEF CloudAllocated, Live, Present
    <2>3. s \in T => Room(S, s, row.spec, limits)
      BY <1>7, <2>1, <2>2 DEF Metered
    <2>4. limits.services \in Nat /\ limits.total \in Nat
      BY <1>7, <2>1, LimitsAreNumbers DEF CloudOrganizations
    <2>5. /\ Cardinality(T) > Cardinality(S) => Cardinality(T) <= limits.services
          /\ Cardinality(Counted(svc', T)) > Cardinality(Counted(svc, S))
                => Cardinality(Counted(svc', T)) <= limits.total
      BY <1>4, <2>2, <2>3, <2>4
    <2>6. /\ Usage(CloudAllocated(c, p)) = [services |-> Cardinality(S), total |-> Cardinality(Counted(svc, S))]
          /\ Usage(CloudAllocated(c, p))' = [services |-> Cardinality(T), total |-> Cardinality(Counted(svc', T))]
      BY <2>1, Zenon DEF Usage, UnitsOf, Counted
    <2>7. CloudQuota(c)'[p] = limits
      BY <1>2, <2>1
    <2> QED
      BY <1>7, <2>5, <2>6, <2>7
  <1> QED
    BY <1>5, <1>6, <1>7

\* The commits that write rows.
LEMMA CommitRespects ==
    ASSUME IInv, AdmissionsStand, NEW t \in Txns,
           CommitCreate(t) \/ CommitChange(t) \/ BeginDelete(t) \/ CommitAssign(t)
    PROVE  GrowsWithinLimits
  <1> USE DEF Changes, OnService, OnAccount
  <1> DEFINE r == txn[t].req
             spec == txn[t].spec
  <1>1. /\ txn[t] # Idle /\ txn[t].checked /\ ValidRequest(r) /\ RequestStands(r, spec)
        /\ UNCHANGED <<defaults, override, member>>
    BY SessionFields DEF CommitCreate, CommitChange, BeginDelete, CommitAssign, Committing
  <1>2. ASSUME NEW s \in Services, Live(s)
        PROVE  /\ svc[s] \in Row /\ svc[s].spec.units \in Nat
               /\ \A S, limits : Room(S, s, svc[s].spec, limits)
    <2>1. svc[s] \in Row
      BY <1>2, LimitTypes DEF Live, Present
    <2>2. svc[s].spec.units \in Nat
      BY <2>1, QuotasAssumption DEF Row, SpecOf
    <2> QED
      BY <1>2, <2>1, <2>2 DEF Room
  <1>3. CASE CommitCreate(t)
    <2> DEFINE s == r.svc
    <2>1. /\ r.op = "create"
          /\ svc' = [svc EXCEPT ![s] = [owner |-> r.owner, state |-> "live", spec |-> spec]]
      BY <1>3 DEF CommitCreate, Committing
    <2>2. s \in Services /\ r.owner \in Users \cup {NoUser} /\ spec \in SpecOf /\ ~Present(s)
      BY <1>1, <2>1 DEF ValidRequest, RequestStands, ChangeStands, Fits
    <2>3. PICK row : row = [owner |-> r.owner, state |-> "live", spec |-> spec]
      OBVIOUS
    <2>4. row \in Row /\ row.owner = r.owner /\ row.spec = spec
      BY <2>2, <2>3 DEF Row
    <2>5. Metered(s) => Funded(s, r.owner, spec)
      BY <1>1, <2>1 DEF AdmissionsStand, ChargedTo
    <2>6. ~Live(s) /\ svc' = [svc EXCEPT ![s] = row]
      BY <2>1, <2>2, <2>3 DEF Live
    <2> HIDE DEF r, spec
    <2> QED
      BY <1>1, <2>2, <2>4, <2>5, <2>6, WriteRespects DEF Funded
  <1>4. CASE CommitChange(t)
    <2> DEFINE s == r.svc
    <2>1. /\ r.op \in {"update", "start", "stop"}
          /\ svc' = [svc EXCEPT ![s] = [svc[s] EXCEPT !.spec = spec]]
      BY <1>4 DEF CommitChange, Committing
    <2>2. s \in Services /\ spec \in SpecOf /\ Live(s)
      BY <1>1, <2>1 DEF ValidRequest, RequestStands, ChangeStands, Fits
    <2>3. PICK row : row = [svc[s] EXCEPT !.spec = spec]
      OBVIOUS
    <2> HIDE DEF spec
    <2>4. row \in Row /\ row.owner = svc[s].owner /\ row.spec = spec
      BY <1>2, <2>2, <2>3 DEF Row
    <2>5. Metered(s) => Funded(s, svc[s].owner, spec)
      BY <1>1, <2>1 DEF AdmissionsStand, ChargedTo, spec
    <2>6. svc' = [svc EXCEPT ![s] = row]
      BY <2>1, <2>3
    <2> HIDE DEF r
    <2> QED
      BY <1>1, <2>2, <2>4, <2>5, <2>6, WriteRespects DEF Funded
  <1>5. CASE BeginDelete(t)
    <2> DEFINE s == r.svc
    <2>1. r.op = "delete" /\ svc' = [svc EXCEPT ![s] = [svc[s] EXCEPT !.state = "deleting"]]
      BY <1>5 DEF BeginDelete, Committing
    <2>2. s \in Services /\ Live(s)
      BY <1>1, <2>1 DEF ValidRequest, RequestStands
    <2>3. PICK row : row = [svc[s] EXCEPT !.state = "deleting"]
      OBVIOUS
    <2>4. row \in Row /\ row.state = "deleting" /\ row.spec = svc[s].spec
      BY <1>2, <2>2, <2>3 DEF Row
    <2>5. svc' = [svc EXCEPT ![s] = row]
      BY <2>1, <2>3
    <2>6. \A S, limits : Room(S, s, row.spec, limits)
      BY <1>2, <2>2, <2>4
    <2> HIDE DEF r, spec
    <2> QED
      BY <1>1, <2>2, <2>4, <2>5, <2>6, WriteRespects
  <1>6. CASE CommitAssign(t)
    <2>1. r.op = "assign"
      BY <1>6 DEF CommitAssign, Committing
    <2>2. CASE r.target = Robot
      BY <1>6, <2>2 DEF CommitAssign, GrowsWithinLimits
    <2>3. CASE r.target # Robot
      <3> DEFINE s == r.target
                 user == r.user
      <3>1. svc' = [svc EXCEPT ![s] = [svc[s] EXCEPT !.owner = user]]
        BY <1>6, <2>3 DEF CommitAssign
      <3>2. /\ s \in UnassignedServices(r.account) /\ s \in Services /\ Live(s) /\ user \in Users
            /\ r.account \in Accounts /\ AccountOf[s] = r.account
        BY <1>1, <2>1, <2>3 DEF RequestStands, ValidRequest, UnassignedServices
      <3>3. ~HasMemberLimits(AccountOf[s])
        BY <3>2 DEF IInv, RowsAreSound, MemberLimitsCoverAll
      <3>4. \A u \in MembersOf[AccountOf[s]] : member[AccountOf[s]][u] = NoLimit
        BY <3>3 DEF HasMemberLimits
      <3>5. PICK row : row = [svc[s] EXCEPT !.owner = user]
        OBVIOUS
      <3> HIDE DEF user
      <3>6. row \in Row /\ row.spec = svc[s].spec
        BY <1>2, <3>2, <3>5 DEF Row
      <3>7. svc' = [svc EXCEPT ![s] = row]
        BY <3>1, <3>5
      <3>8. \A S, limits : Room(S, s, row.spec, limits)
        BY <1>2, <3>2, <3>6
      <3> HIDE DEF r, spec
      <3> QED
        BY <1>1, <3>2, <3>4, <3>6, <3>7, <3>8, WriteRespects
    <2> QED
      BY <2>2, <2>3
  <1> QED
    BY <1>3, <1>4, <1>5, <1>6

LEMMA StepRespects ==
    ASSUME IInv, AdmissionsStand,
           [AllocationNext(Services, Accounts, ValidSpecs, Actors, Operations)]_allocationVars
    PROVE  GrowsWithinLimits
  <1>1. ASSUME svc' = svc PROVE GrowsWithinLimits
    BY <1>1 DEF GrowsWithinLimits
  <1>2. CASE UNCHANGED allocationVars
    BY <1>1, <1>2 DEF allocationVars, quotaVars
  <1>3. ASSUME NEW t \in Txns, Ask(t, Services, Accounts, ValidSpecs, Actors, Operations)
        PROVE  GrowsWithinLimits
    BY <1>1, <1>3, AskBegins DEF quotaVars
  <1>4. ASSUME NEW t \in Txns, Transact(t) PROVE GrowsWithinLimits
    <2>1. CASE CommitCreate(t) \/ CommitChange(t) \/ BeginDelete(t) \/ CommitAssign(t)
      BY <2>1, CommitRespects
    <2>2. CASE \/ FetchCatalogue(t) \/ ProviderUnavailable(t) \/ TakeLock(t) \/ Check(t) \/ Refuse(t)
               \/ CommitDefaults(t) \/ CommitQuota(t) \/ CommitMemberQuota(t) \/ CommitSync(t)
      <3>1. svc' = svc
        BY <2>2 DEF FetchCatalogue, ProviderUnavailable, TakeLock, Check, Refuse, CommitDefaults,
                    CommitQuota, CommitMemberQuota, CommitSync, quotaVars
      <3> QED
        BY <1>1, <3>1
    <2> QED
      BY <1>4, <2>1, <2>2 DEF Transact
  <1>5. ASSUME NEW s \in Services, CompleteDelete(s) PROVE GrowsWithinLimits
    <2>1. svc' = [svc EXCEPT ![s] = Absent] /\ UNCHANGED <<defaults, override, member>>
      BY <1>5 DEF CompleteDelete
    <2>2. PICK row : row = Absent
      OBVIOUS
    <2> QED
      BY <2>1, <2>2, WriteRespects
  <1> QED
    BY <1>2, <1>3, <1>4, <1>5 DEF AllocationNext
-----------------------------------------------------------------------------
(***************************************************************************)
(* Theorems                                                                *)
(***************************************************************************)
\* Rows, limits and transactions have their types, and only active users are recorded with
\* access to a GPU (sync_gpu_catalog).
THEOREM AllocationTypes == AllocationSpec => []AllocationTypeOK
  <1>1. IInv => AllocationTypeOK
    BY SessionFields DEF IInv, AllocationTypeOK, RowsAreSound, TablesAreTyped, SessionsAreValid,
       ValidSession, AllHeld
  <1> QED
    BY <1>1, Invariance, PTL

\* However many transactions are under way, no two live services come to share a public port
\* and no two buckets a name: prepare_flash_spec and prepare_syouyu_spec decide under
\* lock_flash_allocations and lock_syouyu_bucket_names, and hold them until they commit.
THEOREM UniqueNames == AllocationSpec => []NamesAreUnique
  <1>1. IInv => NamesAreUnique
    BY DEF IInv, RowsAreSound
  <1> QED
    BY <1>1, Invariance, PTL

\* The VPC a Flash service is attached to is there, live, and has the service's groups: an
\* attachment, a change of the VPC's groups and its deletion exclude one another by the lock
\* of the account that both are in (lock_tenant_allocations, validate_vpc_attachment,
\* begin_delete_service_instance).
THEOREM ValidAttachments == AllocationSpec => []AttachmentIsValid
  <1>1. IInv => AttachmentIsValid
    BY DEF IInv, RowsAreSound, AttachmentsAreOwn, Attachable, AttachmentIsValid
  <1> QED
    BY <1>1, Invariance, PTL

\* While a member has limits, no metered service of the account belongs to nobody: a limit is
\* set (set_member_resource_quota) and an unowned service created
\* (create_service_instance_with_id_for_user) under the same lock of the account.
THEOREM CoveredMembers == AllocationSpec => []MemberLimitsCoverAll
  <1>1. IInv => MemberLimitsCoverAll
    BY DEF IInv, RowsAreSound
  <1> QED
    BY <1>1, Invariance, PTL

\* No set of transactions, of any size, waits for one another: all of them take defaults,
\* organization, account and names in this order (lock_tenant_allocations,
\* lock_flash_allocations, lock_syouyu_bucket_names).
THEOREM DeadlockFree == AllocationSpec => []NoDeadlock
  <1>1. IInv => NoDeadlock
    BY ClimbingAvoidsDeadlock DEF IInv
  <1> QED
    BY <1>1, Invariance, PTL
\* However many transactions are under way, in one account, in several accounts of an
\* organization or against a change of the limits, none brings usage above a limit in force
\* when it commits: create_service_instance_with_id_for_user and
\* update_service_instance_checked compare under lock_tenant_allocations, and hold the locks of
\* the defaults, the organization and the account until they commit.
THEOREM AdmissionsRespected == AllocationSpec => AdmissionRespectsLimits
  <1>1. IInv /\ AdmissionsStand
        /\ [AllocationNext(Services, Accounts, ValidSpecs, Actors, Operations)]_allocationVars
        => [GrowsWithinLimits]_allocationVars
    BY StepRespects
  <1> QED
    BY <1>1, AdmissionInvariance, PTL DEF AllocationSpec, AdmissionRespectsLimits

(* Nothing that commits between a decision and its commit can refuse it:   *)
(* what the store granted under its locks it would grant again in the      *)
(* state it writes to, whatever sessions, services, accounts, limits and   *)
(* GPU users there are and whatever the worker removes meanwhile           *)
(* (lock_tenant_allocations, lock_flash_allocations,                       *)
(* lock_syouyu_bucket_names).                                              *)
THEOREM GrantsStandUntilCommit == AllocationSpec => []GrantsStand
  <1>1. AllocationInit => GrantsStand
    BY DEF AllocationInit, GrantsStand
  <1> QED
    BY <1>1, Invariance, GrantsStep, PTL DEF AllocationSpec
=============================================================================
