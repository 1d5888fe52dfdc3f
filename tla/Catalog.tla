------------------------------ MODULE Catalog -------------------------------
(***************************************************************************)
(* The public catalog (catalog_policy.go, catalog_usecase.go and their     *)
(* repository and handlers).  Every request passes one gate, which asks    *)
(* identity for the public policy while it holds a mutex and keeps closed  *)
(* answers for a time; then it refreshes the snapshot of the tenant when   *)
(* that is older than its time to live, and only then reads the classes.   *)
(*                                                                         *)
(* One class stands for the catalog and its tenant for all tenants.        *)
(***************************************************************************)
EXTENDS Integers, FiniteSets, TLC

CONSTANTS Visitors,    \* the requests
          NoOne,       \* none of them
          MaxPolicies, \* how often identity's operators change the policy
          MaxLapses    \* how often a cached answer or a snapshot grows old, or
                       \* the tenant is switched

VARIABLES policy,    \* identity's policy: open, the desired and applied versions
          tenantOn,  \* identity's word on the tenant
          cached,    \* the gate's last answer: "none", "open" or "closed"
          mutex,     \* the request inside the gate
          snapshot,  \* what the snapshot says of the tenant, and if it is fresh
          at,        \* where a request is
          told,      \* what identity told a request about the tenant
          sawOpen,   \* a trusted open policy was in force since the request came
          reply,     \* status, and whether a class was shown
          lapses

catalogVars == <<policy, tenantOn, cached, mutex, snapshot, at, told, sawOpen, reply, lapses>>

\* ParseCatalogPolicy: an open answer is trusted only when its version was
\* applied, or nothing was ever desired.
ParseCatalogPolicy(p) == ~(p.open /\ p.desired > 0 /\ p.applied = 0) /\ p.applied =< p.desired

TrustedOpen(p) == p.open /\ ParseCatalogPolicy(p)

Routes == {"list", "class", "reviews"}

Kinds == [route : Routes, valid : BOOLEAN]

CatalogInit ==
    /\ policy \in [open : BOOLEAN, desired : {0}, applied : {0}]
    /\ tenantOn = TRUE
    /\ cached = "none"
    /\ mutex = NoOne
    /\ snapshot \in {[known |-> FALSE, on |-> FALSE, fresh |-> FALSE],
                     [known |-> TRUE, on |-> TRUE, fresh |-> FALSE]}
    /\ at = [v \in Visitors |-> "away"]
    /\ told = [v \in Visitors |-> FALSE]
    /\ sawOpen = [v \in Visitors |-> FALSE]
    /\ reply = [v \in Visitors |-> [route |-> "list", status |-> 0, shown |-> FALSE]]
    /\ lapses = 0

Answer(v, status, shown) ==
    /\ at' = [at EXCEPT ![v] = "done"]
    /\ reply' = [reply EXCEPT ![v].status = status, ![v].shown = shown]

\* ListClasses of the handler and CatalogQuery.Validate refuse bad queries,
\* GetClass and List of reviews ids that are not UUIDs, before the gate.
Visit(v) ==
    /\ at[v] = "away"
    /\ sawOpen' = [sawOpen EXCEPT ![v] = TrustedOpen(policy)]
    /\ \E k \in Kinds :
          IF k.valid
          THEN /\ at' = [at EXCEPT ![v] = "gate"]
               /\ reply' = [reply EXCEPT ![v].route = k.route]
          ELSE /\ at' = [at EXCEPT ![v] = "done"]
               /\ reply' = [reply EXCEPT ![v].route = k.route,
                              ![v].status = IF k.route = "list" THEN 400 ELSE 404]
    /\ UNCHANGED <<policy, tenantOn, cached, mutex, snapshot, told, lapses>>

\* A closed catalog is an empty list, a missing class, no reviews.
Closed(v) == Answer(v, IF reply[v].route = "list" THEN 200 ELSE 404, FALSE)

\* Mutant: a gate that trusts every cached answer.
ServedFromCache_Any(v) == cached # "none"

\* Only a closed answer is served again.
ServedFromCache(v) == cached = "closed"

\* catalogPolicyGate.policy takes the mutex, and drops the old answer before
\* it asks.
EnterGate(v) ==
    /\ at[v] = "gate" /\ mutex = NoOne
    /\ IF ServedFromCache(v)
       THEN /\ IF cached = "closed"
               THEN Closed(v)
               ELSE /\ at' = [at EXCEPT ![v] = "refresh"]
                    /\ UNCHANGED reply
            /\ UNCHANGED <<cached, mutex>>
       ELSE /\ cached' = "none"
            /\ mutex' = v
            /\ at' = [at EXCEPT ![v] = "ask"]
            /\ UNCHANGED reply
    /\ UNCHANGED <<policy, tenantOn, snapshot, told, sawOpen, lapses>>

\* Mutant: a failure that forgets to give the mutex back.
AskPolicyFails_KeepsMutex(v) ==
    /\ at[v] = "ask"
    /\ Answer(v, 503, FALSE)
    /\ UNCHANGED <<policy, tenantOn, cached, mutex, snapshot, told, sawOpen, lapses>>

\* GetPublicCatalogPolicy fails, or answers what holds now.  A failed or
\* untrusted answer hides the catalog, and none is kept.
AskPolicyFails(v) ==
    /\ at[v] = "ask"
    /\ Answer(v, 503, FALSE)
    /\ mutex' = NoOne
    /\ UNCHANGED <<policy, tenantOn, cached, snapshot, told, sawOpen, lapses>>

AskPolicy(v) ==
    /\ at[v] = "ask"
    /\ mutex' = NoOne
    /\ CASE ~ParseCatalogPolicy(policy) -> Answer(v, 503, FALSE) /\ UNCHANGED cached
         [] ParseCatalogPolicy(policy) /\ ~policy.open -> Closed(v) /\ cached' = "closed"
         [] OTHER -> /\ at' = [at EXCEPT ![v] = "refresh"]
                     /\ cached' = "open"
                     /\ UNCHANGED reply
    /\ UNCHANGED <<policy, tenantOn, snapshot, told, sawOpen, lapses>>

\* refreshTenantSnapshots: a fresh snapshot is used as it is; otherwise
\* identity is asked, and a failure to ask leaves the old snapshot.
RefreshTenantSnapshots(v) ==
    /\ at[v] = "refresh"
    /\ \/ /\ snapshot.fresh
          /\ at' = [at EXCEPT ![v] = "query"]
          /\ UNCHANGED told
       \/ /\ ~snapshot.fresh
          /\ at' = [at EXCEPT ![v] = "query"]
          /\ UNCHANGED told
       \/ /\ ~snapshot.fresh
          /\ at' = [at EXCEPT ![v] = "upsert"]
          /\ told' = [told EXCEPT ![v] = tenantOn]
    /\ UNCHANGED <<policy, tenantOn, cached, mutex, snapshot, sawOpen, reply, lapses>>

\* The last writer wins, whatever identity told it and when; a failed write
\* leaves the old snapshot.
UpsertTenantSnapshots(v) ==
    /\ at[v] = "upsert"
    /\ at' = [at EXCEPT ![v] = "query"]
    /\ \/ snapshot' = [known |-> TRUE, on |-> told[v], fresh |-> TRUE]
       \/ UNCHANGED snapshot
    /\ told' = [told EXCEPT ![v] = FALSE]
    /\ UNCHANGED <<policy, tenantOn, cached, mutex, sawOpen, reply, lapses>>

\* List and GetByID join the active snapshot; the class itself may not be
\* there, be unpublished or not be open.
Query(v) ==
    /\ at[v] = "query"
    /\ \E found, fails \in BOOLEAN :
          LET shown == found /\ snapshot.known /\ snapshot.on
          IN Answer(v, CASE fails -> 500
                         [] ~fails /\ reply[v].route = "list" -> 200
                         [] OTHER -> IF shown THEN 200 ELSE 404, shown /\ ~fails)
    /\ UNCHANGED <<policy, tenantOn, cached, mutex, snapshot, told, sawOpen, lapses>>

-----------------------------------------------------------------------------
(* Identity and the clock. *)

SeesPolicy(p) ==
    sawOpen' = [v \in Visitors |->
                  sawOpen[v] \/ (at[v] \notin {"away", "done"} /\ TrustedOpen(p))]

\* Operators desire a policy; identity applies it later.
DesirePolicy ==
    /\ policy.desired < MaxPolicies
    /\ policy' = [policy EXCEPT !.desired = @ + 1]
    /\ SeesPolicy(policy')
    /\ UNCHANGED <<tenantOn, cached, mutex, snapshot, at, told, reply, lapses>>

ApplyPolicy ==
    /\ policy.applied < policy.desired
    /\ policy' = [policy EXCEPT !.applied = policy.desired, !.open = ~@]
    /\ SeesPolicy(policy')
    /\ UNCHANGED <<tenantOn, cached, mutex, snapshot, at, told, reply, lapses>>

Lapse ==
    /\ lapses < MaxLapses
    /\ lapses' = lapses + 1
    /\ UNCHANGED <<policy, mutex, at, told, sawOpen, reply>>

\* The cached answer passes its time to live; an open one has no use anyway.
CacheExpires ==
    /\ cached = "closed" /\ Lapse
    /\ cached' = "none"
    /\ UNCHANGED <<tenantOn, snapshot>>

SnapshotAges ==
    /\ snapshot.fresh /\ Lapse
    /\ snapshot' = [snapshot EXCEPT !.fresh = FALSE]
    /\ UNCHANGED <<tenantOn, cached>>

TenantSwitched ==
    /\ Lapse
    /\ tenantOn' = ~tenantOn
    /\ UNCHANGED <<cached, snapshot>>

Proceed(v) ==
    \/ EnterGate(v) \/ AskPolicyFails(v) \/ AskPolicy(v)
    \/ RefreshTenantSnapshots(v) \/ UpsertTenantSnapshots(v) \/ Query(v)

CatalogNext ==
    \/ \E v \in Visitors : Visit(v) \/ Proceed(v)
    \/ DesirePolicy \/ ApplyPolicy
    \/ CacheExpires \/ SnapshotAges \/ TenantSwitched

\* The server runs every request it has accepted, calls to identity end
\* with an answer or their deadline, and the mutex is fair.
CatalogFairness == \A v \in Visitors : WF_catalogVars(Proceed(v)) /\ SF_catalogVars(EnterGate(v))

CatalogSpec == CatalogInit /\ [][CatalogNext]_catalogVars /\ CatalogFairness

-----------------------------------------------------------------------------
\* A class is shown only to a visitor during whose request identity's policy
\* was open and trusted: an answer kept from before, an older answer of a
\* concurrent request or a failed call never opens a closed catalog
\* (catalog_policy.go:57, "a closing change reaches both routes on the next
\* call").
ClosedCatalogHidden ==
    \A v \in Visitors : reply[v].shown => sawOpen[v]

\* Every visitor is answered, whoever fails inside the gate while others wait
\* for its mutex (catalog_policy.go:61).
VisitorsAnswered ==
    \A v \in Visitors : at[v] # "away" ~> at[v] = "done"

-----------------------------------------------------------------------------
(* What makes it so: the inductive invariant of CatalogCreationProofs. *)

CatalogTypeOK ==
    /\ policy \in [open : BOOLEAN, desired : Int, applied : Int]
    /\ tenantOn \in BOOLEAN
    /\ cached \in {"none", "open", "closed"}
    /\ mutex \in Visitors \cup {NoOne}
    /\ snapshot \in [known : BOOLEAN, on : BOOLEAN, fresh : BOOLEAN]
    /\ at \in [Visitors -> {"away", "gate", "ask", "refresh", "upsert", "query", "done"}]
    /\ told \in [Visitors -> BOOLEAN]
    /\ sawOpen \in [Visitors -> BOOLEAN]
    /\ reply \in [Visitors -> [route : Routes, status : Int, shown : BOOLEAN]]
    /\ lapses \in Int

\* An open policy in force is noticed by every request under way, and whoever
\* is past the gate has met one.
GateSawOpen ==
    \A v \in Visitors :
       /\ at[v] \notin {"away", "done"} /\ TrustedOpen(policy) => sawOpen[v]
       /\ at[v] \in {"refresh", "upsert", "query"} => sawOpen[v]

\* A class is shown with the answer, not before it.
ShownAtTheEnd == \A v \in Visitors : reply[v].shown => at[v] = "done"

CatalogInvariant == CatalogTypeOK /\ GateSawOpen /\ ShownAtTheEnd /\ ClosedCatalogHidden

=============================================================================
