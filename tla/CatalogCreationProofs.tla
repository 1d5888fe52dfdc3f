----------------------- MODULE CatalogCreationProofs ------------------------
(***************************************************************************)
(* How classes are created and shown, for any number of requests.          *)
(*                                                                         *)
(* The public catalog stays hidden while identity's policy is closed.  A   *)
(* class is shown at the last step of a request, long after the gate asked *)
(* identity.  GateSawOpen carries what the gate learnt to that step: an    *)
(* open and trusted policy is noted by every request under way when it     *)
(* comes into force, and nobody passes the gate without it, because the    *)
(* answer that is served again is only ever the closed one.                *)
(*                                                                         *)
(* The requests that carry one idempotency key create at most one class,   *)
(* and the ones that are answered 201 are answered with it, for any number *)
(* of crashes and retries.  ClaimHasClass ties the row of the key to the   *)
(* class that was committed with it.  It is inductive because at most one  *)
(* keyed request is inside its transaction at a time, and it holds the     *)
(* claim (ClaimHeld): a write adds a keyed class only where the claim was  *)
(* not committed yet.                                                      *)
(***************************************************************************)
EXTENDS Catalog, ClassCreation, FiniteSetTheorems, TLAPS

(***************************************************************************)
(* The public catalog.                                                     *)
(***************************************************************************)

\* The initial states: nobody has come, nothing is shown.
LEMMA CatalogStarts == CatalogInit => CatalogInvariant
<1> SUFFICES ASSUME CatalogInit PROVE CatalogInvariant
  OBVIOUS
<1>1. policy \in [open : BOOLEAN, desired : Int, applied : Int]
  <2>1. policy \in [open : BOOLEAN, desired : {0}, applied : {0}]
    BY DEF CatalogInit
  <2> QED
    BY <2>1
<1>2. snapshot \in [known : BOOLEAN, on : BOOLEAN, fresh : BOOLEAN]
  <2>1. CASE snapshot = [known |-> FALSE, on |-> FALSE, fresh |-> FALSE]
    BY <2>1, Zenon
  <2>2. CASE snapshot = [known |-> TRUE, on |-> TRUE, fresh |-> FALSE]
    BY <2>2, Zenon
  <2> QED
    BY <2>1, <2>2 DEF CatalogInit
<1>3. [route |-> "list", status |-> 0, shown |-> FALSE]
        \in [route : Routes, status : Int, shown : BOOLEAN]
  BY DEF Routes
<1>4. CatalogTypeOK
  BY <1>1, <1>2, <1>3 DEF CatalogInit, CatalogTypeOK
<1>5. \A v \in Visitors : at[v] = "away" /\ ~reply[v].shown
  BY DEF CatalogInit
<1> QED
  BY <1>4, <1>5 DEF CatalogInvariant, GateSawOpen, ShownAtTheEnd, ClosedCatalogHidden

\* An answer that shows no class, or one to a visitor who met an open policy,
\* keeps the invariant.
LEMMA AnswerSound ==
    ASSUME CatalogInvariant, NEW v \in Visitors, NEW status \in Int, NEW shown \in BOOLEAN,
           Answer(v, status, shown), shown => sawOpen[v],
           UNCHANGED <<policy, sawOpen, told>>
    PROVE  /\ at' \in [Visitors -> {"away", "gate", "ask", "refresh", "upsert", "query",
                                    "done"}]
           /\ reply' \in [Visitors -> [route : Routes, status : Int, shown : BOOLEAN]]
           /\ GateSawOpen' /\ ShownAtTheEnd' /\ ClosedCatalogHidden'
<1>1. at' = [at EXCEPT ![v] = "done"]
  BY DEF Answer
<1>2. reply' = [reply EXCEPT ![v] = [reply[v] EXCEPT !.status = status, !.shown = shown]]
  BY DEF Answer, CatalogInvariant, CatalogTypeOK
<1>3. /\ reply[v] \in [route : Routes, status : Int, shown : BOOLEAN]
      /\ reply \in [Visitors -> [route : Routes, status : Int, shown : BOOLEAN]]
      /\ at \in [Visitors -> {"away", "gate", "ask", "refresh", "upsert", "query", "done"}]
  BY DEF CatalogInvariant, CatalogTypeOK
<1>4. [reply[v] EXCEPT !.status = status, !.shown = shown]
        \in [route : Routes, status : Int, shown : BOOLEAN]
  BY <1>3
<1>5. [reply[v] EXCEPT !.status = status, !.shown = shown].shown = shown
  BY <1>3
<1>6. \A w \in Visitors : /\ at'[w] = IF w = v THEN "done" ELSE at[w]
                          /\ w # v => reply'[w] = reply[w]
                          /\ w = v => reply'[w].shown = shown
  BY <1>1, <1>2, <1>3, <1>5
<1>7. GateSawOpen'
  BY <1>6 DEF CatalogInvariant, GateSawOpen, TrustedOpen, ParseCatalogPolicy
<1>8. ShownAtTheEnd' /\ ClosedCatalogHidden'
  BY <1>6 DEF CatalogInvariant, ShownAtTheEnd, ClosedCatalogHidden
<1> QED
  BY <1>1, <1>2, <1>3, <1>4, <1>7, <1>8

\* A closed catalog answers without a class.
LEMMA ClosedSound ==
    ASSUME CatalogInvariant, NEW v \in Visitors, Closed(v), UNCHANGED <<policy, sawOpen, told>>
    PROVE  /\ at' \in [Visitors -> {"away", "gate", "ask", "refresh", "upsert", "query",
                                    "done"}]
           /\ reply' \in [Visitors -> [route : Routes, status : Int, shown : BOOLEAN]]
           /\ GateSawOpen' /\ ShownAtTheEnd' /\ ClosedCatalogHidden'
<1>1. CASE reply[v].route = "list"
  <2>1. Answer(v, 200, FALSE)
    BY <1>1 DEF Closed
  <2>2. 200 \in Int /\ FALSE \in BOOLEAN
    OBVIOUS
  <2> QED
    BY <2>1, <2>2, AnswerSound
<1>2. CASE reply[v].route # "list"
  <2>1. Answer(v, 404, FALSE)
    BY <1>2 DEF Closed
  <2>2. 404 \in Int /\ FALSE \in BOOLEAN
    OBVIOUS
  <2> QED
    BY <2>1, <2>2, AnswerSound
<1> QED
  BY <1>1, <1>2

\* A request that goes on to another place keeps the invariant when it has met
\* an open policy, or when it stays before the gate.
LEMMA MoveSound ==
    ASSUME CatalogInvariant, NEW v \in Visitors,
           NEW where \in {"ask", "refresh", "upsert", "query"},
           at[v] \notin {"away", "done"},
           where # "ask" => sawOpen[v],
           at' = [at EXCEPT ![v] = where],
           UNCHANGED <<policy, sawOpen, reply>>
    PROVE  /\ at' \in [Visitors -> {"away", "gate", "ask", "refresh", "upsert", "query",
                                    "done"}]
           /\ GateSawOpen' /\ ShownAtTheEnd' /\ ClosedCatalogHidden'
<1>1. \A w \in Visitors : at'[w] = IF w = v THEN where ELSE at[w]
  BY DEF CatalogInvariant, CatalogTypeOK
<1>2. GateSawOpen'
  BY <1>1 DEF CatalogInvariant, GateSawOpen, TrustedOpen, ParseCatalogPolicy
<1>3. ShownAtTheEnd' /\ ClosedCatalogHidden'
  BY <1>1 DEF CatalogInvariant, ShownAtTheEnd, ClosedCatalogHidden
<1> QED
  BY <1>2, <1>3 DEF CatalogInvariant, CatalogTypeOK

\* A request comes: it notes the policy in force, and has shown nothing.
LEMMA VisitSound ==
    ASSUME CatalogInvariant, NEW v \in Visitors, Visit(v)
    PROVE  CatalogInvariant'
<1> USE DEF CatalogInvariant
<1>1. PICK k \in Kinds :
         IF k.valid
         THEN /\ at' = [at EXCEPT ![v] = "gate"]
              /\ reply' = [reply EXCEPT ![v].route = k.route]
         ELSE /\ at' = [at EXCEPT ![v] = "done"]
              /\ reply' = [reply EXCEPT ![v].route = k.route,
                             ![v].status = IF k.route = "list" THEN 400 ELSE 404]
  BY DEF Visit
<1>2. /\ reply[v] \in [route : Routes, status : Int, shown : BOOLEAN]
      /\ k.route \in Routes
      /\ ~reply[v].shown
  BY DEF CatalogTypeOK, ShownAtTheEnd, Visit, Kinds
<1>3. PICK r \in [route : Routes, status : Int, shown : BOOLEAN] :
         ~r.shown /\ reply' = [reply EXCEPT ![v] = r]
  <2>1. CASE k.valid
    <3>1. reply' = [reply EXCEPT ![v] = [reply[v] EXCEPT !.route = k.route]]
      BY <1>1, <2>1 DEF CatalogTypeOK
    <3> QED
      BY <3>1, <1>2
  <2>2. CASE ~k.valid
    <3> DEFINE status == IF k.route = "list" THEN 400 ELSE 404
    <3>1. status \in Int
      OBVIOUS
    <3>2. reply' = [reply EXCEPT ![v].route = k.route, ![v].status = status]
      BY <1>1, <2>2
    <3> HIDE DEF status
    <3>3. reply' = [reply EXCEPT ![v] = [reply[v] EXCEPT !.route = k.route,
                                                         !.status = status]]
      BY <3>2 DEF CatalogTypeOK
    <3> QED
      BY <3>1, <3>3, <1>2
  <2> QED
    BY <2>1, <2>2
<1>4. PICK where \in {"gate", "done"} : at' = [at EXCEPT ![v] = where]
  BY <1>1
<1>5. CatalogTypeOK'
  BY <1>3, <1>4 DEF CatalogTypeOK, Visit, TrustedOpen, ParseCatalogPolicy
<1>6. \A w \in Visitors :
         /\ at'[w] = IF w = v THEN where ELSE at[w]
         /\ reply'[w] = IF w = v THEN r ELSE reply[w]
         /\ sawOpen'[w] = IF w = v THEN TrustedOpen(policy) ELSE sawOpen[w]
  BY <1>3, <1>4 DEF CatalogTypeOK, Visit
<1>7. policy' = policy
  BY DEF Visit
<1>8. GateSawOpen'
  BY <1>6, <1>7 DEF GateSawOpen, TrustedOpen, ParseCatalogPolicy
<1>9. ShownAtTheEnd' /\ ClosedCatalogHidden'
  BY <1>3, <1>6 DEF ShownAtTheEnd, ClosedCatalogHidden
<1> QED
  BY <1>5, <1>8, <1>9

\* The gate: a closed answer is served again, an open one never.
LEMMA EnterGateSound ==
    ASSUME CatalogInvariant, NEW v \in Visitors, EnterGate(v)
    PROVE  CatalogInvariant'
<1>1. UNCHANGED <<policy, tenantOn, snapshot, told, sawOpen, lapses>> /\ at[v] = "gate"
  BY DEF EnterGate
<1>2. CASE cached = "closed"
  <2>1. Closed(v) /\ UNCHANGED <<cached, mutex>>
    BY <1>2 DEF EnterGate, ServedFromCache
  <2> QED
    BY <1>1, <2>1, ClosedSound DEF CatalogInvariant, CatalogTypeOK
<1>3. CASE cached # "closed"
  <2>1. /\ cached' = "none" /\ mutex' = v /\ UNCHANGED reply
        /\ at' = [at EXCEPT ![v] = "ask"]
    BY <1>3 DEF EnterGate, ServedFromCache
  <2>2. /\ at' \in [Visitors -> {"away", "gate", "ask", "refresh", "upsert", "query",
                                 "done"}]
        /\ GateSawOpen' /\ ShownAtTheEnd' /\ ClosedCatalogHidden'
    BY <1>1, <2>1, MoveSound
  <2> QED
    BY <1>1, <2>1, <2>2 DEF CatalogInvariant, CatalogTypeOK
<1> QED
  BY <1>2, <1>3

\* A failed call to identity shows nothing.
LEMMA AskPolicyFailsSound ==
    ASSUME CatalogInvariant, NEW v \in Visitors, AskPolicyFails(v)
    PROVE  CatalogInvariant'
<1>1. /\ Answer(v, 503, FALSE) /\ mutex' = NoOne
      /\ UNCHANGED <<policy, tenantOn, cached, snapshot, told, sawOpen, lapses>>
  BY DEF AskPolicyFails
<1>2. 503 \in Int /\ FALSE \in BOOLEAN
  OBVIOUS
<1>3. /\ at' \in [Visitors -> {"away", "gate", "ask", "refresh", "upsert", "query",
                             "done"}]
      /\ reply' \in [Visitors -> [route : Routes, status : Int, shown : BOOLEAN]]
      /\ GateSawOpen' /\ ShownAtTheEnd' /\ ClosedCatalogHidden'
  BY <1>1, <1>2, AnswerSound
<1> QED
  BY <1>1, <1>3 DEF CatalogInvariant, CatalogTypeOK

\* Identity's answer lets a request pass only when it is open and trusted, and
\* then the request has noted that policy.
LEMMA AskPolicySound ==
    ASSUME CatalogInvariant, NEW v \in Visitors, AskPolicy(v)
    PROVE  CatalogInvariant'
<1>1. /\ at[v] = "ask" /\ mutex' = NoOne
      /\ UNCHANGED <<policy, tenantOn, snapshot, told, sawOpen, lapses>>
  BY DEF AskPolicy
<1>2. CASE ~ParseCatalogPolicy(policy)
  <2>1. Answer(v, 503, FALSE) /\ UNCHANGED cached
    BY <1>2 DEF AskPolicy
  <2>2. 503 \in Int /\ FALSE \in BOOLEAN
    OBVIOUS
  <2>3. /\ at' \in [Visitors -> {"away", "gate", "ask", "refresh", "upsert", "query",
                                 "done"}]
        /\ reply' \in [Visitors -> [route : Routes, status : Int, shown : BOOLEAN]]
        /\ GateSawOpen' /\ ShownAtTheEnd' /\ ClosedCatalogHidden'
    BY <1>1, <2>1, <2>2, AnswerSound
  <2> QED
    BY <1>1, <2>1, <2>3 DEF CatalogInvariant, CatalogTypeOK
<1>3. CASE ParseCatalogPolicy(policy) /\ ~policy.open
  <2>1. Closed(v) /\ cached' = "closed"
    BY <1>3 DEF AskPolicy
  <2> QED
    BY <1>1, <2>1, ClosedSound DEF CatalogInvariant, CatalogTypeOK
<1>4. CASE TrustedOpen(policy)
  <2>1. at' = [at EXCEPT ![v] = "refresh"] /\ cached' = "open" /\ UNCHANGED reply
    BY <1>4 DEF AskPolicy, TrustedOpen
  <2>2. sawOpen[v]
    BY <1>1, <1>4 DEF CatalogInvariant, GateSawOpen
  <2>3. /\ at' \in [Visitors -> {"away", "gate", "ask", "refresh", "upsert", "query",
                                 "done"}]
        /\ GateSawOpen' /\ ShownAtTheEnd' /\ ClosedCatalogHidden'
    BY <1>1, <2>1, <2>2, MoveSound
  <2> QED
    BY <1>1, <2>1, <2>3 DEF CatalogInvariant, CatalogTypeOK
<1> QED
  BY <1>2, <1>3, <1>4 DEF TrustedOpen

\* The snapshot is refreshed behind the gate, whoever writes it last.
LEMMA RefreshSound ==
    ASSUME CatalogInvariant, NEW v \in Visitors,
           RefreshTenantSnapshots(v) \/ UpsertTenantSnapshots(v)
    PROVE  CatalogInvariant'
<1>1. /\ at[v] \in {"refresh", "upsert"}
      /\ UNCHANGED <<policy, tenantOn, cached, mutex, sawOpen, reply, lapses>>
  BY DEF RefreshTenantSnapshots, UpsertTenantSnapshots
<1>2. PICK where \in {"upsert", "query"} : at' = [at EXCEPT ![v] = where]
  BY DEF RefreshTenantSnapshots, UpsertTenantSnapshots
<1>3. told' \in [Visitors -> BOOLEAN]
  BY DEF RefreshTenantSnapshots, UpsertTenantSnapshots, CatalogInvariant, CatalogTypeOK
<1>4. snapshot' \in [known : BOOLEAN, on : BOOLEAN, fresh : BOOLEAN]
  <2>1. told[v] \in BOOLEAN /\ snapshot \in [known : BOOLEAN, on : BOOLEAN, fresh : BOOLEAN]
    BY DEF CatalogInvariant, CatalogTypeOK
  <2>2. \/ snapshot' = [known |-> TRUE, on |-> told[v], fresh |-> TRUE]
        \/ snapshot' = snapshot
    BY DEF RefreshTenantSnapshots, UpsertTenantSnapshots
  <2>3. [known |-> TRUE, on |-> told[v], fresh |-> TRUE]
          \in [known : BOOLEAN, on : BOOLEAN, fresh : BOOLEAN]
    BY <2>1, Zenon
  <2> QED
    BY <2>1, <2>2, <2>3
<1>5. sawOpen[v]
  BY <1>1 DEF CatalogInvariant, GateSawOpen
<1>6. /\ at' \in [Visitors -> {"away", "gate", "ask", "refresh", "upsert", "query", "done"}]
      /\ GateSawOpen' /\ ShownAtTheEnd' /\ ClosedCatalogHidden'
  BY <1>1, <1>2, <1>5, MoveSound
<1> QED
  BY <1>1, <1>3, <1>4, <1>6 DEF CatalogInvariant, CatalogTypeOK

\* The classes are read by requests that are past the gate only.
LEMMA QuerySound ==
    ASSUME CatalogInvariant, NEW v \in Visitors, Query(v)
    PROVE  CatalogInvariant'
<1>1. /\ at[v] = "query"
      /\ UNCHANGED <<policy, tenantOn, cached, mutex, snapshot, told, sawOpen, lapses>>
  BY DEF Query
<1>2. PICK status \in Int, shown \in BOOLEAN : Answer(v, status, shown)
  <2>1. PICK found \in BOOLEAN, fails \in BOOLEAN :
           LET shown == found /\ snapshot.known /\ snapshot.on
           IN Answer(v, CASE fails -> 500
                          [] ~fails /\ reply[v].route = "list" -> 200
                          [] OTHER -> IF shown THEN 200 ELSE 404, shown /\ ~fails)
    BY DEF Query
  <2> DEFINE shown == found /\ snapshot.known /\ snapshot.on
             status == CASE fails -> 500
                         [] ~fails /\ reply[v].route = "list" -> 200
                         [] OTHER -> IF shown THEN 200 ELSE 404
  <2>2. status \in Int
    OBVIOUS
  <2>3. (shown /\ ~fails) \in BOOLEAN
    OBVIOUS
  <2>4. Answer(v, status, shown /\ ~fails)
    BY <2>1
  <2> QED
    BY <2>2, <2>3, <2>4
<1>3. sawOpen[v]
  BY <1>1 DEF CatalogInvariant, GateSawOpen
<1> QED
  BY <1>1, <1>2, <1>3, AnswerSound DEF CatalogInvariant, CatalogTypeOK

\* A policy that comes into force is noted by the requests under way.
LEMMA PolicySound ==
    ASSUME CatalogInvariant, DesirePolicy \/ ApplyPolicy
    PROVE  CatalogInvariant'
<1> USE DEF CatalogInvariant
<1>1. /\ SeesPolicy(policy')
      /\ UNCHANGED <<tenantOn, cached, mutex, snapshot, at, told, reply, lapses>>
  BY DEF DesirePolicy, ApplyPolicy
<1>2. policy' \in [open : BOOLEAN, desired : Int, applied : Int]
  <2>1. policy \in [open : BOOLEAN, desired : Int, applied : Int]
    BY DEF CatalogTypeOK
  <2>2. CASE DesirePolicy
    BY <2>1, <2>2 DEF DesirePolicy
  <2>3. CASE ApplyPolicy
    <3>1. policy' = [policy EXCEPT !.applied = policy.desired, !.open = ~policy.open]
      BY <2>3 DEF ApplyPolicy
    <3>2. (~policy.open) \in BOOLEAN /\ policy.desired \in Int
      BY <2>1
    <3> QED
      BY <2>1, <3>1, <3>2
  <2> QED
    BY <2>2, <2>3
<1>3. sawOpen' = [v \in Visitors |->
                    sawOpen[v] \/ (at[v] \notin {"away", "done"} /\ TrustedOpen(policy'))]
  BY <1>1 DEF SeesPolicy
<1>4. CatalogTypeOK'
  BY <1>1, <1>2, <1>3 DEF CatalogTypeOK, TrustedOpen, ParseCatalogPolicy
<1>5. \A v \in Visitors :
         sawOpen'[v] = (sawOpen[v] \/ (at[v] \notin {"away", "done"} /\ TrustedOpen(policy')))
  BY <1>3
<1>6. GateSawOpen' /\ ShownAtTheEnd' /\ ClosedCatalogHidden'
  BY <1>1, <1>5
     DEF GateSawOpen, ShownAtTheEnd, ClosedCatalogHidden, TrustedOpen, ParseCatalogPolicy
<1> QED
  BY <1>4, <1>6

\* Time passes and the tenant is switched: no request is touched.
LEMMA LapseSound ==
    ASSUME CatalogInvariant, CacheExpires \/ SnapshotAges \/ TenantSwitched
    PROVE  CatalogInvariant'
<1> USE DEF CatalogInvariant
<1>1. UNCHANGED <<policy, mutex, at, told, sawOpen, reply>> /\ lapses' = lapses + 1
  BY DEF CacheExpires, SnapshotAges, TenantSwitched, Lapse
<1>2. /\ tenantOn' \in BOOLEAN
      /\ cached' \in {"none", "open", "closed"}
      /\ snapshot' \in [known : BOOLEAN, on : BOOLEAN, fresh : BOOLEAN]
  BY DEF CacheExpires, SnapshotAges, TenantSwitched, CatalogTypeOK
<1>3. CatalogTypeOK'
  BY <1>1, <1>2 DEF CatalogTypeOK
<1>4. GateSawOpen' /\ ShownAtTheEnd' /\ ClosedCatalogHidden'
  BY <1>1 DEF GateSawOpen, ShownAtTheEnd, ClosedCatalogHidden, TrustedOpen, ParseCatalogPolicy
<1> QED
  BY <1>3, <1>4

\* Every step of the catalog keeps the invariant.
LEMMA CatalogSteps == CatalogInvariant /\ [CatalogNext]_catalogVars => CatalogInvariant'
<1> SUFFICES ASSUME CatalogInvariant, [CatalogNext]_catalogVars PROVE CatalogInvariant'
  OBVIOUS
<1>1. CASE CatalogNext
  BY <1>1, VisitSound, EnterGateSound, AskPolicyFailsSound, AskPolicySound, RefreshSound,
     QuerySound, PolicySound, LapseSound DEF CatalogNext, Proceed
<1>2. CASE UNCHANGED catalogVars
  BY <1>2 DEF catalogVars, CatalogInvariant, CatalogTypeOK, GateSawOpen, ShownAtTheEnd,
              ClosedCatalogHidden, TrustedOpen, ParseCatalogPolicy
<1> QED
  BY <1>1, <1>2

\* The invariant holds in every reachable state of the catalog.
THEOREM CatalogInvariantHolds == CatalogSpec => []CatalogInvariant
BY CatalogStarts, CatalogSteps, PTL DEF CatalogSpec

\* However many visitors come, whatever the gate has kept and however the calls
\* of concurrent requests end, a class is shown only to a visitor during whose
\* request identity's policy was open and trusted (catalog_policy.go:57).
THEOREM CatalogStaysHidden == CatalogSpec => []ClosedCatalogHidden
<1>1. CatalogInvariant => ClosedCatalogHidden
  BY DEF CatalogInvariant
<1> QED
  BY <1>1, CatalogInvariantHolds, PTL

(***************************************************************************)
(* The idempotent creation of a class.                                     *)
(***************************************************************************)

\* A free key, and one that a request claims.
LEMMA ClaimTypes ==
    /\ NoClaim \in KeyClaims /\ ~NoClaim.committed /\ NoClaim.hash = ""
    /\ \A a \in Attempts, body \in ClassBodies, id \in Int, committed \in BOOLEAN :
          [by |-> a, hash |-> body, class |-> id, committed |-> committed] \in KeyClaims
<1>1. 0 \in Int
  OBVIOUS
<1>2. NoClaim \in KeyClaims
  BY <1>1, Zenon DEF NoClaim, KeyClaims
<1> QED
  BY <1>2, Zenon DEF NoClaim, KeyClaims

\* An answer.
LEMMA AnswerTypes ==
    \A status \in Int, id \in Int : [status |-> status, class |-> id] \in Answers
BY Zenon DEF Answers

\* No request was sent, no key claimed.
LEMMA CreationStarts == CreationInit => CreationInvariant
<1> SUFFICES ASSUME CreationInit PROVE CreationInvariant
  OBVIOUS
<1>1. CreationTypeOK
  <2>1. [body |-> "plain", keyed |-> FALSE] \in Requests
    BY DEF Requests, ClassBodies
  <2>2. claim \in KeyClaims
    BY ClaimTypes DEF CreationInit
  <2>3. IsFiniteSet(classes) /\ classes \subseteq Class
    BY FS_EmptySet DEF CreationInit
  <2>4. [status |-> 0, class |-> NoClass] \in Answers
    BY AnswerTypes DEF NoClass
  <2> QED
    BY <2>1, <2>2, <2>3, <2>4 DEF CreationInit, CreationTypeOK
<1>2. ClaimHasClass
  BY DEF CreationInit, ClaimHasClass, NoClaim
<1>3. ClaimHeld
  BY DEF CreationInit, ClaimHeld, Holds
<1>4. PromisesKept
  BY DEF CreationInit, PromisesKept
<1> QED
  BY <1>1, <1>2, <1>3, <1>4 DEF CreationInvariant

\* Rolling back a request that is not inside its transaction with the key
\* changes nothing.
LEMMA RollbackIdle ==
    ASSUME CreationInvariant, NEW a \in Attempts, ~Holds(a)
    PROVE  Rollback(a) = claim
BY DEF CreationInvariant, ClaimHeld, Rollback

\* A request that is answered with a failure takes its claim with it.
LEMMA FailureSound ==
    ASSUME CreationInvariant, NEW a \in Attempts, NEW status \in Int, status # 201,
           Respond(a, status, NoClass),
           sent' \in [Attempts -> Requests],
           \A b \in Attempts : b # a => sent'[b] = sent[b],
           claim' = Rollback(a),
           UNCHANGED <<classes, retries, crashes>>
    PROVE  CreationInvariant'
<1> USE DEF CreationInvariant
<1>1. /\ step' = [step EXCEPT ![a] = "done"]
      /\ result' = [result EXCEPT ![a] = [status |-> status, class |-> NoClass]]
  BY DEF Respond, Goto
<1>2. CreationTypeOK'
  <2>1. [status |-> status, class |-> NoClass] \in Answers
    BY AnswerTypes DEF NoClass
  <2>2. claim' \in KeyClaims
    BY ClaimTypes DEF CreationTypeOK, Rollback
  <2> QED
    BY <1>1, <2>1, <2>2 DEF CreationTypeOK
<1>3. \A b \in Attempts :
         /\ b # a => step'[b] = step[b] /\ sent'[b] = sent[b] /\ result'[b] = result[b]
         /\ b = a => step'[b] = "done" /\ result'[b].status = status
  BY <1>1 DEF CreationTypeOK
<1>4. claim'.committed = claim.committed /\ (claim.committed => claim' = claim)
  BY ClaimTypes DEF Rollback, CreationTypeOK, KeyClaims
<1>5. ClaimHasClass'
  BY <1>4 DEF ClaimHasClass, Claimed
<1>6. ClaimHeld'
  <2>1. \A b \in Attempts : Holds(b)' => b # a /\ Holds(b)
    BY <1>3 DEF Holds
  <2>2. \A b \in Attempts : Holds(b) /\ b # a => claim' = claim /\ Holds(b)'
    BY <1>3 DEF Holds, ClaimHeld, Rollback
  <2>3. claim' = NoClaim \/ claim' = claim
    BY DEF Rollback
  <2>4. claim.by = a /\ ~claim.committed => claim' = NoClaim
    BY DEF Rollback
  <2>5. \A b \in Attempts :
           Holds(b)' => claim'.by = b /\ claim'.hash = sent'[b].body /\ ~claim'.committed
    BY <1>3, <2>1, <2>2 DEF ClaimHeld
  <2>6. claim' = NoClaim \/ claim'.committed \/ (claim'.by \in Attempts /\ Holds(claim.by)')
    BY <2>2, <2>3, <2>4 DEF ClaimHeld
  <2>7. claim' = NoClaim \/ claim'.by = claim.by
    BY <2>3
  <2> QED
    BY <2>5, <2>6, <2>7 DEF ClaimHeld, Holds
<1>7. PromisesKept'
  BY <1>3 DEF PromisesKept, Promised
<1> QED
  BY <1>2, <1>5, <1>6, <1>7

\* A request that goes on without touching the key, with no answer yet, keeps
\* the invariant.
LEMMA AdvanceSound ==
    ASSUME CreationInvariant, NEW a \in Attempts,
           NEW where \in {"tenant", "begin", "teachers", "write"},
           step' = [step EXCEPT ![a] = where],
           sent' \in [Attempts -> Requests],
           result' \in [Attempts -> Answers],
           \A b \in Attempts : b # a => sent'[b] = sent[b] /\ result'[b] = result[b],
           result'[a].status # 201,
           Holds(a)' => Holds(a),
           Holds(a) => Holds(a)' /\ sent'[a] = sent[a],
           UNCHANGED <<claim, classes>>, retries' \in Int, crashes' = crashes
    PROVE  CreationInvariant'
<1> USE DEF CreationInvariant
<1>1. CreationTypeOK'
  BY DEF CreationTypeOK, Working
<1>2. \A b \in Attempts : step'[b] = IF b = a THEN where ELSE step[b]
  BY DEF CreationTypeOK
<1>3. ClaimHasClass'
  BY DEF ClaimHasClass, Claimed
<1>4. \A b \in Attempts : (Holds(b)' <=> Holds(b)) /\ (Holds(b) => sent'[b] = sent[b])
  <2> SUFFICES ASSUME NEW b \in Attempts
               PROVE  (Holds(b)' <=> Holds(b)) /\ (Holds(b) => sent'[b] = sent[b])
    OBVIOUS
  <2>1. CASE b = a
    BY <2>1
  <2>2. CASE b # a
    BY <1>2, <2>2 DEF Holds
  <2> QED
    BY <2>1, <2>2
<1>5. ClaimHeld'
  BY <1>4 DEF ClaimHeld, Holds
<1>6. PromisesKept'
  BY <1>2 DEF PromisesKept, Promised
<1> QED
  BY <1>1, <1>3, <1>5, <1>6

\* A request that goes on from one place to another with what it sent, and
\* has no answer yet.
LEMMA ProceedSound ==
    ASSUME CreationInvariant, NEW a \in Attempts,
           NEW where \in {"tenant", "begin", "teachers", "write"},
           step[a] # "done", Goto(a, where),
           where \in {"teachers", "write"} /\ sent[a].keyed => Holds(a),
           Holds(a) => where \in {"teachers", "write"},
           UNCHANGED <<sent, claim, classes, result, retries, crashes>>
    PROVE  CreationInvariant'
<1>1. step' = [step EXCEPT ![a] = where] /\ step'[a] = where
  BY DEF Goto, CreationInvariant, CreationTypeOK
<1>2. /\ sent' \in [Attempts -> Requests] /\ result' \in [Attempts -> Answers]
      /\ retries' \in Int
  BY DEF CreationInvariant, CreationTypeOK
<1>3. result'[a].status # 201
  BY DEF CreationInvariant, PromisesKept
<1>4. Holds(a)' => Holds(a)
  BY <1>1 DEF Holds
<1>5. Holds(a) => Holds(a)'
  BY <1>1 DEF Holds
<1> QED
  BY <1>1, <1>2, <1>3, <1>4, <1>5, AdvanceSound

\* A request arrives and is checked.
LEMMA SendSound ==
    ASSUME CreationInvariant, NEW a \in Attempts, Send(a)
    PROVE  CreationInvariant'
<1>1. PICK request \in Requests :
         /\ sent' = [sent EXCEPT ![a] = request]
         /\ \/ validateClassCreation(request) /\ Goto(a, "tenant") /\ UNCHANGED result
            \/ Respond(a, 400, NoClass)
  BY DEF Send
<1>2. step[a] = "home" /\ UNCHANGED <<claim, classes, retries, crashes>>
  BY DEF Send
<1>3. ~Holds(a)
  BY <1>2 DEF Holds
<1>4. CASE Respond(a, 400, NoClass)
  <2>1. claim' = Rollback(a)
    BY <1>2, <1>3, RollbackIdle
  <2>2. /\ sent' \in [Attempts -> Requests]
        /\ \A b \in Attempts : b # a => sent'[b] = sent[b]
    BY <1>1 DEF CreationInvariant, CreationTypeOK
  <2>3. 400 \in Int /\ 400 # 201
    OBVIOUS
  <2> QED
    BY <1>2, <1>4, <2>1, <2>2, <2>3, FailureSound
<1>5. CASE Goto(a, "tenant") /\ UNCHANGED result
  <2>1. /\ sent' \in [Attempts -> Requests] /\ result' \in [Attempts -> Answers]
        /\ retries' \in Int
        /\ \A b \in Attempts : b # a => sent'[b] = sent[b] /\ result'[b] = result[b]
    BY <1>1, <1>2, <1>5 DEF CreationInvariant, CreationTypeOK
  <2>2. step' = [step EXCEPT ![a] = "tenant"] /\ step'[a] = "tenant"
    BY <1>5 DEF Goto, CreationInvariant, CreationTypeOK
  <2>3. result'[a].status # 201
    BY <1>2, <1>5 DEF CreationInvariant, PromisesKept
  <2>4. ~Holds(a)'
    BY <2>2 DEF Holds
  <2> QED
    BY <1>2, <1>3, <2>1, <2>2, <2>3, <2>4, AdvanceSound
<1> QED
  BY <1>1, <1>4, <1>5

\* The tenant is active, or the request ends.
LEMMA CheckTenantSound ==
    ASSUME CreationInvariant, NEW a \in Attempts, CheckTenant(a)
    PROVE  CreationInvariant'
<1>1. step[a] = "tenant" /\ UNCHANGED <<sent, claim, classes, retries, crashes>>
  BY DEF CheckTenant
<1>2. ~Holds(a)
  BY <1>1 DEF Holds
<1>3. CASE Respond(a, 403, NoClass)
  <2>1. claim' = Rollback(a)
    BY <1>1, <1>2, RollbackIdle
  <2>2. 403 \in Int /\ 403 # 201 /\ sent' \in [Attempts -> Requests]
    BY <1>1 DEF CreationInvariant, CreationTypeOK
  <2> QED
    BY <1>1, <1>3, <2>1, <2>2, FailureSound
<1>4. CASE Goto(a, "begin") /\ UNCHANGED result
  BY <1>1, <1>2, <1>4, ProceedSound
<1> QED
  BY <1>3, <1>4 DEF CheckTenant

\* The key is claimed: nobody else is inside with it, because the claim of
\* whoever were would be there.
LEMMA ClaimSound ==
    ASSUME CreationInvariant, NEW a \in Attempts, step[a] = "begin", sent[a].keyed,
           claim = NoClaim,
           claim' = [by |-> a, hash |-> sent[a].body, class |-> 0, committed |-> FALSE],
           Goto(a, "teachers"),
           UNCHANGED <<sent, classes, result, retries, crashes>>
    PROVE  CreationInvariant'
<1> USE DEF CreationInvariant
<1> DEFINE body == sent[a].body
<1>1. claim' = [by |-> a, hash |-> body, class |-> 0, committed |-> FALSE]
  OBVIOUS
<1>2. body \in ClassBodies /\ body = sent'[a].body
  BY DEF CreationTypeOK, Requests
<1> HIDE DEF body
<1>3. step' = [step EXCEPT ![a] = "teachers"]
  BY DEF Goto
<1>4. CreationTypeOK'
  <2>1. claim' \in KeyClaims
    <3>1. 0 \in Int
      OBVIOUS
    <3>2. [by |-> a, hash |-> body, class |-> 0, committed |-> FALSE] \in KeyClaims
      BY <1>2, <3>1, ClaimTypes, Zenon
    <3> QED
      BY <1>1, <3>2, Zenon
  <2> QED
    BY <1>3, <2>1 DEF CreationTypeOK, Working
<1>5. \A b \in Attempts : step'[b] = IF b = a THEN "teachers" ELSE step[b]
  BY <1>3 DEF CreationTypeOK
<1>6. ~claim.committed /\ claim.hash = ""
  BY DEF NoClaim
<1>7. ClaimHasClass'
  <2>1. ~claim'.committed
    BY <1>1
  <2> QED
    BY <1>6, <2>1 DEF ClaimHasClass
<1>8. \A b \in Attempts : ~Holds(b)
  <2> SUFFICES ASSUME NEW b \in Attempts, Holds(b) PROVE FALSE
    OBVIOUS
  <2>1. claim.hash = sent[b].body /\ sent[b].body \in ClassBodies
    BY DEF ClaimHeld, CreationTypeOK, Requests
  <2> QED
    BY <1>6, <2>1 DEF ClassBodies
<1>9. \A b \in Attempts : Holds(b)' <=> b = a
  BY <1>5, <1>8 DEF Holds
<1>10. ClaimHeld'
  <2>1. claim'.by = a /\ claim'.hash = body /\ ~claim'.committed
    BY <1>1
  <2> QED
    BY <1>2, <1>9, <2>1 DEF ClaimHeld, Holds
<1>11. PromisesKept'
  BY <1>5 DEF PromisesKept, Promised
<1> QED
  BY <1>4, <1>7, <1>10, <1>11

\* A committed claim of the same body is replayed: its class is there.
LEMMA ReplaySound ==
    ASSUME CreationInvariant, NEW a \in Attempts, step[a] = "begin", sent[a].keyed,
           claim.committed, claim.hash = sent[a].body,
           Respond(a, 201, claim.class),
           UNCHANGED <<sent, claim, classes, retries, crashes>>
    PROVE  CreationInvariant'
<1> USE DEF CreationInvariant
<1>1. /\ step' = [step EXCEPT ![a] = "done"]
      /\ result' = [result EXCEPT ![a] = [status |-> 201, class |-> claim.class]]
  BY DEF Respond, Goto
<1>2. CreationTypeOK'
  <2>1. [status |-> 201, class |-> claim.class] \in Answers
    <3>1. claim.class \in Int
      BY DEF CreationTypeOK, KeyClaims
    <3> QED
      BY <3>1, AnswerTypes
  <2> QED
    BY <1>1, <2>1 DEF CreationTypeOK
<1>3. \A b \in Attempts :
         /\ b # a => step'[b] = step[b] /\ result'[b] = result[b]
         /\ b = a => step'[b] = "done" /\ result'[b].class = claim.class
  BY <1>1 DEF CreationTypeOK
<1>4. ClaimHasClass'
  BY DEF ClaimHasClass, Claimed
<1>5. ClaimHeld'
  BY <1>3 DEF ClaimHeld, Holds
<1>6. Claimed \in classes
  BY DEF ClaimHasClass
<1>7. sent[a].keyed = TRUE
  BY DEF CreationTypeOK, Requests
<1>8. Promised(a)' = Claimed
  BY <1>3, <1>7 DEF Promised, Claimed
<1>9. PromisesKept'
  BY <1>3, <1>6, <1>8 DEF PromisesKept, Promised
<1> QED
  BY <1>2, <1>4, <1>5, <1>9

\* The claim on the key.
LEMMA BeginSound ==
    ASSUME CreationInvariant, NEW a \in Attempts, Begin(a)
    PROVE  CreationInvariant'
<1>1. /\ step[a] = "begin" /\ UNCHANGED <<sent, classes, retries, crashes>>
      /\ sent[a].keyed => claim = NoClaim \/ claim.committed
  BY DEF Begin
<1>2. ~Holds(a)
  BY <1>1 DEF Holds
<1>3. CASE ~sent[a].keyed
  <2>1. Goto(a, "teachers") /\ UNCHANGED <<claim, result>>
    BY <1>3 DEF Begin
  <2> QED
    BY <1>1, <1>2, <1>3, <2>1, ProceedSound
<1>4. CASE sent[a].keyed /\ claim = NoClaim
  <2>1. /\ claim' = [NoClaim EXCEPT !.by = a, !.hash = sent[a].body]
        /\ Goto(a, "teachers") /\ UNCHANGED result
    BY <1>4 DEF Begin
  <2>2. claim' = [by |-> a, hash |-> sent[a].body, class |-> 0, committed |-> FALSE]
    BY <2>1 DEF NoClaim
  <2> QED
    BY <1>1, <1>4, <2>1, <2>2, ClaimSound
<1>5. CASE sent[a].keyed /\ claim # NoClaim /\ claim.hash # sent[a].body
  <2>1. Respond(a, 409, NoClass) /\ UNCHANGED claim
    BY <1>5 DEF Begin
  <2>2. claim' = Rollback(a)
    BY <1>2, <2>1, RollbackIdle
  <2>3. 409 \in Int /\ 409 # 201 /\ sent' \in [Attempts -> Requests]
    BY <1>1 DEF CreationInvariant, CreationTypeOK
  <2> QED
    BY <1>1, <2>1, <2>2, <2>3, FailureSound
<1>6. CASE sent[a].keyed /\ claim # NoClaim /\ claim.hash = sent[a].body
  <2>1. Respond(a, 201, claim.class) /\ UNCHANGED claim
    BY <1>6 DEF Begin
  <2> QED
    BY <1>1, <1>6, <2>1, ReplaySound
<1> QED
  BY <1>3, <1>4, <1>5, <1>6

\* The teachers are looked up inside the transaction.
LEMMA CheckTeachersSound ==
    ASSUME CreationInvariant, NEW a \in Attempts, CheckTeachers(a)
    PROVE  CreationInvariant'
<1>1. step[a] = "teachers" /\ UNCHANGED <<sent, classes, retries, crashes>>
  BY DEF CheckTeachers
<1>2. CASE Goto(a, "write") /\ UNCHANGED <<claim, result>>
  <2>1. sent[a].keyed => Holds(a)
    BY <1>1 DEF Holds
  <2> QED
    BY <1>1, <1>2, <2>1, ProceedSound
<1>3. ASSUME NEW status \in {400, 503}, Respond(a, status, NoClass), claim' = Rollback(a)
      PROVE  CreationInvariant'
  <2>1. status \in Int /\ status # 201 /\ sent' \in [Attempts -> Requests]
    BY <1>1 DEF CreationInvariant, CreationTypeOK
  <2> QED
    BY <1>1, <1>3, <2>1, FailureSound
<1> QED
  BY <1>2, <1>3 DEF CheckTeachers

\* The transaction commits: the class, and with a key the claim that was this
\* request's and had no class yet.
LEMMA CommitSound ==
    ASSUME CreationInvariant, NEW a \in Attempts, step[a] = "write",
           NEW id \in Int,
           classes' = classes \cup {[id |-> id, body |-> sent[a].body,
                                     keyed |-> sent[a].keyed]},
           claim' = IF sent[a].keyed
                    THEN [claim EXCEPT !.by = a, !.hash = sent[a].body,
                                       !.class = id, !.committed = TRUE]
                    ELSE claim,
           Goto(a, "respond"),
           result' = [result EXCEPT ![a].class = id],
           UNCHANGED <<sent, retries, crashes>>
    PROVE  CreationInvariant'
<1> USE DEF CreationInvariant
<1> DEFINE new == [id |-> id, body |-> sent[a].body, keyed |-> sent[a].keyed]
<1>1. sent[a].body \in ClassBodies /\ sent[a].keyed \in BOOLEAN
  BY DEF CreationTypeOK, Requests
<1>2. new \in Class /\ new.keyed = sent[a].keyed
  BY <1>1 DEF Class
<1>3. classes' = classes \cup {new}
  OBVIOUS
<1>4. sent[a].keyed =>
        claim' = [by |-> a, hash |-> sent[a].body, class |-> id, committed |-> TRUE]
  BY DEF CreationTypeOK, KeyClaims
<1>5. ~sent[a].keyed => claim' = claim
  OBVIOUS
<1>6. step' = [step EXCEPT ![a] = "respond"]
  BY DEF Goto
<1>7. result[a] \in Answers /\ result' = [result EXCEPT ![a] = [result[a] EXCEPT !.class = id]]
  BY DEF CreationTypeOK
<1>8. [result[a] EXCEPT !.class = id] \in Answers
  BY <1>7 DEF Answers
<1>9. \A b \in Attempts :
         /\ b # a => step'[b] = step[b] /\ result'[b] = result[b]
         /\ b = a => /\ step'[b] = "respond"
                     /\ result'[b].class = id /\ result'[b].status = result[b].status
  <2>1. /\ [result[a] EXCEPT !.class = id].class = id
        /\ [result[a] EXCEPT !.class = id].status = result[a].status
    BY <1>7 DEF Answers
  <2>2. \A b \in Attempts :
           result'[b] = IF b = a THEN [result[a] EXCEPT !.class = id] ELSE result[b]
    BY <1>7 DEF CreationTypeOK
  <2>3. \A b \in Attempts : step'[b] = IF b = a THEN "respond" ELSE step[b]
    BY <1>6 DEF CreationTypeOK
  <2> QED
    BY <2>1, <2>2, <2>3
<1>10. CreationTypeOK'
  <2>1. IsFiniteSet(classes')
    <3>1. IsFiniteSet(classes)
      BY DEF CreationTypeOK
    <3> HIDE DEF new
    <3> QED
      BY <1>3, <3>1, FS_AddElement
  <2>2. classes' \subseteq Class
    BY <1>2, <1>3 DEF CreationTypeOK
  <2>3. claim' \in KeyClaims
    <3>1. CASE sent[a].keyed
      <4>1. [by |-> a, hash |-> sent[a].body, class |-> id, committed |-> TRUE] \in KeyClaims
        BY <1>1, ClaimTypes, Zenon
      <4> QED
        BY <1>4, <3>1, <4>1, Zenon
    <3>2. CASE ~sent[a].keyed
      BY <1>5, <3>2 DEF CreationTypeOK
    <3> QED
      BY <3>1, <3>2
  <2>4. result' \in [Attempts -> Answers]
    BY <1>7, <1>8 DEF CreationTypeOK
  <2> QED
    BY <1>6, <2>1, <2>2, <2>3, <2>4 DEF CreationTypeOK, Working
<1>11. ClaimHasClass'
  <2>1. CASE sent[a].keyed
    <3>1. ~claim.committed
      BY <2>1 DEF ClaimHeld, Holds
    <3>2. \A class \in classes : ~class.keyed
      BY <3>1 DEF ClaimHasClass
    <3>3. {class \in classes' : class.keyed} = {new}
      BY <1>2, <1>3, <2>1, <3>2
    <3>4. sent[a].keyed = TRUE
      BY <1>1, <2>1
    <3>5. Claimed' = new /\ claim'.committed
      BY <1>4, <2>1, <3>4 DEF Claimed
    <3> QED
      BY <3>3, <3>5 DEF ClaimHasClass
  <2>2. CASE ~sent[a].keyed
    <3>1. {class \in classes' : class.keyed} = {class \in classes : class.keyed}
      BY <1>2, <1>3, <2>2
    <3> QED
      BY <1>5, <2>2, <3>1 DEF ClaimHasClass, Claimed
  <2> QED
    BY <2>1, <2>2
<1>12. ClaimHeld'
  <2>1. \A b \in Attempts : Holds(b)' <=> b # a /\ Holds(b)
    BY <1>9 DEF Holds
  <2>2. CASE sent[a].keyed
    <3>1. claim.by = a /\ claim'.committed
      BY <1>4, <2>2 DEF ClaimHeld, Holds
    <3>2. \A b \in Attempts : ~Holds(b)'
      BY <2>1, <3>1 DEF ClaimHeld
    <3> QED
      BY <3>1, <3>2 DEF ClaimHeld
  <2>3. CASE ~sent[a].keyed
    <3>1. ~Holds(a)
      BY <2>3 DEF Holds
    <3>2. \A b \in Attempts : Holds(b)' <=> Holds(b)
      BY <2>1, <3>1
    <3> QED
      BY <1>5, <2>3, <3>2 DEF ClaimHeld, Holds
  <2> QED
    BY <2>2, <2>3
<1>13. PromisesKept'
  <2>1. Promised(a)' = new
    BY <1>9 DEF Promised
  <2>2. result[a].status # 201
    BY DEF PromisesKept
  <2> HIDE DEF new
  <2> QED
    BY <1>3, <1>9, <2>1, <2>2 DEF PromisesKept, Promised
<1> QED
  BY <1>10, <1>11, <1>12, <1>13

\* Everything is written and committed, or nothing is.
LEMMA WriteSound ==
    ASSUME CreationInvariant, NEW a \in Attempts, Write(a)
    PROVE  CreationInvariant'
<1>1. step[a] = "write" /\ UNCHANGED <<sent, retries, crashes>>
  BY DEF Write
<1>2. ASSUME NEW status \in {400, 500}, Respond(a, status, NoClass), claim' = Rollback(a),
             UNCHANGED classes
      PROVE  CreationInvariant'
  <2>1. status \in Int /\ status # 201 /\ sent' \in [Attempts -> Requests]
    BY <1>1 DEF CreationInvariant, CreationTypeOK
  <2> QED
    BY <1>1, <1>2, <2>1, FailureSound
<1> DEFINE id == Cardinality(classes) + 1
<1>3. id \in Int
  <2>1. IsFiniteSet(classes)
    BY DEF CreationInvariant, CreationTypeOK
  <2>2. Cardinality(classes) \in Nat
    BY <2>1, FS_CardinalityType
  <2> QED
    BY <2>2
<1>4. CASE /\ classes' = classes \cup {[id |-> id, body |-> sent[a].body,
                                        keyed |-> sent[a].keyed]}
           /\ claim' = IF sent[a].keyed
                       THEN [claim EXCEPT !.by = a, !.hash = sent[a].body,
                                          !.class = id, !.committed = TRUE]
                       ELSE claim
           /\ Goto(a, "respond")
           /\ result' = [result EXCEPT ![a].class = id]
  <2> HIDE DEF id
  <2> QED
    BY <1>1, <1>3, <1>4, CommitSound
<1> QED
  BY <1>2, <1>4 DEF Write

\* The answer to a request that committed.
LEMMA AnsweredSound ==
    ASSUME CreationInvariant, NEW a \in Attempts, AnswerCreated(a)
    PROVE  CreationInvariant'
<1> USE DEF CreationInvariant
<1>1. step[a] = "respond" /\ UNCHANGED <<sent, claim, classes, retries, crashes>>
  BY DEF AnswerCreated
<1>2. /\ step' = [step EXCEPT ![a] = "done"]
      /\ result' = [result EXCEPT ![a] = [status |-> 201, class |-> result[a].class]]
  BY DEF AnswerCreated, Respond, Goto
<1>3. CreationTypeOK'
  <2>1. [status |-> 201, class |-> result[a].class] \in Answers
    <3>1. result[a].class \in Int
      BY DEF CreationTypeOK, Answers
    <3> QED
      BY <3>1, AnswerTypes
  <2> QED
    BY <1>1, <1>2, <2>1 DEF CreationTypeOK
<1>4. \A b \in Attempts :
         /\ b # a => step'[b] = step[b] /\ result'[b] = result[b]
         /\ b = a => step'[b] = "done" /\ result'[b].class = result[b].class
  BY <1>2 DEF CreationTypeOK
<1>5. ClaimHasClass'
  BY <1>1 DEF ClaimHasClass, Claimed
<1>6. ClaimHeld'
  BY <1>1, <1>4 DEF ClaimHeld, Holds
<1>7. PromisesKept'
  BY <1>1, <1>4 DEF PromisesKept, Promised
<1> QED
  BY <1>3, <1>5, <1>6, <1>7

\* A crash loses the requests at work and frees the key they held.
LEMMA CrashSound ==
    ASSUME CreationInvariant, Crash
    PROVE  CreationInvariant'
<1> USE DEF CreationInvariant
<1>1. /\ crashes' = crashes + 1 /\ UNCHANGED <<sent, classes, result, retries>>
      /\ step' = [a \in Attempts |-> IF step[a] \in Working THEN "lost" ELSE step[a]]
      /\ claim' = IF claim.by \in Attempts THEN Rollback(claim.by) ELSE claim
  BY DEF Crash
<1>2. claim' = IF claim.committed THEN claim ELSE NoClaim
  BY <1>1 DEF ClaimHeld, Rollback
<1>3. CreationTypeOK'
  <2>1. claim' \in KeyClaims
    BY <1>2, ClaimTypes DEF CreationTypeOK
  <2>2. step' \in [Attempts -> Working \cup {"home", "done", "lost"}]
    BY <1>1 DEF CreationTypeOK
  <2>3. crashes' \in Int
    BY <1>1 DEF CreationTypeOK
  <2> QED
    BY <1>1, <2>1, <2>2, <2>3 DEF CreationTypeOK
<1>4. \A a \in Attempts : step'[a] = IF step[a] \in Working THEN "lost" ELSE step[a]
  BY <1>1
<1>5. ClaimHasClass'
  <2>1. claim.committed => claim' = claim
    BY <1>2
  <2>2. ~claim.committed => ~claim'.committed
    BY <1>2, ClaimTypes
  <2> QED
    BY <1>1, <2>1, <2>2 DEF ClaimHasClass, Claimed
<1>6. \A a \in Attempts : ~Holds(a)'
  BY <1>4 DEF Holds, Working
<1>7. ClaimHeld'
  BY <1>2, <1>6 DEF ClaimHeld
<1>8. PromisesKept'
  BY <1>1, <1>4 DEF PromisesKept, Promised, Working
<1> QED
  BY <1>3, <1>5, <1>7, <1>8

\* The client tries again.
LEMMA RetrySound ==
    ASSUME CreationInvariant, NEW a \in Attempts, Retry(a)
    PROVE  CreationInvariant'
<1>1. /\ step[a] \in {"lost", "done"} /\ UNCHANGED <<sent, claim, classes, crashes>>
      /\ retries' = retries + 1
      /\ step' = [step EXCEPT ![a] = "tenant"]
      /\ result' = [result EXCEPT ![a] = [status |-> 0, class |-> NoClass]]
  BY DEF Retry, Goto
<1>2. ~Holds(a)
  BY <1>1 DEF Holds
<1>3. [status |-> 0, class |-> NoClass] \in Answers
  BY AnswerTypes DEF NoClass
<1>4. /\ sent' \in [Attempts -> Requests] /\ result' \in [Attempts -> Answers]
      /\ retries' \in Int
      /\ \A b \in Attempts : b # a => sent'[b] = sent[b] /\ result'[b] = result[b]
  BY <1>1, <1>3 DEF CreationInvariant, CreationTypeOK
<1>5. result'[a].status # 201 /\ step'[a] = "tenant"
  BY <1>1 DEF CreationInvariant, CreationTypeOK
<1>6. ~Holds(a)'
  BY <1>5 DEF Holds
<1> QED
  BY <1>1, <1>2, <1>4, <1>5, <1>6, AdvanceSound

\* Every step keeps the invariant.
LEMMA CreationSteps == CreationInvariant /\ [CreationNext]_creationVars => CreationInvariant'
<1> SUFFICES ASSUME CreationInvariant, [CreationNext]_creationVars PROVE CreationInvariant'
  OBVIOUS
<1>1. CASE CreationNext
  BY <1>1, SendSound, CheckTenantSound, BeginSound, CheckTeachersSound, WriteSound,
     AnsweredSound, RetrySound, CrashSound DEF CreationNext, Create
<1>2. CASE UNCHANGED creationVars
  BY <1>2 DEF creationVars, CreationInvariant, CreationTypeOK, ClaimHasClass, Claimed,
              ClaimHeld, Holds, PromisesKept, Promised
<1> QED
  BY <1>1, <1>2

\* The invariant holds in every reachable state: in particular a claim that is
\* neither free nor committed belongs to a request that is at work on it, so
\* that no failure and no crash leaves the key taken.
THEOREM CreationInvariantHolds == CreationSpec => []CreationInvariant
BY CreationStarts, CreationSteps, PTL DEF CreationSpec

\* However many requests carry the key, fail, crash and are sent again, at most
\* one of them creates a class, and each that is answered 201 is answered with
\* that class, created from the body it sent (class_creation_store.go:23).
THEOREM KeyCreatesOneClass == CreationSpec => []OneClassPerKey
<1>1. CreationInvariant => OneClassPerKey
  <2> SUFFICES ASSUME CreationInvariant PROVE OneClassPerKey
    OBVIOUS
  <2> DEFINE keyed == {class \in classes : class.keyed}
  <2>1. keyed = {} \/ keyed = {Claimed}
    BY DEF CreationInvariant, ClaimHasClass
  <2> HIDE DEF keyed
  <2>2. Cardinality(keyed) =< 1
    <3>1. Cardinality({}) = 0 /\ Cardinality({Claimed}) = 1
      BY FS_EmptySet, FS_Singleton
    <3> QED
      BY <2>1, <3>1
  <2>3. \A a \in Attempts : result[a].status = 201 => Promised(a) \in classes
    BY DEF CreationInvariant, PromisesKept
  <2> QED
    BY <2>2, <2>3 DEF OneClassPerKey, Promised, keyed
<1> QED
  BY <1>1, CreationInvariantHolds, PTL
=============================================================================
