--------------------------- MODULE ClassCreation ----------------------------
(***************************************************************************)
(* Creating a class together with its category and schedules under an      *)
(* idempotency key (class_creation_usecase.go, class_creation_store.go).   *)
(* The claim on the key, everything the request creates and the stored     *)
(* response are one transaction: PostgreSQL makes a second insert of the   *)
(* key wait until the first transaction ends.                              *)
(*                                                                         *)
(* The requests name one key of one tenant, and may be sent again when     *)
(* they fail or when the process dies before it answers.                   *)
(***************************************************************************)
EXTENDS Integers, FiniteSets, TLC

CONSTANTS Attempts,   \* the requests
          Nobody,     \* none of them
          MaxCrashes, \* how often the process dies
          MaxRetries  \* how often a request is sent again

\* A body: a class in an existing category, and two that differ and also
\* create a category or schedules.
ClassBodies == {"plain", "aggregate", "aggregate2"}

Requests == [body : ClassBodies, keyed : BOOLEAN]

VARIABLES sent,     \* what a request asks for
          step,     \* where it is
          claim,    \* the row of the key: who inserted it, its hash, its
                    \* response and whether it is committed
          classes,  \* the classes of the tenant that are committed
          result,   \* status and class of the answer
          retries, crashes

creationVars == <<sent, step, claim, classes, result, retries, crashes>>

NoClaim == [by |-> Nobody, hash |-> "", class |-> 0, committed |-> FALSE]

NoClass == 0

CreationInit ==
    /\ sent = [a \in Attempts |-> [body |-> "plain", keyed |-> FALSE]]
    /\ step = [a \in Attempts |-> "home"]
    /\ claim = NoClaim
    /\ classes = {}
    /\ result = [a \in Attempts |-> [status |-> 0, class |-> NoClass]]
    /\ retries = 0
    /\ crashes = 0

Goto(a, where) == step' = [step EXCEPT ![a] = where]

Respond(a, status, class) ==
    /\ Goto(a, "done")
    /\ result' = [result EXCEPT ![a] = [status |-> status, class |-> class]]

\* WithTransaction rolls back on an error, and the database when the
\* connection is lost: the claim goes with everything else.
Rollback(a) == IF claim.by = a /\ ~claim.committed THEN NoClaim ELSE claim

\* validateClassCreation: an aggregate needs a key.
validateClassCreation(request) == request.body = "plain" \/ request.keyed

Send(a) ==
    /\ step[a] = "home"
    /\ \E request \in Requests :
          /\ sent' = [sent EXCEPT ![a] = request]
          /\ \/ validateClassCreation(request) /\ Goto(a, "tenant") /\ UNCHANGED result
             \/ Respond(a, 400, NoClass)
    /\ UNCHANGED <<claim, classes, retries, crashes>>

\* ValidateTenantStatus: a failed call and an inactive tenant are one error.
CheckTenant(a) ==
    /\ step[a] = "tenant"
    /\ \/ Goto(a, "begin") /\ UNCHANGED result
       \/ Respond(a, 403, NoClass)
    /\ UNCHANGED <<sent, claim, classes, retries, crashes>>

\* Mutant: a claim that is looked up before it is inserted, and not unique.
Begin_Unlocked(a) ==
    /\ step[a] = "begin"
    /\ CASE sent[a].keyed /\ claim.committed /\ claim.hash = sent[a].body ->
              Respond(a, 201, claim.class) /\ UNCHANGED claim
         [] sent[a].keyed /\ claim.committed /\ claim.hash # sent[a].body ->
              Respond(a, 409, NoClass) /\ UNCHANGED claim
         [] OTHER -> Goto(a, "teachers") /\ UNCHANGED <<claim, result>>
    /\ UNCHANGED <<sent, classes, retries, crashes>>

\* INSERT ... ON CONFLICT DO NOTHING waits for the transaction that holds the
\* key; a committed claim of the same body is replayed, of another refused.
Begin(a) ==
    /\ step[a] = "begin"
    /\ sent[a].keyed => (claim = NoClaim \/ claim.committed)
    /\ CASE ~sent[a].keyed -> Goto(a, "teachers") /\ UNCHANGED <<claim, result>>
         [] sent[a].keyed /\ claim = NoClaim ->
              /\ claim' = [NoClaim EXCEPT !.by = a, !.hash = sent[a].body]
              /\ Goto(a, "teachers") /\ UNCHANGED result
         [] sent[a].keyed /\ claim # NoClaim /\ claim.hash # sent[a].body ->
              Respond(a, 409, NoClass) /\ UNCHANGED claim
         [] OTHER -> Respond(a, 201, claim.class) /\ UNCHANGED claim
    /\ UNCHANGED <<sent, classes, retries, crashes>>

\* The teachers are looked up inside the transaction: a list that is not a
\* set, an inactive member or a failed call ends it.
CheckTeachers(a) ==
    /\ step[a] = "teachers"
    /\ \/ Goto(a, "write") /\ UNCHANGED <<claim, result>>
       \/ \E status \in {400, 503} : Respond(a, status, NoClass) /\ claim' = Rollback(a)
    /\ UNCHANGED <<sent, classes, retries, crashes>>

\* The category, the class, its teachers, schedules and sessions, and Complete:
\* all of it, or the category is not there or the database fails.
Write(a) ==
    /\ step[a] = "write"
    /\ \/ LET class == Cardinality(classes) + 1
          IN /\ classes' = classes \cup {[id |-> class, body |-> sent[a].body,
                                          keyed |-> sent[a].keyed]}
             /\ claim' = IF sent[a].keyed
                         THEN [claim EXCEPT !.by = a, !.hash = sent[a].body,
                                            !.class = class, !.committed = TRUE]
                         ELSE claim
             /\ Goto(a, "respond")
             /\ result' = [result EXCEPT ![a].class = class]
       \/ \E status \in {400, 500} :
             Respond(a, status, NoClass) /\ claim' = Rollback(a) /\ UNCHANGED classes
    /\ UNCHANGED <<sent, retries, crashes>>

AnswerCreated(a) ==
    /\ step[a] = "respond"
    /\ Respond(a, 201, result[a].class)
    /\ UNCHANGED <<sent, claim, classes, retries, crashes>>

Working == {"tenant", "begin", "teachers", "write", "respond"}

\* The process dies: its requests get no answer, open transactions roll back.
Crash ==
    /\ crashes < MaxCrashes
    /\ crashes' = crashes + 1
    /\ step' = [a \in Attempts |-> IF step[a] \in Working THEN "lost" ELSE step[a]]
    /\ claim' = IF claim.by \in Attempts THEN Rollback(claim.by) ELSE claim
    /\ UNCHANGED <<sent, classes, result, retries>>

\* The client sends the same request again.
Retry(a) ==
    /\ \/ step[a] = "lost"
       \/ step[a] = "done" /\ result[a].status \in {403, 500, 503}
    /\ retries < MaxRetries
    /\ retries' = retries + 1
    /\ Goto(a, "tenant")
    /\ result' = [result EXCEPT ![a] = [status |-> 0, class |-> NoClass]]
    /\ UNCHANGED <<sent, claim, classes, crashes>>

Create(a) == CheckTenant(a) \/ Begin(a) \/ CheckTeachers(a) \/ Write(a) \/ AnswerCreated(a)

CreationNext == \/ \E a \in Attempts : Send(a) \/ Create(a) \/ Retry(a)
        \/ Crash

\* The server runs the requests it has accepted; calls to identity end with an
\* answer or their deadline; the database wakes those who wait for a key.
CreationFairness == \A a \in Attempts : WF_creationVars(Create(a)) /\ SF_creationVars(Begin(a))

CreationSpec == CreationInit /\ [][CreationNext]_creationVars /\ CreationFairness

-----------------------------------------------------------------------------
\* However often requests with the key are sent, crash and are sent again, at
\* most one of them creates a class, and each that is answered 201 is answered
\* with that class, created from the body it sent
\* (class_creation_store.go:23, class_creation_usecase.go:66).
OneClassPerKey ==
    /\ Cardinality({class \in classes : class.keyed}) =< 1
    /\ \A a \in Attempts :
          result[a].status = 201 =>
             [id |-> result[a].class, body |-> sent[a].body, keyed |-> sent[a].keyed]
                \in classes

\* A request is answered or lost in a crash, never left waiting for the key
\* of a request that is gone.
CreationsEnd ==
    \A a \in Attempts : step[a] = "tenant" ~> step[a] \in {"done", "lost"}

-----------------------------------------------------------------------------
(* What makes it so: the inductive invariant of CatalogCreationProofs. *)

Class == [id : Int, body : ClassBodies, keyed : BOOLEAN]

KeyClaims == [by : Attempts \cup {Nobody}, hash : ClassBodies \cup {""}, class : Int,
           committed : BOOLEAN]

Answers == [status : Int, class : Int]

CreationTypeOK ==
    /\ sent \in [Attempts -> Requests]
    /\ step \in [Attempts -> Working \cup {"home", "done", "lost"}]
    /\ claim \in KeyClaims
    /\ classes \subseteq Class /\ IsFiniteSet(classes)
    /\ result \in [Attempts -> Answers]
    /\ retries \in Int
    /\ crashes \in Int

\* The class of a claim, and the one a request was told of.
Claimed == [id |-> claim.class, body |-> claim.hash, keyed |-> TRUE]

Promised(a) == [id |-> result[a].class, body |-> sent[a].body, keyed |-> sent[a].keyed]

\* A claim is committed together with its class: the keyed classes are the one
\* class of a committed claim, and none before.
ClaimHasClass ==
    {class \in classes : class.keyed} = IF claim.committed THEN {Claimed} ELSE {}

\* Inside the transaction.
Holds(a) == step[a] \in {"teachers", "write"} /\ sent[a].keyed

\* A keyed request inside its transaction holds the claim, uncommitted; and a
\* claim that is neither free nor committed is held by such a request: no
\* failure and no crash leaves the key behind.
ClaimHeld ==
    /\ \A a \in Attempts :
          Holds(a) => claim.by = a /\ claim.hash = sent[a].body /\ ~claim.committed
    /\ claim = NoClaim \/ claim.committed \/ (claim.by \in Attempts /\ Holds(claim.by))

\* A class is promised once it is committed, and 201 is said at the end.
PromisesKept ==
    \A a \in Attempts :
       /\ step[a] = "respond" => Promised(a) \in classes
       /\ result[a].status = 201 => step[a] = "done" /\ Promised(a) \in classes

CreationInvariant == CreationTypeOK /\ ClaimHasClass /\ ClaimHeld /\ PromisesKept

=============================================================================
