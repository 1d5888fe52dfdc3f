-------------------------------- MODULE Api ---------------------------------
(***************************************************************************)
(* A request on its way through the service: the middleware of its route,  *)
(* the handler, the use case and the database, while identity's grants     *)
(* change, calls to identity fail and other requests delete the row it is  *)
(* about.                                                                  *)
(***************************************************************************)
EXTENDS Routes

CONSTANTS MaxChanges,  \* how often grants change or rows are deleted meanwhile
          FactSets     \* what may be true of a call (Access)

Facts ==
    {"db", "cancelled", "capacity", "chat", "classes", "conflict", "cycle", "date",
     "decided", "duplicate", "ended", "enrolled", "enrollment", "fee",
     "foreignCategory", "foreignClass", "form", "full", "history", "inactive",
     "long", "marked", "method", "mismatch", "nameless", "noCategory",
     "noteContent", "noteType", "notes", "origin", "otherPayload", "otherTutor",
     "price", "private", "readFails", "reread", "rpc", "seats", "slotLimit",
     "stale", "status", "teachers", "times", "type", "unfit", "unlinked",
     "unmarked", "unscheduled", "unselected", "voucher"}

ASSUME ApiConstants == MaxChanges \in Nat /\ FactSets \subseteq SUBSET Facts

NoFacts(rows) == [live |-> rows, facts |-> {}]

VARIABLES request,  \* the request, or None before it arrives
          stage,    \* how far it has come
          left,     \* the permission checks that remain
          grants,   \* the permissions the caller's role has now
          held,     \* those it had at some time since the request arrived
          live,     \* the rows of the tables
          pending,  \* the write the use case is about to make
          answer,   \* status, rows shown, what was done and to which row
          changes

vars == <<request, stage, left, grants, held, live, pending, answer, changes>>

-----------------------------------------------------------------------------
(* The requests a client can send. *)

\* Lists and creations that name no row.
Unaddressed ==
    {"GET /categories", "POST /categories", "GET /classes", "GET /schedules",
     "GET /students", "GET /attendance", "GET /reports", "GET /enrollments",
     "GET /schedule-requests", "GET /sessions", "GET /internal/deliveries"}

Bodies(route) ==
    CASE route = "POST /classes/with-category" ->
            {"plain", "broken", "category", "slots", "keyless"}
      [] route = "PATCH /classes/:id" -> {"plain", "broken", "category"}
      [] route = "POST /attendance" -> {"plain", "broken", "legacy"}
      [] route = "GET /sessions" -> {"plain", "broken", "mine"}
      [] route \in {"POST /tenants/:tenant_id/enrollments",
                    "POST /catalog/classes/:class_id/enrollments"} ->
            {"plain", "broken", "keyless"}
      [] OTHER -> {"plain", "broken"}

Targets(route) == IF route \in Unaddressed THEN {Missing} ELSE Rows \cup {Missing, Malformed}

\* The permissions the route or its handler may ask for.
Asked(route) ==
    CASE route \in InternalRoutes -> {}
      [] route \in {"POST /classes/with-category", "PATCH /classes/:id"} ->
            {registerRoutes[route][1][2], "category:create", "schedule:create"}
      [] OTHER -> {registerRoutes[route][i][2] : i \in DOMAIN registerRoutes[route]}

None == [route |-> "", c |-> NoClaims, target |-> Missing, body |-> ""]

Init ==
    /\ request = None
    /\ stage = "idle"
    /\ left = <<>>
    /\ grants = {}
    /\ held = {}
    /\ live = Rows
    /\ pending = Refuses("")
    /\ answer = [status |-> 0, shows |-> {}, did |-> "none", row |-> Missing]
    /\ changes = 0

\* A role is only asked about for a token that carries one.
Arrive ==
    /\ stage = "idle"
    /\ \E route \in ApiRoutes \cup InternalRoutes :
          \E c \in Callers, target \in Targets(route), body \in Bodies(route) :
             /\ request' = [route |-> route, c |-> c, target |-> target, body |-> body]
             /\ grants' \in IF c.pinned THEN SUBSET Asked(route) ELSE {{}}
    /\ held' = grants'
    /\ stage' = "auth"
    /\ UNCHANGED <<left, live, pending, answer, changes>>

-----------------------------------------------------------------------------
(* The steps of the service. *)

AnswerWith(status, shows, did, row) ==
    /\ stage' = "done"
    /\ answer' = [status |-> status, shows |-> shows, did |-> did, row |-> row]

Stop(status) == AnswerWith(status, {}, "none", Missing)

Authenticate ==
    /\ stage = "auth"
    /\ LET internal == request.route \in InternalRoutes
           status == IF internal THEN InternalServiceAuth(request.c)
                     ELSE AuthMiddleware(request.c)
       IN IF status # Pass
          THEN Stop(status) /\ UNCHANGED left
          ELSE /\ stage' = "guards"
               /\ left' = IF internal THEN <<>> ELSE registerRoutes[request.route]
               /\ UNCHANGED answer
    /\ UNCHANGED <<request, grants, held, live, pending, changes>>

\* One permission: of the route, or of a part of an aggregate.
Check ==
    /\ stage \in {"guards", "asks"} /\ left # <<>>
    /\ \E up \in BOOLEAN :
          LET status == Guarded(Head(left)[1], request.c,
                                CheckPermission(Head(left)[2], grants, up))
          IN IF status # Pass
             THEN Stop(status) /\ UNCHANGED left
             ELSE left' = Tail(left) /\ UNCHANGED <<stage, answer>>
    /\ UNCHANGED <<request, grants, held, live, pending, changes>>

EnterHandler ==
    /\ stage = "guards" /\ left = <<>>
    /\ LET h == ServedBy(request, NoFacts(live))
       IN IF h.before # Pass
          THEN Stop(h.before) /\ UNCHANGED left
          ELSE /\ stage' = "asks"
               /\ left' = [i \in DOMAIN h.asks |-> <<"aggregate", h.asks[i]>>]
               /\ UNCHANGED answer
    /\ UNCHANGED <<request, grants, held, live, pending, changes>>

\* The status of a result: the handler's for its error, or of success.
StatusFor(r, w, err) ==
    LET h == ServedBy(r, w) IN IF err = "" THEN h.ok ELSE StatusOf(h.codes, err)

Outcome(r, w) == IF Is("db", w) THEN Refuses("Database") ELSE ServedBy(r, w).use

\* The use case reads; what it writes under a lock is written with it.
RunUseCase ==
    /\ stage = "asks" /\ left = <<>>
    /\ \E facts \in FactSets :
          LET w == [live |-> live, facts |-> facts]
              result == Outcome(request, w)
          IN IF result.locked
             THEN /\ AnswerWith(StatusFor(request, w, result.err), result.shows,
                                result.does, result.row)
                  /\ live' = IF result.does = "delete" THEN live \ {result.row} ELSE live
                  /\ UNCHANGED pending
             ELSE /\ stage' = "write"
                  /\ pending' = result
                  /\ UNCHANGED <<answer, live>>
    /\ UNCHANGED <<request, left, grants, held, changes>>

Finish(err, did) ==
    AnswerWith(StatusFor(request, NoFacts(live), err), {}, did, pending.row)

There == pending.row \in live

WriteFails ==
    /\ stage = "write"
    /\ Finish("Database", "none")
    /\ UNCHANGED <<request, left, grants, held, live, pending, changes>>

\* UPDATE ... WHERE, and whether the caller looks at the number of rows.
WriteUpdate ==
    /\ stage = "write" /\ pending.does \in {"update", "blind"}
    /\ Finish(IF There \/ pending.does = "blind" THEN "" ELSE pending.gone,
              IF There THEN "update" ELSE "none")
    /\ UNCHANGED <<request, left, grants, held, live, pending, changes>>

\* Save writes every column, and inserts the row again when it is gone.
WriteSave ==
    /\ stage = "write" /\ pending.does = "save"
    /\ Finish("", IF There THEN "update" ELSE "revive")
    /\ live' = live \cup {pending.row}
    /\ UNCHANGED <<request, left, grants, held, pending, changes>>

\* The deletion of a row that is gone is no error.
WriteDelete ==
    /\ stage = "write" /\ pending.does = "delete"
    /\ Finish("", IF There THEN "delete" ELSE "none")
    /\ live' = live \ {pending.row}
    /\ UNCHANGED <<request, left, grants, held, pending, changes>>

\* The second read of a use case that called identity in between.
ReadAgain ==
    /\ stage = "write" /\ pending.does = "reread"
    /\ IF There
       THEN /\ pending' = Overtakable("save", pending.row, pending.gone)
            /\ UNCHANGED <<stage, answer>>
       ELSE Finish(pending.gone, "none") /\ UNCHANGED pending
    /\ UNCHANGED <<request, left, grants, held, live, changes>>

-----------------------------------------------------------------------------
(* What others do meanwhile. *)

Underway == stage \notin {"idle", "auth", "done"} /\ changes < MaxChanges

\* A role is granted a permission, or loses it.
GrantsChange ==
    /\ Underway /\ request.c.pinned
    /\ \E permission \in Asked(request.route) :
          grants' = IF permission \in grants THEN grants \ {permission}
                    ELSE grants \cup {permission}
    /\ held' = held \cup grants'
    /\ changes' = changes + 1
    /\ UNCHANGED <<request, stage, left, live, pending, answer>>

\* Enrollments, schedule requests and marks are never deleted.
Deletable ==
    {"PATCH /categories/:id", "DELETE /categories/:id", "GET /classes/:id",
     "GET /classes/:id/schedules", "DELETE /classes/:id", "PATCH /classes/:id",
     "PATCH /classes/:id/published", "POST /classes", "POST /classes/with-category",
     "PATCH /students/:id", "DELETE /students/:id", "PATCH /reports/:id",
     "DELETE /reports/:id", "POST /schedules", "DELETE /schedules/:id",
     "PUT /schedules/:id/permanent", "PATCH /schedules/:id/tutor-permanent",
     "GET /sessions/:id", "DELETE /sessions/:id", "POST /sessions/:id/reschedule",
     "PATCH /sessions/:id/substitute-tutor"}

\* Another request deletes the row.
RowDeleted ==
    /\ Underway /\ request.route \in Deletable /\ request.target \in live
    /\ live' = live \ {request.target}
    /\ changes' = changes + 1
    /\ UNCHANGED <<request, stage, left, grants, held, pending, answer>>

Serve ==
    \/ Authenticate \/ Check \/ EnterHandler \/ RunUseCase
    \/ WriteFails \/ WriteUpdate \/ WriteSave \/ WriteDelete \/ ReadAgain

Next == Arrive \/ Serve \/ GrantsChange \/ RowDeleted

-----------------------------------------------------------------------------
(* Properties. *)

Answered == stage = "done"

Succeeded == Answered /\ answer.status \in 200 .. 299

Failed == Answered /\ answer.status \in 400 .. 499

Internal == request.route \in InternalRoutes /\ request.c.token = "internal"

\* What a parent with a tenant sees is the tenant's, not a child's.
TenantLists == {"GET /categories", "GET /classes", "GET /schedules"}

\* Nothing is shown outside the service but rows of the caller: to a parent,
\* rows of the own children, whoever else is in the group session, and to
\* staff, rows of the tenant of the token (session_repository.go:156,
\* enrollment_repository.go:348).
OnlyOwnRows ==
    Answered /\ ~Internal =>
       \A x \in answer.shows :
          IF request.c.parent /\ request.route \notin TenantLists
          THEN x.parent = request.c.user
          ELSE x.tenant = request.c.tenant

\* The @x-permission annotations of the handlers that write.
StaffWrites ==
    {"POST /categories", "PATCH /categories/:id", "DELETE /categories/:id",
     "POST /classes", "POST /classes/with-category", "DELETE /classes/:id",
     "PATCH /classes/:id", "PATCH /classes/:id/published", "POST /students",
     "PATCH /students/:id", "DELETE /students/:id", "POST /attendance",
     "POST /attendance/by-session", "POST /attendance/bulk", "PATCH /attendance/:id",
     "POST /reports", "PATCH /reports/:id", "DELETE /reports/:id",
     "POST /tenants/:tenant_id/enrollments", "POST /schedule-requests/:id/approve",
     "POST /schedule-requests/:id/reject", "POST /schedules", "DELETE /schedules/:id",
     "PUT /schedules/:id/permanent", "PATCH /schedules/:id/tutor-permanent",
     "DELETE /sessions/:id", "POST /sessions/:id/reschedule",
     "PATCH /sessions/:id/substitute-tutor"}

xPermission ==
    [route \in StaffWrites |->
       CASE route = "POST /categories" -> "category:create"
         [] route = "PATCH /categories/:id" -> "category:update"
         [] route = "DELETE /categories/:id" -> "category:delete"
         [] route \in {"POST /classes", "POST /classes/with-category"} -> "class:create"
         [] route = "DELETE /classes/:id" -> "class:delete"
         [] route \in {"PATCH /classes/:id", "PATCH /classes/:id/published"} ->
               "class:update"
         [] route = "POST /students" -> "student:create"
         [] route = "PATCH /students/:id" -> "student:update"
         [] route = "DELETE /students/:id" -> "student:delete"
         [] route \in {"POST /attendance", "POST /attendance/by-session",
                       "POST /attendance/bulk"} -> "attendance:create"
         [] route = "PATCH /attendance/:id" -> "attendance:update"
         [] route = "POST /reports" -> "report:create"
         [] route = "PATCH /reports/:id" -> "report:update"
         [] route = "DELETE /reports/:id" -> "report:delete"
         [] route = "POST /tenants/:tenant_id/enrollments" -> "enrollment:create"
         [] route \in {"POST /schedule-requests/:id/approve",
                       "POST /schedule-requests/:id/reject"} -> "enrollment:update"
         [] route = "POST /schedules" -> "schedule:create"
         [] route = "DELETE /schedules/:id" -> "schedule:delete"
         [] route \in {"PUT /schedules/:id/permanent",
                       "PATCH /schedules/:id/tutor-permanent", "DELETE /sessions/:id",
                       "POST /sessions/:id/reschedule",
                       "PATCH /sessions/:id/substitute-tutor"} -> "schedule:update"]

\* Annotated with "parent_tokens": "skipped".
ParentsWrite ==
    {"POST /students", "PATCH /students/:id", "DELETE /students/:id",
     "POST /tenants/:tenant_id/enrollments"}

\* The parts of an aggregate that have a permission of their own.
PartsOf(r) ==
    (IF r.body = "category" THEN {"category:create"} ELSE {})
      \cup (IF r.body = "slots" THEN {"schedule:create"} ELSE {})

\* Every row that changes belongs to the caller, and staff held, while the
\* request ran, the permission that the handler documents and that of every
\* part the body adds; parents change only what is open to parents
\* (permission_middleware.go:87, class_handler.go:53 and :227).
ChangesArePermitted ==
    Answered /\ answer.did # "none" /\ ~Internal =>
       /\ request.c.token = "jwt"
       /\ IF request.c.parent
          THEN /\ answer.row.parent = request.c.user
               /\ request.route \in ParentsWrite \/ request.route \notin StaffWrites
          ELSE /\ answer.row.tenant = request.c.tenant
               /\ request.route \in StaffWrites
               /\ {xPermission[request.route]} \cup PartsOf(request) \subseteq held

Reads ==
    {"GET /categories", "GET /classes", "GET /classes/:id", "GET /classes/:id/schedules",
     "GET /schedules", "GET /students", "GET /students/:id", "GET /attendance",
     "GET /attendance/by-session", "GET /attendance/:id", "GET /reports",
     "GET /reports/:id", "GET /enrollments", "GET /enrollments/:id",
     "GET /schedule-requests", "GET /schedule-requests/:id", "GET /sessions",
     "GET /sessions/:id", "GET /sessions/:id/attendees", "GET /internal/events/:id",
     "GET /internal/deliveries", "GET /internal/chat-context/schedule-requests/:id",
     "GET /internal/chat-context/reports/:id"}

\* Posts that write nothing here.
Asks == {"POST /catalog/classes/:class_id/voucher-preview",
         "POST /schedule-requests/:id/send-payment-link"}

Deletions == {"DELETE /categories/:id", "DELETE /classes/:id", "DELETE /students/:id",
              "DELETE /reports/:id", "DELETE /schedules/:id", "DELETE /sessions/:id"}

\* The routes whose repository saves the whole row.
Saves == {"PATCH /students/:id", "PATCH /reports/:id", "POST /sessions/:id/reschedule",
          "PATCH /sessions/:id/substitute-tutor"}

\* What the client is told is what happened, whoever deletes the row between
\* the reads and the write: success means written (or gone, for a deletion),
\* a refusal means nothing was written, and a class or category that was
\* deleted meanwhile is not brought back (class_repository.go:77,
\* category_repository.go:58).
AnswersAreTrue ==
    /\ Succeeded /\ request.route \in Deletions => request.target \notin live
    /\ Succeeded /\ request.route \notin Reads \cup Asks \cup Deletions =>
          answer.did # "none"
    /\ Failed \/ (Answered /\ request.route \in Reads \cup Asks) => answer.did = "none"
    /\ answer.did = "revive" => request.route \in Saves

\* The routes that answer the same for another's row and for no row.
Hiding == {"GET /students/:id", "PATCH /students/:id", "DELETE /students/:id",
           "GET /attendance/:id", "GET /attendance/by-session", "PATCH /attendance/:id",
           "GET /reports/:id", "PATCH /reports/:id", "DELETE /reports/:id",
           "GET /enrollments/:id", "POST /enrollments/:id/cancel",
           "PUT /enrollments/:id/review", "GET /classes/:id", "PATCH /classes/:id",
           "GET /classes/:id/schedules", "PATCH /classes/:id/published",
           "GET /schedule-requests/:id", "POST /schedule-requests/:id/approve",
           "POST /schedule-requests/:id/reject", "POST /schedule-requests/:id/cancel",
           "POST /schedule-requests/:id/recommendation/accept",
           "POST /schedule-requests/:id/recommendation/decline",
           "POST /schedule-requests/:id/send-payment-link",
           "DELETE /schedules/:id", "PUT /schedules/:id/permanent",
           "PATCH /schedules/:id/tutor-permanent", "GET /sessions/:id",
           "POST /sessions/:id/reschedule", "PATCH /sessions/:id/substitute-tutor",
           "GET /sessions/:id/attendees"}

\* A session is the parent's through the group it is held for.
Foreign(r, w) ==
    /\ r.target \in w.live
    /\ CASE ~r.c.parent -> r.target.tenant # r.c.tenant
         [] r.c.parent /\ r.route \in {"GET /sessions/:id", "GET /sessions/:id/attendees"} ->
               OfParent(r, Cohort(r, w)) = {}
         [] OTHER -> r.target.parent # r.c.user

Told(r, w) == StatusFor(r, w, Outcome(r, w).err)

\* A caller cannot tell another family's or tenant's row from a row that does
\* not exist, whatever else is true of it, on every route whose code or
\* documentation answers "not found" for both (enrollment_usecase.go:70,
\* session_repository.go:44, private_schedule_request_repository.go:36).
IdsHidden ==
    stage = "asks" /\ left = <<>> /\ request.route \in Hiding =>
       \A facts \in FactSets :
          LET w == [live |-> live, facts |-> facts]
          IN Foreign(request, w) =>
                Told(request, w) = Told([request EXCEPT !.target = Missing], w)

-----------------------------------------------------------------------------
(* The invariant behind the properties, for any tenants, families, callers,*)
(* combinations of facts and changes meanwhile (ApiProofs).                *)

ApiSpec == Init /\ [][Next]_vars

Guards == {"require", "unlessParent", "tenantResource", "denyParent", "aggregate"}

Permissions ==
    {"category:create", "category:update", "category:delete", "class:read",
     "class:create", "class:update", "class:delete", "schedule:read", "schedule:create",
     "schedule:update", "schedule:delete", "student:read", "student:create",
     "student:update", "student:delete", "attendance:read", "attendance:create",
     "attendance:update", "report:read", "report:create", "report:update",
     "report:delete", "enrollment:read", "enrollment:create", "enrollment:update",
     "chat:manage"}

ApiRequests ==
    [route : ApiRoutes \cup InternalRoutes, c : Callers,
     target : Rows \cup {Missing, Malformed},
     body : {"plain", "broken", "category", "slots", "keyless", "legacy", "mine"}]

ApiTypeOK ==
    /\ stage \in {"idle", "auth", "guards", "asks", "write", "done"}
    /\ stage # "idle" => request \in ApiRequests /\ request.body \in Bodies(request.route)
    /\ left \in Seq(Guards \X Permissions)
    /\ grants \subseteq held
    /\ live \subseteq Rows
    /\ stage # "done" => answer.did = "none"

\* A guard that lets the caller pass with these permissions.
Cleared(guard, c, permissions) ==
    Guarded(guard[1], c, CheckPermission(guard[2], permissions, TRUE)) = Pass

\* Past authentication the token is of the kind the route takes, and every
\* guard of the route was passed with a permission held meanwhile, or is left.
GuardsPassed ==
    stage \in {"guards", "asks", "write"} =>
       /\ request.c.token = IF request.route \in InternalRoutes THEN "internal" ELSE "jwt"
       /\ request.route \in ApiRoutes =>
             \A i \in DOMAIN registerRoutes[request.route] :
                LET guard == registerRoutes[request.route][i]
                IN \/ Cleared(guard, request.c, held)
                   \/ stage = "guards" /\ \E j \in DOMAIN left : left[j] = guard

\* The writes that are open to parents alone, without a guard, and those whose
\* guard lets a token without a usable tenant pass.
ForParents == Unguarded \ TenantLists

ForTeachers ==
    {"POST /attendance", "POST /attendance/by-session", "POST /attendance/bulk",
     "PATCH /attendance/:id", "POST /reports", "PATCH /reports/:id", "DELETE /reports/:id"}

\* There the handler itself keeps the others out.
HandlerAdmits ==
    stage \in {"asks", "write"} =>
       /\ request.route \in ForParents => request.c.parent
       /\ request.route \in ForTeachers => Parses(request.c.tenant)
       /\ \A part \in PartsOf(request) :
             \/ part \in held
             \/ stage = "asks" /\ \E j \in DOMAIN left : left[j] = <<"aggregate", part>>

\* A row of the caller, or any row for the other services.
Own(r, x) ==
    \/ r.route \in InternalRoutes
    \/ IF r.c.parent /\ r.route \notin TenantLists THEN x.parent = r.c.user
       ELSE x.tenant = r.c.tenant

\* A write that may be overtaken: of an own row, and with an error for a row
\* that is gone unless the route deletes it or saves it anyway.
PendingWrite(r, u) ==
    /\ u = Overtakable(u.does, u.row, u.gone) /\ u.row = r.target
    /\ u.row \in Rows /\ Own(r, u.row)
    /\ r.route \notin Reads \cup Asks
    /\ \/ u.does = "update" /\ u.gone # "" /\ r.route \notin Deletions
       \/ u.does \in {"save", "reread"} /\ r.route \in Saves
            /\ (u.does = "reread" => u.gone # "")
       \/ u.does = "delete" /\ r.route \in Deletions

WritesOwn == stage = "write" => PendingWrite(request, pending)

ApiInvariant ==
    /\ ApiTypeOK /\ GuardsPassed /\ HandlerAdmits /\ WritesOwn
    /\ OnlyOwnRows /\ ChangesArePermitted /\ AnswersAreTrue

=============================================================================
