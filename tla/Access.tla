------------------------------- MODULE Access -------------------------------
(***************************************************************************)
(* Who may do what: the claims of a caller, the route middleware of        *)
(* internal/delivery/http/middleware and the context helpers of            *)
(* internal/delivery/http/handler.  The middleware runs before the         *)
(* handler, the handler runs its checks in the order of the code and       *)
(* answers with the status of the first that fails.                        *)
(*                                                                         *)
(* An id is a row, or names nothing, or is not a UUID.  A row belongs to a *)
(* tenant and, through its student, to a parent: every table the handlers  *)
(* query has the first owner, and all but classes, categories and          *)
(* schedules have the second.                                              *)
(***************************************************************************)
EXTENDS Integers, Sequences, FiniteSets

CONSTANTS Tenants,  \* the tenants
          Parents,  \* the parents, as a row or the user of a claim names them
          Callers   \* the claims (below) that callers come with

\* What names nothing is no tenant, and a claim says yes or no.
ASSUME AccessConstants ==
    /\ "none" \notin Tenants /\ "malformed" \notin Tenants
    /\ \A c \in Callers : c.parent \in BOOLEAN /\ c.pinned \in BOOLEAN

Rows == [tenant : Tenants, parent : Parents]

Missing == [tenant |-> "none", parent |-> "none"]

Malformed == [tenant |-> "malformed", parent |-> "malformed"]

\* Nothing stops the request.
Pass == 0

\* A check that answers with status, and checks in order: the first that
\* fails decides.
Fails(condition, status) == IF condition THEN status ELSE Pass

s || t == IF s # Pass THEN s ELSE t

-----------------------------------------------------------------------------
(* Claims.  A claim is "" when absent and "bad" when it is not a UUID;     *)
(* pinned says that role_id and member_id are usable.                      *)

Claims(token, parent, user, tenant, pinned) ==
    [token |-> token, parent |-> parent, user |-> user, tenant |-> tenant,
     pinned |-> pinned]

NoClaims == Claims("none", FALSE, "", "", FALSE)

Parses(claim) == claim \notin {"", "bad"}

AuthMiddleware(c) ==
    IF \/ c.token # "jwt" \/ c.user = ""
       \/ ~c.parent /\ c.tenant = ""
    THEN 401 ELSE Pass

InternalServiceAuth(c) == IF c.token # "internal" THEN 401 ELSE Pass

-----------------------------------------------------------------------------
(* Route guards.  identity is what CheckPermission returns for the role,   *)
(* the tenant and the member of the token: "allowed", "denied" or "error". *)

\* The RPC names the permission, and identity answers for the role's grants;
\* a deadline or a failed call is an error.
CheckPermission(permission, grants, up) ==
    CASE ~up -> "error"
      [] up /\ permission \in grants -> "allowed"
      [] OTHER -> "denied"

permissionAllowed(c, identity) ==
    CASE ~c.pinned \/ ~Parses(c.tenant) -> 403
      [] c.pinned /\ Parses(c.tenant) /\ identity = "error" -> 503
      [] c.pinned /\ Parses(c.tenant) /\ identity = "denied" -> 403
      [] OTHER -> Pass

RequirePermission(c, identity) ==
    IF c.parent THEN 403 ELSE permissionAllowed(c, identity)

RequirePermissionUnlessParent(c, identity) ==
    IF c.parent THEN Pass ELSE permissionAllowed(c, identity)

RequirePermissionForTenantResource(c, identity) ==
    IF ~Parses(c.tenant) \/ c.parent THEN Pass ELSE permissionAllowed(c, identity)

RequirePermissionForTenantResourceDenyParent(c, identity) ==
    CASE ~Parses(c.tenant) -> Pass
      [] Parses(c.tenant) /\ c.parent -> 403
      [] OTHER -> permissionAllowed(c, identity)

AuthorizePermission(c, identity) ==
    IF c.parent THEN 403 ELSE permissionAllowed(c, identity)

\* The status with which a guard stops the request, or Pass.
Guarded(guard, c, identity) ==
    CASE guard = "require" -> RequirePermission(c, identity)
      [] guard = "unlessParent" -> RequirePermissionUnlessParent(c, identity)
      [] guard = "tenantResource" -> RequirePermissionForTenantResource(c, identity)
      [] guard = "denyParent" ->
            RequirePermissionForTenantResourceDenyParent(c, identity)
      [] guard = "aggregate" -> AuthorizePermission(c, identity)

-----------------------------------------------------------------------------
(* Checks of the handlers. *)

\* tenantIDFromContext and writeTenantError: missing 403, malformed 401.
tenantIDFromContext(r) == Fails(~Parses(r.c.tenant), IF r.c.tenant = "" THEN 403 ELSE 401)

\* The handlers that parse the tenant claim themselves answer 401 to both.
tenantClaim(r) == Fails(~Parses(r.c.tenant), 401)

memberClaim(r) == Fails(~r.c.pinned, 401)

authenticatedUserID(r) == Fails(~Parses(r.c.user), 401)

\* studentScope and enrollmentScope: the user, and for staff the tenant.
studentScope(r) ==
    Fails(~Parses(r.c.user) \/ (~r.c.parent /\ ~Parses(r.c.tenant)), 401)

enrollmentScope(r) == studentScope(r)

privateRequestParent(r) == Fails(~r.c.parent \/ ~Parses(r.c.user), 403)

privateRequestScope(r) ==
    IF r.c.parent THEN privateRequestParent(r) ELSE tenantIDFromContext(r)

\* An id in the path, a body that binds, a query that parses.
pathID(r) == Fails(r.target = Malformed, 400)

boundBody(r) == Fails(r.body = "broken", 400)

\* The list queries refuse pages, sizes, searches, ids, states and dates that
\* do not parse or are out of range.
listQuery(r) == Fails(r.body = "broken", 400)

parseReportQuery(r) == Fails(r.body = "broken", 400)

parseSessionQuery(r) == Fails(r.body = "broken", 400)

parseAttendanceQuery(r) == Fails(r.body = "broken", 400)

parseEnrollmentQuery(r) == Fails(r.body = "broken", 400)

-----------------------------------------------------------------------------
(* The rows a caller owns: those of the tenant, or of the parent's         *)
(* children.                                                               *)

OfTenant(r, rows) == {x \in rows : x.tenant = r.c.tenant}

OfParent(r, rows) == {x \in rows : x.parent = r.c.user}

OfCaller(r, rows) == IF r.c.parent THEN OfParent(r, rows) ELSE OfTenant(r, rows)

-----------------------------------------------------------------------------
(* A handler on a request r in a world w.  r names the route, the claims c *)
(* of the caller, the row the path or the body names and what the body     *)
(* holds; w.live are the rows the database holds and w.facts the           *)
(* conditions that are true of this call: what other tables hold, what the *)
(* other services answer, what the body's fields violate.                  *)
(*                                                                         *)
(* A use case is a list of refusals, the first that holds decides, and     *)
(* then a result: rows it shows, and a write of row, which is either under *)
(* the lock of the reads before it or a later step of its own.             *)

Result(err, shows, does, row, locked, gone) ==
    [err |-> err, shows |-> shows, does |-> does, row |-> row, locked |-> locked,
     gone |-> gone]

Refuses(err) == Result(err, {}, "none", Missing, TRUE, "")

Shows(rows) == Result("", rows, "none", Missing, TRUE, "")

\* A write whose reads it has locked, and one that another request can
\* overtake; gone is the error when the row is no longer there.
Locked(does, row) == Result("", {}, does, row, TRUE, "")

Overtakable(does, row, gone) == Result("", {}, does, row, FALSE, gone)

\* A refusal, and refusals in order: the first that holds decides.
When(condition, err) == IF condition THEN err ELSE ""

e ?? f == IF e # "" THEN e ELSE f

Unless(refusal, result) == IF refusal = "" THEN result ELSE Refuses(refusal)

Finds(r, rows) == r.target \in rows

ShowsFound(r, rows, err) ==
    Unless(When(~Finds(r, rows), err), Shows({r.target} \cap rows))

Is(fact, w) == fact \in w.facts

\* The checks before the use case, the permissions the handler itself asks
\* for, the use case, the status of each error and of success.
HandlerAsking(before, asks, use, codes, ok) ==
    [before |-> before, asks |-> asks, use |-> use, codes |-> codes, ok |-> ok]

Handler(before, use, codes, ok) == HandlerAsking(before, <<>>, use, codes, ok)

\* The status of an error: its own, or the handler's default, or 500.
StatusOf(codes, err) ==
    CASE err \in DOMAIN codes -> codes[err]
      [] err \notin DOMAIN codes /\ "Other" \in DOMAIN codes -> codes.Other
      [] OTHER -> 500

Codes(errs, status) == [e \in errs |-> status]

NoCodes == Codes({}, 500)

\* Codes of which the first table decides.
f ++ g == [e \in DOMAIN f \cup DOMAIN g |-> IF e \in DOMAIN f THEN f[e] ELSE g[e]]

=============================================================================
