----------------------------- MODULE ApiProofs ------------------------------
(***************************************************************************)
(* Proofs about Api for any tenants, families and claims, any combination  *)
(* of facts about a call, and any number of changes meanwhile.             *)
(*                                                                         *)
(* Every route is guarded as its handler documents (RouteGuards), so who   *)
(* comes past the guards may do what the handler does (Entitled).  Every   *)
(* handler does no more than its route may (EveryEndpoint): it refuses, it *)
(* shows own rows, it writes an own row under a lock, or it leaves a write *)
(* of an own row that others may overtake.  From these the steps of a      *)
(* request preserve ApiInvariant, of which three of the properties are     *)
(* parts; the fourth, that ids are hidden, follows from what the handlers  *)
(* answer to a row that the caller does not see (Concealed).               *)
(***************************************************************************)
EXTENDS Api, TLAPS

-----------------------------------------------------------------------------
(* The tables of the routes. *)

\* The guards that routes are given.
LEMMA GuardLists ==
  ASSUME NEW p \in Permissions, NEW q \in Permissions
  PROVE  /\ Require(p) \in Seq(Guards \X Permissions)
         /\ RequireBoth(p, q) \in Seq(Guards \X Permissions)
         /\ UnlessParent(p) \in Seq(Guards \X Permissions)
         /\ TenantResource(p) \in Seq(Guards \X Permissions)
         /\ DenyParent(p) \in Seq(Guards \X Permissions)
         /\ <<>> \in Seq(Guards \X Permissions)
<1>1. /\ <<"require", p>> \in Guards \X Permissions
      /\ <<"require", q>> \in Guards \X Permissions
      /\ <<"unlessParent", p>> \in Guards \X Permissions
      /\ <<"tenantResource", p>> \in Guards \X Permissions
      /\ <<"denyParent", p>> \in Guards \X Permissions
  BY DEF Guards
<1>2. QED
  BY <1>1 DEF Require, RequireBoth, UnlessParent, TenantResource, DenyParent

\* The routes that no parent passes.
StaffOnly ==
    {"POST /categories", "PATCH /categories/:id", "DELETE /categories/:id",
     "GET /classes/:id", "POST /classes", "POST /classes/with-category",
     "DELETE /classes/:id", "PATCH /classes/:id", "PATCH /classes/:id/published",
     "POST /schedule-requests/:id/approve", "POST /schedule-requests/:id/reject",
     "POST /schedules", "DELETE /schedules/:id", "PUT /schedules/:id/permanent",
     "PATCH /schedules/:id/tutor-permanent", "DELETE /sessions/:id",
     "POST /sessions/:id/reschedule", "PATCH /sessions/:id/substitute-tutor",
     "GET /classes/:id/schedules", "POST /schedule-requests/:id/send-payment-link"}

\* The guard of a route asks for the permission its handler documents.
GuardedAs(route, guards) ==
    \/ route \in Unguarded /\ guards = <<>>
    \/ \E p \in Permissions :
          /\ route \in StaffOnly /\ guards = Require(p)
          /\ route \in StaffWrites => xPermission[route] = p
    \/ \E p, q \in Permissions :
          route \in StaffOnly \ StaffWrites /\ guards = RequireBoth(p, q)
    \/ \E p \in Permissions :
          /\ route \in (Reads \cup ParentsWrite) \ StaffOnly /\ guards = UnlessParent(p)
          /\ route \in ParentsWrite => xPermission[route] = p
    \/ \E p \in Permissions :
          route \in Reads \ StaffOnly /\ guards = TenantResource(p)
    \/ \E p \in Permissions :
          /\ route \in ForTeachers /\ guards = DenyParent(p)
          /\ xPermission[route] = p

\* Every route has one of the forms of GuardedAs.
LEMMA RouteGuards ==
  ASSUME NEW route \in ApiRoutes
  PROVE  GuardedAs(route, registerRoutes[route])
<1>1. CASE route \in Unguarded
  <2>1. registerRoutes[route] = <<>>
    BY <1>1 DEF registerRoutes, ApiRoutes, Unguarded, AttendanceReportRoutes
  <2>2. QED
    BY <1>1, <2>1 DEF GuardedAs
<1>2. CASE route = "POST /categories"
  <2>1. registerRoutes[route] = Require("category:create")
    BY <1>2 DEF registerRoutes, ApiRoutes, Unguarded, AttendanceReportRoutes
  <2>2. route \in StaffOnly
    BY <1>2 DEF StaffOnly, StaffWrites, ParentsWrite, Reads, ForTeachers
  <2>3. xPermission[route] = "category:create"
    BY <1>2 DEF xPermission, StaffWrites
  <2>4. "category:create" \in Permissions
    BY DEF Permissions
  <2>5. QED
    BY <2>1, <2>2, <2>3, <2>4 DEF GuardedAs
<1>3. CASE route = "PATCH /categories/:id"
  <2>1. registerRoutes[route] = Require("category:update")
    BY <1>3 DEF registerRoutes, ApiRoutes, Unguarded, AttendanceReportRoutes
  <2>2. route \in StaffOnly
    BY <1>3 DEF StaffOnly, StaffWrites, ParentsWrite, Reads, ForTeachers
  <2>3. xPermission[route] = "category:update"
    BY <1>3 DEF xPermission, StaffWrites
  <2>4. "category:update" \in Permissions
    BY DEF Permissions
  <2>5. QED
    BY <2>1, <2>2, <2>3, <2>4 DEF GuardedAs
<1>4. CASE route = "DELETE /categories/:id"
  <2>1. registerRoutes[route] = Require("category:delete")
    BY <1>4 DEF registerRoutes, ApiRoutes, Unguarded, AttendanceReportRoutes
  <2>2. route \in StaffOnly
    BY <1>4 DEF StaffOnly, StaffWrites, ParentsWrite, Reads, ForTeachers
  <2>3. xPermission[route] = "category:delete"
    BY <1>4 DEF xPermission, StaffWrites
  <2>4. "category:delete" \in Permissions
    BY DEF Permissions
  <2>5. QED
    BY <2>1, <2>2, <2>3, <2>4 DEF GuardedAs
<1>5. CASE route = "GET /classes/:id"
  <2>1. registerRoutes[route] = Require("class:read")
    BY <1>5 DEF registerRoutes, ApiRoutes, Unguarded, AttendanceReportRoutes
  <2>2. route \in StaffOnly /\ route \notin StaffWrites
    BY <1>5 DEF StaffOnly, StaffWrites, ParentsWrite, Reads, ForTeachers
  <2>3. "class:read" \in Permissions
    BY DEF Permissions
  <2>4. QED
    BY <2>1, <2>2, <2>3 DEF GuardedAs
<1>6. CASE route \in {"POST /classes", "POST /classes/with-category"}
  <2>1. registerRoutes[route] = Require("class:create")
    BY <1>6 DEF registerRoutes, ApiRoutes, Unguarded, AttendanceReportRoutes
  <2>2. route \in StaffOnly
    BY <1>6 DEF StaffOnly, StaffWrites, ParentsWrite, Reads, ForTeachers
  <2>3. xPermission[route] = "class:create"
    BY <1>6 DEF xPermission, StaffWrites
  <2>4. "class:create" \in Permissions
    BY DEF Permissions
  <2>5. QED
    BY <2>1, <2>2, <2>3, <2>4 DEF GuardedAs
<1>7. CASE route = "DELETE /classes/:id"
  <2>1. registerRoutes[route] = Require("class:delete")
    BY <1>7 DEF registerRoutes, ApiRoutes, Unguarded, AttendanceReportRoutes
  <2>2. route \in StaffOnly
    BY <1>7 DEF StaffOnly, StaffWrites, ParentsWrite, Reads, ForTeachers
  <2>3. xPermission[route] = "class:delete"
    BY <1>7 DEF xPermission, StaffWrites
  <2>4. "class:delete" \in Permissions
    BY DEF Permissions
  <2>5. QED
    BY <2>1, <2>2, <2>3, <2>4 DEF GuardedAs
<1>8. CASE route \in {"PATCH /classes/:id", "PATCH /classes/:id/published"}
  <2>1. registerRoutes[route] = Require("class:update")
    BY <1>8 DEF registerRoutes, ApiRoutes, Unguarded, AttendanceReportRoutes
  <2>2. route \in StaffOnly
    BY <1>8 DEF StaffOnly, StaffWrites, ParentsWrite, Reads, ForTeachers
  <2>3. xPermission[route] = "class:update"
    BY <1>8 DEF xPermission, StaffWrites
  <2>4. "class:update" \in Permissions
    BY DEF Permissions
  <2>5. QED
    BY <2>1, <2>2, <2>3, <2>4 DEF GuardedAs
<1>9. CASE route \in {"POST /schedule-requests/:id/approve",
            "POST /schedule-requests/:id/reject"}
  <2>1. registerRoutes[route] = Require("enrollment:update")
    BY <1>9 DEF registerRoutes, ApiRoutes, Unguarded, AttendanceReportRoutes
  <2>2. route \in StaffOnly
    BY <1>9 DEF StaffOnly, StaffWrites, ParentsWrite, Reads, ForTeachers
  <2>3. xPermission[route] = "enrollment:update"
    BY <1>9 DEF xPermission, StaffWrites
  <2>4. "enrollment:update" \in Permissions
    BY DEF Permissions
  <2>5. QED
    BY <2>1, <2>2, <2>3, <2>4 DEF GuardedAs
<1>10. CASE route = "POST /schedules"
  <2>1. registerRoutes[route] = Require("schedule:create")
    BY <1>10 DEF registerRoutes, ApiRoutes, Unguarded, AttendanceReportRoutes
  <2>2. route \in StaffOnly
    BY <1>10 DEF StaffOnly, StaffWrites, ParentsWrite, Reads, ForTeachers
  <2>3. xPermission[route] = "schedule:create"
    BY <1>10 DEF xPermission, StaffWrites
  <2>4. "schedule:create" \in Permissions
    BY DEF Permissions
  <2>5. QED
    BY <2>1, <2>2, <2>3, <2>4 DEF GuardedAs
<1>11. CASE route = "DELETE /schedules/:id"
  <2>1. registerRoutes[route] = Require("schedule:delete")
    BY <1>11 DEF registerRoutes, ApiRoutes, Unguarded, AttendanceReportRoutes
  <2>2. route \in StaffOnly
    BY <1>11 DEF StaffOnly, StaffWrites, ParentsWrite, Reads, ForTeachers
  <2>3. xPermission[route] = "schedule:delete"
    BY <1>11 DEF xPermission, StaffWrites
  <2>4. "schedule:delete" \in Permissions
    BY DEF Permissions
  <2>5. QED
    BY <2>1, <2>2, <2>3, <2>4 DEF GuardedAs
<1>12. CASE route \in {"PUT /schedules/:id/permanent",
            "PATCH /schedules/:id/tutor-permanent", "DELETE /sessions/:id",
            "POST /sessions/:id/reschedule", "PATCH /sessions/:id/substitute-tutor"}
  <2>1. registerRoutes[route] = Require("schedule:update")
    BY <1>12 DEF registerRoutes, ApiRoutes, Unguarded, AttendanceReportRoutes
  <2>2. route \in StaffOnly
    BY <1>12 DEF StaffOnly, StaffWrites, ParentsWrite, Reads, ForTeachers
  <2>3. xPermission[route] = "schedule:update"
    BY <1>12 DEF xPermission, StaffWrites
  <2>4. "schedule:update" \in Permissions
    BY DEF Permissions
  <2>5. QED
    BY <2>1, <2>2, <2>3, <2>4 DEF GuardedAs
<1>13. CASE route = "GET /classes/:id/schedules"
  <2>1. registerRoutes[route] = RequireBoth("class:read", "schedule:read")
    BY <1>13 DEF registerRoutes, ApiRoutes, Unguarded, AttendanceReportRoutes
  <2>2. route \in StaffOnly \ StaffWrites
    BY <1>13 DEF StaffOnly, StaffWrites, ParentsWrite, Reads, ForTeachers
  <2>3. "class:read" \in Permissions /\ "schedule:read" \in Permissions
    BY DEF Permissions
  <2>4. QED
    BY <2>1, <2>2, <2>3 DEF GuardedAs
<1>14. CASE route = "POST /schedule-requests/:id/send-payment-link"
  <2>1. registerRoutes[route] = RequireBoth("enrollment:update", "chat:manage")
    BY <1>14 DEF registerRoutes, ApiRoutes, Unguarded, AttendanceReportRoutes
  <2>2. route \in StaffOnly \ StaffWrites
    BY <1>14 DEF StaffOnly, StaffWrites, ParentsWrite, Reads, ForTeachers
  <2>3. "enrollment:update" \in Permissions /\ "chat:manage" \in Permissions
    BY DEF Permissions
  <2>4. QED
    BY <2>1, <2>2, <2>3 DEF GuardedAs
<1>15. CASE route \in {"GET /students", "GET /students/:id"}
  <2>1. registerRoutes[route] = UnlessParent("student:read")
    BY <1>15 DEF registerRoutes, ApiRoutes, Unguarded, AttendanceReportRoutes
  <2>2. route \in Reads \ (StaffOnly \cup ParentsWrite)
    BY <1>15 DEF StaffOnly, StaffWrites, ParentsWrite, Reads, ForTeachers
  <2>3. "student:read" \in Permissions
    BY DEF Permissions
  <2>4. QED
    BY <2>1, <2>2, <2>3 DEF GuardedAs
<1>16. CASE route = "POST /students"
  <2>1. registerRoutes[route] = UnlessParent("student:create")
    BY <1>16 DEF registerRoutes, ApiRoutes, Unguarded, AttendanceReportRoutes
  <2>2. route \in ParentsWrite \ StaffOnly
    BY <1>16 DEF StaffOnly, StaffWrites, ParentsWrite, Reads, ForTeachers
  <2>3. xPermission[route] = "student:create"
    BY <1>16 DEF xPermission, StaffWrites
  <2>4. "student:create" \in Permissions
    BY DEF Permissions
  <2>5. QED
    BY <2>1, <2>2, <2>3, <2>4 DEF GuardedAs
<1>17. CASE route = "PATCH /students/:id"
  <2>1. registerRoutes[route] = UnlessParent("student:update")
    BY <1>17 DEF registerRoutes, ApiRoutes, Unguarded, AttendanceReportRoutes
  <2>2. route \in ParentsWrite \ StaffOnly
    BY <1>17 DEF StaffOnly, StaffWrites, ParentsWrite, Reads, ForTeachers
  <2>3. xPermission[route] = "student:update"
    BY <1>17 DEF xPermission, StaffWrites
  <2>4. "student:update" \in Permissions
    BY DEF Permissions
  <2>5. QED
    BY <2>1, <2>2, <2>3, <2>4 DEF GuardedAs
<1>18. CASE route = "DELETE /students/:id"
  <2>1. registerRoutes[route] = UnlessParent("student:delete")
    BY <1>18 DEF registerRoutes, ApiRoutes, Unguarded, AttendanceReportRoutes
  <2>2. route \in ParentsWrite \ StaffOnly
    BY <1>18 DEF StaffOnly, StaffWrites, ParentsWrite, Reads, ForTeachers
  <2>3. xPermission[route] = "student:delete"
    BY <1>18 DEF xPermission, StaffWrites
  <2>4. "student:delete" \in Permissions
    BY DEF Permissions
  <2>5. QED
    BY <2>1, <2>2, <2>3, <2>4 DEF GuardedAs
<1>19. CASE route = "POST /tenants/:tenant_id/enrollments"
  <2>1. registerRoutes[route] = UnlessParent("enrollment:create")
    BY <1>19 DEF registerRoutes, ApiRoutes, Unguarded, AttendanceReportRoutes
  <2>2. route \in ParentsWrite \ StaffOnly
    BY <1>19 DEF StaffOnly, StaffWrites, ParentsWrite, Reads, ForTeachers
  <2>3. xPermission[route] = "enrollment:create"
    BY <1>19 DEF xPermission, StaffWrites
  <2>4. "enrollment:create" \in Permissions
    BY DEF Permissions
  <2>5. QED
    BY <2>1, <2>2, <2>3, <2>4 DEF GuardedAs
<1>20. CASE route \in {"GET /enrollments", "GET /enrollments/:id",
            "GET /schedule-requests", "GET /schedule-requests/:id"}
  <2>1. registerRoutes[route] = UnlessParent("enrollment:read")
    BY <1>20 DEF registerRoutes, ApiRoutes, Unguarded, AttendanceReportRoutes
  <2>2. route \in Reads \ (StaffOnly \cup ParentsWrite)
    BY <1>20 DEF StaffOnly, StaffWrites, ParentsWrite, Reads, ForTeachers
  <2>3. "enrollment:read" \in Permissions
    BY DEF Permissions
  <2>4. QED
    BY <2>1, <2>2, <2>3 DEF GuardedAs
<1>21. CASE route \in {"GET /sessions", "GET /sessions/:id",
            "GET /sessions/:id/attendees"}
  <2>1. registerRoutes[route] = TenantResource("schedule:read")
    BY <1>21 DEF registerRoutes, ApiRoutes, Unguarded, AttendanceReportRoutes
  <2>2. route \in Reads \ StaffOnly
    BY <1>21 DEF StaffOnly, StaffWrites, ParentsWrite, Reads, ForTeachers
  <2>3. "schedule:read" \in Permissions
    BY DEF Permissions
  <2>4. QED
    BY <2>1, <2>2, <2>3 DEF GuardedAs
<1>22. CASE route \in {"GET /attendance", "GET /attendance/by-session",
            "GET /attendance/:id"}
  <2>1. registerRoutes[route] = TenantResource("attendance:read")
    BY <1>22 DEF registerRoutes, ApiRoutes, Unguarded, AttendanceReportRoutes,
       registerAttendanceReportRoutes
  <2>2. route \in Reads \ StaffOnly
    BY <1>22 DEF StaffOnly, StaffWrites, ParentsWrite, Reads, ForTeachers
  <2>3. "attendance:read" \in Permissions
    BY DEF Permissions
  <2>4. QED
    BY <2>1, <2>2, <2>3 DEF GuardedAs
<1>23. CASE route \in {"GET /reports", "GET /reports/:id"}
  <2>1. registerRoutes[route] = TenantResource("report:read")
    BY <1>23 DEF registerRoutes, ApiRoutes, Unguarded, AttendanceReportRoutes,
       registerAttendanceReportRoutes
  <2>2. route \in Reads \ StaffOnly
    BY <1>23 DEF StaffOnly, StaffWrites, ParentsWrite, Reads, ForTeachers
  <2>3. "report:read" \in Permissions
    BY DEF Permissions
  <2>4. QED
    BY <2>1, <2>2, <2>3 DEF GuardedAs
<1>24. CASE route \in {"POST /attendance", "POST /attendance/by-session",
            "POST /attendance/bulk"}
  <2>1. registerRoutes[route] = DenyParent("attendance:create")
    BY <1>24 DEF registerRoutes, ApiRoutes, Unguarded, AttendanceReportRoutes,
       registerAttendanceReportRoutes
  <2>2. route \in ForTeachers
    BY <1>24 DEF StaffOnly, StaffWrites, ParentsWrite, Reads, ForTeachers
  <2>3. xPermission[route] = "attendance:create"
    BY <1>24 DEF xPermission, StaffWrites
  <2>4. "attendance:create" \in Permissions
    BY DEF Permissions
  <2>5. QED
    BY <2>1, <2>2, <2>3, <2>4 DEF GuardedAs
<1>25. CASE route = "PATCH /attendance/:id"
  <2>1. registerRoutes[route] = DenyParent("attendance:update")
    BY <1>25 DEF registerRoutes, ApiRoutes, Unguarded, AttendanceReportRoutes,
       registerAttendanceReportRoutes
  <2>2. route \in ForTeachers
    BY <1>25 DEF StaffOnly, StaffWrites, ParentsWrite, Reads, ForTeachers
  <2>3. xPermission[route] = "attendance:update"
    BY <1>25 DEF xPermission, StaffWrites
  <2>4. "attendance:update" \in Permissions
    BY DEF Permissions
  <2>5. QED
    BY <2>1, <2>2, <2>3, <2>4 DEF GuardedAs
<1>26. CASE route = "POST /reports"
  <2>1. registerRoutes[route] = DenyParent("report:create")
    BY <1>26 DEF registerRoutes, ApiRoutes, Unguarded, AttendanceReportRoutes,
       registerAttendanceReportRoutes
  <2>2. route \in ForTeachers
    BY <1>26 DEF StaffOnly, StaffWrites, ParentsWrite, Reads, ForTeachers
  <2>3. xPermission[route] = "report:create"
    BY <1>26 DEF xPermission, StaffWrites
  <2>4. "report:create" \in Permissions
    BY DEF Permissions
  <2>5. QED
    BY <2>1, <2>2, <2>3, <2>4 DEF GuardedAs
<1>27. CASE route = "PATCH /reports/:id"
  <2>1. registerRoutes[route] = DenyParent("report:update")
    BY <1>27 DEF registerRoutes, ApiRoutes, Unguarded, AttendanceReportRoutes,
       registerAttendanceReportRoutes
  <2>2. route \in ForTeachers
    BY <1>27 DEF StaffOnly, StaffWrites, ParentsWrite, Reads, ForTeachers
  <2>3. xPermission[route] = "report:update"
    BY <1>27 DEF xPermission, StaffWrites
  <2>4. "report:update" \in Permissions
    BY DEF Permissions
  <2>5. QED
    BY <2>1, <2>2, <2>3, <2>4 DEF GuardedAs
<1>28. CASE route = "DELETE /reports/:id"
  <2>1. registerRoutes[route] = DenyParent("report:delete")
    BY <1>28 DEF registerRoutes, ApiRoutes, Unguarded, AttendanceReportRoutes,
       registerAttendanceReportRoutes
  <2>2. route \in ForTeachers
    BY <1>28 DEF StaffOnly, StaffWrites, ParentsWrite, Reads, ForTeachers
  <2>3. xPermission[route] = "report:delete"
    BY <1>28 DEF xPermission, StaffWrites
  <2>4. "report:delete" \in Permissions
    BY DEF Permissions
  <2>5. QED
    BY <2>1, <2>2, <2>3, <2>4 DEF GuardedAs
<1>29. QED
  BY <1>1, <1>2, <1>3, <1>4, <1>5, <1>6, <1>7, <1>8, <1>9, <1>10, <1>11, <1>12,
     <1>13, <1>14, <1>15, <1>16, <1>17, <1>18, <1>19, <1>20, <1>21, <1>22,
     <1>23, <1>24, <1>25, <1>26, <1>27, <1>28
  DEF ApiRoutes, AttendanceReportRoutes

\* So what guards a route is a list of guards with permissions.
LEMMA GuardedRoutes ==
  ASSUME NEW route \in ApiRoutes
  PROVE  registerRoutes[route] \in Seq(Guards \X Permissions)
<1>1. CASE registerRoutes[route] = <<>>
  BY <1>1
<1>2. CASE \E p \in Permissions : \/ registerRoutes[route] = Require(p)
                                 \/ registerRoutes[route] = UnlessParent(p)
                                 \/ registerRoutes[route] = TenantResource(p)
                                 \/ registerRoutes[route] = DenyParent(p)
  BY <1>2, GuardLists
<1>3. CASE \E p, q \in Permissions : registerRoutes[route] = RequireBoth(p, q)
  BY <1>3, GuardLists
<1>4. QED
  BY <1>1, <1>2, <1>3, RouteGuards DEF GuardedAs

\* What a guard that was passed says of the caller.
LEMMA ClearedRequire ==
  ASSUME NEW p, NEW c, NEW H, Cleared(<<"require", p>>, c, H)
  PROVE  ~c.parent /\ p \in H
BY DEF Cleared, Guarded, CheckPermission, Pass, RequirePermission, permissionAllowed

LEMMA ClearedUnlessParent ==
  ASSUME NEW p, NEW c, NEW H, Cleared(<<"unlessParent", p>>, c, H)
  PROVE  c.parent \/ p \in H
BY DEF Cleared, Guarded, CheckPermission, Pass, RequirePermissionUnlessParent,
   permissionAllowed

LEMMA ClearedDenyParent ==
  ASSUME NEW p, NEW c, NEW H, Cleared(<<"denyParent", p>>, c, H), Parses(c.tenant)
  PROVE  ~c.parent /\ p \in H
BY DEF Cleared, Guarded, CheckPermission, Pass,
   RequirePermissionForTenantResourceDenyParent, permissionAllowed

-----------------------------------------------------------------------------
(* Who comes as far as the use case. *)

\* A request whose caller passed the guards and the checks of its handler.
Admitted(r, permissions) ==
    /\ \A i \in DOMAIN registerRoutes[r.route] :
          Cleared(registerRoutes[r.route][i], r.c, permissions)
    /\ r.route \in ForParents => r.c.parent
    /\ r.route \in ForTeachers => Parses(r.c.tenant)
    /\ PartsOf(r) \subseteq permissions

\* Staff routes keep parents out, and a write has its permission.
Entitlement(r, permissions) ==
    /\ r.route \in StaffOnly \cup ForTeachers => ~r.c.parent
    /\ r.c.parent => r.route \in ParentsWrite \/ r.route \notin StaffWrites
    /\ ~r.c.parent /\ r.route \notin Reads \cup Asks =>
          /\ r.route \in StaffWrites
          /\ {xPermission[r.route]} \cup PartsOf(r) \subseteq permissions

\* Who is past the guards and checks of a route may do what it does.
LEMMA Entitled ==
  ASSUME NEW r, NEW H, r.route \in ApiRoutes, Admitted(r, H)
  PROVE  Entitlement(r, H)
<1> DEFINE guards == registerRoutes[r.route]
<1>1. GuardedAs(r.route, guards)
  BY RouteGuards
<1>2. \A i \in DOMAIN guards : Cleared(guards[i], r.c, H)
  BY DEF Admitted
<1>3. CASE r.route \in Unguarded
  <2>1. r.route \notin StaffOnly \cup ForTeachers \cup StaffWrites
    BY <1>3 DEF Unguarded, StaffOnly, ForTeachers, StaffWrites
  <2>2. r.route \in TenantLists => r.route \in Reads
    BY DEF TenantLists, Reads
  <2>3. QED
    BY <1>3, <2>1, <2>2 DEF Admitted, ForParents, Entitlement
<1>4. ASSUME NEW p \in Permissions, r.route \in StaffOnly, guards = Require(p),
             r.route \in StaffWrites => xPermission[r.route] = p
      PROVE  Entitlement(r, H)
  <2>1. 1 \in DOMAIN guards /\ guards[1] = <<"require", p>>
    BY <1>4 DEF Require
  <2>2. ~r.c.parent /\ p \in H
    BY <2>1, <1>2, ClearedRequire
  <2>3. r.route \in StaffWrites \cup Reads \cup Asks
    BY <1>4 DEF StaffOnly, StaffWrites, Reads, Asks
  <2>4. QED
    BY <1>4, <2>2, <2>3 DEF Admitted, Entitlement
<1>5. ASSUME NEW p \in Permissions, NEW q \in Permissions,
             r.route \in StaffOnly \ StaffWrites, guards = RequireBoth(p, q)
      PROVE  Entitlement(r, H)
  <2>1. 1 \in DOMAIN guards /\ guards[1] = <<"require", p>>
    BY <1>5 DEF RequireBoth
  <2>2. ~r.c.parent
    BY <2>1, <1>2, ClearedRequire
  <2>3. r.route \in Reads \cup Asks
    BY <1>5 DEF StaffOnly, StaffWrites, Reads, Asks
  <2>4. QED
    BY <2>2, <2>3 DEF Entitlement
<1>6. ASSUME NEW p \in Permissions, r.route \in (Reads \cup ParentsWrite) \ StaffOnly,
             guards = UnlessParent(p), r.route \in ParentsWrite => xPermission[r.route] = p
      PROVE  Entitlement(r, H)
  <2>1. 1 \in DOMAIN guards /\ guards[1] = <<"unlessParent", p>>
    BY <1>6 DEF UnlessParent
  <2>2. r.c.parent \/ p \in H
    BY <2>1, <1>2, ClearedUnlessParent
  <2>3. /\ r.route \notin ForTeachers
        /\ r.route \in Reads => r.route \notin StaffWrites
        /\ r.route \in ParentsWrite => r.route \in StaffWrites
    BY <1>6 DEF ForTeachers, ParentsWrite, StaffWrites, Reads
  <2>4. QED
    BY <1>6, <2>2, <2>3 DEF Admitted, Entitlement
<1>7. ASSUME r.route \in Reads \ StaffOnly
      PROVE  Entitlement(r, H)
  <2>1. r.route \notin ForTeachers \cup StaffWrites
    BY <1>7 DEF ForTeachers, StaffWrites, Reads
  <2>2. QED
    BY <1>7, <2>1 DEF Entitlement
<1>8. ASSUME NEW p \in Permissions, r.route \in ForTeachers, guards = DenyParent(p),
             xPermission[r.route] = p
      PROVE  Entitlement(r, H)
  <2>1. 1 \in DOMAIN guards /\ guards[1] = <<"denyParent", p>>
    BY <1>8 DEF DenyParent
  <2>2. ~r.c.parent /\ p \in H
    BY <1>8, <2>1, <1>2, ClearedDenyParent DEF Admitted
  <2>3. r.route \in StaffWrites
    BY <1>8 DEF ForTeachers, StaffWrites
  <2>4. QED
    BY <1>8, <2>2, <2>3 DEF Admitted, Entitlement
<1>9. QED
  BY <1>1, <1>3, <1>4, <1>5, <1>6, <1>7, <1>8 DEF GuardedAs

-----------------------------------------------------------------------------
(* What a handler answers and does. *)

Checked(status) == status = Pass \/ status \in 400 .. 599

CodedTable(codes) == \A e \in DOMAIN codes : codes[e] \in 400 .. 599

Coded(h) == h.ok \in 200 .. 299 /\ CodedTable(h.codes)

Refusal(u) == u.does = "none" /\ u.locked /\ u.err # "" /\ u.shows = {}

Reading(r, u) ==
    /\ u.does = "none" /\ u.locked /\ r.route \in Reads \cup Asks
    /\ \A x \in u.shows : Own(r, x)

LockedWrite(r, u) ==
    /\ u.locked /\ u.shows = {} /\ Own(r, u.row) /\ r.route \notin Reads \cup Asks
    /\ \/ u.does \in {"insert", "update", "act"} /\ r.route \notin Deletions
       \/ u.does = "delete" /\ r.route \in Deletions /\ u.row = r.target

Effect(r, h) ==
    \/ Refusal(h.use)
    \/ Reading(r, h.use)
    \/ LockedWrite(r, h.use) /\ (h.use.err # "" => StatusOf(h.codes, h.use.err) = 500)
    \/ PendingWrite(r, h.use)

\* A handler asks for no more than its parts' permissions.
AsksFor(r, h) ==
    /\ h.asks \in Seq(Permissions)
    /\ \A part \in PartsOf(r) : \E i \in DOMAIN h.asks : h.asks[i] = part

Plain(h) == Coded(h) /\ h.asks = <<>>

Aggregates == {"POST /classes/with-category", "PATCH /classes/:id"}

Entry(r) ==
    /\ r.route \in StaffOnly \cup ForTeachers => ~r.c.parent
    /\ r.route \in ForParents => r.c.parent

Sound(r, h) ==
    /\ Checked(h.before) /\ Coded(h)
    /\ r.route \notin Aggregates => h.asks = <<>>
    /\ Entry(r) => Effect(r, h)

\* Tables of statuses of errors stay so when they are merged.
LEMMA CodedMerge ==
  ASSUME NEW f, NEW g, CodedTable(f), CodedTable(g)
  PROVE  CodedTable(f ++ g)
BY DEF CodedTable, ++

LEMMA CodedCodes ==
  ASSUME NEW S, NEW c \in 400 .. 599
  PROVE  CodedTable(Codes(S, c))
BY DEF CodedTable, Codes

\* The tables that several handlers share.
LEMMA CatalogCoded == CodedTable(catalogEnrollmentErrorStatus)
<1>1. CodedTable([InvalidPaymentMethod |-> 400, ClassNotFound |-> 404,
                  StudentNotFound |-> 404, ParentRequired |-> 401])
  BY DEF CodedTable
<1>2. QED
  BY <1>1, CodedMerge, CodedCodes DEF catalogEnrollmentErrorStatus

LEMMA RequestCoded == CodedTable(privateRequestError)
BY CodedMerge, CodedCodes DEF privateRequestError

LEMMA TransitionCoded == CodedTable(writeInternalTransitionError)
<1>1. CodedTable([EnrollmentNotFound |-> 404])
  BY DEF CodedTable
<1>2. QED
  BY <1>1, CodedMerge, CodedCodes DEF writeInternalTransitionError

\* Only the aggregates have parts.
LEMMA NoParts ==
  ASSUME NEW r, r.body \in Bodies(r.route),
         r.route \notin Aggregates
  PROVE  PartsOf(r) = {}
BY DEF Bodies, PartsOf, Aggregates

\* What an aggregate asks for are permissions.
LEMMA PartsPermissions ==
  /\ <<>> \in Seq(Permissions)
  /\ <<"category:create">> \in Seq(Permissions)
  /\ <<"schedule:create">> \in Seq(Permissions)
  /\ <<"category:create", "schedule:create">> \in Seq(Permissions)
BY DEF Permissions

\* The checks of a handler answer with an error or pass.
LEMMA CheckedOr ==
  ASSUME NEW s, NEW t, Checked(s), Checked(t)
  PROVE  Checked(s || t)
BY DEF ||

LEMMA CheckedFails ==
  ASSUME NEW c, NEW s \in 400 .. 599
  PROVE  Checked(Fails(c, s))
BY DEF Checked, Fails

\* The checks that handlers share.
LEMMA Checks ==
  ASSUME NEW r
  PROVE  /\ Checked(tenantIDFromContext(r)) /\ Checked(tenantClaim(r))
         /\ Checked(memberClaim(r)) /\ Checked(authenticatedUserID(r))
         /\ Checked(studentScope(r)) /\ Checked(enrollmentScope(r))
         /\ Checked(privateRequestParent(r)) /\ Checked(privateRequestScope(r))
         /\ Checked(pathID(r)) /\ Checked(boundBody(r)) /\ Checked(bodyID(r))
         /\ Checked(listQuery(r)) /\ Checked(parseReportQuery(r))
         /\ Checked(parseSessionQuery(r)) /\ Checked(parseAttendanceQuery(r))
         /\ Checked(parseEnrollmentQuery(r)) /\ Checked(privateRequestID(r))
         /\ Checked(chatContextID(r))
BY DEF Checked, Fails, tenantIDFromContext, tenantClaim, memberClaim, authenticatedUserID,
   studentScope, enrollmentScope, privateRequestParent, privateRequestScope, pathID,
   boundBody, bodyID, listQuery, parseReportQuery, parseSessionQuery,
   parseAttendanceQuery,
   parseEnrollmentQuery, privateRequestID, chatContextID

LEMMA Unrefused ==
  ASSUME NEW e, NEW u
  PROVE  \/ e # "" /\ Refusal(Unless(e, u))
         \/ e = "" /\ Unless(e, u) = u
BY DEF Unless, Refusal, Refuses, Result

\* An error that no table knows is answered with 500.
LEMMA Unlisted ==
  ASSUME NEW codes, NEW err, err \notin DOMAIN codes, "Other" \notin DOMAIN codes
  PROVE  StatusOf(codes, err) = 500
BY DEF StatusOf

\* Two tables that know no failure of billing.
LEMMA CatalogUnlisted ==
  /\ "Billing" \notin DOMAIN catalogEnrollmentErrorStatus
  /\ "Other" \notin DOMAIN catalogEnrollmentErrorStatus
BY DEF catalogEnrollmentErrorStatus, ++, Codes

LEMMA RequestUnlisted ==
  LET codes == [PlatformFeeExceedsGross |-> 422] ++ privateRequestError
  IN "Billing" \notin DOMAIN codes /\ "Other" \notin DOMAIN codes
BY DEF privateRequestError, ++, Codes

\* A write that the answer may not tell of: err is an error after it.
Writes(u, does, row, err) ==
    /\ u.locked /\ u.shows = {} /\ u.does = does /\ u.row = row
    /\ u.err \in {"", err}

-----------------------------------------------------------------------------
(* What a use case does when it does not refuse, and that the row it does  *)
(* it to is the caller's.                                                  *)

LEMMA UpdateClassDoes ==
  ASSUME NEW r, NEW w
  PROVE  \/ Refusal(UpdateClass(r, w))
         \/ /\ UpdateClass(r, w) = [UpdateByTenant(r.target, "ClassNotFound")
                                       EXCEPT !.locked = TRUE]
            /\ r.target \in OfTenant(r, w.live)
BY DEF Unless, Refuses, Refusal, Result, ??, When, UpdateClass, Finds

LEMMA UpdateClassPublicationDoes ==
  ASSUME NEW r, NEW w
  PROVE  \/ Refusal(UpdateClassPublication(r, w))
         \/ /\ Writes(UpdateClassPublication(r, w), "update", r.target, "Database")
            /\ r.target \in OfTenant(r, w.live)
BY DEF Unless, Refuses, Refusal, When, UpdateClassPublication,
   class_UpdatePublicationStatus, Writes,
   Finds, Locked, Result

LEMMA CreateInitialSchedulesDoes ==
  ASSUME NEW r, NEW w
  PROVE  \/ Refusal(CreateInitialSchedules(r, w))
         \/ /\ CreateInitialSchedules(r, w) =
                Locked("insert", [r.target EXCEPT !.parent = "new"])
            /\ r.target \in OfTenant(r, w.live)
BY DEF Unless, Refuses, Refusal, Result, ??, When, CreateInitialSchedules, Finds

LEMMA ChangeSchedulePermanentDoes ==
  ASSUME NEW r, NEW w
  PROVE  \/ Refusal(ChangeSchedulePermanent(r, w))
         \/ /\ ChangeSchedulePermanent(r, w) = Locked("act", r.target)
            /\ r.target \in OfTenant(r, w.live)
BY DEF Unless, Refuses, Refusal, Result, ??, When, ChangeSchedulePermanent,
   schedule_GetByIDForTenantForUpdate, Finds

LEMMA ChangeTutorPermanentDoes ==
  ASSUME NEW r, NEW w
  PROVE  \/ Refusal(ChangeTutorPermanent(r, w))
         \/ /\ ChangeTutorPermanent(r, w)
                  = Overtakable("update", r.target, "ScheduleNotFound")
            /\ r.target \in OfTenant(r, w.live)
BY DEF Unless, Refuses, Refusal, Result, ??, When, ChangeTutorPermanent,
   schedule_GetByIDForTenant, Finds

LEMMA SubstituteDoes ==
  ASSUME NEW r, NEW w
  PROVE  \/ Refusal(ChangeTutorTemporary(r, w))
         \/ /\ ChangeTutorTemporary(r, w)
                  = Overtakable("reread", r.target, "SessionNotFound")
            /\ r.target \in OfTenant(r, w.live)
BY DEF Unless, Refuses, Refusal, Result, ??, When, ChangeTutorTemporary,
   session_GetByIDForTenant, Finds

LEMMA UpdateStudentDoes ==
  ASSUME NEW r, NEW w
  PROVE  \/ Refusal(student_UpdateUse(r, w))
         \/ /\ student_UpdateUse(r, w) = student_Update(r.target)
            /\ r.target \in OfCaller(r, w.live)
BY DEF Unless, Refuses, Refusal, Result, ??, When, student_UpdateUse,
   student_accessQuery, Finds

LEMMA createForSessionDoes ==
  ASSUME NEW r, NEW w
  PROVE  \/ Refusal(attendance_createForSession(r, w))
         \/ /\ attendance_createForSession(r, w) = Locked("insert", r.target)
            /\ r.target \in OfTenant(r, w.live)
BY DEF Unless, Refuses, Refusal, Result, ??, When, attendance_createForSession,
   checkCohort, session_IsTutorForSession, resolveSessionCohort,
   session_FindSessionForAttendance, Finds

LEMMA CreateAttendanceDoes ==
  ASSUME NEW r, NEW w
  PROVE  \/ Refusal(attendance_CreateUse(r, w))
         \/ /\ attendance_CreateUse(r, w) = Locked("insert", r.target)
            /\ r.target \in OfTenant(r, w.live)
<1>1. CASE Is("form", w)
  BY <1>1 DEF attendance_CreateUse, Refusal, Refuses, Result
<1>2. CASE ~Is("form", w) /\ r.body = "legacy"
  BY <1>2 DEF Unless, Refuses, Refusal, Result, ??, When, session_IsTutorForSession,
     attendance_CreateUse, session_FindForAttendance, Finds
<1>3. CASE ~Is("form", w) /\ r.body # "legacy"
  BY <1>3, createForSessionDoes DEF attendance_CreateUse
<1>4. QED
  BY <1>1, <1>2, <1>3

LEMMA InvoicedDoes ==
  ASSUME NEW w, NEW row
  PROVE  \/ Refusal(Invoiced(w, row))
         \/ Writes(Invoiced(w, row), "insert", row, "Billing")
BY Unrefused DEF Invoiced, Locked, Result, Writes

LEMMA EnrollPublicDoes ==
  ASSUME NEW r, NEW w
  PROVE  \/ Refusal(EnrollPublic(r, w))
         \/ /\ Writes(EnrollPublic(r, w), "insert", r.target, "Billing")
            /\ r.target \in OfParent(r, w.live)
<1>1. \/ Refusal(EnrollPublic(r, w))
      \/ EnrollPublic(r, w) = Invoiced(w, r.target) /\ r.target \in OfParent(r, w.live)
  BY DEF Unless, Refuses, Refusal, Result, ??, When, EnrollPublic, Finds
<1>2. QED
  BY <1>1, InvoicedDoes

LEMMA EnrollStudentDoes ==
  ASSUME NEW r, NEW w
  PROVE  LET row == [r.target EXCEPT !.tenant = r.c.tenant]
         IN \/ Refusal(EnrollStudent(r, w))
            \/ /\ Writes(EnrollStudent(r, w), "insert", row, "Billing")
               /\ r.target \in w.live
<1> DEFINE row == [r.target EXCEPT !.tenant = r.c.tenant]
<1>1. \/ Refusal(EnrollStudent(r, w))
      \/ EnrollStudent(r, w) = Invoiced(w, row) /\ r.target \in w.live
  BY DEF Unless, Refuses, Refusal, Result, ??, When, EnrollStudent, student_GetByID, Finds
<1> HIDE DEF row
<1>2. \/ Refusal(Invoiced(w, row))
      \/ Writes(Invoiced(w, row), "insert", row, "Billing")
  BY InvoicedDoes
<1>3. QED
  BY <1>1, <1>2 DEF row

LEMMA PurchaseDoes ==
  ASSUME NEW r, NEW w, NEW owned
  PROVE  \/ Refusal(request_purchase(r, w, owned))
         \/ /\ Writes(request_purchase(r, w, owned), "act", r.target, "Billing")
            /\ r.target \in owned
BY DEF Unless, Refuses, Refusal, Result, ??, When, request_purchase, Finds, Locked, Writes

-----------------------------------------------------------------------------
(* The effects of the handlers whose use case is long or depends on who    *)
(* asks.                                                                   *)

\* A write under a lock has the effect its route may have.
LEMMA LockedEffect ==
  ASSUME NEW r, NEW h, NEW does \in {"insert", "update", "act"}, NEW row,
         h.use = Locked(does, row), Own(r, row),
         r.route \notin Reads, r.route \notin Asks, r.route \notin Deletions
  PROVE  Effect(r, h)
<1>1. LockedWrite(r, Locked(does, row)) /\ Locked(does, row).err = ""
  BY DEF LockedWrite, Locked, Result
<1>2. QED
  BY <1>1 DEF Effect

\* So has one after which the answer fails.
LEMMA WriteEffect ==
  ASSUME NEW r, NEW h, NEW does \in {"insert", "update", "act"}, NEW row, NEW err,
         Writes(h.use, does, row, err), StatusOf(h.codes, err) = 500, Own(r, row),
         r.route \notin Reads, r.route \notin Asks, r.route \notin Deletions
  PROVE  Effect(r, h)
<1>1. LockedWrite(r, h.use)
  BY DEF LockedWrite, Writes
<1>2. h.use.err # "" => StatusOf(h.codes, h.use.err) = 500
  BY DEF Writes
<1>3. QED
  BY <1>1, <1>2 DEF Effect

\* Billing's failure after the write is answered with 500.
LEMMA CatalogBilling == StatusOf(catalogEnrollmentErrorStatus, "Billing") = 500
BY CatalogUnlisted, Unlisted

LEMMA RequestBilling ==
  StatusOf([PlatformFeeExceedsGross |-> 422] ++ privateRequestError, "Billing") = 500
BY RequestUnlisted, Unlisted

LEMMA session_GetEffect ==
  ASSUME NEW r, NEW w, r.route \in Reads, r.route \notin TenantLists
  PROVE  Effect(r, session_Get(r, w))
<1>1. CASE r.c.parent
  BY <1>1 DEF session_Get, Handler, HandlerAsking, GetSessionForParent, OfParent,
     Unless, When, Refuses, Shows, Result, Effect, Refusal, Reading, Own
<1>2. CASE ~r.c.parent
  BY <1>2 DEF session_Get, Handler, HandlerAsking, GetSession, ShowsFound,
     session_GetByIDForTenant, OfTenant, Unless, When, Refuses, Shows, Result,
     Effect, Refusal, Reading, Own
<1>3. QED
  BY <1>1, <1>2

LEMMA session_GetSessionAttendeesEffect ==
  ASSUME NEW r, NEW w, r.route \in Reads, r.route \notin TenantLists
  PROVE  Effect(r, session_GetSessionAttendees(r, w))
<1>1. CASE r.c.parent
  BY <1>1 DEF session_GetSessionAttendees, Handler, HandlerAsking,
     GetSessionAttendeesForParent, enrollment_GetActiveByScheduleIDForParent,
     OfParent, ??, Unless, When, Refuses, Shows, Result, Effect, Refusal, Reading,
     Own
<1>2. CASE ~r.c.parent
  BY <1>2 DEF session_GetSessionAttendees, Handler, HandlerAsking,
     GetSessionAttendees, enrollment_GetActiveByScheduleID, OfTenant, ??, Unless,
     When, Refuses, Shows, Result, Effect, Refusal, Reading, Own
<1>3. QED
  BY <1>1, <1>2

LEMMA report_GetEffect ==
  ASSUME NEW r, NEW w, r.route \in Reads, r.route \notin TenantLists
  PROVE  Effect(r, report_Get(r, w))
<1>1. CASE r.c.parent
  BY <1>1 DEF report_Get, Handler, HandlerAsking, ShowsFound, report_GetForParent,
     OfParent, Unless, When, Refuses, Shows, Result, Effect, Refusal, Reading, Own
<1>2. CASE ~r.c.parent
  BY <1>2 DEF report_Get, Handler, HandlerAsking, ShowsFound,
     report_GetByIDForTenant, OfTenant, Unless, When, Refuses, Shows, Result,
     Effect, Refusal, Reading, Own
<1>3. QED
  BY <1>1, <1>2

LEMMA attendance_GetEffect ==
  ASSUME NEW r, NEW w, r.route \in Reads, r.route \notin TenantLists
  PROVE  Effect(r, attendance_Get(r, w))
<1>1. CASE r.c.parent
  BY <1>1 DEF attendance_Get, Handler, HandlerAsking, ShowsFound,
     attendance_GetForParent, OfParent, Unless, When, Refuses, Shows, Result,
     Effect, Refusal, Reading, Own
<1>2. CASE ~r.c.parent
  BY <1>2 DEF attendance_Get, Handler, HandlerAsking, ShowsFound,
     attendance_GetByIDForTenant, OfTenant, Unless, When, Refuses, Shows, Result,
     Effect, Refusal, Reading, Own
<1>3. QED
  BY <1>1, <1>2

LEMMA attendance_GetBySessionEffect ==
  ASSUME NEW r, NEW w, r.route \in Reads, r.route \notin TenantLists
  PROVE  Effect(r, attendance_GetBySession(r, w))
<1>1. CASE r.c.parent
  BY <1>1 DEF attendance_GetBySession, Handler, HandlerAsking,
     attendance_GetBySessionForParent, enrollment_GetByIDForAccess, Finds, OfCaller,
     OfParent, ??, Unless, When, Refuses, Shows, Result, Effect, Refusal, Reading,
     Own
<1>2. CASE ~r.c.parent
  BY <1>2 DEF attendance_GetBySession, Handler, HandlerAsking,
     attendance_GetBySessionUse, session_FindSessionForAttendance, Finds, OfTenant,
     ??, Unless, When, Refuses, Shows, Result, Effect, Refusal, Reading, Own
<1>3. QED
  BY <1>1, <1>2

LEMMA class_UpdateEffect ==
  ASSUME NEW r, NEW w, r.route \notin Reads, r.route \notin Asks,
         r.route \notin Deletions, ~r.c.parent
  PROVE  Effect(r, class_Update(r, w))
<1>1. class_Update(r, w).use = UpdateClass(r, w)
  BY DEF class_Update, HandlerAsking
<1>2. CASE Refusal(UpdateClass(r, w))
  BY <1>1, <1>2 DEF Effect
<1>3. CASE /\ UpdateClass(r, w) = [UpdateByTenant(r.target, "ClassNotFound")
                                    EXCEPT !.locked = TRUE]
           /\ r.target \in OfTenant(r, w.live)
  <2>1. LockedWrite(r, UpdateClass(r, w))
    BY <1>3 DEF UpdateByTenant, Overtakable, Result, OfTenant, LockedWrite, Own
  <2>2. UpdateClass(r, w).err = ""
    BY <1>3 DEF UpdateByTenant, Overtakable, Result
  <2>3. QED
    BY <1>1, <2>1, <2>2 DEF Effect
<1>4. QED
  BY <1>2, <1>3, UpdateClassDoes

LEMMA schedule_CreateInitialSchedulesEffect ==
  ASSUME NEW r, NEW w, r.route \notin Reads, r.route \notin Asks,
         r.route \notin Deletions,
         ~r.c.parent, w.live \subseteq Rows
  PROVE  Effect(r, schedule_CreateInitialSchedules(r, w))
<1>1. schedule_CreateInitialSchedules(r, w).use = CreateInitialSchedules(r, w)
  BY DEF schedule_CreateInitialSchedules, Handler, HandlerAsking
<1>2. r.target \in OfTenant(r, w.live) => Own(r, [r.target EXCEPT !.parent = "new"])
  BY DEF OfTenant, Rows, Own
<1>3. CASE Refusal(CreateInitialSchedules(r, w))
  BY <1>1, <1>3 DEF Effect
<1>4. CASE /\ CreateInitialSchedules(r, w) =
                Locked("insert", [r.target EXCEPT !.parent = "new"])
           /\ r.target \in OfTenant(r, w.live)
  BY <1>1, <1>2, <1>4, LockedEffect
<1>5. QED
  BY <1>3, <1>4, CreateInitialSchedulesDoes

LEMMA schedule_ChangeSchedulePermanentEffect ==
  ASSUME NEW r, NEW w, r.route \notin Reads, r.route \notin Asks,
         r.route \notin Deletions,
         ~r.c.parent
  PROVE  Effect(r, schedule_ChangeSchedulePermanent(r, w))
<1>1. schedule_ChangeSchedulePermanent(r, w).use = ChangeSchedulePermanent(r, w)
  BY DEF schedule_ChangeSchedulePermanent, Handler, HandlerAsking
<1>2. r.target \in OfTenant(r, w.live) => Own(r, r.target)
  BY DEF OfTenant, Own
<1>3. CASE Refusal(ChangeSchedulePermanent(r, w))
  BY <1>1, <1>3 DEF Effect
<1>4. CASE /\ ChangeSchedulePermanent(r, w) = Locked("act", r.target)
           /\ r.target \in OfTenant(r, w.live)
  BY <1>1, <1>2, <1>4, LockedEffect
<1>5. QED
  BY <1>3, <1>4, ChangeSchedulePermanentDoes

LEMMA schedule_ChangeTutorPermanentEffect ==
  ASSUME NEW r, NEW w, r.route \notin Reads, r.route \notin Asks,
         r.route \notin Deletions,
         ~r.c.parent, w.live \subseteq Rows
  PROVE  Effect(r, schedule_ChangeTutorPermanent(r, w))
<1>1. schedule_ChangeTutorPermanent(r, w).use = ChangeTutorPermanent(r, w)
  BY DEF schedule_ChangeTutorPermanent, Handler, HandlerAsking
<1>2. CASE Refusal(ChangeTutorPermanent(r, w))
  BY <1>1, <1>2 DEF Effect
<1>3. CASE /\ ChangeTutorPermanent(r, w)
                 = Overtakable("update", r.target, "ScheduleNotFound")
           /\ r.target \in OfTenant(r, w.live)
  <2>1. Own(r, r.target) /\ r.target \in Rows
    BY <1>3 DEF OfTenant, Own
  <2>2. PendingWrite(r, Overtakable("update", r.target, "ScheduleNotFound"))
    BY <2>1 DEF Overtakable, Result, PendingWrite
  <2>3. QED
    BY <1>1, <1>3, <2>2 DEF Effect
<1>4. QED
  BY <1>2, <1>3, ChangeTutorPermanentDoes

LEMMA attendance_CreateEffect ==
  ASSUME NEW r, NEW w, r.route \notin Reads, r.route \notin Asks,
         r.route \notin Deletions,
         ~r.c.parent
  PROVE  Effect(r, attendance_Create(r, w))
<1>1. attendance_Create(r, w).use = attendance_CreateUse(r, w)
  BY DEF attendance_Create, writeAttendanceCreateResult, Handler, HandlerAsking
<1>2. r.target \in OfTenant(r, w.live) => Own(r, r.target)
  BY DEF OfTenant, Own
<1>3. CASE Refusal(attendance_CreateUse(r, w))
  BY <1>1, <1>3 DEF Effect
<1>4. CASE /\ attendance_CreateUse(r, w) = Locked("insert", r.target)
           /\ r.target \in OfTenant(r, w.live)
  BY <1>1, <1>2, <1>4, LockedEffect
<1>5. QED
  BY <1>3, <1>4, CreateAttendanceDoes

LEMMA student_mutateEffect ==
  ASSUME NEW r, NEW w, r.route \notin Reads, r.route \notin Asks, r.route \in Saves,
         r.route \notin TenantLists, w.live \subseteq Rows
  PROVE  Effect(r, student_mutate(r, w, TRUE))
<1>1. student_mutate(r, w, TRUE).use = student_UpdateUse(r, w)
  BY DEF student_mutate, Handler, HandlerAsking
<1>2. ASSUME student_UpdateUse(r, w) = student_Update(r.target),
             r.target \in OfCaller(r, w.live)
      PROVE  PendingWrite(r, student_UpdateUse(r, w))
  <2>1. Own(r, r.target) /\ r.target \in Rows
    BY <1>2 DEF OfCaller, OfParent, OfTenant, Own
  <2>2. PendingWrite(r, student_Update(r.target))
    BY <2>1 DEF student_Update, Overtakable, Result, PendingWrite
  <2>3. QED
    BY <1>2, <2>2
<1>3. QED
  BY <1>1, <1>2, UpdateStudentDoes DEF Effect

LEMMA class_UpdatePublicationEffect ==
  ASSUME NEW r, NEW w, r.route \notin Reads, r.route \notin Asks,
         r.route \notin Deletions,
         ~r.c.parent
  PROVE  Effect(r, class_UpdatePublication(r, w))
<1>1. class_UpdatePublication(r, w).use = UpdateClassPublication(r, w)
  BY DEF class_UpdatePublication, Handler, HandlerAsking
<1>2. StatusOf(class_UpdatePublication(r, w).codes, "Database") = 500
  BY DEF StatusOf, class_UpdatePublication, Handler, HandlerAsking
<1>3. r.target \in OfTenant(r, w.live) => Own(r, r.target)
  BY DEF OfTenant, Own
<1>4. CASE Refusal(UpdateClassPublication(r, w))
  BY <1>1, <1>4 DEF Effect
<1>5. CASE /\ Writes(UpdateClassPublication(r, w), "update", r.target, "Database")
           /\ r.target \in OfTenant(r, w.live)
  BY <1>1, <1>2, <1>3, <1>5, WriteEffect
<1>6. QED
  BY <1>4, <1>5, UpdateClassPublicationDoes

LEMMA CreateCatalogEnrollmentEffect ==
  ASSUME NEW r, NEW w, r.route \notin Reads, r.route \notin Asks,
         r.route \notin Deletions,
         r.c.parent, r.route \notin TenantLists
  PROVE  Effect(r, CreateCatalogEnrollment(r, w))
<1>1. CreateCatalogEnrollment(r, w).use = EnrollPublic(r, w)
  BY DEF CreateCatalogEnrollment, Handler, HandlerAsking
<1>2. StatusOf(CreateCatalogEnrollment(r, w).codes, "Billing") = 500
  BY CatalogBilling DEF CreateCatalogEnrollment, Handler, HandlerAsking
<1>3. r.target \in OfParent(r, w.live) => Own(r, r.target)
  BY DEF OfParent, Own
<1>4. CASE Refusal(EnrollPublic(r, w))
  BY <1>1, <1>4 DEF Effect
<1>5. CASE /\ Writes(EnrollPublic(r, w), "insert", r.target, "Billing")
           /\ r.target \in OfParent(r, w.live)
  BY <1>1, <1>2, <1>3, <1>5, WriteEffect
<1>6. QED
  BY <1>4, <1>5, EnrollPublicDoes

LEMMA request_ApproveEffect ==
  ASSUME NEW r, NEW w, r.route \notin Reads, r.route \notin Asks,
         r.route \notin Deletions,
         ~r.c.parent
  PROVE  Effect(r, request_Approve(r, w))
<1>1. request_Approve(r, w).use = request_purchase(r, w, request_LockForTenant(r, w))
  BY DEF request_Approve, Handler, HandlerAsking
<1>2. StatusOf(request_Approve(r, w).codes, "Billing") = 500
  BY RequestBilling DEF request_Approve, Handler, HandlerAsking
<1>3. r.target \in request_LockForTenant(r, w) => Own(r, r.target)
  BY DEF request_LockForTenant, OfTenant, Own
<1>4. CASE Refusal(request_purchase(r, w, request_LockForTenant(r, w)))
  BY <1>1, <1>4 DEF Effect
<1>5. CASE /\ Writes(request_purchase(r, w, request_LockForTenant(r, w)),
                  "act", r.target, "Billing")
           /\ r.target \in request_LockForTenant(r, w)
  BY <1>1, <1>2, <1>3, <1>5, WriteEffect
<1>6. QED
  BY <1>4, <1>5, PurchaseDoes

LEMMA request_AcceptRecommendationEffect ==
  ASSUME NEW r, NEW w, r.route \notin Reads, r.route \notin Asks,
         r.route \notin Deletions,
         r.c.parent, r.route \notin TenantLists
  PROVE  Effect(r, request_AcceptRecommendation(r, w))
<1>1. request_AcceptRecommendation(r, w).use
        = request_purchase(r, w, request_LockForParent(r, w))
  BY DEF request_AcceptRecommendation, Handler, HandlerAsking
<1>2. StatusOf(request_AcceptRecommendation(r, w).codes, "Billing") = 500
  BY RequestBilling DEF request_AcceptRecommendation, Handler, HandlerAsking
<1>3. r.target \in request_LockForParent(r, w) => Own(r, r.target)
  BY DEF request_LockForParent, OfParent, Own
<1>4. CASE Refusal(request_purchase(r, w, request_LockForParent(r, w)))
  BY <1>1, <1>4 DEF Effect
<1>5. CASE /\ Writes(request_purchase(r, w, request_LockForParent(r, w)),
                  "act", r.target, "Billing")
           /\ r.target \in request_LockForParent(r, w)
  BY <1>1, <1>2, <1>3, <1>5, WriteEffect
<1>6. QED
  BY <1>4, <1>5, PurchaseDoes

LEMMA enrollment_CreateEffect ==
  ASSUME NEW r, NEW w, r.route \notin Reads, r.route \notin Asks,
         r.route \notin Deletions,
         r.route \notin TenantLists, w.live \subseteq Rows
  PROVE  Effect(r, enrollment_Create(r, w))
<1>1. CASE r.c.parent
  <2>1. enrollment_Create(r, w).use = EnrollPublic(r, w)
    BY <1>1 DEF enrollment_Create, Handler, HandlerAsking
  <2>2. StatusOf(enrollment_Create(r, w).codes, "Billing") = 500
    BY <1>1, CatalogUnlisted DEF StatusOf, enrollment_Create, Handler, HandlerAsking
  <2>3. r.target \in OfParent(r, w.live) => Own(r, r.target)
    BY <1>1 DEF OfParent, Own
  <2>4. CASE Refusal(EnrollPublic(r, w))
    BY <2>1, <2>4 DEF Effect
  <2>5. CASE /\ Writes(EnrollPublic(r, w), "insert", r.target, "Billing")
             /\ r.target \in OfParent(r, w.live)
    BY <2>1, <2>2, <2>3, <2>5, WriteEffect
  <2>6. QED
    BY <2>4, <2>5, EnrollPublicDoes
<1>2. CASE ~r.c.parent
  <2> DEFINE row == [r.target EXCEPT !.tenant = r.c.tenant]
  <2>1. enrollment_Create(r, w).use = EnrollStudent(r, w)
    BY <1>2 DEF enrollment_Create, Handler, HandlerAsking
  <2>2. StatusOf(enrollment_Create(r, w).codes, "Billing") = 500
    BY <1>2 DEF StatusOf, enrollment_Create, Handler, HandlerAsking
  <2>3. r.target \in w.live => Own(r, row)
    BY <1>2 DEF Rows, Own
  <2>4. \/ Refusal(EnrollStudent(r, w))
        \/ /\ Writes(EnrollStudent(r, w), "insert", row, "Billing")
           /\ r.target \in w.live
    BY EnrollStudentDoes
  <2> HIDE DEF row
  <2>5. CASE Refusal(EnrollStudent(r, w))
    BY <2>1, <2>5 DEF Effect
  <2>6. CASE /\ Writes(EnrollStudent(r, w), "insert", row, "Billing")
             /\ r.target \in w.live
    BY <2>1, <2>2, <2>3, <2>6, WriteEffect
  <2>7. QED
    BY <2>4, <2>5, <2>6
<1>3. QED
  BY <1>1, <1>2

\* Every error of categories has a status of an error.
LEMMA CategoriesCoded ==
  ASSUME NEW r, NEW w
  PROVE  /\ Plain(category_List(r, w))
         /\ Plain(category_Create(r, w))
         /\ Plain(category_Update(r, w))
         /\ Plain(category_Delete(r, w))
<1>1. Plain(category_List(r, w))
  BY DEF category_List, Handler, HandlerAsking, NoCodes, Codes, Plain, Coded,
     CodedTable
<1>2. Plain(category_Create(r, w))
  BY DEF category_Create, Handler, HandlerAsking, Plain, Coded, CodedTable
<1>3. Plain(category_Update(r, w))
  BY DEF category_Update, Handler, HandlerAsking, Plain, Coded, CodedTable
<1>4. Plain(category_Delete(r, w))
  BY DEF category_Delete, Handler, HandlerAsking, Plain, Coded, CodedTable
<1>5. QED
  BY <1>1, <1>2, <1>3, <1>4

\* Every check of categories answers with an error or passes.
LEMMA CategoriesChecked ==
  ASSUME NEW r, NEW w
  PROVE  /\ Checked(category_List(r, w).before)
         /\ Checked(category_Create(r, w).before)
         /\ Checked(category_Update(r, w).before)
         /\ Checked(category_Delete(r, w).before)
<1>1. Checked(category_List(r, w).before)
  BY Checks, CheckedOr DEF category_List, Handler, HandlerAsking
<1>2. Checked(category_Create(r, w).before)
  BY Checks, CheckedOr DEF category_Create, Handler, HandlerAsking
<1>3. Checked(category_Update(r, w).before)
  BY Checks, CheckedOr DEF category_Update, Handler, HandlerAsking
<1>4. Checked(category_Delete(r, w).before)
  BY Checks, CheckedOr DEF category_Delete, Handler, HandlerAsking
<1>5. QED
  BY <1>1, <1>2, <1>3, <1>4

\* What the handlers of categories answer and do.
LEMMA CategoriesSound ==
  ASSUME NEW r, NEW w, w.live \subseteq Rows,
         r.route \in {"GET /categories", "POST /categories",
                     "PATCH /categories/:id", "DELETE /categories/:id"}
  PROVE  Sound(r, ServedBy(r, w))
<1>1. CASE r.route = "GET /categories"
  <2>1. ServedBy(r, w) = category_List(r, w)
    BY <1>1 DEF ServedBy
  <2>2. ASSUME Entry(r) PROVE Effect(r, category_List(r, w))
    BY <1>1, <2>2 DEF category_List, Handler, HandlerAsking, ListCategories, Shows,
       category_ListByTenant, Result, Missing, OfTenant, Effect, Own, Reading,
       Reads, Asks, TenantLists, Rows
  <2>3. QED
    BY <1>1, <2>1, <2>2, CategoriesCoded, CategoriesChecked DEF Sound, Plain
<1>2. CASE r.route = "POST /categories"
  <2>1. ServedBy(r, w) = category_Create(r, w)
    BY <1>2 DEF ServedBy
  <2>2. ASSUME Entry(r) PROVE Effect(r, category_Create(r, w))
    BY <1>2, <2>2 DEF category_Create, Handler, HandlerAsking, CreateCategory,
       Unless, ValidateTenantStatus, Locked, Refuses, When, Is, Result, Missing,
       Effect, Own, Refusal, LockedWrite, Reads, Asks, Deletions, Entry, StaffOnly,
       TenantLists, Rows
  <2>3. QED
    BY <1>2, <2>1, <2>2, CategoriesCoded, CategoriesChecked DEF Sound, Plain
<1>3. CASE r.route = "PATCH /categories/:id"
  <2>1. ServedBy(r, w) = category_Update(r, w)
    BY <1>3 DEF ServedBy
  <2>2. ASSUME Entry(r) PROVE Effect(r, category_Update(r, w))
    BY <1>3, <2>2 DEF category_Update, Handler, HandlerAsking, UpdateCategory,
       Unless, When, Finds, Unread, category_GetByID, OfTenant, Is, UpdateByTenant, ??,
       Refuses, Overtakable, Result, Missing, Effect, Own, Refusal, PendingWrite,
       Reads, Asks, Deletions, Saves, Entry, StaffOnly, TenantLists, Rows
  <2>3. QED
    BY <1>3, <2>1, <2>2, CategoriesCoded, CategoriesChecked DEF Sound, Plain
<1>4. CASE r.route = "DELETE /categories/:id"
  <2>1. ServedBy(r, w) = category_Delete(r, w)
    BY <1>4 DEF ServedBy
  <2>2. ASSUME Entry(r) PROVE Effect(r, category_Delete(r, w))
    BY <1>4, <2>2 DEF category_Delete, Handler, HandlerAsking, DeleteCategory,
       Unless, When, Finds, Unread, category_GetByID, OfTenant, category_CountActiveClasses,
       category_DeleteByTenant, ??, Refuses, Is, Overtakable, Result, Missing,
       Effect, Own, Refusal, PendingWrite, Reads, Asks, Deletions, Saves, Entry,
       StaffOnly, TenantLists, Rows
  <2>3. QED
    BY <1>4, <2>1, <2>2, CategoriesCoded, CategoriesChecked DEF Sound, Plain
<1>5. QED
  BY <1>1, <1>2, <1>3, <1>4

\* Every error of classes has a status of an error.
LEMMA ClassesCoded ==
  ASSUME NEW r, NEW w
  PROVE  /\ Plain(class_List(r, w))
         /\ Plain(class_Class(r, w))
         /\ Plain(class_Schedules(r, w))
         /\ Plain(class_Create(r, w))
         /\ Coded(class_CreateWithCategory(r, w))
         /\ Plain(class_Delete(r, w))
         /\ Coded(class_Update(r, w))
         /\ Plain(class_UpdatePublication(r, w))
<1>1. Plain(class_List(r, w))
  BY DEF class_List, Handler, HandlerAsking, NoCodes, Codes, Plain, Coded,
     CodedTable
<1>2. Plain(class_Class(r, w))
  BY DEF class_Class, classReadResult, Handler, HandlerAsking, Plain, Coded,
     CodedTable
<1>3. Plain(class_Schedules(r, w))
  BY DEF class_Schedules, classReadResult, Handler, HandlerAsking, Plain, Coded,
     CodedTable
<1>4. Plain(class_Create(r, w))
  BY DEF class_Create, Handler, HandlerAsking, Plain, Coded, CodedTable
<1>5. Coded(class_CreateWithCategory(r, w))
  <2>1. CodedTable([ClassCreationKeyConflict |-> 409, SubstituteTutorUnavailable |-> 503,
                     TenantInactiveOrNotFound |-> 403])
    BY DEF CodedTable
  <2>2. QED
    BY <2>1, CodedMerge, CodedCodes DEF class_CreateWithCategory, Handler,
       HandlerAsking, Coded
<1>6. Plain(class_Delete(r, w))
  BY DEF class_Delete, Handler, HandlerAsking, Plain, Coded, CodedTable
<1>7. Coded(class_Update(r, w))
  <2>1. CodedTable([SubstituteTutorUnavailable |-> 503, SubstituteTutorNotEligible |-> 400,
                     ClassNotFound |-> 404])
    BY DEF CodedTable
  <2>2. QED
    BY <2>1, CodedMerge, CodedCodes DEF class_Update, Handler, HandlerAsking, Coded
<1>8. Plain(class_UpdatePublication(r, w))
  BY DEF class_UpdatePublication, Handler, HandlerAsking, Plain, Coded, CodedTable
<1>9. QED
  BY <1>1, <1>2, <1>3, <1>4, <1>5, <1>6, <1>7, <1>8

\* Every check of classes answers with an error or passes.
LEMMA ClassesChecked ==
  ASSUME NEW r, NEW w
  PROVE  /\ Checked(class_List(r, w).before)
         /\ Checked(class_Class(r, w).before)
         /\ Checked(class_Schedules(r, w).before)
         /\ Checked(class_Create(r, w).before)
         /\ Checked(class_CreateWithCategory(r, w).before)
         /\ Checked(class_Delete(r, w).before)
         /\ Checked(class_Update(r, w).before)
         /\ Checked(class_UpdatePublication(r, w).before)
<1>1. Checked(class_List(r, w).before)
  BY Checks, CheckedOr DEF class_List, Handler, HandlerAsking
<1>2. Checked(class_Class(r, w).before)
  BY Checks, CheckedOr DEF class_Class, classReadResult, Handler, HandlerAsking
<1>3. Checked(class_Schedules(r, w).before)
  BY Checks, CheckedOr DEF class_Schedules, classReadResult, Handler, HandlerAsking
<1>4. Checked(class_Create(r, w).before)
  BY Checks, CheckedOr DEF class_Create, Handler, HandlerAsking
<1>5. Checked(class_CreateWithCategory(r, w).before)
  BY Checks, CheckedOr DEF class_CreateWithCategory, Handler, HandlerAsking
<1>6. Checked(class_Delete(r, w).before)
  BY Checks, CheckedOr DEF class_Delete, Handler, HandlerAsking
<1>7. Checked(class_Update(r, w).before)
  BY Checks, CheckedOr DEF class_Update, Handler, HandlerAsking
<1>8. Checked(class_UpdatePublication(r, w).before)
  BY Checks, CheckedOr DEF class_UpdatePublication, Handler, HandlerAsking
<1>9. QED
  BY <1>1, <1>2, <1>3, <1>4, <1>5, <1>6, <1>7, <1>8

\* What the handlers of classes answer and do.
LEMMA ClassesSound ==
  ASSUME NEW r, NEW w, w.live \subseteq Rows,
         r.route \in {"GET /classes", "GET /classes/:id",
                     "GET /classes/:id/schedules", "POST /classes",
                     "POST /classes/with-category", "DELETE /classes/:id",
                     "PATCH /classes/:id", "PATCH /classes/:id/published"}
  PROVE  Sound(r, ServedBy(r, w))
<1>1. CASE r.route = "GET /classes"
  <2>1. ServedBy(r, w) = class_List(r, w)
    BY <1>1 DEF ServedBy
  <2>2. ASSUME Entry(r) PROVE Effect(r, class_List(r, w))
    BY <1>1, <2>2 DEF class_List, Handler, HandlerAsking, ListClasses, Shows,
       class_ListByTenant, Result, Missing, OfTenant, Effect, Own, Reading, Reads,
       Asks, TenantLists, Rows
  <2>3. QED
    BY <1>1, <2>1, <2>2, ClassesCoded, ClassesChecked DEF Sound, Plain
<1>2. CASE r.route = "GET /classes/:id"
  <2>1. ServedBy(r, w) = class_Class(r, w)
    BY <1>2 DEF ServedBy
  <2>2. ASSUME Entry(r) PROVE Effect(r, class_Class(r, w))
    BY <1>2, <2>2 DEF class_Class, classReadResult, Handler, HandlerAsking,
       ShowsFound, classRead_Class, Unless, When, Finds, Shows, OfTenant, Refuses,
       Result, Missing, Effect, Own, Refusal, Reading, Reads, Asks, Entry,
       StaffOnly, TenantLists, Rows
  <2>3. QED
    BY <1>2, <2>1, <2>2, ClassesCoded, ClassesChecked DEF Sound, Plain
<1>3. CASE r.route = "GET /classes/:id/schedules"
  <2>1. ServedBy(r, w) = class_Schedules(r, w)
    BY <1>3 DEF ServedBy
  <2>2. ASSUME Entry(r) PROVE Effect(r, class_Schedules(r, w))
    BY <1>3, <2>2 DEF class_Schedules, classReadResult, Handler, HandlerAsking,
       ShowsFound, classRead_Schedules, Unless, When, Finds, Shows, OfTenant,
       Refuses, Result, Missing, Effect, Own, Refusal, Reading, Reads, Asks, Entry,
       StaffOnly, TenantLists, Rows
  <2>3. QED
    BY <1>3, <2>1, <2>2, ClassesCoded, ClassesChecked DEF Sound, Plain
<1>4. CASE r.route = "POST /classes"
  <2>1. ServedBy(r, w) = class_Create(r, w)
    BY <1>4 DEF ServedBy
  <2>2. ASSUME Entry(r) PROVE Effect(r, class_Create(r, w))
    BY <1>4, <2>2 DEF class_Create, Handler, HandlerAsking, CreateClass, Unless,
       ValidatePrivateSlotLimit, ValidateTenantStatus, When, Finds,
       Unread, category_GetByID, OfTenant, Locked, ??, Refuses, Is, Result, Missing, Effect,
       Own, Refusal, LockedWrite, Reads, Asks, Deletions, Entry, StaffOnly,
       TenantLists, Rows
  <2>3. QED
    BY <1>4, <2>1, <2>2, ClassesCoded, ClassesChecked DEF Sound, Plain
<1>5. CASE r.route = "POST /classes/with-category"
  <2>1. ServedBy(r, w) = class_CreateWithCategory(r, w)
    BY <1>5 DEF ServedBy
  <2>2. ASSUME Entry(r) PROVE Effect(r, class_CreateWithCategory(r, w))
    BY <1>5, <2>2 DEF class_CreateWithCategory, Handler, HandlerAsking,
       CreateClassWithCategory, Unless, When, Is, ValidateTenantStatus,
       CheckActiveMemberFails, ParseActiveMember, Finds, OfTenant, Locked, ??,
       Refuses, Result, Missing, Effect, Own, Refusal, LockedWrite, Reads, Asks,
       Deletions, Entry, StaffOnly, TenantLists, Rows
  <2>3. QED
    BY <1>5, <2>1, <2>2, ClassesCoded, ClassesChecked DEF Sound, Aggregates
<1>6. CASE r.route = "DELETE /classes/:id"
  <2>1. ServedBy(r, w) = class_Delete(r, w)
    BY <1>6 DEF ServedBy
  <2>2. ASSUME Entry(r) PROVE Effect(r, class_Delete(r, w))
    BY <1>6, <2>2 DEF class_Delete, Handler, HandlerAsking, DeleteClass, Unless,
       When, Finds, Unread, class_GetByID, OfTenant, Is, class_DeleteByTenant, ??, Refuses,
       Overtakable, Result, Missing, Effect, Own, Refusal, PendingWrite, Reads,
       Asks, Deletions, Saves, Entry, StaffOnly, TenantLists, Rows
  <2>3. QED
    BY <1>6, <2>1, <2>2, ClassesCoded, ClassesChecked DEF Sound, Plain
<1>7. CASE r.route = "PATCH /classes/:id"
  <2>1. ServedBy(r, w) = class_Update(r, w)
    BY <1>7 DEF ServedBy
  <2>2. /\ r.route \notin Reads /\ r.route \notin Asks /\ r.route \notin Deletions
        /\ Entry(r) => ~r.c.parent
    BY <1>7 DEF Reads, Asks, Deletions, Entry, StaffOnly
  <2>3. ASSUME Entry(r) PROVE Effect(r, class_Update(r, w))
    BY <2>2, <2>3, class_UpdateEffect
  <2>4. QED
    BY <1>7, <2>1, <2>3, ClassesCoded, ClassesChecked DEF Sound, Aggregates
<1>8. CASE r.route = "PATCH /classes/:id/published"
  <2>1. ServedBy(r, w) = class_UpdatePublication(r, w)
    BY <1>8 DEF ServedBy
  <2>2. /\ r.route \notin Reads /\ r.route \notin Asks /\ r.route \notin Deletions
        /\ Entry(r) => ~r.c.parent
    BY <1>8 DEF Reads, Asks, Deletions, Entry, StaffOnly
  <2>3. ASSUME Entry(r) PROVE Effect(r, class_UpdatePublication(r, w))
    BY <2>2, <2>3, class_UpdatePublicationEffect
  <2>4. QED
    BY <1>8, <2>1, <2>3, ClassesCoded, ClassesChecked DEF Sound, Plain
<1>9. QED
  BY <1>1, <1>2, <1>3, <1>4, <1>5, <1>6, <1>7, <1>8

\* Every error of schedules has a status of an error.
LEMMA SchedulesCoded ==
  ASSUME NEW r, NEW w
  PROVE  /\ Plain(schedule_List(r, w))
         /\ Plain(schedule_CreateInitialSchedules(r, w))
         /\ Plain(schedule_Delete(r, w))
         /\ Plain(schedule_ChangeSchedulePermanent(r, w))
         /\ Plain(schedule_ChangeTutorPermanent(r, w))
<1>1. Plain(schedule_List(r, w))
  BY DEF schedule_List, Handler, HandlerAsking, NoCodes, Codes, Plain, Coded,
     CodedTable
<1>2. Plain(schedule_CreateInitialSchedules(r, w))
  <2>1. CodedTable([ClassNotFound |-> 404, EnrollmentNotFound |-> 404, ClassForbidden |-> 403,
                     SubstituteTutorUnavailable |-> 503])
    BY DEF CodedTable
  <2>2. QED
    BY <2>1, CodedMerge, CodedCodes DEF schedule_CreateInitialSchedules, Handler,
       HandlerAsking, Plain, Coded
<1>3. Plain(schedule_Delete(r, w))
  BY DEF schedule_Delete, Handler, HandlerAsking, Plain, Coded, CodedTable
<1>4. Plain(schedule_ChangeSchedulePermanent(r, w))
  <2>1. CodedTable([ScheduleNotFound |-> 404, ScheduleHistoryConflict |-> 409,
                     ScheduleSeatsConflict |-> 409,
                     SubstituteTutorUnavailable |-> 503])
    BY DEF CodedTable
  <2>2. QED
    BY <2>1, CodedMerge, CodedCodes DEF schedule_ChangeSchedulePermanent, Handler,
       HandlerAsking, Plain, Coded
<1>5. Plain(schedule_ChangeTutorPermanent(r, w))
  BY DEF schedule_ChangeTutorPermanent, Handler, HandlerAsking, Plain, Coded,
     CodedTable
<1>6. QED
  BY <1>1, <1>2, <1>3, <1>4, <1>5

\* Every check of schedules answers with an error or passes.
LEMMA SchedulesChecked ==
  ASSUME NEW r, NEW w
  PROVE  /\ Checked(schedule_List(r, w).before)
         /\ Checked(schedule_CreateInitialSchedules(r, w).before)
         /\ Checked(schedule_Delete(r, w).before)
         /\ Checked(schedule_ChangeSchedulePermanent(r, w).before)
         /\ Checked(schedule_ChangeTutorPermanent(r, w).before)
<1>1. Checked(schedule_List(r, w).before)
  BY Checks, CheckedOr DEF schedule_List, Handler, HandlerAsking
<1>2. Checked(schedule_CreateInitialSchedules(r, w).before)
  BY Checks, CheckedOr DEF schedule_CreateInitialSchedules, Handler, HandlerAsking
<1>3. Checked(schedule_Delete(r, w).before)
  BY Checks, CheckedOr DEF schedule_Delete, Handler, HandlerAsking
<1>4. Checked(schedule_ChangeSchedulePermanent(r, w).before)
  BY Checks, CheckedOr DEF schedule_ChangeSchedulePermanent, Handler, HandlerAsking
<1>5. Checked(schedule_ChangeTutorPermanent(r, w).before)
  BY Checks, CheckedOr DEF schedule_ChangeTutorPermanent, Handler, HandlerAsking
<1>6. QED
  BY <1>1, <1>2, <1>3, <1>4, <1>5

\* What the handlers of schedules answer and do.
LEMMA SchedulesSound ==
  ASSUME NEW r, NEW w, w.live \subseteq Rows,
         r.route \in {"GET /schedules", "POST /schedules", "DELETE /schedules/:id",
                     "PUT /schedules/:id/permanent",
                     "PATCH /schedules/:id/tutor-permanent"}
  PROVE  Sound(r, ServedBy(r, w))
<1>1. CASE r.route = "GET /schedules"
  <2>1. ServedBy(r, w) = schedule_List(r, w)
    BY <1>1 DEF ServedBy
  <2>2. ASSUME Entry(r) PROVE Effect(r, schedule_List(r, w))
    BY <1>1, <2>2 DEF schedule_List, Handler, HandlerAsking, ListSchedules, Shows,
       schedule_ListByTenant, Result, Missing, OfTenant, Effect, Own, Reading,
       Reads, Asks, TenantLists, Rows
  <2>3. QED
    BY <1>1, <2>1, <2>2, SchedulesCoded, SchedulesChecked DEF Sound, Plain
<1>2. CASE r.route = "POST /schedules"
  <2>1. ServedBy(r, w) = schedule_CreateInitialSchedules(r, w)
    BY <1>2 DEF ServedBy
  <2>2. /\ r.route \notin Reads /\ r.route \notin Asks /\ r.route \notin Deletions
        /\ Entry(r) => ~r.c.parent
    BY <1>2 DEF Reads, Asks, Deletions, Entry, StaffOnly
  <2>3. ASSUME Entry(r) PROVE Effect(r, schedule_CreateInitialSchedules(r, w))
    BY <2>2, <2>3, schedule_CreateInitialSchedulesEffect
  <2>4. QED
    BY <1>2, <2>1, <2>3, SchedulesCoded, SchedulesChecked DEF Sound, Plain
<1>3. CASE r.route = "DELETE /schedules/:id"
  <2>1. ServedBy(r, w) = schedule_Delete(r, w)
    BY <1>3 DEF ServedBy
  <2>2. ASSUME Entry(r) PROVE Effect(r, schedule_Delete(r, w))
    BY <1>3, <2>2 DEF schedule_Delete, Handler, HandlerAsking, DeleteSchedule,
       Unless, When, Finds, schedule_GetByIDForTenantForUpdate, Is, Locked, ??,
       Refuses, OfTenant, Result, Missing, Effect, Own, Refusal, LockedWrite, Reads,
       Asks, Deletions, Entry, StaffOnly, TenantLists, Rows
  <2>3. QED
    BY <1>3, <2>1, <2>2, SchedulesCoded, SchedulesChecked DEF Sound, Plain
<1>4. CASE r.route = "PUT /schedules/:id/permanent"
  <2>1. ServedBy(r, w) = schedule_ChangeSchedulePermanent(r, w)
    BY <1>4 DEF ServedBy
  <2>2. /\ r.route \notin Reads /\ r.route \notin Asks /\ r.route \notin Deletions
        /\ Entry(r) => ~r.c.parent
    BY <1>4 DEF Reads, Asks, Deletions, Entry, StaffOnly
  <2>3. ASSUME Entry(r) PROVE Effect(r, schedule_ChangeSchedulePermanent(r, w))
    BY <2>2, <2>3, schedule_ChangeSchedulePermanentEffect
  <2>4. QED
    BY <1>4, <2>1, <2>3, SchedulesCoded, SchedulesChecked DEF Sound, Plain
<1>5. CASE r.route = "PATCH /schedules/:id/tutor-permanent"
  <2>1. ServedBy(r, w) = schedule_ChangeTutorPermanent(r, w)
    BY <1>5 DEF ServedBy
  <2>2. /\ r.route \notin Reads /\ r.route \notin Asks /\ r.route \notin Deletions
        /\ Entry(r) => ~r.c.parent
    BY <1>5 DEF Reads, Asks, Deletions, Entry, StaffOnly
  <2>3. ASSUME Entry(r) PROVE Effect(r, schedule_ChangeTutorPermanent(r, w))
    BY <2>2, <2>3, schedule_ChangeTutorPermanentEffect
  <2>4. QED
    BY <1>5, <2>1, <2>3, SchedulesCoded, SchedulesChecked DEF Sound, Plain
<1>6. QED
  BY <1>1, <1>2, <1>3, <1>4, <1>5

\* Every error of sessions has a status of an error.
LEMMA SessionsCoded ==
  ASSUME NEW r, NEW w
  PROVE  /\ Plain(session_List(r, w))
         /\ Plain(session_Get(r, w))
         /\ Plain(session_Delete(r, w))
         /\ Plain(session_Reschedule(r, w))
         /\ Plain(session_ChangeTutorTemporary(r, w))
         /\ Plain(session_GetSessionAttendees(r, w))
<1>1. Plain(session_List(r, w))
  BY DEF session_List, Handler, HandlerAsking, NoCodes, Codes, Plain, Coded,
     CodedTable
<1>2. Plain(session_Get(r, w))
  BY DEF session_Get, Handler, HandlerAsking, Plain, Coded, CodedTable
<1>3. Plain(session_Delete(r, w))
  BY DEF session_Delete, Handler, HandlerAsking, Plain, Coded, CodedTable
<1>4. Plain(session_Reschedule(r, w))
  BY DEF session_Reschedule, Handler, HandlerAsking, Plain, Coded, CodedTable
<1>5. Plain(session_ChangeTutorTemporary(r, w))
  BY DEF session_ChangeTutorTemporary, Handler, HandlerAsking, Plain, Coded,
     CodedTable
<1>6. Plain(session_GetSessionAttendees(r, w))
  BY DEF session_GetSessionAttendees, Handler, HandlerAsking, Codes, Plain, Coded,
     CodedTable
<1>7. QED
  BY <1>1, <1>2, <1>3, <1>4, <1>5, <1>6

\* Every check of sessions answers with an error or passes.
LEMMA SessionsChecked ==
  ASSUME NEW r, NEW w
  PROVE  /\ Checked(session_List(r, w).before)
         /\ Checked(session_Get(r, w).before)
         /\ Checked(session_Delete(r, w).before)
         /\ Checked(session_Reschedule(r, w).before)
         /\ Checked(session_ChangeTutorTemporary(r, w).before)
         /\ Checked(session_GetSessionAttendees(r, w).before)
<1>1. Checked(session_List(r, w).before)
  BY Checks, CheckedOr, CheckedFails DEF session_List, Handler, HandlerAsking
<1>2. Checked(session_Get(r, w).before)
  BY Checks, CheckedOr DEF session_Get, Handler, HandlerAsking
<1>3. Checked(session_Delete(r, w).before)
  BY Checks, CheckedOr DEF session_Delete, Handler, HandlerAsking
<1>4. Checked(session_Reschedule(r, w).before)
  BY Checks, CheckedOr DEF session_Reschedule, Handler, HandlerAsking
<1>5. Checked(session_ChangeTutorTemporary(r, w).before)
  BY Checks, CheckedOr DEF session_ChangeTutorTemporary, Handler, HandlerAsking
<1>6. Checked(session_GetSessionAttendees(r, w).before)
  BY Checks, CheckedOr DEF session_GetSessionAttendees, Handler, HandlerAsking
<1>7. QED
  BY <1>1, <1>2, <1>3, <1>4, <1>5, <1>6

\* What the handlers of sessions answer and do.
LEMMA SessionsSound ==
  ASSUME NEW r, NEW w, w.live \subseteq Rows,
         r.route \in {"GET /sessions", "GET /sessions/:id", "DELETE /sessions/:id",
                     "POST /sessions/:id/reschedule",
                     "PATCH /sessions/:id/substitute-tutor",
                     "GET /sessions/:id/attendees"}
  PROVE  Sound(r, ServedBy(r, w))
<1>1. CASE r.route = "GET /sessions"
  <2>1. ServedBy(r, w) = session_List(r, w)
    BY <1>1 DEF ServedBy
  <2>2. ASSUME Entry(r) PROVE Effect(r, session_List(r, w))
    BY <1>1, <2>2 DEF session_List, Handler, HandlerAsking, ListSessionsForParent,
       ListSessions, Shows, session_ListSessionsForParent, session_ListByTenant,
       Result, Missing, OfParent, OfTenant, Effect, Own, Reading, Reads, Asks,
       TenantLists, Rows
  <2>3. QED
    BY <1>1, <2>1, <2>2, SessionsCoded, SessionsChecked DEF Sound, Plain
<1>2. CASE r.route = "GET /sessions/:id"
  <2>1. ServedBy(r, w) = session_Get(r, w)
    BY <1>2 DEF ServedBy
  <2>2. r.route \in Reads /\ r.route \notin TenantLists
    BY <1>2 DEF Reads, TenantLists
  <2>3. ASSUME Entry(r) PROVE Effect(r, session_Get(r, w))
    BY <2>2, <2>3, session_GetEffect
  <2>4. QED
    BY <1>2, <2>1, <2>3, SessionsCoded, SessionsChecked DEF Sound, Plain
<1>3. CASE r.route = "DELETE /sessions/:id"
  <2>1. ServedBy(r, w) = session_Delete(r, w)
    BY <1>3 DEF ServedBy
  <2>2. ASSUME Entry(r) PROVE Effect(r, session_Delete(r, w))
    BY <1>3, <2>2 DEF session_Delete, Handler, HandlerAsking, DeleteSession, Unless,
       When, Finds, session_GetByID, OfTenant, Overtakable, ??, Refuses, Result,
       Missing, Effect, Own, Refusal, PendingWrite, Reads, Asks, Deletions, Saves,
       Entry, StaffOnly, TenantLists, Rows
  <2>3. QED
    BY <1>3, <2>1, <2>2, SessionsCoded, SessionsChecked DEF Sound, Plain
<1>4. CASE r.route = "POST /sessions/:id/reschedule"
  <2>1. ServedBy(r, w) = session_Reschedule(r, w)
    BY <1>4 DEF ServedBy
  <2>2. ASSUME Entry(r) PROVE Effect(r, session_Reschedule(r, w))
    BY <1>4, <2>2 DEF session_Reschedule, Handler, HandlerAsking, RescheduleSession,
       Unless, When, Finds, session_GetByIDForTenant, Overtakable, Refuses,
       OfTenant, Result, Missing, Effect, Own, Refusal, PendingWrite, Reads, Asks,
       Deletions, Saves, Entry, StaffOnly, TenantLists, Rows
  <2>3. QED
    BY <1>4, <2>1, <2>2, SessionsCoded, SessionsChecked DEF Sound, Plain
<1>5. CASE r.route = "PATCH /sessions/:id/substitute-tutor"
  <2>1. ServedBy(r, w) = session_ChangeTutorTemporary(r, w)
    BY <1>5 DEF ServedBy
  <2>2. ASSUME Entry(r) PROVE Effect(r, session_ChangeTutorTemporary(r, w))
    <3>1. session_ChangeTutorTemporary(r, w).use = ChangeTutorTemporary(r, w)
      BY DEF session_ChangeTutorTemporary, Handler, HandlerAsking
    <3>2. CASE Refusal(ChangeTutorTemporary(r, w))
      BY <3>1, <3>2 DEF Effect
    <3>3. CASE /\ ChangeTutorTemporary(r, w)
                     = Overtakable("reread", r.target, "SessionNotFound")
               /\ r.target \in OfTenant(r, w.live)
      <4>1. Own(r, r.target) /\ r.target \in Rows
        BY <1>5, <2>2, <3>3 DEF OfTenant, Own, Entry, StaffOnly
      <4>2. PendingWrite(r, Overtakable("reread", r.target, "SessionNotFound"))
        BY <1>5, <4>1 DEF Overtakable, Result, PendingWrite, Reads, Asks, Deletions, Saves
      <4>3. QED
        BY <3>1, <3>3, <4>2 DEF Effect
    <3>4. QED
      BY <3>2, <3>3, SubstituteDoes
  <2>3. QED
    BY <1>5, <2>1, <2>2, SessionsCoded, SessionsChecked DEF Sound, Plain
<1>6. CASE r.route = "GET /sessions/:id/attendees"
  <2>1. ServedBy(r, w) = session_GetSessionAttendees(r, w)
    BY <1>6 DEF ServedBy
  <2>2. r.route \in Reads /\ r.route \notin TenantLists
    BY <1>6 DEF Reads, TenantLists
  <2>3. ASSUME Entry(r) PROVE Effect(r, session_GetSessionAttendees(r, w))
    BY <2>2, <2>3, session_GetSessionAttendeesEffect
  <2>4. QED
    BY <1>6, <2>1, <2>3, SessionsCoded, SessionsChecked DEF Sound, Plain
<1>7. QED
  BY <1>1, <1>2, <1>3, <1>4, <1>5, <1>6

\* Every error of students has a status of an error.
LEMMA StudentsCoded ==
  ASSUME NEW r, NEW w
  PROVE  /\ Plain(student_ListHandler(r, w))
         /\ Plain(student_Create(r, w))
         /\ Plain(student_mutate(r, w, FALSE))
         /\ Plain(student_mutate(r, w, TRUE))
         /\ Plain(student_DeleteHandler(r, w))
<1>1. Plain(student_ListHandler(r, w))
  BY DEF student_ListHandler, Handler, HandlerAsking, NoCodes, Codes, Plain, Coded,
     CodedTable
<1>2. Plain(student_Create(r, w))
  <2>1. CodedTable([StudentForbidden |-> 403])
    BY DEF CodedTable
  <2>2. QED
    BY <2>1, CodedMerge, CodedCodes DEF student_Create, Handler, HandlerAsking,
       Plain, Coded
<1>3. Plain(student_mutate(r, w, FALSE))
  <2>1. CodedTable([StudentNotFound |-> 404, StudentForbidden |-> 403])
    BY DEF CodedTable
  <2>2. CodedTable([StudentNotFound |-> 404])
    BY DEF CodedTable
  <2>3. QED
    BY <2>1, <2>2, CodedMerge, CodedCodes DEF student_mutate, Handler,
       HandlerAsking, Plain, Coded
<1>4. Plain(student_mutate(r, w, TRUE))
  <2>1. CodedTable([StudentNotFound |-> 404, StudentForbidden |-> 403])
    BY DEF CodedTable
  <2>2. CodedTable([StudentNotFound |-> 404])
    BY DEF CodedTable
  <2>3. QED
    BY <2>1, <2>2, CodedMerge, CodedCodes DEF student_mutate, Handler,
       HandlerAsking, Plain, Coded
<1>5. Plain(student_DeleteHandler(r, w))
  BY DEF student_DeleteHandler, Handler, HandlerAsking, Plain, Coded, CodedTable
<1>6. QED
  BY <1>1, <1>2, <1>3, <1>4, <1>5

\* Every check of students answers with an error or passes.
LEMMA StudentsChecked ==
  ASSUME NEW r, NEW w
  PROVE  /\ Checked(student_ListHandler(r, w).before)
         /\ Checked(student_Create(r, w).before)
         /\ Checked(student_mutate(r, w, FALSE).before)
         /\ Checked(student_mutate(r, w, TRUE).before)
         /\ Checked(student_DeleteHandler(r, w).before)
<1>1. Checked(student_ListHandler(r, w).before)
  BY Checks, CheckedOr DEF student_ListHandler, Handler, HandlerAsking
<1>2. Checked(student_Create(r, w).before)
  BY Checks, CheckedOr DEF student_Create, Handler, HandlerAsking
<1>3. Checked(student_mutate(r, w, FALSE).before)
  BY Checks, CheckedOr DEF student_mutate, Handler, HandlerAsking
<1>4. Checked(student_mutate(r, w, TRUE).before)
  BY Checks, CheckedOr DEF student_mutate, Handler, HandlerAsking
<1>5. Checked(student_DeleteHandler(r, w).before)
  BY Checks, CheckedOr DEF student_DeleteHandler, Handler, HandlerAsking
<1>6. QED
  BY <1>1, <1>2, <1>3, <1>4, <1>5

\* What the handlers of students answer and do.
LEMMA StudentsSound ==
  ASSUME NEW r, NEW w, w.live \subseteq Rows,
         r.route \in {"GET /students", "POST /students", "GET /students/:id",
                     "PATCH /students/:id", "DELETE /students/:id"}
  PROVE  Sound(r, ServedBy(r, w))
<1>1. CASE r.route = "GET /students"
  <2>1. ServedBy(r, w) = student_ListHandler(r, w)
    BY <1>1 DEF ServedBy
  <2>2. ASSUME Entry(r) PROVE Effect(r, student_ListHandler(r, w))
    BY <1>1, <2>2 DEF student_ListHandler, Handler, HandlerAsking, Shows,
       student_List, Result, Missing, OfCaller, OfParent, OfTenant, Effect, Own,
       Reading, Reads, Asks, TenantLists, Rows
  <2>3. QED
    BY <1>1, <2>1, <2>2, StudentsCoded, StudentsChecked DEF Sound, Plain
<1>2. CASE r.route = "POST /students"
  <2>1. ServedBy(r, w) = student_Create(r, w)
    BY <1>2 DEF ServedBy
  <2>2. ASSUME Entry(r) PROVE Effect(r, student_Create(r, w))
    BY <1>2, <2>2 DEF student_Create, Handler, HandlerAsking, student_CreateUse,
       Unless, When, parseStudentDateOfBirth, Is, buildStudentNotes, New, ??,
       Refuses, Locked, Result, Missing, Effect, Own, Refusal, LockedWrite, Reads,
       Asks, Deletions, TenantLists, Rows
  <2>3. QED
    BY <1>2, <2>1, <2>2, StudentsCoded, StudentsChecked DEF Sound, Plain
<1>3. CASE r.route = "GET /students/:id"
  <2>1. ServedBy(r, w) = student_mutate(r, w, FALSE)
    BY <1>3 DEF ServedBy
  <2>2. ASSUME Entry(r) PROVE Effect(r, student_mutate(r, w, FALSE))
    BY <1>3, <2>2 DEF student_mutate, Handler, HandlerAsking, student_UpdateUse,
       ShowsFound, student_accessQuery, Unless, When, Finds,
       parseStudentDateOfBirth, Is, buildStudentNotes, student_Update, ??, Shows,
       OfCaller, Refuses, Overtakable, Result, Missing, OfParent, OfTenant, Effect,
       Own, Refusal, Reading, Reads, Asks, PendingWrite, Deletions, Saves,
       TenantLists, Rows
  <2>3. QED
    BY <1>3, <2>1, <2>2, StudentsCoded, StudentsChecked DEF Sound, Plain
<1>4. CASE r.route = "PATCH /students/:id"
  <2>1. ServedBy(r, w) = student_mutate(r, w, TRUE)
    BY <1>4 DEF ServedBy
  <2>2. /\ r.route \notin Reads /\ r.route \notin Asks /\ r.route \in Saves
        /\ r.route \notin TenantLists
    BY <1>4 DEF Reads, Asks, Saves, TenantLists
  <2>3. ASSUME Entry(r) PROVE Effect(r, student_mutate(r, w, TRUE))
    BY <2>2, <2>3, student_mutateEffect
  <2>4. QED
    BY <1>4, <2>1, <2>3, StudentsCoded, StudentsChecked DEF Sound, Plain
<1>5. CASE r.route = "DELETE /students/:id"
  <2>1. ServedBy(r, w) = student_DeleteHandler(r, w)
    BY <1>5 DEF ServedBy
  <2>2. ASSUME Entry(r) PROVE Effect(r, student_DeleteHandler(r, w))
    BY <1>5, <2>2 DEF student_DeleteHandler, Handler, HandlerAsking,
       student_DeleteUse, Unless, When, Finds, student_accessQuery,
       student_CountActiveEnrollments, student_Delete, ??, Refuses, OfCaller, Is,
       Overtakable, Result, Missing, OfParent, OfTenant, Effect, Own, Refusal,
       PendingWrite, Reads, Asks, Deletions, Saves, TenantLists, Rows
  <2>3. QED
    BY <1>5, <2>1, <2>2, StudentsCoded, StudentsChecked DEF Sound, Plain
<1>6. QED
  BY <1>1, <1>2, <1>3, <1>4, <1>5

\* Every error of reports has a status of an error.
LEMMA ReportsCoded ==
  ASSUME NEW r, NEW w
  PROVE  /\ Plain(report_ListHandler(r, w))
         /\ Plain(report_Create(r, w))
         /\ Plain(report_Get(r, w))
         /\ Plain(report_UpdateHandler(r, w))
         /\ Plain(report_DeleteHandler(r, w))
<1>1. Plain(report_ListHandler(r, w))
  BY DEF report_ListHandler, Handler, HandlerAsking, NoCodes, Codes, Plain, Coded,
     CodedTable
<1>2. Plain(report_Create(r, w))
  BY DEF report_Create, Handler, HandlerAsking, Plain, Coded, CodedTable
<1>3. Plain(report_Get(r, w))
  BY DEF report_Get, Handler, HandlerAsking, Plain, Coded, CodedTable
<1>4. Plain(report_UpdateHandler(r, w))
  BY DEF report_UpdateHandler, Handler, HandlerAsking, Plain, Coded, CodedTable
<1>5. Plain(report_DeleteHandler(r, w))
  BY DEF report_DeleteHandler, Handler, HandlerAsking, Plain, Coded, CodedTable
<1>6. QED
  BY <1>1, <1>2, <1>3, <1>4, <1>5

\* Every check of reports answers with an error or passes.
LEMMA ReportsChecked ==
  ASSUME NEW r, NEW w
  PROVE  /\ Checked(report_ListHandler(r, w).before)
         /\ Checked(report_Create(r, w).before)
         /\ Checked(report_Get(r, w).before)
         /\ Checked(report_UpdateHandler(r, w).before)
         /\ Checked(report_DeleteHandler(r, w).before)
<1>1. Checked(report_ListHandler(r, w).before)
  BY Checks, CheckedOr DEF report_ListHandler, Handler, HandlerAsking
<1>2. Checked(report_Create(r, w).before)
  BY Checks, CheckedOr DEF report_Create, Handler, HandlerAsking
<1>3. Checked(report_Get(r, w).before)
  BY Checks, CheckedOr DEF report_Get, Handler, HandlerAsking
<1>4. Checked(report_UpdateHandler(r, w).before)
  BY Checks, CheckedOr DEF report_UpdateHandler, Handler, HandlerAsking
<1>5. Checked(report_DeleteHandler(r, w).before)
  BY Checks, CheckedOr DEF report_DeleteHandler, Handler, HandlerAsking
<1>6. QED
  BY <1>1, <1>2, <1>3, <1>4, <1>5

\* What the handlers of reports answer and do.
LEMMA ReportsSound ==
  ASSUME NEW r, NEW w, w.live \subseteq Rows,
         r.route \in {"GET /reports", "POST /reports", "GET /reports/:id",
                     "PATCH /reports/:id", "DELETE /reports/:id"}
  PROVE  Sound(r, ServedBy(r, w))
<1>1. CASE r.route = "GET /reports"
  <2>1. ServedBy(r, w) = report_ListHandler(r, w)
    BY <1>1 DEF ServedBy
  <2>2. ASSUME Entry(r) PROVE Effect(r, report_ListHandler(r, w))
    BY <1>1, <2>2 DEF report_ListHandler, Handler, HandlerAsking, Shows,
       report_ListForParent, report_List, Result, Missing, OfParent, OfTenant,
       Effect, Own, Reading, Reads, Asks, TenantLists, Rows
  <2>3. QED
    BY <1>1, <2>1, <2>2, ReportsCoded, ReportsChecked DEF Sound, Plain
<1>2. CASE r.route = "POST /reports"
  <2>1. ServedBy(r, w) = report_Create(r, w)
    BY <1>2 DEF ServedBy
  <2>2. ASSUME Entry(r) PROVE Effect(r, report_Create(r, w))
    BY <1>2, <2>2 DEF report_Create, Handler, HandlerAsking, report_CreateUse,
       Unless, When, Finds, OfTenant, enrollment_IsTutorForEnrollment, Locked, ??,
       Refuses, Is, Result, Missing, Effect, Own, Refusal, LockedWrite, Reads, Asks,
       Deletions, Entry, ForTeachers, TenantLists, Rows
  <2>3. QED
    BY <1>2, <2>1, <2>2, ReportsCoded, ReportsChecked DEF Sound, Plain
<1>3. CASE r.route = "GET /reports/:id"
  <2>1. ServedBy(r, w) = report_Get(r, w)
    BY <1>3 DEF ServedBy
  <2>2. r.route \in Reads /\ r.route \notin TenantLists
    BY <1>3 DEF Reads, TenantLists
  <2>3. ASSUME Entry(r) PROVE Effect(r, report_Get(r, w))
    BY <2>2, <2>3, report_GetEffect
  <2>4. QED
    BY <1>3, <2>1, <2>3, ReportsCoded, ReportsChecked DEF Sound, Plain
<1>4. CASE r.route = "PATCH /reports/:id"
  <2>1. ServedBy(r, w) = report_UpdateHandler(r, w)
    BY <1>4 DEF ServedBy
  <2>2. ASSUME Entry(r) PROVE Effect(r, report_UpdateHandler(r, w))
    BY <1>4, <2>2 DEF report_UpdateHandler, Handler, HandlerAsking,
       report_UpdateUse, Unless, When, Finds, report_GetByIDForTenant,
       enrollment_IsTutorForEnrollment, report_Update, ??, Refuses, OfTenant, Is,
       Overtakable, Result, Missing, Effect, Own, Refusal, PendingWrite, Reads,
       Asks, Deletions, Saves, Entry, ForTeachers, TenantLists, Rows
  <2>3. QED
    BY <1>4, <2>1, <2>2, ReportsCoded, ReportsChecked DEF Sound, Plain
<1>5. CASE r.route = "DELETE /reports/:id"
  <2>1. ServedBy(r, w) = report_DeleteHandler(r, w)
    BY <1>5 DEF ServedBy
  <2>2. ASSUME Entry(r) PROVE Effect(r, report_DeleteHandler(r, w))
    BY <1>5, <2>2 DEF report_DeleteHandler, Handler, HandlerAsking,
       report_DeleteUse, Unless, When, Finds, report_GetByIDForTenant,
       enrollment_IsTutorForEnrollment, report_Delete, ??, Refuses, OfTenant, Is,
       Overtakable, Result, Missing, Effect, Own, Refusal, PendingWrite, Reads,
       Asks, Deletions, Saves, Entry, ForTeachers, TenantLists, Rows
  <2>3. QED
    BY <1>5, <2>1, <2>2, ReportsCoded, ReportsChecked DEF Sound, Plain
<1>6. QED
  BY <1>1, <1>2, <1>3, <1>4, <1>5

\* Every error of attendance has a status of an error.
LEMMA AttendanceCoded ==
  ASSUME NEW r, NEW w
  PROVE  /\ Plain(attendance_ListHandler(r, w))
         /\ Plain(attendance_Create(r, w))
         /\ Plain(attendance_CreateBySession(r, w))
         /\ Plain(attendance_CreateBulk(r, w))
         /\ Plain(attendance_GetBySession(r, w))
         /\ Plain(attendance_Get(r, w))
         /\ Plain(attendance_Update(r, w))
<1>1. Plain(attendance_ListHandler(r, w))
  BY DEF attendance_ListHandler, Handler, HandlerAsking, NoCodes, Codes, Plain,
     Coded, CodedTable
<1>2. Plain(attendance_Create(r, w))
  BY DEF attendance_Create, writeAttendanceCreateResult, Handler, HandlerAsking,
     Plain, Coded, CodedTable
<1>3. Plain(attendance_CreateBySession(r, w))
  BY DEF attendance_CreateBySession, writeAttendanceCreateResult, Handler,
     HandlerAsking, Plain, Coded, CodedTable
<1>4. Plain(attendance_CreateBulk(r, w))
  BY DEF attendance_CreateBulk, Handler, HandlerAsking, Plain, Coded, CodedTable
<1>5. Plain(attendance_GetBySession(r, w))
  BY DEF attendance_GetBySession, Handler, HandlerAsking, Codes, Plain, Coded,
     CodedTable
<1>6. Plain(attendance_Get(r, w))
  BY DEF attendance_Get, Handler, HandlerAsking, Plain, Coded, CodedTable
<1>7. Plain(attendance_Update(r, w))
  BY DEF attendance_Update, Handler, HandlerAsking, Plain, Coded, CodedTable
<1>8. QED
  BY <1>1, <1>2, <1>3, <1>4, <1>5, <1>6, <1>7

\* Every check of attendance answers with an error or passes.
LEMMA AttendanceChecked ==
  ASSUME NEW r, NEW w
  PROVE  /\ Checked(attendance_ListHandler(r, w).before)
         /\ Checked(attendance_Create(r, w).before)
         /\ Checked(attendance_CreateBySession(r, w).before)
         /\ Checked(attendance_CreateBulk(r, w).before)
         /\ Checked(attendance_GetBySession(r, w).before)
         /\ Checked(attendance_Get(r, w).before)
         /\ Checked(attendance_Update(r, w).before)
<1>1. Checked(attendance_ListHandler(r, w).before)
  BY Checks, CheckedOr DEF attendance_ListHandler, Handler, HandlerAsking
<1>2. Checked(attendance_Create(r, w).before)
  BY Checks, CheckedOr DEF attendance_Create, writeAttendanceCreateResult, Handler,
     HandlerAsking
<1>3. Checked(attendance_CreateBySession(r, w).before)
  BY Checks, CheckedOr DEF attendance_CreateBySession, writeAttendanceCreateResult,
     Handler, HandlerAsking
<1>4. Checked(attendance_CreateBulk(r, w).before)
  BY Checks, CheckedOr DEF attendance_CreateBulk, Handler, HandlerAsking
<1>5. Checked(attendance_GetBySession(r, w).before)
  BY Checks, CheckedOr DEF attendance_GetBySession, Handler, HandlerAsking
<1>6. Checked(attendance_Get(r, w).before)
  BY Checks, CheckedOr DEF attendance_Get, Handler, HandlerAsking
<1>7. Checked(attendance_Update(r, w).before)
  BY Checks, CheckedOr DEF attendance_Update, Handler, HandlerAsking
<1>8. QED
  BY <1>1, <1>2, <1>3, <1>4, <1>5, <1>6, <1>7

\* What the handlers of attendance answer and do.
LEMMA AttendanceSound ==
  ASSUME NEW r, NEW w, w.live \subseteq Rows,
         r.route \in {"GET /attendance", "POST /attendance",
                     "POST /attendance/by-session", "POST /attendance/bulk",
                     "GET /attendance/by-session", "GET /attendance/:id",
                     "PATCH /attendance/:id"}
  PROVE  Sound(r, ServedBy(r, w))
<1>1. CASE r.route = "GET /attendance"
  <2>1. ServedBy(r, w) = attendance_ListHandler(r, w)
    BY <1>1 DEF ServedBy
  <2>2. ASSUME Entry(r) PROVE Effect(r, attendance_ListHandler(r, w))
    BY <1>1, <2>2 DEF attendance_ListHandler, Handler, HandlerAsking, Shows,
       attendance_ListForParent, attendance_List, Result, Missing, OfParent,
       OfTenant, Effect, Own, Reading, Reads, Asks, TenantLists, Rows
  <2>3. QED
    BY <1>1, <2>1, <2>2, AttendanceCoded, AttendanceChecked DEF Sound, Plain
<1>2. CASE r.route = "POST /attendance"
  <2>1. ServedBy(r, w) = attendance_Create(r, w)
    BY <1>2 DEF ServedBy
  <2>2. /\ r.route \notin Reads /\ r.route \notin Asks /\ r.route \notin Deletions
        /\ Entry(r) => ~r.c.parent
    BY <1>2 DEF Reads, Asks, Deletions, Entry, ForTeachers
  <2>3. ASSUME Entry(r) PROVE Effect(r, attendance_Create(r, w))
    BY <2>2, <2>3, attendance_CreateEffect
  <2>4. QED
    BY <1>2, <2>1, <2>3, AttendanceCoded, AttendanceChecked DEF Sound, Plain
<1>3. CASE r.route = "POST /attendance/by-session"
  <2>1. ServedBy(r, w) = attendance_CreateBySession(r, w)
    BY <1>3 DEF ServedBy
  <2>2. ASSUME Entry(r) PROVE Effect(r, attendance_CreateBySession(r, w))
    BY <1>3, <2>2 DEF attendance_CreateBySession, writeAttendanceCreateResult,
       Handler, HandlerAsking, attendance_createForSession, Unless,
       resolveSessionCohort, session_IsTutorForSession, checkCohort, When, Is,
       Locked, ??, Refuses, Finds, session_FindSessionForAttendance,
       enrollment_GetActiveByScheduleID, Result, Missing, OfTenant, Cohort, Effect,
       Own, Refusal, LockedWrite, Reads, Asks, Deletions, Entry, ForTeachers,
       TenantLists, Rows
  <2>3. QED
    BY <1>3, <2>1, <2>2, AttendanceCoded, AttendanceChecked DEF Sound, Plain
<1>4. CASE r.route = "POST /attendance/bulk"
  <2>1. ServedBy(r, w) = attendance_CreateBulk(r, w)
    BY <1>4 DEF ServedBy
  <2>2. ASSUME Entry(r) PROVE Effect(r, attendance_CreateBulk(r, w))
    BY <1>4, <2>2 DEF attendance_CreateBulk, Handler, HandlerAsking,
       attendance_CreateBulkUse, Unless, resolveSessionCohort,
       session_IsTutorForSession, checkCohort, Locked, ??, Refuses, When, Finds,
       session_FindSessionForAttendance, Is, enrollment_GetActiveByScheduleID,
       Result, Missing, OfTenant, Cohort, Effect, Own, Refusal, LockedWrite, Reads,
       Asks, Deletions, Entry, ForTeachers, TenantLists, Rows
  <2>3. QED
    BY <1>4, <2>1, <2>2, AttendanceCoded, AttendanceChecked DEF Sound, Plain
<1>5. CASE r.route = "GET /attendance/by-session"
  <2>1. ServedBy(r, w) = attendance_GetBySession(r, w)
    BY <1>5 DEF ServedBy
  <2>2. r.route \in Reads /\ r.route \notin TenantLists
    BY <1>5 DEF Reads, TenantLists
  <2>3. ASSUME Entry(r) PROVE Effect(r, attendance_GetBySession(r, w))
    BY <2>2, <2>3, attendance_GetBySessionEffect
  <2>4. QED
    BY <1>5, <2>1, <2>3, AttendanceCoded, AttendanceChecked DEF Sound, Plain
<1>6. CASE r.route = "GET /attendance/:id"
  <2>1. ServedBy(r, w) = attendance_Get(r, w)
    BY <1>6 DEF ServedBy
  <2>2. r.route \in Reads /\ r.route \notin TenantLists
    BY <1>6 DEF Reads, TenantLists
  <2>3. ASSUME Entry(r) PROVE Effect(r, attendance_Get(r, w))
    BY <2>2, <2>3, attendance_GetEffect
  <2>4. QED
    BY <1>6, <2>1, <2>3, AttendanceCoded, AttendanceChecked DEF Sound, Plain
<1>7. CASE r.route = "PATCH /attendance/:id"
  <2>1. ServedBy(r, w) = attendance_Update(r, w)
    BY <1>7 DEF ServedBy
  <2>2. ASSUME Entry(r) PROVE Effect(r, attendance_Update(r, w))
    BY <1>7, <2>2 DEF attendance_Update, Handler, HandlerAsking,
       attendance_UpdateUse, Unless, When, Finds, attendance_GetByIDForTenant,
       session_IsTutorForSession, Locked, ??, Refuses, OfTenant, Is, Result,
       Missing, Effect, Own, Refusal, LockedWrite, Reads, Asks, Deletions, Entry,
       ForTeachers, TenantLists, Rows
  <2>3. QED
    BY <1>7, <2>1, <2>2, AttendanceCoded, AttendanceChecked DEF Sound, Plain
<1>8. QED
  BY <1>1, <1>2, <1>3, <1>4, <1>5, <1>6, <1>7

\* Every error of enrollments has a status of an error.
LEMMA EnrollmentsCoded ==
  ASSUME NEW r, NEW w
  PROVE  /\ Plain(enrollment_Create(r, w))
         /\ Plain(CreateCatalogEnrollment(r, w))
         /\ Plain(PreviewVoucher(r, w))
         /\ Plain(enrollment_Cancel(r, w))
         /\ Plain(review_UpsertHandler(r, w))
         /\ Plain(enrollment_ListQuery(r, w))
         /\ Plain(enrollment_GetQuery(r, w))
         /\ Plain(enrollment_AssignSchedule(r, w))
<1>1. Plain(enrollment_Create(r, w))
  BY CatalogCoded DEF enrollment_Create, Handler, HandlerAsking, Codes, Plain,
     Coded, CodedTable
<1>2. Plain(CreateCatalogEnrollment(r, w))
  BY CatalogCoded DEF CreateCatalogEnrollment, Handler, HandlerAsking, Codes, Plain,
     Coded
<1>3. Plain(PreviewVoucher(r, w))
  BY CatalogCoded DEF PreviewVoucher, Handler, HandlerAsking, Codes, Plain, Coded
<1>4. Plain(enrollment_Cancel(r, w))
  BY DEF enrollment_Cancel, Handler, HandlerAsking, Plain, Coded, CodedTable
<1>5. Plain(review_UpsertHandler(r, w))
  BY DEF review_UpsertHandler, Handler, HandlerAsking, Plain, Coded, CodedTable
<1>6. Plain(enrollment_ListQuery(r, w))
  BY DEF enrollment_ListQuery, Handler, HandlerAsking, NoCodes, Codes, Plain, Coded,
     CodedTable
<1>7. Plain(enrollment_GetQuery(r, w))
  BY DEF enrollment_GetQuery, Handler, HandlerAsking, Plain, Coded, CodedTable
<1>8. Plain(enrollment_AssignSchedule(r, w))
  <2>1. QED
    BY CodedMerge, CodedCodes DEF enrollment_AssignSchedule, Handler, HandlerAsking,
       Plain, Coded
<1>9. QED
  BY <1>1, <1>2, <1>3, <1>4, <1>5, <1>6, <1>7, <1>8

\* Every check of enrollments answers with an error or passes.
LEMMA EnrollmentsChecked ==
  ASSUME NEW r, NEW w
  PROVE  /\ Checked(enrollment_Create(r, w).before)
         /\ Checked(CreateCatalogEnrollment(r, w).before)
         /\ Checked(PreviewVoucher(r, w).before)
         /\ Checked(enrollment_Cancel(r, w).before)
         /\ Checked(review_UpsertHandler(r, w).before)
         /\ Checked(enrollment_ListQuery(r, w).before)
         /\ Checked(enrollment_GetQuery(r, w).before)
         /\ Checked(enrollment_AssignSchedule(r, w).before)
<1>1. Checked(enrollment_Create(r, w).before)
  BY Checks, CheckedOr, CheckedFails DEF enrollment_Create, Handler, HandlerAsking
<1>2. Checked(CreateCatalogEnrollment(r, w).before)
  BY Checks, CheckedOr, CheckedFails DEF CreateCatalogEnrollment, Handler,
     HandlerAsking
<1>3. Checked(PreviewVoucher(r, w).before)
  BY Checks, CheckedOr DEF PreviewVoucher, Handler, HandlerAsking
<1>4. Checked(enrollment_Cancel(r, w).before)
  BY Checks, CheckedOr DEF enrollment_Cancel, Handler, HandlerAsking
<1>5. Checked(review_UpsertHandler(r, w).before)
  BY Checks, CheckedOr DEF review_UpsertHandler, Handler, HandlerAsking
<1>6. Checked(enrollment_ListQuery(r, w).before)
  BY Checks, CheckedOr DEF enrollment_ListQuery, Handler, HandlerAsking
<1>7. Checked(enrollment_GetQuery(r, w).before)
  BY Checks, CheckedOr DEF enrollment_GetQuery, Handler, HandlerAsking
<1>8. Checked(enrollment_AssignSchedule(r, w).before)
  BY Checks, CheckedOr DEF enrollment_AssignSchedule, Handler, HandlerAsking
<1>9. QED
  BY <1>1, <1>2, <1>3, <1>4, <1>5, <1>6, <1>7, <1>8

\* What the handlers of enrollments answer and do.
LEMMA EnrollmentsSound ==
  ASSUME NEW r, NEW w, w.live \subseteq Rows,
         r.route \in {"POST /tenants/:tenant_id/enrollments",
                     "POST /catalog/classes/:class_id/enrollments",
                     "POST /catalog/classes/:class_id/voucher-preview",
                     "POST /enrollments/:id/cancel", "PUT /enrollments/:id/review",
                     "GET /enrollments", "GET /enrollments/:id",
                     "PATCH /enrollments/:id/schedule"}
  PROVE  Sound(r, ServedBy(r, w))
<1>1. CASE r.route = "POST /tenants/:tenant_id/enrollments"
  <2>1. ServedBy(r, w) = enrollment_Create(r, w)
    BY <1>1 DEF ServedBy
  <2>2. /\ r.route \notin Reads /\ r.route \notin Asks /\ r.route \notin Deletions
        /\ r.route \notin TenantLists
    BY <1>1 DEF Reads, Asks, Deletions, TenantLists
  <2>3. ASSUME Entry(r) PROVE Effect(r, enrollment_Create(r, w))
    BY <2>2, <2>3, enrollment_CreateEffect
  <2>4. QED
    BY <1>1, <2>1, <2>3, EnrollmentsCoded, EnrollmentsChecked DEF Sound, Plain
<1>2. CASE r.route = "POST /catalog/classes/:class_id/enrollments"
  <2>1. ServedBy(r, w) = CreateCatalogEnrollment(r, w)
    BY <1>2 DEF ServedBy
  <2>2. /\ r.route \notin Reads /\ r.route \notin Asks /\ r.route \notin Deletions
        /\ r.route \notin TenantLists /\ (Entry(r) => r.c.parent)
    BY <1>2 DEF Reads, Asks, Deletions, Entry, ForParents,
       Unguarded, TenantLists
  <2>3. ASSUME Entry(r) PROVE Effect(r, CreateCatalogEnrollment(r, w))
    BY <2>2, <2>3, CreateCatalogEnrollmentEffect
  <2>4. QED
    BY <1>2, <2>1, <2>3, EnrollmentsCoded, EnrollmentsChecked DEF Sound, Plain
<1>3. CASE r.route = "POST /catalog/classes/:class_id/voucher-preview"
  <2>1. ServedBy(r, w) = PreviewVoucher(r, w)
    BY <1>3 DEF ServedBy
  <2>2. ASSUME Entry(r) PROVE Effect(r, PreviewVoucher(r, w))
    BY <1>3, <2>2 DEF PreviewVoucher, Handler, HandlerAsking, PreviewVoucherUse,
       Unless, When, Is, Finds, Unread, class_GetByID, Shows, ??, Refuses, Result, Missing,
       Effect, Own, Refusal, Reading, Reads, Asks, Entry, ForParents, Unguarded,
       TenantLists, Rows
  <2>3. QED
    BY <1>3, <2>1, <2>2, EnrollmentsCoded, EnrollmentsChecked DEF Sound, Plain
<1>4. CASE r.route = "POST /enrollments/:id/cancel"
  <2>1. ServedBy(r, w) = enrollment_Cancel(r, w)
    BY <1>4 DEF ServedBy
  <2>2. ASSUME Entry(r) PROVE Effect(r, enrollment_Cancel(r, w))
    BY <1>4, <2>2 DEF enrollment_Cancel, Handler, HandlerAsking,
       CancelPendingEnrollment, Unless, When, Finds, enrollment_GetByIDForAccess,
       Is, Locked, ??, Refuses, OfCaller, Result, Missing, OfParent, OfTenant,
       Effect, Own, Refusal, LockedWrite, Reads, Asks, Deletions, Entry, ForParents,
       Unguarded, TenantLists, Rows
  <2>3. QED
    BY <1>4, <2>1, <2>2, EnrollmentsCoded, EnrollmentsChecked DEF Sound, Plain
<1>5. CASE r.route = "PUT /enrollments/:id/review"
  <2>1. ServedBy(r, w) = review_UpsertHandler(r, w)
    BY <1>5 DEF ServedBy
  <2>2. ASSUME Entry(r) PROVE Effect(r, review_UpsertHandler(r, w))
    BY <1>5, <2>2 DEF review_UpsertHandler, Handler, HandlerAsking, review_Upsert,
       Unless, When, Finds, OfParent, Is, Locked, Refuses, Result, Missing, Effect,
       Own, Refusal, LockedWrite, Reads, Asks, Deletions, Entry, ForParents,
       Unguarded, TenantLists, Rows
  <2>3. QED
    BY <1>5, <2>1, <2>2, EnrollmentsCoded, EnrollmentsChecked DEF Sound, Plain
<1>6. CASE r.route = "GET /enrollments"
  <2>1. ServedBy(r, w) = enrollment_ListQuery(r, w)
    BY <1>6 DEF ServedBy
  <2>2. ASSUME Entry(r) PROVE Effect(r, enrollment_ListQuery(r, w))
    BY <1>6, <2>2 DEF enrollment_ListQuery, Handler, HandlerAsking, Shows,
       enrollment_List, Result, Missing, OfCaller, OfParent, OfTenant, Effect, Own,
       Reading, Reads, Asks, TenantLists, Rows
  <2>3. QED
    BY <1>6, <2>1, <2>2, EnrollmentsCoded, EnrollmentsChecked DEF Sound, Plain
<1>7. CASE r.route = "GET /enrollments/:id"
  <2>1. ServedBy(r, w) = enrollment_GetQuery(r, w)
    BY <1>7 DEF ServedBy
  <2>2. ASSUME Entry(r) PROVE Effect(r, enrollment_GetQuery(r, w))
    BY <1>7, <2>2 DEF enrollment_GetQuery, Handler, HandlerAsking, ShowsFound,
       enrollment_GetByIDForAccess, Unless, When, Finds, Shows, OfCaller, Refuses,
       Result, Missing, OfParent, OfTenant, Effect, Own, Refusal, Reading, Reads,
       Asks, TenantLists, Rows
  <2>3. QED
    BY <1>7, <2>1, <2>2, EnrollmentsCoded, EnrollmentsChecked DEF Sound, Plain
<1>8. CASE r.route = "PATCH /enrollments/:id/schedule"
  <2>1. ServedBy(r, w) = enrollment_AssignSchedule(r, w)
    BY <1>8 DEF ServedBy
  <2>2. ASSUME Entry(r) PROVE Effect(r, enrollment_AssignSchedule(r, w))
    BY <1>8, <2>2 DEF enrollment_AssignSchedule, Handler, HandlerAsking,
       AssignSchedule, Unless, When, Finds, enrollment_GetByIDForAccess, Is, Locked,
       ??, Refuses, OfCaller, Result, Missing, OfParent, OfTenant, Effect, Own,
       Refusal, LockedWrite, Reads, Asks, Deletions, Entry, ForParents, Unguarded,
       TenantLists, Rows
  <2>3. QED
    BY <1>8, <2>1, <2>2, EnrollmentsCoded, EnrollmentsChecked DEF Sound, Plain
<1>9. QED
  BY <1>1, <1>2, <1>3, <1>4, <1>5, <1>6, <1>7, <1>8

\* Every error of private schedule requests has a status of an error.
LEMMA ScheduleRequestsCoded ==
  ASSUME NEW r, NEW w
  PROVE  /\ Plain(request_Create(r, w))
         /\ Plain(request_List(r, w))
         /\ Plain(request_Get(r, w))
         /\ Plain(SendPaymentLink(r, w))
         /\ Plain(request_Approve(r, w))
         /\ Plain(request_RejectHandler(r, w))
         /\ Plain(request_AcceptRecommendation(r, w))
         /\ Plain(request_DeclineRecommendation(r, w))
         /\ Plain(request_Cancel(r, w))
<1>1. Plain(request_Create(r, w))
  BY RequestCoded DEF request_Create, Handler, HandlerAsking, Codes, Plain, Coded
<1>2. Plain(request_List(r, w))
  BY RequestCoded DEF request_List, Handler, HandlerAsking, Codes, Plain, Coded
<1>3. Plain(request_Get(r, w))
  BY RequestCoded DEF request_Get, Handler, HandlerAsking, Codes, Plain, Coded
<1>4. Plain(SendPaymentLink(r, w))
  <2>1. CodedTable([Inactive |-> 409, Unavailable |-> 503])
    BY DEF CodedTable
  <2>2. QED
    BY <2>1, RequestCoded, CodedMerge, CodedCodes DEF SendPaymentLink, Handler,
       HandlerAsking, Plain, Coded
<1>5. Plain(request_Approve(r, w))
  <2>1. CodedTable([PlatformFeeExceedsGross |-> 422])
    BY DEF CodedTable
  <2>2. QED
    BY <2>1, RequestCoded, CodedMerge, CodedCodes DEF request_Approve, Handler,
       HandlerAsking, Plain, Coded
<1>6. Plain(request_RejectHandler(r, w))
  BY RequestCoded DEF request_RejectHandler, Handler, HandlerAsking, Codes, Plain,
     Coded
<1>7. Plain(request_AcceptRecommendation(r, w))
  <2>1. CodedTable([PlatformFeeExceedsGross |-> 422])
    BY DEF CodedTable
  <2>2. QED
    BY <2>1, RequestCoded, CodedMerge, CodedCodes DEF request_AcceptRecommendation,
       Handler, HandlerAsking, Plain, Coded
<1>8. Plain(request_DeclineRecommendation(r, w))
  BY RequestCoded DEF request_DeclineRecommendation, Handler, HandlerAsking, Codes,
     Plain, Coded
<1>9. Plain(request_Cancel(r, w))
  BY RequestCoded DEF request_Cancel, Handler, HandlerAsking, Codes, Plain, Coded
<1>10. QED
  BY <1>1, <1>2, <1>3, <1>4, <1>5, <1>6, <1>7, <1>8, <1>9

\* Every check of private schedule requests answers with an error or passes.
LEMMA ScheduleRequestsChecked ==
  ASSUME NEW r, NEW w
  PROVE  /\ Checked(request_Create(r, w).before)
         /\ Checked(request_List(r, w).before)
         /\ Checked(request_Get(r, w).before)
         /\ Checked(SendPaymentLink(r, w).before)
         /\ Checked(request_Approve(r, w).before)
         /\ Checked(request_RejectHandler(r, w).before)
         /\ Checked(request_AcceptRecommendation(r, w).before)
         /\ Checked(request_DeclineRecommendation(r, w).before)
         /\ Checked(request_Cancel(r, w).before)
<1>1. Checked(request_Create(r, w).before)
  BY Checks, CheckedOr DEF request_Create, Handler, HandlerAsking
<1>2. Checked(request_List(r, w).before)
  BY Checks DEF request_List, Handler, HandlerAsking
<1>3. Checked(request_Get(r, w).before)
  BY Checks, CheckedOr DEF request_Get, Handler, HandlerAsking
<1>4. Checked(SendPaymentLink(r, w).before)
  BY Checks, CheckedOr DEF SendPaymentLink, Handler, HandlerAsking
<1>5. Checked(request_Approve(r, w).before)
  BY Checks, CheckedOr DEF request_Approve, Handler, HandlerAsking
<1>6. Checked(request_RejectHandler(r, w).before)
  BY Checks, CheckedOr DEF request_RejectHandler, Handler, HandlerAsking
<1>7. Checked(request_AcceptRecommendation(r, w).before)
  BY Checks, CheckedOr DEF request_AcceptRecommendation, Handler, HandlerAsking
<1>8. Checked(request_DeclineRecommendation(r, w).before)
  BY Checks, CheckedOr DEF request_DeclineRecommendation, Handler, HandlerAsking
<1>9. Checked(request_Cancel(r, w).before)
  BY Checks, CheckedOr DEF request_Cancel, Handler, HandlerAsking
<1>10. QED
  BY <1>1, <1>2, <1>3, <1>4, <1>5, <1>6, <1>7, <1>8, <1>9

\* What the handlers of private schedule requests answer and do.
LEMMA ScheduleRequestsSound ==
  ASSUME NEW r, NEW w, w.live \subseteq Rows,
         r.route \in {"POST /catalog/classes/:class_id/schedule-requests",
                     "GET /schedule-requests", "GET /schedule-requests/:id",
                     "POST /schedule-requests/:id/send-payment-link",
                     "POST /schedule-requests/:id/approve",
                     "POST /schedule-requests/:id/reject",
                     "POST /schedule-requests/:id/recommendation/accept",
                     "POST /schedule-requests/:id/recommendation/decline",
                     "POST /schedule-requests/:id/cancel"}
  PROVE  Sound(r, ServedBy(r, w))
<1>1. CASE r.route = "POST /catalog/classes/:class_id/schedule-requests"
  <2>1. ServedBy(r, w) = request_Create(r, w)
    BY <1>1 DEF ServedBy
  <2>2. ASSUME Entry(r) PROVE Effect(r, request_Create(r, w))
    BY <1>1, <2>2 DEF request_Create, Handler, HandlerAsking, request_CreateUse,
       Unless, privateRequestPaymentMethod, When, Is, validatePrivateSlots, Finds,
       OfParent, student_GetByID, Locked, ??, Refuses, Result, Missing, Effect, Own,
       Refusal, LockedWrite, Reads, Asks, Deletions, Entry, ForParents, Unguarded,
       TenantLists, Rows
  <2>3. QED
    BY <1>1, <2>1, <2>2, ScheduleRequestsCoded, ScheduleRequestsChecked DEF Sound, Plain
<1>2. CASE r.route = "GET /schedule-requests"
  <2>1. ServedBy(r, w) = request_List(r, w)
    BY <1>2 DEF ServedBy
  <2>2. ASSUME Entry(r) PROVE Effect(r, request_List(r, w))
    BY <1>2, <2>2 DEF request_List, Handler, HandlerAsking, Unless, When, Shows,
       request_privateRequestScope, Refuses, Result, Missing, OfCaller, OfParent,
       OfTenant, Effect, Own, Refusal, Reading, Reads, Asks, TenantLists, Rows
  <2>3. QED
    BY <1>2, <2>1, <2>2, ScheduleRequestsCoded, ScheduleRequestsChecked DEF Sound, Plain
<1>3. CASE r.route = "GET /schedule-requests/:id"
  <2>1. ServedBy(r, w) = request_Get(r, w)
    BY <1>3 DEF ServedBy
  <2>2. ASSUME Entry(r) PROVE Effect(r, request_Get(r, w))
    BY <1>3, <2>2 DEF request_Get, Handler, HandlerAsking, ShowsFound,
       request_privateRequestScope, Unless, When, Finds, Shows, OfCaller, Refuses,
       Result, Missing, OfParent, OfTenant, Effect, Own, Refusal, Reading, Reads,
       Asks, TenantLists, Rows
  <2>3. QED
    BY <1>3, <2>1, <2>2, ScheduleRequestsCoded, ScheduleRequestsChecked DEF Sound, Plain
<1>4. CASE r.route = "POST /schedule-requests/:id/send-payment-link"
  <2>1. ServedBy(r, w) = SendPaymentLink(r, w)
    BY <1>4 DEF ServedBy
  <2>2. ASSUME Entry(r) PROVE Effect(r, SendPaymentLink(r, w))
    BY <1>4, <2>2 DEF SendPaymentLink, Handler, HandlerAsking, SendPaymentLinkUse,
       Unless, When, Finds, OfTenant, request_privateRequestScope, Is,
       paymentlink_GetTransaction, paymentlink_Send, Shows, ??, Refuses, OfCaller,
       Result, Missing, OfParent, Effect, Own, Refusal, Reading, Reads, Asks, Entry,
       StaffOnly, TenantLists, Rows
  <2>3. QED
    BY <1>4, <2>1, <2>2, ScheduleRequestsCoded, ScheduleRequestsChecked DEF Sound, Plain
<1>5. CASE r.route = "POST /schedule-requests/:id/approve"
  <2>1. ServedBy(r, w) = request_Approve(r, w)
    BY <1>5 DEF ServedBy
  <2>2. /\ r.route \notin Reads /\ r.route \notin Asks /\ r.route \notin Deletions
        /\ Entry(r) => ~r.c.parent
    BY <1>5 DEF Reads, Asks, Deletions, Entry, StaffOnly
  <2>3. ASSUME Entry(r) PROVE Effect(r, request_Approve(r, w))
    BY <2>2, <2>3, request_ApproveEffect
  <2>4. QED
    BY <1>5, <2>1, <2>3, ScheduleRequestsCoded, ScheduleRequestsChecked DEF Sound, Plain
<1>6. CASE r.route = "POST /schedule-requests/:id/reject"
  <2>1. ServedBy(r, w) = request_RejectHandler(r, w)
    BY <1>6 DEF ServedBy
  <2>2. ASSUME Entry(r) PROVE Effect(r, request_RejectHandler(r, w))
    BY <1>6, <2>2 DEF request_RejectHandler, Handler, HandlerAsking, request_Reject,
       Unless, When, Is, validatePrivateSlots, Finds, request_LockForTenant, Locked,
       ??, Refuses, OfTenant, Result, Missing, Effect, Own, Refusal, LockedWrite,
       Reads, Asks, Deletions, Entry, StaffOnly, TenantLists, Rows
  <2>3. QED
    BY <1>6, <2>1, <2>2, ScheduleRequestsCoded, ScheduleRequestsChecked DEF Sound, Plain
<1>7. CASE r.route = "POST /schedule-requests/:id/recommendation/accept"
  <2>1. ServedBy(r, w) = request_AcceptRecommendation(r, w)
    BY <1>7 DEF ServedBy
  <2>2. /\ r.route \notin Reads /\ r.route \notin Asks /\ r.route \notin Deletions
        /\ r.route \notin TenantLists /\ (Entry(r) => r.c.parent)
    BY <1>7 DEF Reads, Asks, Deletions, Entry, ForParents,
       Unguarded, TenantLists
  <2>3. ASSUME Entry(r) PROVE Effect(r, request_AcceptRecommendation(r, w))
    BY <2>2, <2>3, request_AcceptRecommendationEffect
  <2>4. QED
    BY <1>7, <2>1, <2>3, ScheduleRequestsCoded, ScheduleRequestsChecked DEF Sound, Plain
<1>8. CASE r.route = "POST /schedule-requests/:id/recommendation/decline"
  <2>1. ServedBy(r, w) = request_DeclineRecommendation(r, w)
    BY <1>8 DEF ServedBy
  <2>2. ASSUME Entry(r) PROVE Effect(r, request_DeclineRecommendation(r, w))
    BY <1>8, <2>2 DEF request_DeclineRecommendation, Handler, HandlerAsking,
       request_Transition, Unless, When, Finds, request_LockForParent, Is, Locked,
       ??, Refuses, OfParent, Result, Missing, Effect, Own, Refusal, LockedWrite,
       Reads, Asks, Deletions, Entry, ForParents, Unguarded, TenantLists, Rows
  <2>3. QED
    BY <1>8, <2>1, <2>2, ScheduleRequestsCoded, ScheduleRequestsChecked DEF Sound, Plain
<1>9. CASE r.route = "POST /schedule-requests/:id/cancel"
  <2>1. ServedBy(r, w) = request_Cancel(r, w)
    BY <1>9 DEF ServedBy
  <2>2. ASSUME Entry(r) PROVE Effect(r, request_Cancel(r, w))
    BY <1>9, <2>2 DEF request_Cancel, Handler, HandlerAsking, request_Transition,
       Unless, When, Finds, request_LockForParent, Is, Locked, ??, Refuses,
       OfParent, Result, Missing, Effect, Own, Refusal, LockedWrite, Reads, Asks,
       Deletions, Entry, ForParents, Unguarded, TenantLists, Rows
  <2>3. QED
    BY <1>9, <2>1, <2>2, ScheduleRequestsCoded, ScheduleRequestsChecked DEF Sound, Plain
<1>10. QED
  BY <1>1, <1>2, <1>3, <1>4, <1>5, <1>6, <1>7, <1>8, <1>9

\* Every error of the internal endpoints has a status of an error.
LEMMA InternalEndpointsCoded ==
  ASSUME NEW r, NEW w
  PROVE  /\ Plain(privateChat_Event(r, w))
         /\ Plain(privateChat_Diagnostics(r, w))
         /\ Plain(privateChat_Requeue(r, w))
         /\ Plain(ActivateInternal(r, w))
         /\ Plain(ReleaseInternal(r, w))
         /\ Plain(SuspendInternal(r, w))
         /\ Plain(ResumeInternal(r, w))
         /\ Plain(EndInternal(r, w))
         /\ Plain(ScheduleRequestContext(r, w))
         /\ Plain(ReportContext(r, w))
<1>1. Plain(privateChat_Event(r, w))
  BY DEF privateChat_Event, Handler, HandlerAsking, Plain, Coded, CodedTable
<1>2. Plain(privateChat_Diagnostics(r, w))
  BY DEF privateChat_Diagnostics, Handler, HandlerAsking, Plain, Coded, CodedTable
<1>3. Plain(privateChat_Requeue(r, w))
  BY DEF privateChat_Requeue, Handler, HandlerAsking, Plain, Coded, CodedTable
<1>4. Plain(ActivateInternal(r, w))
  BY DEF ActivateInternal, Handler, HandlerAsking, Plain, Coded, CodedTable
<1>5. Plain(ReleaseInternal(r, w))
  BY DEF ReleaseInternal, Handler, HandlerAsking, Plain, Coded, CodedTable
<1>6. Plain(SuspendInternal(r, w))
  BY TransitionCoded DEF SuspendInternal, Handler, HandlerAsking, Codes, Plain,
     Coded
<1>7. Plain(ResumeInternal(r, w))
  BY TransitionCoded DEF ResumeInternal, Handler, HandlerAsking, Codes, Plain, Coded
<1>8. Plain(EndInternal(r, w))
  BY TransitionCoded DEF EndInternal, Handler, HandlerAsking, Codes, Plain, Coded
<1>9. Plain(ScheduleRequestContext(r, w))
  BY DEF ScheduleRequestContext, Handler, HandlerAsking, chatContextError, Plain,
     Coded, CodedTable
<1>10. Plain(ReportContext(r, w))
  BY DEF ReportContext, Handler, HandlerAsking, chatContextError, Plain, Coded,
     CodedTable
<1>11. QED
  BY <1>1, <1>2, <1>3, <1>4, <1>5, <1>6, <1>7, <1>8, <1>9, <1>10

\* Every check of the internal endpoints answers with an error or passes.
LEMMA InternalEndpointsChecked ==
  ASSUME NEW r, NEW w
  PROVE  /\ Checked(privateChat_Event(r, w).before)
         /\ Checked(privateChat_Diagnostics(r, w).before)
         /\ Checked(privateChat_Requeue(r, w).before)
         /\ Checked(ActivateInternal(r, w).before)
         /\ Checked(ReleaseInternal(r, w).before)
         /\ Checked(SuspendInternal(r, w).before)
         /\ Checked(ResumeInternal(r, w).before)
         /\ Checked(EndInternal(r, w).before)
         /\ Checked(ScheduleRequestContext(r, w).before)
         /\ Checked(ReportContext(r, w).before)
<1>1. Checked(privateChat_Event(r, w).before)
  BY Checks DEF privateChat_Event, Handler, HandlerAsking
<1>2. Checked(privateChat_Diagnostics(r, w).before)
  BY Checks DEF privateChat_Diagnostics, Handler, HandlerAsking
<1>3. Checked(privateChat_Requeue(r, w).before)
  BY Checks DEF privateChat_Requeue, Handler, HandlerAsking
<1>4. Checked(ActivateInternal(r, w).before)
  BY Checks DEF ActivateInternal, Handler, HandlerAsking
<1>5. Checked(ReleaseInternal(r, w).before)
  BY Checks DEF ReleaseInternal, Handler, HandlerAsking
<1>6. Checked(SuspendInternal(r, w).before)
  BY Checks DEF SuspendInternal, Handler, HandlerAsking
<1>7. Checked(ResumeInternal(r, w).before)
  BY Checks DEF ResumeInternal, Handler, HandlerAsking
<1>8. Checked(EndInternal(r, w).before)
  BY Checks DEF EndInternal, Handler, HandlerAsking
<1>9. Checked(ScheduleRequestContext(r, w).before)
  BY Checks DEF ScheduleRequestContext, Handler, HandlerAsking
<1>10. Checked(ReportContext(r, w).before)
  BY Checks DEF ReportContext, Handler, HandlerAsking
<1>11. QED
  BY <1>1, <1>2, <1>3, <1>4, <1>5, <1>6, <1>7, <1>8, <1>9, <1>10

\* What the handlers of the internal endpoints answer and do.
LEMMA InternalEndpointsSound ==
  ASSUME NEW r, NEW w, w.live \subseteq Rows,
         r.route \in {"GET /internal/events/:id", "GET /internal/deliveries",
                     "POST /internal/deliveries/:id/requeue",
                     "PUT /internal/enrollments/:id/activate",
                     "PUT /internal/enrollments/:id/release",
                     "PUT /internal/enrollments/:id/suspend",
                     "PUT /internal/enrollments/:id/resume",
                     "PUT /internal/enrollments/:id/end",
                     "GET /internal/chat-context/schedule-requests/:id",
                     "GET /internal/chat-context/reports/:id"}
  PROVE  Sound(r, ServedBy(r, w))
<1>1. CASE r.route = "GET /internal/events/:id"
  <2>1. ServedBy(r, w) = privateChat_Event(r, w)
    BY <1>1 DEF ServedBy
  <2>2. ASSUME Entry(r) PROVE Effect(r, privateChat_Event(r, w))
    BY <1>1, <2>2 DEF privateChat_Event, Handler, HandlerAsking, ShowsFound, Unless,
       When, Finds, Shows, Refuses, Result, Missing, Effect, Own, Refusal, Reading,
       Reads, Asks, InternalRoutes, TenantLists, Rows
  <2>3. QED
    BY <1>1, <2>1, <2>2, InternalEndpointsCoded, InternalEndpointsChecked DEF Sound, Plain
<1>2. CASE r.route = "GET /internal/deliveries"
  <2>1. ServedBy(r, w) = privateChat_Diagnostics(r, w)
    BY <1>2 DEF ServedBy
  <2>2. ASSUME Entry(r) PROVE Effect(r, privateChat_Diagnostics(r, w))
    BY <1>2, <2>2 DEF privateChat_Diagnostics, Handler, HandlerAsking, Shows,
       Result, Missing, Effect, Own, Reading, Reads, Asks, InternalRoutes,
       TenantLists, Rows
  <2>3. QED
    BY <1>2, <2>1, <2>2, InternalEndpointsCoded, InternalEndpointsChecked DEF Sound, Plain
<1>3. CASE r.route = "POST /internal/deliveries/:id/requeue"
  <2>1. ServedBy(r, w) = privateChat_Requeue(r, w)
    BY <1>3 DEF ServedBy
  <2>2. ASSUME Entry(r) PROVE Effect(r, privateChat_Requeue(r, w))
    BY <1>3, <2>2 DEF privateChat_Requeue, Handler, HandlerAsking, Unless, When,
       Finds, Is, Locked, Refuses, Result, Missing, Effect, Own, Refusal,
       LockedWrite, Reads, Asks, Deletions, InternalRoutes, TenantLists, Rows
  <2>3. QED
    BY <1>3, <2>1, <2>2, InternalEndpointsCoded, InternalEndpointsChecked DEF Sound, Plain
<1>4. CASE r.route = "PUT /internal/enrollments/:id/activate"
  <2>1. ServedBy(r, w) = ActivateInternal(r, w)
    BY <1>4 DEF ServedBy
  <2>2. ASSUME Entry(r) PROVE Effect(r, ActivateInternal(r, w))
    BY <1>4, <2>2 DEF ActivateInternal, Handler, HandlerAsking, InternalTransition,
       Unless, When, Finds, enrollment_GetByIDForUpdate, Is, Locked, ??, Refuses,
       Result, Missing, Effect, Own, Refusal, LockedWrite, Reads, Asks, Deletions,
       InternalRoutes, TenantLists, Rows
  <2>3. QED
    BY <1>4, <2>1, <2>2, InternalEndpointsCoded, InternalEndpointsChecked DEF Sound, Plain
<1>5. CASE r.route = "PUT /internal/enrollments/:id/release"
  <2>1. ServedBy(r, w) = ReleaseInternal(r, w)
    BY <1>5 DEF ServedBy
  <2>2. ASSUME Entry(r) PROVE Effect(r, ReleaseInternal(r, w))
    BY <1>5, <2>2 DEF ReleaseInternal, Handler, HandlerAsking, InternalTransition,
       Unless, When, Finds, enrollment_GetByIDForUpdate, Is, Locked, ??, Refuses,
       Result, Missing, Effect, Own, Refusal, LockedWrite, Reads, Asks, Deletions,
       InternalRoutes, TenantLists, Rows
  <2>3. QED
    BY <1>5, <2>1, <2>2, InternalEndpointsCoded, InternalEndpointsChecked DEF Sound, Plain
<1>6. CASE r.route = "PUT /internal/enrollments/:id/suspend"
  <2>1. ServedBy(r, w) = SuspendInternal(r, w)
    BY <1>6 DEF ServedBy
  <2>2. ASSUME Entry(r) PROVE Effect(r, SuspendInternal(r, w))
    BY <1>6, <2>2 DEF SuspendInternal, Handler, HandlerAsking, InternalTransition,
       Unless, When, Finds, enrollment_GetByIDForUpdate, Is, Locked, ??, Refuses,
       Result, Missing, Effect, Own, Refusal, LockedWrite, Reads, Asks, Deletions,
       InternalRoutes, TenantLists, Rows
  <2>3. QED
    BY <1>6, <2>1, <2>2, InternalEndpointsCoded, InternalEndpointsChecked DEF Sound, Plain
<1>7. CASE r.route = "PUT /internal/enrollments/:id/resume"
  <2>1. ServedBy(r, w) = ResumeInternal(r, w)
    BY <1>7 DEF ServedBy
  <2>2. ASSUME Entry(r) PROVE Effect(r, ResumeInternal(r, w))
    BY <1>7, <2>2 DEF ResumeInternal, Handler, HandlerAsking, InternalTransition,
       Unless, When, Finds, enrollment_GetByIDForUpdate, Is, Locked, ??, Refuses,
       Result, Missing, Effect, Own, Refusal, LockedWrite, Reads, Asks, Deletions,
       InternalRoutes, TenantLists, Rows
  <2>3. QED
    BY <1>7, <2>1, <2>2, InternalEndpointsCoded, InternalEndpointsChecked DEF Sound, Plain
<1>8. CASE r.route = "PUT /internal/enrollments/:id/end"
  <2>1. ServedBy(r, w) = EndInternal(r, w)
    BY <1>8 DEF ServedBy
  <2>2. ASSUME Entry(r) PROVE Effect(r, EndInternal(r, w))
    BY <1>8, <2>2 DEF EndInternal, Handler, HandlerAsking, InternalTransition,
       Unless, When, Finds, enrollment_GetByIDForUpdate, Is, Locked, ??, Refuses,
       Result, Missing, Effect, Own, Refusal, LockedWrite, Reads, Asks, Deletions,
       InternalRoutes, TenantLists, Rows
  <2>3. QED
    BY <1>8, <2>1, <2>2, InternalEndpointsCoded, InternalEndpointsChecked DEF Sound, Plain
<1>9. CASE r.route = "GET /internal/chat-context/schedule-requests/:id"
  <2>1. ServedBy(r, w) = ScheduleRequestContext(r, w)
    BY <1>9 DEF ServedBy
  <2>2. ASSUME Entry(r) PROVE Effect(r, ScheduleRequestContext(r, w))
    BY <1>9, <2>2 DEF ScheduleRequestContext, Handler, HandlerAsking,
       chatContext_ScheduleRequest, ShowsFound, Unless, When, Finds, Shows, Refuses,
       Result, Missing, Effect, Own, Refusal, Reading, Reads, Asks, InternalRoutes,
       TenantLists, Rows
  <2>3. QED
    BY <1>9, <2>1, <2>2, InternalEndpointsCoded, InternalEndpointsChecked DEF Sound, Plain
<1>10. CASE r.route = "GET /internal/chat-context/reports/:id"
  <2>1. ServedBy(r, w) = ReportContext(r, w)
    BY <1>10 DEF ServedBy
  <2>2. ASSUME Entry(r) PROVE Effect(r, ReportContext(r, w))
    BY <1>10, <2>2 DEF ReportContext, Handler, HandlerAsking, chatContext_Report,
       ShowsFound, Unless, When, Finds, Shows, Refuses, Result, Missing, Effect,
       Own, Refusal, Reading, Reads, Asks, InternalRoutes, TenantLists, Rows
  <2>3. QED
    BY <1>10, <2>1, <2>2, InternalEndpointsCoded, InternalEndpointsChecked DEF Sound,
       Plain
<1>11. QED
  BY <1>1, <1>2, <1>3, <1>4, <1>5, <1>6, <1>7, <1>8, <1>9, <1>10

\* The handlers of unguarded writes admit parents, those of marks and reports a
\* token with a tenant.
LEMMA EveryAdmission ==
  ASSUME NEW r, NEW w, ServedBy(r, w).before = Pass
  PROVE  /\ r.route \in ForParents => r.c.parent
         /\ r.route \in ForTeachers => Parses(r.c.tenant)
<1>1. ASSUME r.route = "POST /attendance"
      PROVE  Parses(r.c.tenant)
  <2>1. ServedBy(r, w) = attendance_Create(r, w)
    BY <1>1 DEF ServedBy
  <2>2. QED
    BY <2>1 DEF attendance_Create, writeAttendanceCreateResult, Handler,
       HandlerAsking, ||, Fails, Pass, tenantClaim
<1>2. ASSUME r.route = "POST /attendance/by-session"
      PROVE  Parses(r.c.tenant)
  <2>1. ServedBy(r, w) = attendance_CreateBySession(r, w)
    BY <1>2 DEF ServedBy
  <2>2. QED
    BY <2>1 DEF attendance_CreateBySession, writeAttendanceCreateResult, Handler,
       HandlerAsking, ||, Fails, Pass, tenantClaim
<1>3. ASSUME r.route = "POST /attendance/bulk"
      PROVE  Parses(r.c.tenant)
  <2>1. ServedBy(r, w) = attendance_CreateBulk(r, w)
    BY <1>3 DEF ServedBy
  <2>2. QED
    BY <2>1 DEF attendance_CreateBulk, Handler, HandlerAsking, ||, Fails, Pass,
       tenantClaim
<1>4. ASSUME r.route = "PATCH /attendance/:id"
      PROVE  Parses(r.c.tenant)
  <2>1. ServedBy(r, w) = attendance_Update(r, w)
    BY <1>4 DEF ServedBy
  <2>2. QED
    BY <2>1 DEF attendance_Update, Handler, HandlerAsking, ||, Fails, Pass,
       tenantClaim
<1>5. ASSUME r.route = "POST /reports"
      PROVE  Parses(r.c.tenant)
  <2>1. ServedBy(r, w) = report_Create(r, w)
    BY <1>5 DEF ServedBy
  <2>2. QED
    BY <2>1 DEF report_Create, Handler, HandlerAsking, ||, Fails, Pass, tenantClaim
<1>6. ASSUME r.route = "PATCH /reports/:id"
      PROVE  Parses(r.c.tenant)
  <2>1. ServedBy(r, w) = report_UpdateHandler(r, w)
    BY <1>6 DEF ServedBy
  <2>2. QED
    BY <2>1 DEF report_UpdateHandler, Handler, HandlerAsking, ||, Fails, Pass,
       tenantClaim
<1>7. ASSUME r.route = "DELETE /reports/:id"
      PROVE  Parses(r.c.tenant)
  <2>1. ServedBy(r, w) = report_DeleteHandler(r, w)
    BY <1>7 DEF ServedBy
  <2>2. QED
    BY <2>1 DEF report_DeleteHandler, Handler, HandlerAsking, ||, Fails, Pass,
       tenantClaim
<1>8. ASSUME r.route = "POST /catalog/classes/:class_id/enrollments"
      PROVE  r.c.parent
  <2>1. ServedBy(r, w) = CreateCatalogEnrollment(r, w)
    BY <1>8 DEF ServedBy
  <2>2. QED
    BY <2>1 DEF CreateCatalogEnrollment, Handler, HandlerAsking, ||, Fails, Pass,
       privateRequestParent
<1>9. ASSUME r.route = "POST /catalog/classes/:class_id/voucher-preview"
      PROVE  r.c.parent
  <2>1. ServedBy(r, w) = PreviewVoucher(r, w)
    BY <1>9 DEF ServedBy
  <2>2. QED
    BY <2>1 DEF PreviewVoucher, Handler, HandlerAsking, ||, Fails, Pass,
       privateRequestParent
<1>10. ASSUME r.route = "POST /enrollments/:id/cancel"
      PROVE  r.c.parent
  <2>1. ServedBy(r, w) = enrollment_Cancel(r, w)
    BY <1>10 DEF ServedBy
  <2>2. QED
    BY <2>1 DEF enrollment_Cancel, Handler, HandlerAsking, ||, Fails, Pass,
       privateRequestParent
<1>11. ASSUME r.route = "PUT /enrollments/:id/review"
      PROVE  r.c.parent
  <2>1. ServedBy(r, w) = review_UpsertHandler(r, w)
    BY <1>11 DEF ServedBy
  <2>2. QED
    BY <2>1 DEF review_UpsertHandler, Handler, HandlerAsking, ||, Fails, Pass,
       privateRequestParent
<1>12. ASSUME r.route = "PATCH /enrollments/:id/schedule"
      PROVE  r.c.parent
  <2>1. ServedBy(r, w) = enrollment_AssignSchedule(r, w)
    BY <1>12 DEF ServedBy
  <2>2. QED
    BY <2>1 DEF enrollment_AssignSchedule, Handler, HandlerAsking, ||, Fails, Pass,
       privateRequestParent
<1>13. ASSUME r.route = "POST /catalog/classes/:class_id/schedule-requests"
      PROVE  r.c.parent
  <2>1. ServedBy(r, w) = request_Create(r, w)
    BY <1>13 DEF ServedBy
  <2>2. QED
    BY <2>1 DEF request_Create, Handler, HandlerAsking, ||, Fails, Pass,
       privateRequestParent
<1>14. ASSUME r.route = "POST /schedule-requests/:id/recommendation/accept"
      PROVE  r.c.parent
  <2>1. ServedBy(r, w) = request_AcceptRecommendation(r, w)
    BY <1>14 DEF ServedBy
  <2>2. QED
    BY <2>1 DEF request_AcceptRecommendation, Handler, HandlerAsking, ||, Fails,
       Pass, privateRequestParent
<1>15. ASSUME r.route = "POST /schedule-requests/:id/recommendation/decline"
      PROVE  r.c.parent
  <2>1. ServedBy(r, w) = request_DeclineRecommendation(r, w)
    BY <1>15 DEF ServedBy
  <2>2. QED
    BY <2>1 DEF request_DeclineRecommendation, Handler, HandlerAsking, ||, Fails,
       Pass, privateRequestParent
<1>16. ASSUME r.route = "POST /schedule-requests/:id/cancel"
      PROVE  r.c.parent
  <2>1. ServedBy(r, w) = request_Cancel(r, w)
    BY <1>16 DEF ServedBy
  <2>2. QED
    BY <2>1 DEF request_Cancel, Handler, HandlerAsking, ||, Fails, Pass,
       privateRequestParent
<1>17. QED
  BY <1>1, <1>2, <1>3, <1>4, <1>5, <1>6, <1>7, <1>8, <1>9, <1>10, <1>11, <1>12,
     <1>13, <1>14, <1>15, <1>16
  DEF ForParents, ForTeachers, Unguarded, TenantLists

\* Every endpoint answers and does what its use case says.
LEMMA EveryEndpoint ==
  ASSUME NEW r, NEW w, w.live \subseteq Rows,
         r.route \in ApiRoutes \cup InternalRoutes
  PROVE  Sound(r, ServedBy(r, w))
BY CategoriesSound, ClassesSound, SchedulesSound, SessionsSound, StudentsSound,
   ReportsSound, AttendanceSound, EnrollmentsSound, ScheduleRequestsSound,
   InternalEndpointsSound
DEF ApiRoutes, AttendanceReportRoutes, Unguarded, InternalRoutes

\* An aggregate asks for the permissions of its parts.
LEMMA EveryAsk ==
  ASSUME NEW r, NEW w, r.body \in Bodies(r.route), Sound(r, ServedBy(r, w))
  PROVE  AsksFor(r, ServedBy(r, w))
<1>1. CASE r.route \notin Aggregates
  <2>1. ServedBy(r, w).asks = <<>> /\ PartsOf(r) = {}
    BY <1>1, NoParts DEF Sound
  <2>2. QED
    BY <2>1 DEF AsksFor
<1>2. CASE r.route = "POST /classes/with-category"
  <2>1. ServedBy(r, w) = class_CreateWithCategory(r, w)
    BY <1>2 DEF ServedBy
  <2>2. CASE r.body = "category"
    BY <2>1, <2>2, PartsPermissions
    DEF AsksFor, PartsOf, class_CreateWithCategory, HandlerAsking
  <2>3. CASE r.body = "slots"
    BY <2>1, <2>3, PartsPermissions
    DEF AsksFor, PartsOf, class_CreateWithCategory, HandlerAsking
  <2>4. CASE r.body = "keyless"
    BY <2>1, <2>4, PartsPermissions
    DEF AsksFor, PartsOf, class_CreateWithCategory, HandlerAsking
  <2>5. CASE r.body \in {"plain", "broken"}
    BY <2>1, <2>5, PartsPermissions
    DEF AsksFor, PartsOf, class_CreateWithCategory, HandlerAsking
  <2>6. QED
    BY <1>2, <2>2, <2>3, <2>4, <2>5 DEF Bodies
<1>3. CASE r.route = "PATCH /classes/:id"
  <2>1. ServedBy(r, w) = class_Update(r, w)
    BY <1>3 DEF ServedBy
  <2>2. CASE r.body = "category"
    BY <2>1, <2>2, PartsPermissions DEF AsksFor, PartsOf, class_Update, HandlerAsking
  <2>3. CASE r.body \in {"plain", "broken"}
    BY <2>1, <2>3, PartsPermissions DEF AsksFor, PartsOf, class_Update, HandlerAsking
  <2>4. QED
    BY <1>3, <2>2, <2>3 DEF Bodies
<1>4. QED
  BY <1>1, <1>2, <1>3 DEF Aggregates

-----------------------------------------------------------------------------
(* Answers. *)

\* Identity's answer stops a request with 403 or 503, or lets it pass.
LEMMA AllowedChecked ==
  ASSUME NEW c, NEW identity
  PROVE  Checked(permissionAllowed(c, identity))
BY DEF Checked, permissionAllowed, Pass

\* So does every guard of a route.
LEMMA GuardChecked ==
  ASSUME NEW guard \in Guards, NEW c, NEW identity
  PROVE  Checked(Guarded(guard, c, identity))
<1>1. Checked(Pass) /\ Checked(403)
  BY DEF Checked
<1>2. Checked(permissionAllowed(c, identity))
  BY AllowedChecked
<1>3. CASE guard = "require"
  BY <1>1, <1>2, <1>3 DEF Guarded, RequirePermission
<1>4. CASE guard = "unlessParent"
  BY <1>1, <1>2, <1>4 DEF Guarded, RequirePermissionUnlessParent
<1>5. CASE guard = "tenantResource"
  BY <1>1, <1>2, <1>5 DEF Guarded, RequirePermissionForTenantResource
<1>6. CASE guard = "denyParent"
  BY <1>1, <1>2, <1>6 DEF Guarded, RequirePermissionForTenantResourceDenyParent
<1>7. CASE guard = "aggregate"
  BY <1>1, <1>2, <1>7 DEF Guarded, AuthorizePermission
<1>8. QED
  BY <1>3, <1>4, <1>5, <1>6, <1>7 DEF Guards

\* Authentication stops a request with 401, or the token is of the right kind.
LEMMA AuthChecked ==
  ASSUME NEW c
  PROVE  /\ Checked(AuthMiddleware(c)) /\ Checked(InternalServiceAuth(c))
         /\ AuthMiddleware(c) = Pass => c.token = "jwt"
         /\ InternalServiceAuth(c) = Pass => c.token = "internal"
<1>1. AuthMiddleware(c) \in {401, 0} /\ InternalServiceAuth(c) \in {401, 0}
  BY DEF Pass, AuthMiddleware, InternalServiceAuth
<1>2. AuthMiddleware(c) = Pass => c.token = "jwt"
  <2>1. c.token # "jwt" => AuthMiddleware(c) = 401
    BY DEF AuthMiddleware
  <2>2. QED
    BY <2>1 DEF Pass
<1>3. InternalServiceAuth(c) = Pass => c.token = "internal"
  BY DEF Pass, InternalServiceAuth
<1>4. QED
  BY <1>1, <1>2, <1>3 DEF Checked, Pass

\* A part was permitted when its check is passed.
LEMMA ClearedAggregate ==
  ASSUME NEW p, NEW c, NEW H, Cleared(<<"aggregate", p>>, c, H)
  PROVE  p \in H
BY DEF Cleared, Guarded, CheckPermission, Pass, AuthorizePermission, permissionAllowed

\* Statuses of success, of an error, and of a refusal.
Succeeds(status) == status \in 200 .. 299

Errs(status) == status \in 400 .. 599

Refused(status) == status \in 400 .. 499

\* Neither an error nor a refusal is a success.
LEMMA ErrsApart ==
  ASSUME NEW status, Errs(status)
  PROVE  ~Succeeds(status)
BY DEF Errs, Succeeds

LEMMA RefusedApart ==
  ASSUME NEW status, Refused(status)
  PROVE  ~Succeeds(status)
BY DEF Refused, Succeeds

LEMMA ErrsServer == Errs(500) /\ ~Refused(500) /\ ~Succeeds(500)
BY DEF Errs, Refused, Succeeds

\* A success is a 2xx, an error a 4xx or 5xx.
LEMMA StatusKinds ==
  ASSUME NEW r, NEW w, Coded(ServedBy(r, w))
  PROVE  /\ Succeeds(StatusFor(r, w, ""))
         /\ \A err : err # "" => Errs(StatusFor(r, w, err))
<1> DEFINE h == ServedBy(r, w)
<1>1. StatusFor(r, w, "") = h.ok /\ Succeeds(h.ok)
  BY DEF StatusFor, Coded, Succeeds
<1>2. ASSUME NEW err, err # ""
      PROVE  Errs(StatusFor(r, w, err))
  <2>1. StatusFor(r, w, err) = StatusOf(h.codes, err)
    BY <1>2 DEF StatusFor
  <2>2. CodedTable(h.codes)
    BY DEF Coded
  <2> HIDE DEF h
  <2>3. CASE err \in DOMAIN h.codes
    <3>1. StatusOf(h.codes, err) = h.codes[err]
      BY <2>3 DEF StatusOf
    <3>2. QED
      BY <2>1, <2>2, <2>3, <3>1 DEF CodedTable, Errs
  <2>4. CASE err \notin DOMAIN h.codes /\ "Other" \in DOMAIN h.codes
    <3>1. StatusOf(h.codes, err) = h.codes["Other"]
      BY <2>4 DEF StatusOf
    <3>2. QED
      BY <2>1, <2>2, <2>4, <3>1 DEF CodedTable, Errs
  <2>5. CASE err \notin DOMAIN h.codes /\ "Other" \notin DOMAIN h.codes
    <3>1. StatusOf(h.codes, err) = 500
      BY <2>5 DEF StatusOf
    <3>2. QED
      BY <2>1, <3>1, ErrsServer
  <2>6. QED
    BY <2>3, <2>4, <2>5
<1>3. Succeeds(StatusFor(r, w, ""))
  BY <1>1
<1>4. QED
  BY <1>2, <1>3

\* An element of a sequence is its head or in its tail.
LEMMA HeadOrTail ==
  ASSUME NEW S, NEW s \in Seq(S), s # <<>>
  PROVE  /\ Head(s) \in S /\ Tail(s) \in Seq(S)
         /\ \A j \in DOMAIN s :
               s[j] = Head(s) \/ \E k \in DOMAIN Tail(s) : Tail(s)[k] = s[j]
<1>1. Head(s) \in S /\ Tail(s) \in Seq(S)
  OBVIOUS
<1>2. ASSUME NEW j \in DOMAIN s, s[j] # Head(s)
      PROVE  j - 1 \in DOMAIN Tail(s) /\ Tail(s)[j - 1] = s[j]
  BY <1>2
<1>3. QED
  BY <1>1, <1>2

\* How the sets of routes relate.
LEMMA RouteKinds ==
  /\ ApiRoutes \cap InternalRoutes = {}
  /\ InternalRoutes \cap (StaffOnly \cup ForTeachers \cup ForParents) = {}
  /\ (Reads \cup Asks) \cap (Deletions \cup Saves) = {}
  /\ Deletions \cap Saves = {}
  /\ TenantLists \subseteq Reads
BY DEF ApiRoutes, AttendanceReportRoutes, Unguarded, InternalRoutes, StaffOnly,
   ForTeachers, ForParents, Reads, Asks, Deletions, Saves, TenantLists

\* Past the guards: who is served, and with which permissions.
Served ==
    /\ request.route \in ApiRoutes \cup InternalRoutes
    /\ request.route \in InternalRoutes => request.c.token = "internal"
    /\ request.route \in ApiRoutes =>
          request.c.token = "jwt" /\ Entitlement(request, held)
    /\ Entry(request)

\* Who is past the guards is served.
LEMMA PastGuards ==
  ASSUME ApiTypeOK, GuardsPassed, HandlerAdmits,
         stage = "write" \/ (stage = "asks" /\ left = <<>>)
  PROVE  Served
<1>1. request.route \in ApiRoutes \cup InternalRoutes
  BY DEF ApiTypeOK, ApiRequests
<1>2. CASE request.route \in ApiRoutes
  <2>1. request.c.token = "jwt" /\ request.route \notin InternalRoutes
    BY <1>2, RouteKinds DEF GuardsPassed
  <2>2. Admitted(request, held)
    BY <1>2 DEF GuardsPassed, HandlerAdmits, Admitted
  <2>3. Entitlement(request, held)
    BY <1>2, <2>2, Entitled
  <2>4. QED
    BY <1>1, <2>1, <2>3 DEF Entitlement, Entry, Served, HandlerAdmits
<1>3. CASE request.route \in InternalRoutes
  BY <1>3, RouteKinds DEF GuardsPassed, Served, Entry
<1>4. QED
  BY <1>1, <1>2, <1>3

\* The properties of an answer.
Answers == OnlyOwnRows /\ ChangesArePermitted /\ AnswersAreTrue

\* Before the answer nothing was shown or done.
LEMMA Unanswered ==
  ASSUME stage' # "done", answer'.did = "none"
  PROVE  Answers'
BY DEF Answers, OnlyOwnRows, ChangesArePermitted, AnswersAreTrue, Answered, Succeeded,
   Failed

\* A request that is stopped was shown nothing and did nothing.
LEMMA Stopped ==
  ASSUME NEW status, Checked(status), status # Pass, Stop(status)
  PROVE  Answers'
BY DEF Answers, OnlyOwnRows, ChangesArePermitted, AnswersAreTrue, Answered, Succeeded,
   Failed, Stop, AnswerWith, Checked

\* What an answer may show and do.
LEMMA AnswerSound ==
  ASSUME Served, request' = request, held' = held,
         NEW status, NEW shows, NEW did, NEW row, AnswerWith(status, shows, did, row),
         \A x \in shows : Own(request, x),
         did # "none" =>
            Own(request, row) /\ request.route \notin Reads \cup Asks,
         Succeeds(status) =>
            /\ request.route \in Deletions => request.target \notin live'
            /\ request.route \notin Reads \cup Asks \cup Deletions => did # "none",
         Refused(status) => did = "none",
         did = "revive" => request.route \in Saves
  PROVE  Answers'
<1>1. answer'.status = status /\ answer'.shows = shows /\ answer'.did = did
      /\ answer'.row = row /\ stage' = "done"
  BY DEF AnswerWith
<1>2. OnlyOwnRows'
  BY <1>1 DEF Served, OnlyOwnRows, Internal, Own
<1>3. ChangesArePermitted'
  <2>1. SUFFICES ASSUME did # "none", request.route \notin InternalRoutes
                 PROVE  ChangesArePermitted'
    BY <1>1 DEF Served, ChangesArePermitted, Internal
  <2>2. request.c.token = "jwt" /\ Entitlement(request, held)
    BY <2>1 DEF Served
  <2>3. Own(request, row) /\ request.route \notin Reads \cup Asks
        /\ request.route \notin TenantLists
    BY <2>1, RouteKinds
  <2>4. QED
    BY <1>1, <2>1, <2>2, <2>3 DEF ChangesArePermitted, Entitlement, Own, Answered
<1>4. AnswersAreTrue'
  BY <1>1, RouteKinds DEF AnswersAreTrue, Succeeded, Failed, Answered, Succeeds, Refused
<1>5. QED
  BY <1>2, <1>3, <1>4 DEF Answers

-----------------------------------------------------------------------------
(* The steps. *)

\* The kinds of bodies.
LEMMA BodiesKnown ==
  ASSUME NEW route
  PROVE  Bodies(route) \subseteq
            {"plain", "broken", "category", "slots", "keyless", "legacy", "mine"}
BY DEF Bodies

\* The claims of the request under way are booleans.
LEMMA CallerBooleans ==
  ASSUME ApiTypeOK, stage # "idle"
  PROVE  request.c.parent \in BOOLEAN /\ request.c.pinned \in BOOLEAN
BY AccessConstants DEF ApiTypeOK, ApiRequests

\* The empty list.
LEMMA NoneLeft ==
  ASSUME NEW S
  PROVE  <<>> \in Seq(S)
OBVIOUS

\* A guard that was passed with the grants of then is cleared by all that were held.
LEMMA ClearedLater ==
  ASSUME NEW k, NEW p, NEW c, NEW G, NEW H, NEW up, k \in Guards, p \in Permissions,
         c.parent \in BOOLEAN, c.pinned \in BOOLEAN, G \subseteq H, up \in BOOLEAN,
         Guarded(k, c, CheckPermission(p, G, up)) = Pass
  PROVE  Guarded(k, c, CheckPermission(p, H, TRUE)) = Pass
BY DEF Guarded, CheckPermission, Guards, Pass, RequirePermission,
   RequirePermissionUnlessParent, RequirePermissionForTenantResource,
   RequirePermissionForTenantResourceDenyParent, AuthorizePermission, permissionAllowed

\* Before a request arrives.
LEMMA InitInvariant ==
  ASSUME Init
  PROVE  ApiInvariant
<1>1. ApiTypeOK
  <2>1. left \in Seq(Guards \X Permissions)
    BY NoneLeft DEF Init
  <2>2. grants \subseteq held /\ live \subseteq Rows
    BY DEF Init
  <2>3. answer.did = "none" /\ stage = "idle"
    BY DEF Init
  <2>4. QED
    BY <2>1, <2>2, <2>3 DEF ApiTypeOK
<1>2. GuardsPassed /\ HandlerAdmits /\ WritesOwn
  BY DEF Init, GuardsPassed, HandlerAdmits, WritesOwn
<1>3. OnlyOwnRows /\ ChangesArePermitted /\ AnswersAreTrue
  BY DEF Init, OnlyOwnRows, ChangesArePermitted, AnswersAreTrue, Answered, Succeeded,
     Failed
<1>4. QED
  BY <1>1, <1>2, <1>3 DEF ApiInvariant

\* A request arrives with nothing shown or done.
LEMMA ArriveStep ==
  ASSUME ApiInvariant, Arrive
  PROVE  ApiInvariant'
<1>0. PICK route \in ApiRoutes \cup InternalRoutes :
         \E c \in Callers, target \in Targets(route), body \in Bodies(route) :
            request' = [route |-> route, c |-> c, target |-> target, body |-> body]
  BY DEF Arrive
<1>1. PICK c \in Callers, target \in Targets(route), body \in Bodies(route) :
         request' = [route |-> route, c |-> c, target |-> target, body |-> body]
  BY <1>0
<1>2. target \in Rows \cup {Missing, Malformed}
  BY DEF Targets
<1>3. body \in {"plain", "broken", "category", "slots", "keyless", "legacy", "mine"}
  BY BodiesKnown
<1>4. request' \in ApiRequests /\ request'.body \in Bodies(request'.route)
  BY <1>1, <1>2, <1>3 DEF ApiRequests
<1>5. ApiTypeOK'
  BY <1>4 DEF Arrive, ApiInvariant, ApiTypeOK
<1>6. GuardsPassed' /\ HandlerAdmits' /\ WritesOwn'
  BY DEF Arrive, GuardsPassed, HandlerAdmits, WritesOwn
<1>7. Answers'
  BY Unanswered DEF Arrive, ApiInvariant, ApiTypeOK
<1>8. QED
  BY <1>5, <1>6, <1>7 DEF ApiInvariant, Answers

\* A request that is stopped: nothing was shown or done.
LEMMA StopStep ==
  ASSUME ApiInvariant, stage # "idle", NEW status, Checked(status), status # Pass,
         Stop(status), UNCHANGED <<request, left, grants, held, live, pending, changes>>
  PROVE  ApiInvariant'
<1>1. stage' = "done"
  BY DEF Stop, AnswerWith
<1>2. ApiTypeOK'
  BY <1>1 DEF ApiInvariant, ApiTypeOK
<1>3. GuardsPassed' /\ HandlerAdmits' /\ WritesOwn'
  BY <1>1 DEF GuardsPassed, HandlerAdmits, WritesOwn
<1>4. Answers'
  BY Stopped
<1>5. QED
  BY <1>2, <1>3, <1>4 DEF ApiInvariant, Answers

\* Authentication stops it, or puts the guards of its route before it.
LEMMA AuthenticateStep ==
  ASSUME ApiInvariant, Authenticate
  PROVE  ApiInvariant'
<1> DEFINE internal == request.route \in InternalRoutes
           status == IF internal THEN InternalServiceAuth(request.c)
                     ELSE AuthMiddleware(request.c)
<1>1. Checked(status) /\ stage = "auth"
  BY AuthChecked DEF Authenticate
<1>2. CASE status # Pass
  BY <1>1, <1>2, StopStep DEF Authenticate
<1>3. CASE status = Pass
  <2>1. /\ stage' = "guards" /\ UNCHANGED <<request, grants, held, live, answer>>
        /\ left' = IF internal THEN <<>> ELSE registerRoutes[request.route]
    BY <1>3 DEF Authenticate
  <2>2. request.c.token = IF internal THEN "internal" ELSE "jwt"
    BY <1>3, AuthChecked
  <2>3. request.route \in ApiRoutes \cup InternalRoutes
    BY <1>1 DEF ApiInvariant, ApiTypeOK, ApiRequests
  <2>4. left' \in Seq(Guards \X Permissions)
    <3>1. CASE internal
      BY <2>1, <3>1
    <3>2. CASE ~internal
      BY <2>1, <2>3, <3>2, GuardedRoutes
    <3>3. QED
      BY <3>1, <3>2
  <2>5. ApiTypeOK'
    BY <1>1, <2>1, <2>4 DEF ApiInvariant, ApiTypeOK
  <2>6. GuardsPassed'
    <3>1. request.route \in ApiRoutes => left' = registerRoutes[request.route]
      BY <2>1, RouteKinds
    <3>2. QED
      BY <2>1, <2>2, <3>1 DEF GuardsPassed
  <2>7. HandlerAdmits' /\ WritesOwn'
    BY <2>1 DEF HandlerAdmits, WritesOwn
  <2>8. Answers'
    BY <1>1, <2>1, Unanswered DEF ApiInvariant, ApiTypeOK
  <2>9. QED
    BY <2>5, <2>6, <2>7, <2>8 DEF ApiInvariant, Answers
<1>4. QED
  BY <1>2, <1>3

\* A guard stops it, or is cleared by what is held.
LEMMA CheckStep ==
  ASSUME ApiInvariant, Check
  PROVE  ApiInvariant'
<1> DEFINE guard == Head(left)
           answered(up) == Guarded(guard[1], request.c,
                                   CheckPermission(guard[2], grants, up))
<1>1. /\ stage \in {"guards", "asks"} /\ left # <<>>
      /\ left \in Seq(Guards \X Permissions) /\ grants \subseteq held
  BY DEF Check, ApiInvariant, ApiTypeOK
<1>2. guard \in Guards \X Permissions /\ Tail(left) \in Seq(Guards \X Permissions)
  BY <1>1, HeadOrTail
<1>3. PICK up \in BOOLEAN : IF answered(up) # Pass
                            THEN Stop(answered(up)) /\ UNCHANGED left
                            ELSE left' = Tail(left) /\ UNCHANGED <<stage, answer>>
  BY DEF Check
<1>4. UNCHANGED <<request, grants, held, live, pending, changes>>
  BY DEF Check
<1>5. CASE answered(up) # Pass
  <2>1. Checked(answered(up))
    BY <1>2, GuardChecked
  <2>2. QED
    BY <1>1, <1>3, <1>4, <1>5, <2>1, StopStep
<1>6. CASE answered(up) = Pass
  <2>1. left' = Tail(left) /\ UNCHANGED <<stage, answer>>
    BY <1>3, <1>6
  <2>2. request.c.parent \in BOOLEAN /\ request.c.pinned \in BOOLEAN
    BY <1>1, CallerBooleans DEF ApiInvariant
  <2>3. Cleared(guard, request.c, held)
    <3> DEFINE c == request.c
    <3>1. Guarded(guard[1], c, CheckPermission(guard[2], grants, up)) = Pass
      BY <1>6
    <3>2. c.parent \in BOOLEAN /\ c.pinned \in BOOLEAN
      BY <2>2
    <3>3. /\ guard[1] \in Guards /\ guard[2] \in Permissions
          /\ grants \subseteq held /\ up \in BOOLEAN
      BY <1>1, <1>2
    <3> HIDE DEF guard, answered, c
    <3>4. Cleared(guard, c, held)
      BY <3>1, <3>2, <3>3, ClearedLater DEF Cleared
    <3>5. QED
      BY <3>4 DEF c
  <2>4. \A j \in DOMAIN left :
           left[j] = guard \/ \E k \in DOMAIN left' : left'[k] = left[j]
    BY <1>1, <2>1, HeadOrTail
  <2>5. ApiTypeOK'
    BY <1>1, <1>2, <1>4, <2>1 DEF ApiInvariant, ApiTypeOK
  <2>6. GuardsPassed'
    BY <1>4, <2>1, <2>3, <2>4 DEF ApiInvariant, GuardsPassed
  <2>7. HandlerAdmits'
    <3>1. SUFFICES ASSUME stage = "asks"
                   PROVE  HandlerAdmits'
      BY <1>1, <2>1 DEF HandlerAdmits
    <3>2. \A part : guard = <<"aggregate", part>> => part \in held
      BY <2>3, ClearedAggregate
    <3>3. QED
      BY <1>4, <2>1, <2>4, <3>1, <3>2 DEF ApiInvariant, HandlerAdmits, PartsOf
  <2>8. WritesOwn'
    BY <1>1, <2>1 DEF WritesOwn
  <2>9. Answers'
    BY <1>1, <2>1, Unanswered DEF ApiInvariant, ApiTypeOK
  <2>10. QED
    BY <2>5, <2>6, <2>7, <2>8, <2>9 DEF ApiInvariant, Answers
<1>7. QED
  BY <1>5, <1>6

\* The handler stops it, or asks for the parts of an aggregate.
LEMMA EnterHandlerStep ==
  ASSUME ApiInvariant, EnterHandler
  PROVE  ApiInvariant'
<1> DEFINE h == ServedBy(request, NoFacts(live))
<1>1. /\ stage = "guards" /\ left = <<>> /\ live \subseteq Rows
      /\ request.route \in ApiRoutes \cup InternalRoutes
      /\ request.body \in Bodies(request.route)
  BY DEF EnterHandler, ApiInvariant, ApiTypeOK, ApiRequests
<1>2. NoFacts(live).live = live
  BY DEF NoFacts
<1>3. Sound(request, h)
  BY <1>1, <1>2, EveryEndpoint
<1>4. UNCHANGED <<request, grants, held, live, pending, changes>>
  BY DEF EnterHandler
<1>5. CASE h.before # Pass
  <2>1. Checked(h.before) /\ Stop(h.before) /\ UNCHANGED left
    BY <1>3, <1>5 DEF Sound, EnterHandler
  <2>2. QED
    BY <1>1, <1>4, <1>5, <2>1, StopStep
<1>6. CASE h.before = Pass
  <2>1. /\ stage' = "asks" /\ UNCHANGED answer
        /\ left' = [i \in DOMAIN h.asks |-> <<"aggregate", h.asks[i]>>]
    BY <1>6 DEF EnterHandler
  <2>2. AsksFor(request, h)
    BY <1>1, <1>3, EveryAsk
  <2>3. /\ request.route \in ForParents => request.c.parent
        /\ request.route \in ForTeachers => Parses(request.c.tenant)
    BY <1>6, EveryAdmission
  <2> HIDE DEF h
  <2>4. left' \in Seq(Guards \X Permissions)
    BY <2>1, <2>2 DEF AsksFor, Guards
  <2>5. ApiTypeOK'
    BY <1>1, <1>4, <2>1, <2>4 DEF ApiInvariant, ApiTypeOK
  <2>6. GuardsPassed'
    BY <1>1, <1>4, <2>1 DEF ApiInvariant, GuardsPassed
  <2>7. \A part \in PartsOf(request) :
           \E j \in DOMAIN left' : left'[j] = <<"aggregate", part>>
    BY <2>1, <2>2 DEF AsksFor
  <2>8. HandlerAdmits'
    BY <1>4, <2>1, <2>3, <2>7 DEF HandlerAdmits, PartsOf
  <2>9. WritesOwn' /\ Answers'
    BY <1>1, <2>1, Unanswered DEF WritesOwn, ApiInvariant, ApiTypeOK
  <2>10. QED
    BY <2>5, <2>6, <2>8, <2>9 DEF ApiInvariant, Answers
<1>7. QED
  BY <1>5, <1>6

\* Once it is served, a request stays as it is until it is answered.
LEMMA ServedStays ==
  ASSUME ApiInvariant, stage' = "done", UNCHANGED <<request, left, grants, held>>,
         stage \notin {"idle", "done"}, live' \subseteq Rows, Answers'
  PROVE  ApiInvariant'
<1>1. ApiTypeOK'
  BY DEF ApiInvariant, ApiTypeOK
<1>2. GuardsPassed' /\ HandlerAdmits' /\ WritesOwn'
  BY DEF GuardsPassed, HandlerAdmits, WritesOwn
<1>3. QED
  BY <1>1, <1>2 DEF ApiInvariant, Answers

\* The statuses of the route's handler, in the tables as they are.
LEMMA HandlerSound ==
  ASSUME ApiInvariant, stage # "idle", NEW facts
  PROVE  Sound(request, ServedBy(request, [live |-> live, facts |-> facts]))
<1>1. request.route \in ApiRoutes \cup InternalRoutes /\ live \subseteq Rows
  BY DEF ApiInvariant, ApiTypeOK, ApiRequests
<1>2. [live |-> live, facts |-> facts].live = live
  OBVIOUS
<1>3. QED
  BY <1>1, <1>2, EveryEndpoint

\* A write to come is not under a lock.
LEMMA OvertakableForm ==
  ASSUME NEW u, NEW does, NEW row, NEW gone, u = Overtakable(does, row, gone)
  PROVE  ~u.locked /\ u.does = does /\ u.row = row /\ u.gone = gone
<1> DEFINE v == Overtakable(does, row, gone)
<1>1. ~v.locked /\ v.does = does /\ v.row = row /\ v.gone = gone
  BY DEF Overtakable, Result
<1> HIDE DEF v
<1>2. u = v
  BY DEF v
<1>3. QED
  BY <1>1, <1>2

\* The answer after a write under a lock.
LEMMA LockedWriteAnswer ==
  ASSUME Served, request' = request, held' = held, NEW u, NEW status,
         LockedWrite(request, u), AnswerWith(status, u.shows, u.does, u.row),
         ~Refused(status),
         live' = IF u.does = "delete" THEN live \ {u.row} ELSE live
  PROVE  Answers'
<1>1. \A x \in u.shows : Own(request, x)
  BY DEF LockedWrite
<1>2. /\ u.does # "none" /\ u.does # "revive" /\ Own(request, u.row)
      /\ request.route \notin Reads \cup Asks
  BY DEF LockedWrite
<1>3. request.route \in Deletions => request.target \notin live'
  BY DEF LockedWrite
<1>4. QED
  BY <1>1, <1>2, <1>3, AnswerSound

\* The use case refuses, shows, writes under a lock or leaves a write to come.
LEMMA RunUseCaseStep ==
  ASSUME ApiInvariant, RunUseCase
  PROVE  ApiInvariant'
<1>1. /\ stage = "asks" /\ left = <<>> /\ live \subseteq Rows
      /\ UNCHANGED <<request, left, grants, held>>
  BY DEF RunUseCase, ApiInvariant, ApiTypeOK
<1>2. Served
  BY <1>1, PastGuards DEF ApiInvariant
<1>3. PICK facts \in FactSets :
        LET w == [live |-> live, facts |-> facts]
            result == Outcome(request, w)
        IN IF result.locked
           THEN /\ AnswerWith(StatusFor(request, w, result.err), result.shows,
                              result.does, result.row)
                /\ live' = IF result.does = "delete" THEN live \ {result.row} ELSE live
                /\ UNCHANGED pending
           ELSE /\ stage' = "write"
                /\ pending' = result
                /\ UNCHANGED <<answer, live>>
  BY DEF RunUseCase
<1> DEFINE w == [live |-> live, facts |-> facts]
           h == ServedBy(request, w)
           u == Outcome(request, w)
           status == StatusFor(request, w, u.err)
<1>4. Sound(request, h)
  BY <1>1, HandlerSound
<1>5. Effect(request, h) /\ Coded(h)
  BY <1>2, <1>4 DEF Served, Sound
<1>6. u = Refuses("Database") \/ u = h.use
  BY DEF Outcome
<1>7. /\ u.err = "" => Succeeds(status)
      /\ u.err # "" => Errs(status)
  <2>1. Coded(ServedBy(request, w))
    BY <1>5
  <2> HIDE DEF w, h, u
  <2>2. Succeeds(StatusFor(request, w, ""))
    BY <2>1, StatusKinds
  <2>3. \A err : err # "" => Errs(StatusFor(request, w, err))
    BY <2>1, StatusKinds
  <2>4. QED
    BY <2>2, <2>3
<1>8. Refusal(Refuses("Database"))
  BY DEF Refusal, Refuses, Result
<1>9. /\ u.locked =>
            /\ AnswerWith(status, u.shows, u.does, u.row)
            /\ live' = IF u.does = "delete" THEN live \ {u.row} ELSE live
      /\ ~u.locked => stage' = "write" /\ pending' = u /\ UNCHANGED <<answer, live>>
  BY <1>3
<1>10. u.err # "" => status = StatusOf(h.codes, u.err)
  BY DEF StatusFor
<1> HIDE DEF w, h, u, status
<1>11. CASE Refusal(u)
  <2>1. u.locked /\ u.shows = {} /\ u.does = "none" /\ ~Succeeds(status)
    BY <1>7, <1>11, ErrsApart DEF Refusal
  <2>2. AnswerWith(status, {}, "none", u.row) /\ live' = live
    BY <1>9, <2>1
  <2>3. Answers'
    BY <1>1, <1>2, <2>1, <2>2, AnswerSound
  <2>4. QED
    BY <1>1, <2>2, <2>3, ServedStays DEF AnswerWith
<1>12. CASE Reading(request, u)
  <2>1. /\ u.locked /\ u.does = "none" /\ request.route \in Reads \cup Asks
        /\ \A x \in u.shows : Own(request, x)
    BY <1>12 DEF Reading
  <2>2. AnswerWith(status, u.shows, u.does, u.row) /\ live' = live
    BY <1>9, <2>1
  <2>3. Answers'
    BY <1>1, <1>2, <2>1, <2>2, AnswerSound, RouteKinds
  <2>4. QED
    BY <1>1, <2>2, <2>3, ServedStays DEF AnswerWith
<1>13. CASE /\ u = h.use /\ LockedWrite(request, h.use)
            /\ h.use.err # "" => StatusOf(h.codes, h.use.err) = 500
  <2>1. LockedWrite(request, u) /\ u.locked
    BY <1>13 DEF LockedWrite
  <2>2. ~Refused(status)
    <3>1. CASE u.err = ""
      BY <1>7, <3>1, RefusedApart
    <3>2. CASE u.err # ""
      <4>1. status = StatusOf(h.codes, u.err) /\ u.err = h.use.err
        BY <1>10, <1>13, <3>2
      <4>2. status = 500
        BY <1>13, <3>2, <4>1
      <4>3. QED
        BY <4>2, ErrsServer
    <3>3. QED
      BY <3>1, <3>2
  <2>3. /\ AnswerWith(status, u.shows, u.does, u.row)
        /\ live' = IF u.does = "delete" THEN live \ {u.row} ELSE live
    BY <1>9, <2>1
  <2>4. Answers'
    BY <1>1, <1>2, <2>1, <2>2, <2>3, LockedWriteAnswer
  <2>5. QED
    BY <1>1, <2>3, <2>4, ServedStays DEF AnswerWith
<1>14. CASE PendingWrite(request, u)
  <2>1. ~u.locked
    <3>1. PICK does, row, gone : u = Overtakable(does, row, gone)
      BY <1>14 DEF PendingWrite
    <3>2. QED
      BY <3>1, OvertakableForm
  <2>2. stage' = "write" /\ pending' = u /\ UNCHANGED <<answer, live>>
    BY <1>9, <2>1
  <2>3. ApiTypeOK'
    BY <1>1, <2>2 DEF ApiInvariant, ApiTypeOK
  <2>4. GuardsPassed'
    BY <1>1, <2>2 DEF ApiInvariant, GuardsPassed
  <2>5. HandlerAdmits'
    BY <1>1, <2>2 DEF ApiInvariant, HandlerAdmits, PartsOf
  <2>6. WritesOwn'
    BY <1>1, <1>14, <2>2 DEF WritesOwn, PendingWrite, Own
  <2>7. Answers'
    BY <1>1, <2>2, Unanswered DEF ApiInvariant, ApiTypeOK
  <2>8. QED
    BY <2>3, <2>4, <2>5, <2>6, <2>7 DEF ApiInvariant, Answers
<1>15. QED
  BY <1>5, <1>6, <1>8, <1>11, <1>12, <1>13, <1>14 DEF Effect

\* What is known of a request whose write is still to come.
LEMMA AboutToWrite ==
  ASSUME ApiInvariant, stage = "write"
  PROVE  /\ Served /\ PendingWrite(request, pending) /\ live \subseteq Rows
         /\ Succeeds(StatusFor(request, NoFacts(live), ""))
         /\ \A err : err # "" => Errs(StatusFor(request, NoFacts(live), err))
<1>1. Served
  BY PastGuards DEF ApiInvariant
<1>2. Coded(ServedBy(request, NoFacts(live)))
  BY HandlerSound DEF NoFacts, Sound
<1>3. PendingWrite(request, pending) /\ live \subseteq Rows
  BY DEF ApiInvariant, WritesOwn, ApiTypeOK
<1>4. Succeeds(StatusFor(request, NoFacts(live), ""))
  BY <1>2, StatusKinds
<1>5. \A err : err # "" => Errs(StatusFor(request, NoFacts(live), err))
  BY <1>2, StatusKinds
<1>6. QED
  BY <1>1, <1>3, <1>4, <1>5

\* A write that ends: what it may say and do.
LEMMA FinishStep ==
  ASSUME ApiInvariant, stage = "write", NEW err, NEW did, Finish(err, did),
         UNCHANGED <<request, left, grants, held>>, live' \subseteq Rows,
         err # "" => did = "none",
         err = "" => \/ request.route \in Deletions /\ request.target \notin live'
                     \/ request.route \notin Deletions /\ did # "none",
         did = "revive" => request.route \in Saves
  PROVE  ApiInvariant'
<1> DEFINE status == StatusFor(request, NoFacts(live), err)
<1>1. Served /\ PendingWrite(request, pending)
  BY AboutToWrite
<1>8. err = "" => ~Refused(status)
  BY AboutToWrite, RefusedApart
<1>9. err # "" => ~Succeeds(status)
  BY AboutToWrite, ErrsApart
<1>2. AnswerWith(status, {}, did, pending.row)
  BY DEF Finish
<1> HIDE DEF status
<1>3. Own(request, pending.row) /\ request.route \notin Reads \cup Asks
  BY <1>1 DEF PendingWrite
<1>4. Succeeds(status) =>
         /\ request.route \in Deletions => request.target \notin live'
         /\ request.route \notin Reads \cup Asks \cup Deletions => did # "none"
  BY <1>9
<1>5. Refused(status) => did = "none"
  BY <1>8
<1>10. /\ request' = request /\ held' = held
       /\ \A x \in {} : Own(request, x)
       /\ did # "none" => Own(request, pending.row) /\ request.route \notin Reads \cup Asks
  BY <1>3
<1>6. Answers'
  <2> DEFINE row == pending.row
             shows == {}
  <2>1. AnswerWith(status, shows, did, row) /\ \A x \in shows : Own(request, x)
    BY <1>2
  <2>2. did # "none" => Own(request, row) /\ request.route \notin Reads \cup Asks
    BY <1>10
  <2> HIDE DEF row, shows
  <2>3. QED
    BY <1>1, <1>4, <1>5, <1>10, <2>1, <2>2, AnswerSound
<1>7. QED
  BY <1>2, <1>6, ServedStays DEF AnswerWith

\* The write to come fails, or finds the row there or gone.
LEMMA WriteFailsStep ==
  ASSUME ApiInvariant, WriteFails
  PROVE  ApiInvariant'
BY AboutToWrite, FinishStep DEF WriteFails

LEMMA WriteUpdateStep ==
  ASSUME ApiInvariant, WriteUpdate
  PROVE  ApiInvariant'
<1> DEFINE err == IF There THEN "" ELSE pending.gone
           did == IF There THEN "update" ELSE "none"
<1>1. stage = "write" /\ pending.does \in {"update", "blind"}
  BY DEF WriteUpdate
<1>2. /\ PendingWrite(request, pending) /\ live \subseteq Rows
      /\ UNCHANGED <<request, left, grants, held, live>>
  BY <1>1, AboutToWrite DEF WriteUpdate
<1>3. pending.does = "update" /\ pending.gone # "" /\ request.route \notin Deletions
  BY <1>1, <1>2 DEF PendingWrite
<1>4. Finish(err, did)
  BY <1>3 DEF WriteUpdate
<1>5. /\ err # "" => did = "none"
      /\ err = "" => did # "none"
      /\ did # "revive"
  BY <1>3
<1> HIDE DEF err, did
<1>6. QED
  BY <1>1, <1>2, <1>3, <1>4, <1>5, FinishStep

LEMMA WriteSaveStep ==
  ASSUME ApiInvariant, WriteSave
  PROVE  ApiInvariant'
<1> DEFINE did == IF There THEN "update" ELSE "revive"
<1>1. /\ stage = "write" /\ pending.does = "save" /\ live' = live \cup {pending.row}
      /\ UNCHANGED <<request, left, grants, held>>
  BY DEF WriteSave
<1>2. PendingWrite(request, pending) /\ live \subseteq Rows
  BY <1>1, AboutToWrite
<1>3. request.route \in Saves /\ request.route \notin Deletions /\ live' \subseteq Rows
  BY <1>1, <1>2, RouteKinds DEF PendingWrite
<1>4. Finish("", did) /\ did # "none"
  BY DEF WriteSave
<1> HIDE DEF did
<1>5. QED
  BY <1>1, <1>3, <1>4, FinishStep

LEMMA WriteDeleteStep ==
  ASSUME ApiInvariant, WriteDelete
  PROVE  ApiInvariant'
<1> DEFINE did == IF There THEN "delete" ELSE "none"
<1>1. /\ stage = "write" /\ pending.does = "delete" /\ live' = live \ {pending.row}
      /\ UNCHANGED <<request, left, grants, held>>
  BY DEF WriteDelete
<1>2. PendingWrite(request, pending) /\ live \subseteq Rows
  BY <1>1, AboutToWrite
<1>3. /\ request.route \in Deletions /\ request.target \notin live'
      /\ live' \subseteq Rows
  BY <1>1, <1>2 DEF PendingWrite
<1>4. Finish("", did) /\ did # "revive"
  BY DEF WriteDelete
<1> HIDE DEF did
<1>5. QED
  BY <1>1, <1>3, <1>4, FinishStep

\* A second read finds the row gone, or a save is still to come.
LEMMA ReadAgainStep ==
  ASSUME ApiInvariant, ReadAgain
  PROVE  ApiInvariant'
<1>1. /\ stage = "write" /\ pending.does = "reread"
      /\ UNCHANGED <<request, left, grants, held, live>>
  BY DEF ReadAgain
<1>2. PendingWrite(request, pending) /\ live \subseteq Rows
  BY <1>1, AboutToWrite
<1>3. request.route \in Saves /\ pending.gone # ""
  BY <1>1, <1>2 DEF PendingWrite
<1>4. CASE There
  <2>1. UNCHANGED <<stage, answer>>
    BY <1>4 DEF ReadAgain
  <2>2. pending' = Overtakable("save", pending.row, pending.gone)
    BY <1>4 DEF ReadAgain
  <2>3. /\ pending'.does = "save" /\ pending'.row = pending.row
        /\ pending'.gone = pending.gone
    BY <2>2, OvertakableForm
  <2>4. PendingWrite(request, pending')
    BY <1>2, <1>3, <2>2, <2>3 DEF PendingWrite
  <2>5. WritesOwn'
    BY <1>1, <2>4 DEF WritesOwn, PendingWrite, Own
  <2>6. ApiTypeOK' /\ GuardsPassed'
    BY <1>1, <2>1 DEF ApiInvariant, ApiTypeOK, GuardsPassed
  <2>7. HandlerAdmits'
    BY <1>1, <2>1 DEF ApiInvariant, HandlerAdmits, PartsOf
  <2>8. Answers'
    BY <1>1, <2>1, Unanswered DEF ApiInvariant, ApiTypeOK
  <2>9. QED
    BY <2>5, <2>6, <2>7, <2>8 DEF ApiInvariant, Answers
<1>5. CASE ~There
  <2>1. Finish(pending.gone, "none")
    BY <1>5 DEF ReadAgain
  <2>2. QED
    BY <1>1, <1>2, <1>3, <2>1, FinishStep
<1>6. QED
  BY <1>4, <1>5

\* A guard that was passed stays passed when more permissions are held.
LEMMA GrantsChangeStep ==
  ASSUME ApiInvariant, GrantsChange
  PROVE  ApiInvariant'
<1>1. /\ UNCHANGED <<request, stage, left, live, pending, answer>>
      /\ held \subseteq held' /\ grants' \subseteq held'
      /\ stage \notin {"idle", "auth", "done"}
  BY DEF GrantsChange, Underway
<1>2. ApiTypeOK'
  BY <1>1 DEF ApiInvariant, ApiTypeOK
<1>3. GuardsPassed'
  <2> DEFINE c == request.c
  <2>1. c.parent \in BOOLEAN /\ c.pinned \in BOOLEAN
    BY <1>1, CallerBooleans DEF ApiInvariant
  <2> HIDE DEF c
  <2>2. ASSUME NEW guard \in Guards \X Permissions, Cleared(guard, c, held)
        PROVE  Cleared(guard, c, held')
    <3>1. guard[1] \in Guards /\ guard[2] \in Permissions
      OBVIOUS
    <3>2. QED
      BY <1>1, <2>1, <2>2, <3>1, ClearedLater DEF Cleared
  <2>3. ASSUME request.route \in ApiRoutes,
               NEW i \in DOMAIN registerRoutes[request.route]
        PROVE  registerRoutes[request.route][i] \in Guards \X Permissions
    <3>1. registerRoutes[request.route] \in Seq(Guards \X Permissions)
      BY <2>3, GuardedRoutes
    <3>2. QED
      BY <2>3, <3>1
  <2>4. QED
    BY <1>1, <2>2, <2>3 DEF ApiInvariant, GuardsPassed, c
<1>4. HandlerAdmits' /\ WritesOwn'
  BY <1>1 DEF ApiInvariant, HandlerAdmits, WritesOwn, PartsOf, PendingWrite, Own
<1>5. Answers'
  BY <1>1, Unanswered DEF ApiInvariant, ApiTypeOK
<1>6. QED
  BY <1>2, <1>3, <1>4, <1>5 DEF ApiInvariant, Answers

\* The invariant does not depend on which rows are left, before the answer.
LEMMA RowDeletedStep ==
  ASSUME ApiInvariant, RowDeleted
  PROVE  ApiInvariant'
<1>1. /\ UNCHANGED <<request, stage, left, grants, held, pending, answer>>
      /\ live' \subseteq live /\ stage \notin {"idle", "auth", "done"}
  BY DEF RowDeleted, Underway
<1>2. ApiTypeOK'
  BY <1>1 DEF ApiInvariant, ApiTypeOK
<1>3. GuardsPassed' /\ WritesOwn'
  BY <1>1 DEF ApiInvariant, GuardsPassed, WritesOwn, PendingWrite, Own
<1>4. HandlerAdmits'
  BY <1>1 DEF ApiInvariant, HandlerAdmits, PartsOf
<1>5. Answers'
  BY <1>1, Unanswered DEF ApiInvariant, ApiTypeOK
<1>6. QED
  BY <1>2, <1>3, <1>4, <1>5 DEF ApiInvariant, Answers

LEMMA StutterStep ==
  ASSUME ApiInvariant, UNCHANGED vars
  PROVE  ApiInvariant'
<1>1. UNCHANGED <<request, stage, left, grants, held, live, pending, answer>>
  BY DEF vars
<1>2. ApiTypeOK' /\ GuardsPassed'
  BY <1>1 DEF ApiInvariant, ApiTypeOK, GuardsPassed
<1>3. HandlerAdmits'
  BY <1>1 DEF ApiInvariant, HandlerAdmits, PartsOf
<1>4. WritesOwn'
  BY <1>1 DEF ApiInvariant, WritesOwn, PendingWrite, Own
<1>5. OnlyOwnRows'
  BY <1>1 DEF ApiInvariant, OnlyOwnRows, Answered, Internal
<1>6. ChangesArePermitted'
  BY <1>1 DEF ApiInvariant, ChangesArePermitted, Answered, Internal, PartsOf
<1>7. AnswersAreTrue'
  BY <1>1 DEF ApiInvariant, AnswersAreTrue, Answered, Succeeded, Failed
<1>8. QED
  BY <1>2, <1>3, <1>4, <1>5, <1>6, <1>7 DEF ApiInvariant

\* Every step preserves the invariant.
LEMMA InvariantStep == ApiInvariant /\ [Next]_vars => ApiInvariant'
BY ArriveStep, AuthenticateStep, CheckStep, EnterHandlerStep, RunUseCaseStep,
   WriteFailsStep, WriteUpdateStep, WriteSaveStep, WriteDeleteStep, ReadAgainStep,
   GrantsChangeStep, RowDeletedStep, StutterStep
DEF Next, Serve

\* The inductive invariant.
THEOREM InvariantHolds == ApiSpec => []ApiInvariant
<1>1. Init => ApiInvariant
  BY InitInvariant
<1>2. QED
  BY <1>1, InvariantStep, PTL DEF ApiSpec

-----------------------------------------------------------------------------
(* What a caller is told of a row of others. *)

LEMMA class_ClassConceals ==
  ASSUME NEW r, NEW w, r.target \notin OfTenant(r, w.live)
  PROVE  ShowsFound(r, classRead_Class(r, w), "NotFound").err = "NotFound"
BY DEF Unless, Refuses, Result, ??, When, Finds, ShowsFound, classRead_Class

LEMMA class_SchedulesConceals ==
  ASSUME NEW r, NEW w, r.target \notin OfTenant(r, w.live)
  PROVE  ShowsFound(r, classRead_Schedules(r, w), "NotFound").err = "NotFound"
BY DEF Unless, Refuses, Result, ??, When, Finds, ShowsFound, classRead_Schedules

LEMMA UpdateClassConceals ==
  ASSUME NEW r, NEW w, r.target \notin OfTenant(r, w.live)
  PROVE  UpdateClass(r, w).err = "ClassNotFound"
BY DEF Unless, Refuses, Result, ??, When, Finds, UpdateClass

LEMMA UpdateClassPublicationConceals ==
  ASSUME NEW r, NEW w, r.target \notin OfTenant(r, w.live)
  PROVE  UpdateClassPublication(r, w).err = "ClassNotFound"
BY DEF Unless, Refuses, Result, ??, When, Finds, UpdateClassPublication,
   class_UpdatePublicationStatus

LEMMA DeleteScheduleConceals ==
  ASSUME NEW r, NEW w, r.target \notin OfTenant(r, w.live)
  PROVE  DeleteSchedule(r, w).err = "ScheduleNotFound"
BY DEF Unless, Refuses, Result, ??, When, Finds, DeleteSchedule,
   schedule_GetByIDForTenantForUpdate

LEMMA ChangeSchedulePermanentConceals ==
  ASSUME NEW r, NEW w, r.target \notin OfTenant(r, w.live)
  PROVE  ChangeSchedulePermanent(r, w).err
            = IF Is("unfit", w) THEN "InvalidScheduleChange" ELSE "ScheduleNotFound"
BY DEF Unless, Refuses, Result, ??, When, Finds, ChangeSchedulePermanent,
   schedule_GetByIDForTenantForUpdate

LEMMA ChangeTutorPermanentConceals ==
  ASSUME NEW r, NEW w, r.target \notin OfTenant(r, w.live)
  PROVE  ChangeTutorPermanent(r, w).err = "ScheduleNotFound"
BY DEF Unless, Refuses, Result, ??, When, Finds, ChangeTutorPermanent,
   schedule_GetByIDForTenant

LEMMA RescheduleSessionConceals ==
  ASSUME NEW r, NEW w, r.target \notin OfTenant(r, w.live)
  PROVE  RescheduleSession(r, w).err = "SessionNotFound"
BY DEF Unless, Refuses, Result, ??, When, Finds, RescheduleSession,
   session_GetByIDForTenant

LEMMA ChangeTutorTemporaryConceals ==
  ASSUME NEW r, NEW w, r.target \notin OfTenant(r, w.live)
  PROVE  ChangeTutorTemporary(r, w).err = "SessionNotFound"
BY DEF Unless, Refuses, Result, ??, When, Finds, ChangeTutorTemporary,
   session_GetByIDForTenant

LEMMA attendance_UpdateUseConceals ==
  ASSUME NEW r, NEW w, r.target \notin OfTenant(r, w.live)
  PROVE  attendance_UpdateUse(r, w).err = "NotFound"
BY DEF Unless, Refuses, Result, ??, When, Finds, attendance_UpdateUse,
   attendance_GetByIDForTenant

LEMMA report_UpdateUseConceals ==
  ASSUME NEW r, NEW w, r.target \notin OfTenant(r, w.live)
  PROVE  report_UpdateUse(r, w).err = "NotFound"
BY DEF Unless, Refuses, Result, ??, When, Finds, report_UpdateUse,
   report_GetByIDForTenant

LEMMA report_DeleteUseConceals ==
  ASSUME NEW r, NEW w, r.target \notin OfTenant(r, w.live)
  PROVE  report_DeleteUse(r, w).err = "NotFound"
BY DEF Unless, Refuses, Result, ??, When, Finds, report_DeleteUse,
   report_GetByIDForTenant

LEMMA request_ApproveConceals ==
  ASSUME NEW r, NEW w, r.target \notin OfTenant(r, w.live)
  PROVE  request_purchase(r, w, request_LockForTenant(r, w)).err = "NotFound"
BY DEF Unless, Refuses, Result, ??, When, Finds, request_purchase, request_LockForTenant

LEMMA request_RejectConceals ==
  ASSUME NEW r, NEW w, r.target \notin OfTenant(r, w.live)
  PROVE  request_Reject(r, w).err
            = IF Is("long", w) THEN "TooLong"
              ELSE IF Is("times", w) THEN "Slots" ELSE "NotFound"
BY DEF Unless, Refuses, Result, ??, When, Finds, request_Reject, request_LockForTenant,
   validatePrivateSlots

LEMMA SendPaymentLinkUseConceals ==
  ASSUME NEW r, NEW w, r.target \notin OfCaller(r, w.live)
  PROVE  SendPaymentLinkUse(r, w).err = "NotFound"
<1>1. r.target \notin OfTenant(r, request_privateRequestScope(r, w))
  BY DEF OfTenant, request_privateRequestScope
<1>2. QED
  BY <1>1 DEF Unless, Refuses, Result, ??, When, Finds, SendPaymentLinkUse

LEMMA CancelPendingEnrollmentConceals ==
  ASSUME NEW r, NEW w, r.target \notin OfCaller(r, w.live)
  PROVE  CancelPendingEnrollment(r, w).err = "EnrollmentNotFound"
BY DEF Unless, Refuses, Result, ??, When, Finds, CancelPendingEnrollment,
   enrollment_GetByIDForAccess

LEMMA review_UpsertConceals ==
  ASSUME NEW r, NEW w, r.target \notin OfParent(r, w.live)
  PROVE  review_Upsert(r, w).err = "NotEligible"
BY DEF Unless, Refuses, Result, ??, When, Finds, review_Upsert

LEMMA request_AcceptRecommendationConceals ==
  ASSUME NEW r, NEW w, r.target \notin OfParent(r, w.live)
  PROVE  request_purchase(r, w, request_LockForParent(r, w)).err = "NotFound"
BY DEF Unless, Refuses, Result, ??, When, Finds, request_purchase, request_LockForParent

LEMMA request_TransitionConceals ==
  ASSUME NEW r, NEW w, r.target \notin OfParent(r, w.live)
  PROVE  request_Transition(r, w).err = "NotFound"
BY DEF Unless, Refuses, Result, ??, When, Finds, request_Transition,
   request_LockForParent

LEMMA student_UpdateUseConceals ==
  ASSUME NEW r, NEW w, r.target \notin OfCaller(r, w.live)
  PROVE  student_UpdateUse(r, w).err = "StudentNotFound"
BY DEF Unless, Refuses, Result, ??, When, Finds, student_UpdateUse, student_accessQuery

LEMMA student_GetConceals ==
  ASSUME NEW r, NEW w, r.target \notin OfCaller(r, w.live)
  PROVE  ShowsFound(r, student_accessQuery(r, w), "StudentNotFound").err = "StudentNotFound"
BY DEF Unless, Refuses, Result, ??, When, Finds, ShowsFound, student_accessQuery

LEMMA student_DeleteUseConceals ==
  ASSUME NEW r, NEW w, r.target \notin OfCaller(r, w.live)
  PROVE  student_DeleteUse(r, w).err = "StudentNotFound"
BY DEF Unless, Refuses, Result, ??, When, Finds, student_DeleteUse, student_accessQuery

LEMMA enrollment_GetQueryConceals ==
  ASSUME NEW r, NEW w, r.target \notin OfCaller(r, w.live)
  PROVE  ShowsFound(r, enrollment_GetByIDForAccess(r, w), "NotFound").err = "NotFound"
BY DEF Unless, Refuses, Result, ??, When, Finds, ShowsFound, enrollment_GetByIDForAccess

LEMMA request_GetConceals ==
  ASSUME NEW r, NEW w, r.target \notin OfCaller(r, w.live)
  PROVE  ShowsFound(r, request_privateRequestScope(r, w), "NotFound").err = "NotFound"
BY DEF Unless, Refuses, Result, ??, When, Finds, ShowsFound, request_privateRequestScope

LEMMA report_GetConceals ==
  ASSUME NEW r, NEW w, r.target \notin OfCaller(r, w.live)
  PROVE  report_Get(r, w).use.err = "NotFound"
<1>1. CASE r.c.parent
  BY <1>1 DEF report_Get, Handler, HandlerAsking, ShowsFound, Unless, Refuses, Result,
     When,
     Finds, report_GetForParent, OfCaller
<1>2. CASE ~r.c.parent
  BY <1>2 DEF report_Get, Handler, HandlerAsking, ShowsFound, Unless, Refuses, Result,
     When,
     Finds, report_GetByIDForTenant, OfCaller
<1>3. QED
  BY <1>1, <1>2

LEMMA attendance_GetConceals ==
  ASSUME NEW r, NEW w, r.target \notin OfCaller(r, w.live)
  PROVE  attendance_Get(r, w).use.err = "NotFound"
<1>1. CASE r.c.parent
  BY <1>1 DEF attendance_Get, Handler, HandlerAsking, ShowsFound, Unless, Refuses, Result,
     When, Finds, attendance_GetForParent, OfCaller
<1>2. CASE ~r.c.parent
  BY <1>2 DEF attendance_Get, Handler, HandlerAsking, ShowsFound, Unless, Refuses, Result,
     When, Finds, attendance_GetByIDForTenant, OfCaller
<1>3. QED
  BY <1>1, <1>2

\* To a parent, a mark of no session and one of another's enrollment differ
\* in the error, not in the status.
LEMMA attendance_GetBySessionConceals ==
  ASSUME NEW r, NEW w, r.target \notin OfCaller(r, w.live)
  PROVE  \/ attendance_GetBySession(r, w).use.err = "SessionNotFound"
         \/ attendance_GetBySession(r, w).use.err = "AttendanceNotFound"
<1>1. CASE r.c.parent
  BY <1>1 DEF attendance_GetBySession, Handler, HandlerAsking,
     attendance_GetBySessionForParent, Unless, Refuses, Result, ??, When, Finds,
     enrollment_GetByIDForAccess
<1>2. CASE ~r.c.parent
  BY <1>2 DEF attendance_GetBySession, Handler, HandlerAsking, attendance_GetBySessionUse,
     Unless, Refuses, Result, ??, When, Finds, session_FindSessionForAttendance, OfCaller
<1>3. QED
  BY <1>1, <1>2

\* A session is hidden from a parent without an enrollment in its group.
UnseenSession(r, w) ==
    IF r.c.parent THEN OfParent(r, Cohort(r, w)) = {}
    ELSE r.target \notin OfTenant(r, w.live)

\* The readers of sessions.
LEMMA session_GetConceals ==
  ASSUME NEW r, NEW w, UnseenSession(r, w)
  PROVE  session_Get(r, w).use.err = "NotFound"
<1>1. CASE r.c.parent
  <2>1. session_GetSessionForParent(r, w) = {}
    BY <1>1 DEF UnseenSession, session_GetSessionForParent, parentSessionOwnership
  <2>2. QED
    BY <1>1, <2>1 DEF session_Get, Handler, HandlerAsking, GetSessionForParent, Unless,
       Refuses, Result, When
<1>2. CASE ~r.c.parent
  BY <1>2 DEF UnseenSession, session_Get, Handler, HandlerAsking, GetSession, ShowsFound,
     Unless, Refuses, Result, When, Finds, session_GetByIDForTenant
<1>3. QED
  BY <1>1, <1>2

LEMMA session_GetSessionAttendeesConceals ==
  ASSUME NEW r, NEW w, UnseenSession(r, w)
  PROVE  session_GetSessionAttendees(r, w).use.err = "SessionNotFound"
<1>1. CASE r.c.parent
  <2>1. session_GetSessionForParent(r, w) = {}
    BY <1>1 DEF UnseenSession, session_GetSessionForParent, parentSessionOwnership
  <2>2. QED
    BY <1>1, <2>1 DEF session_GetSessionAttendees, Handler, HandlerAsking,
       GetSessionAttendeesForParent, Unless, Refuses, Result, ??, When
<1>2. CASE ~r.c.parent
  BY <1>2 DEF UnseenSession, session_GetSessionAttendees, Handler, HandlerAsking,
     GetSessionAttendees, Unless, Refuses, Result, ??, When, Finds, session_GetByIDForTenant
<1>3. QED
  BY <1>1, <1>2

\* The same error under the same codes is the same status.
Conveys(r, w, codes, e) ==
    ServedBy(r, w).codes = codes /\ ServedBy(r, w).use.err = e

\* A failing database is told with the status that the codes give it.
LEMMA ConveyedDatabase ==
  ASSUME NEW r, NEW w, "db" \in w.facts
  PROVE  Told(r, w) = StatusOf(ServedBy(r, w).codes, "Database")
<1>1. Outcome(r, w).err = "Database"
  BY DEF Outcome, Refuses, Result, Is
<1>2. QED
  BY <1>1 DEF Told, StatusFor

\* Otherwise the error decides.
LEMMA Conveyed ==
  ASSUME NEW r, NEW w, NEW codes, NEW e, e # "", Conveys(r, w, codes, e),
         "db" \notin w.facts
  PROVE  Told(r, w) = StatusOf(codes, e)
<1>1. Outcome(r, w).err = e
  BY DEF Outcome, Conveys, Is
<1>2. QED
  BY <1>1 DEF Told, StatusFor, Conveys

LEMMA SameTold ==
  ASSUME NEW r, NEW q, NEW w, NEW codes, NEW e, e # "", Conveys(r, w, codes, e),
         Conveys(q, w, codes, e)
  PROVE  Told(r, w) = Told(q, w)
<1>1. CASE "db" \in w.facts
  BY <1>1, ConveyedDatabase DEF Conveys
<1>2. CASE "db" \notin w.facts
  <2>1. Outcome(r, w).err = e /\ Outcome(q, w).err = e
    BY <1>2 DEF Outcome, Conveys, Is
  <2>2. Told(r, w) = StatusOf(codes, e)
    BY <2>1 DEF Told, StatusFor, Conveys
  <2>3. Told(q, w) = StatusOf(codes, e)
    BY <2>1 DEF Told, StatusFor, Conveys
  <2>4. QED
    BY <2>2, <2>3
<1>3. QED
  BY <1>1, <1>2

\* The routes of staff.
StaffHiding ==
    {"GET /classes/:id",
     "GET /classes/:id/schedules",
     "PATCH /classes/:id",
     "PATCH /classes/:id/published",
     "DELETE /schedules/:id",
     "PUT /schedules/:id/permanent",
     "PATCH /schedules/:id/tutor-permanent",
     "POST /sessions/:id/reschedule",
     "PATCH /sessions/:id/substitute-tutor",
     "PATCH /attendance/:id",
     "PATCH /reports/:id",
     "DELETE /reports/:id",
     "POST /schedule-requests/:id/approve",
     "POST /schedule-requests/:id/reject"}

LEMMA StaffConceals ==
  ASSUME NEW r, NEW q, NEW w, q.route = r.route, r.target \notin OfTenant(r, w.live),
         q.target \notin OfTenant(q, w.live),
         r.route \in StaffHiding
  PROVE  Told(r, w) = Told(q, w)
<1>1. CASE r.route = "GET /classes/:id"
  <2> DEFINE codes == class_Class(r, w).codes
  <2>1. /\ ServedBy(r, w) = class_Class(r, w)
        /\ ServedBy(q, w) = class_Class(q, w)
    BY <1>1 DEF ServedBy
  <2>2. /\ class_Class(q, w).codes = codes
        /\ class_Class(r, w).use
             = ShowsFound(r, classRead_Class(r, w), "NotFound")
        /\ class_Class(q, w).use
             = ShowsFound(q, classRead_Class(q, w), "NotFound")
    BY DEF class_Class, Handler, HandlerAsking, classReadResult
  <2>3. /\ ShowsFound(r, classRead_Class(r, w), "NotFound").err = "NotFound"
        /\ ShowsFound(q, classRead_Class(q, w), "NotFound").err = "NotFound"
    BY class_ClassConceals
  <2> HIDE DEF codes
  <2>5. Conveys(r, w, codes, "NotFound")
    BY <2>1, <2>2, <2>3 DEF Conveys, codes
  <2>6. Conveys(q, w, codes, "NotFound")
    BY <2>1, <2>2, <2>3 DEF Conveys
  <2>7. QED
    BY <2>5, <2>6, SameTold
<1>2. CASE r.route = "GET /classes/:id/schedules"
  <2> DEFINE codes == class_Schedules(r, w).codes
  <2>1. /\ ServedBy(r, w) = class_Schedules(r, w)
        /\ ServedBy(q, w) = class_Schedules(q, w)
    BY <1>2 DEF ServedBy
  <2>2. /\ class_Schedules(q, w).codes = codes
        /\ class_Schedules(r, w).use
             = ShowsFound(r, classRead_Schedules(r, w), "NotFound")
        /\ class_Schedules(q, w).use
             = ShowsFound(q, classRead_Schedules(q, w), "NotFound")
    BY DEF class_Schedules, Handler, HandlerAsking, classReadResult
  <2>3. /\ ShowsFound(r, classRead_Schedules(r, w), "NotFound").err = "NotFound"
        /\ ShowsFound(q, classRead_Schedules(q, w), "NotFound").err = "NotFound"
    BY class_SchedulesConceals
  <2> HIDE DEF codes
  <2>5. Conveys(r, w, codes, "NotFound")
    BY <2>1, <2>2, <2>3 DEF Conveys, codes
  <2>6. Conveys(q, w, codes, "NotFound")
    BY <2>1, <2>2, <2>3 DEF Conveys
  <2>7. QED
    BY <2>5, <2>6, SameTold
<1>3. CASE r.route = "PATCH /classes/:id"
  <2> DEFINE codes == class_Update(r, w).codes
  <2>1. /\ ServedBy(r, w) = class_Update(r, w)
        /\ ServedBy(q, w) = class_Update(q, w)
    BY <1>3 DEF ServedBy
  <2>2. /\ class_Update(q, w).codes = codes
        /\ class_Update(r, w).use
             = UpdateClass(r, w)
        /\ class_Update(q, w).use
             = UpdateClass(q, w)
    BY DEF class_Update, Handler, HandlerAsking
  <2>3. /\ UpdateClass(r, w).err = "ClassNotFound"
        /\ UpdateClass(q, w).err = "ClassNotFound"
    BY UpdateClassConceals
  <2> HIDE DEF codes
  <2>5. Conveys(r, w, codes, "ClassNotFound")
    BY <2>1, <2>2, <2>3 DEF Conveys, codes
  <2>6. Conveys(q, w, codes, "ClassNotFound")
    BY <2>1, <2>2, <2>3 DEF Conveys
  <2>7. QED
    BY <2>5, <2>6, SameTold
<1>4. CASE r.route = "PATCH /classes/:id/published"
  <2> DEFINE codes == class_UpdatePublication(r, w).codes
  <2>1. /\ ServedBy(r, w) = class_UpdatePublication(r, w)
        /\ ServedBy(q, w) = class_UpdatePublication(q, w)
    BY <1>4 DEF ServedBy
  <2>2. /\ class_UpdatePublication(q, w).codes = codes
        /\ class_UpdatePublication(r, w).use
             = UpdateClassPublication(r, w)
        /\ class_UpdatePublication(q, w).use
             = UpdateClassPublication(q, w)
    BY DEF class_UpdatePublication, Handler, HandlerAsking
  <2>3. /\ UpdateClassPublication(r, w).err = "ClassNotFound"
        /\ UpdateClassPublication(q, w).err = "ClassNotFound"
    BY UpdateClassPublicationConceals
  <2> HIDE DEF codes
  <2>5. Conveys(r, w, codes, "ClassNotFound")
    BY <2>1, <2>2, <2>3 DEF Conveys, codes
  <2>6. Conveys(q, w, codes, "ClassNotFound")
    BY <2>1, <2>2, <2>3 DEF Conveys
  <2>7. QED
    BY <2>5, <2>6, SameTold
<1>5. CASE r.route = "DELETE /schedules/:id"
  <2> DEFINE codes == schedule_Delete(r, w).codes
  <2>1. /\ ServedBy(r, w) = schedule_Delete(r, w)
        /\ ServedBy(q, w) = schedule_Delete(q, w)
    BY <1>5 DEF ServedBy
  <2>2. /\ schedule_Delete(q, w).codes = codes
        /\ schedule_Delete(r, w).use
             = DeleteSchedule(r, w)
        /\ schedule_Delete(q, w).use
             = DeleteSchedule(q, w)
    BY DEF schedule_Delete, Handler, HandlerAsking
  <2>3. /\ DeleteSchedule(r, w).err = "ScheduleNotFound"
        /\ DeleteSchedule(q, w).err = "ScheduleNotFound"
    BY DeleteScheduleConceals
  <2> HIDE DEF codes
  <2>5. Conveys(r, w, codes, "ScheduleNotFound")
    BY <2>1, <2>2, <2>3 DEF Conveys, codes
  <2>6. Conveys(q, w, codes, "ScheduleNotFound")
    BY <2>1, <2>2, <2>3 DEF Conveys
  <2>7. QED
    BY <2>5, <2>6, SameTold
<1>6. CASE r.route = "PUT /schedules/:id/permanent"
  <2> DEFINE codes == schedule_ChangeSchedulePermanent(r, w).codes
             e == IF Is("unfit", w) THEN "InvalidScheduleChange" ELSE "ScheduleNotFound"
  <2>1. /\ ServedBy(r, w) = schedule_ChangeSchedulePermanent(r, w)
        /\ ServedBy(q, w) = schedule_ChangeSchedulePermanent(q, w)
    BY <1>6 DEF ServedBy
  <2>2. /\ schedule_ChangeSchedulePermanent(q, w).codes = codes
        /\ schedule_ChangeSchedulePermanent(r, w).use
             = ChangeSchedulePermanent(r, w)
        /\ schedule_ChangeSchedulePermanent(q, w).use
             = ChangeSchedulePermanent(q, w)
    BY DEF schedule_ChangeSchedulePermanent, Handler, HandlerAsking
  <2>3. /\ ChangeSchedulePermanent(r, w).err = e
        /\ ChangeSchedulePermanent(q, w).err = e
    BY ChangeSchedulePermanentConceals
  <2>4. e # ""
    OBVIOUS
  <2> HIDE DEF codes, e
  <2>5. Conveys(r, w, codes, e)
    BY <2>1, <2>2, <2>3 DEF Conveys, codes
  <2>6. Conveys(q, w, codes, e)
    BY <2>1, <2>2, <2>3 DEF Conveys
  <2>7. QED
    BY <2>4, <2>5, <2>6, SameTold
<1>7. CASE r.route = "PATCH /schedules/:id/tutor-permanent"
  <2> DEFINE codes == schedule_ChangeTutorPermanent(r, w).codes
  <2>1. /\ ServedBy(r, w) = schedule_ChangeTutorPermanent(r, w)
        /\ ServedBy(q, w) = schedule_ChangeTutorPermanent(q, w)
    BY <1>7 DEF ServedBy
  <2>2. /\ schedule_ChangeTutorPermanent(q, w).codes = codes
        /\ schedule_ChangeTutorPermanent(r, w).use
             = ChangeTutorPermanent(r, w)
        /\ schedule_ChangeTutorPermanent(q, w).use
             = ChangeTutorPermanent(q, w)
    BY DEF schedule_ChangeTutorPermanent, Handler, HandlerAsking
  <2>3. /\ ChangeTutorPermanent(r, w).err = "ScheduleNotFound"
        /\ ChangeTutorPermanent(q, w).err = "ScheduleNotFound"
    BY ChangeTutorPermanentConceals
  <2> HIDE DEF codes
  <2>5. Conveys(r, w, codes, "ScheduleNotFound")
    BY <2>1, <2>2, <2>3 DEF Conveys, codes
  <2>6. Conveys(q, w, codes, "ScheduleNotFound")
    BY <2>1, <2>2, <2>3 DEF Conveys
  <2>7. QED
    BY <2>5, <2>6, SameTold
<1>8. CASE r.route = "POST /sessions/:id/reschedule"
  <2> DEFINE codes == session_Reschedule(r, w).codes
  <2>1. /\ ServedBy(r, w) = session_Reschedule(r, w)
        /\ ServedBy(q, w) = session_Reschedule(q, w)
    BY <1>8 DEF ServedBy
  <2>2. /\ session_Reschedule(q, w).codes = codes
        /\ session_Reschedule(r, w).use
             = RescheduleSession(r, w)
        /\ session_Reschedule(q, w).use
             = RescheduleSession(q, w)
    BY DEF session_Reschedule, Handler, HandlerAsking
  <2>3. /\ RescheduleSession(r, w).err = "SessionNotFound"
        /\ RescheduleSession(q, w).err = "SessionNotFound"
    BY RescheduleSessionConceals
  <2> HIDE DEF codes
  <2>5. Conveys(r, w, codes, "SessionNotFound")
    BY <2>1, <2>2, <2>3 DEF Conveys, codes
  <2>6. Conveys(q, w, codes, "SessionNotFound")
    BY <2>1, <2>2, <2>3 DEF Conveys
  <2>7. QED
    BY <2>5, <2>6, SameTold
<1>9. CASE r.route = "PATCH /sessions/:id/substitute-tutor"
  <2> DEFINE codes == session_ChangeTutorTemporary(r, w).codes
  <2>1. /\ ServedBy(r, w) = session_ChangeTutorTemporary(r, w)
        /\ ServedBy(q, w) = session_ChangeTutorTemporary(q, w)
    BY <1>9 DEF ServedBy
  <2>2. /\ session_ChangeTutorTemporary(q, w).codes = codes
        /\ session_ChangeTutorTemporary(r, w).use
             = ChangeTutorTemporary(r, w)
        /\ session_ChangeTutorTemporary(q, w).use
             = ChangeTutorTemporary(q, w)
    BY DEF session_ChangeTutorTemporary, Handler, HandlerAsking
  <2>3. /\ ChangeTutorTemporary(r, w).err = "SessionNotFound"
        /\ ChangeTutorTemporary(q, w).err = "SessionNotFound"
    BY ChangeTutorTemporaryConceals
  <2> HIDE DEF codes
  <2>5. Conveys(r, w, codes, "SessionNotFound")
    BY <2>1, <2>2, <2>3 DEF Conveys, codes
  <2>6. Conveys(q, w, codes, "SessionNotFound")
    BY <2>1, <2>2, <2>3 DEF Conveys
  <2>7. QED
    BY <2>5, <2>6, SameTold
<1>10. CASE r.route = "PATCH /attendance/:id"
  <2> DEFINE codes == attendance_Update(r, w).codes
  <2>1. /\ ServedBy(r, w) = attendance_Update(r, w)
        /\ ServedBy(q, w) = attendance_Update(q, w)
    BY <1>10 DEF ServedBy
  <2>2. /\ attendance_Update(q, w).codes = codes
        /\ attendance_Update(r, w).use
             = attendance_UpdateUse(r, w)
        /\ attendance_Update(q, w).use
             = attendance_UpdateUse(q, w)
    BY DEF attendance_Update, Handler, HandlerAsking
  <2>3. /\ attendance_UpdateUse(r, w).err = "NotFound"
        /\ attendance_UpdateUse(q, w).err = "NotFound"
    BY attendance_UpdateUseConceals
  <2> HIDE DEF codes
  <2>5. Conveys(r, w, codes, "NotFound")
    BY <2>1, <2>2, <2>3 DEF Conveys, codes
  <2>6. Conveys(q, w, codes, "NotFound")
    BY <2>1, <2>2, <2>3 DEF Conveys
  <2>7. QED
    BY <2>5, <2>6, SameTold
<1>11. CASE r.route = "PATCH /reports/:id"
  <2> DEFINE codes == report_UpdateHandler(r, w).codes
  <2>1. /\ ServedBy(r, w) = report_UpdateHandler(r, w)
        /\ ServedBy(q, w) = report_UpdateHandler(q, w)
    BY <1>11 DEF ServedBy
  <2>2. /\ report_UpdateHandler(q, w).codes = codes
        /\ report_UpdateHandler(r, w).use
             = report_UpdateUse(r, w)
        /\ report_UpdateHandler(q, w).use
             = report_UpdateUse(q, w)
    BY DEF report_UpdateHandler, Handler, HandlerAsking
  <2>3. /\ report_UpdateUse(r, w).err = "NotFound"
        /\ report_UpdateUse(q, w).err = "NotFound"
    BY report_UpdateUseConceals
  <2> HIDE DEF codes
  <2>5. Conveys(r, w, codes, "NotFound")
    BY <2>1, <2>2, <2>3 DEF Conveys, codes
  <2>6. Conveys(q, w, codes, "NotFound")
    BY <2>1, <2>2, <2>3 DEF Conveys
  <2>7. QED
    BY <2>5, <2>6, SameTold
<1>12. CASE r.route = "DELETE /reports/:id"
  <2> DEFINE codes == report_DeleteHandler(r, w).codes
  <2>1. /\ ServedBy(r, w) = report_DeleteHandler(r, w)
        /\ ServedBy(q, w) = report_DeleteHandler(q, w)
    BY <1>12 DEF ServedBy
  <2>2. /\ report_DeleteHandler(q, w).codes = codes
        /\ report_DeleteHandler(r, w).use
             = report_DeleteUse(r, w)
        /\ report_DeleteHandler(q, w).use
             = report_DeleteUse(q, w)
    BY DEF report_DeleteHandler, Handler, HandlerAsking
  <2>3. /\ report_DeleteUse(r, w).err = "NotFound"
        /\ report_DeleteUse(q, w).err = "NotFound"
    BY report_DeleteUseConceals
  <2> HIDE DEF codes
  <2>5. Conveys(r, w, codes, "NotFound")
    BY <2>1, <2>2, <2>3 DEF Conveys, codes
  <2>6. Conveys(q, w, codes, "NotFound")
    BY <2>1, <2>2, <2>3 DEF Conveys
  <2>7. QED
    BY <2>5, <2>6, SameTold
<1>13. CASE r.route = "POST /schedule-requests/:id/approve"
  <2> DEFINE codes == request_Approve(r, w).codes
  <2>1. /\ ServedBy(r, w) = request_Approve(r, w)
        /\ ServedBy(q, w) = request_Approve(q, w)
    BY <1>13 DEF ServedBy
  <2>2. /\ request_Approve(q, w).codes = codes
        /\ request_Approve(r, w).use
             = request_purchase(r, w, request_LockForTenant(r, w))
        /\ request_Approve(q, w).use
             = request_purchase(q, w, request_LockForTenant(q, w))
    BY DEF request_Approve, Handler, HandlerAsking
  <2>3. /\ request_purchase(r, w, request_LockForTenant(r, w)).err = "NotFound"
        /\ request_purchase(q, w, request_LockForTenant(q, w)).err = "NotFound"
    BY request_ApproveConceals
  <2> HIDE DEF codes
  <2>5. Conveys(r, w, codes, "NotFound")
    BY <2>1, <2>2, <2>3 DEF Conveys, codes
  <2>6. Conveys(q, w, codes, "NotFound")
    BY <2>1, <2>2, <2>3 DEF Conveys
  <2>7. QED
    BY <2>5, <2>6, SameTold
<1>14. CASE r.route = "POST /schedule-requests/:id/reject"
  <2> DEFINE codes == request_RejectHandler(r, w).codes
             e == IF Is("long", w) THEN "TooLong"
                  ELSE IF Is("times", w) THEN "Slots" ELSE "NotFound"
  <2>1. /\ ServedBy(r, w) = request_RejectHandler(r, w)
        /\ ServedBy(q, w) = request_RejectHandler(q, w)
    BY <1>14 DEF ServedBy
  <2>2. /\ request_RejectHandler(q, w).codes = codes
        /\ request_RejectHandler(r, w).use
             = request_Reject(r, w)
        /\ request_RejectHandler(q, w).use
             = request_Reject(q, w)
    BY DEF request_RejectHandler, Handler, HandlerAsking
  <2>3. /\ request_Reject(r, w).err = e
        /\ request_Reject(q, w).err = e
    BY request_RejectConceals
  <2>4. e # ""
    OBVIOUS
  <2> HIDE DEF codes, e
  <2>5. Conveys(r, w, codes, e)
    BY <2>1, <2>2, <2>3 DEF Conveys, codes
  <2>6. Conveys(q, w, codes, e)
    BY <2>1, <2>2, <2>3 DEF Conveys
  <2>7. QED
    BY <2>4, <2>5, <2>6, SameTold
<1>15. QED
  BY <1>1, <1>2, <1>3, <1>4, <1>5, <1>6, <1>7, <1>8, <1>9, <1>10, <1>11, <1>12, <1>13,
     <1>14 DEF StaffHiding

\* The routes of parents.
ParentHiding ==
    {"PUT /enrollments/:id/review",
     "POST /schedule-requests/:id/recommendation/accept",
     "POST /schedule-requests/:id/recommendation/decline",
     "POST /schedule-requests/:id/cancel"}

LEMMA ParentConceals ==
  ASSUME NEW r, NEW q, NEW w, q.route = r.route, r.target \notin OfParent(r, w.live),
         q.target \notin OfParent(q, w.live),
         r.route \in ParentHiding
  PROVE  Told(r, w) = Told(q, w)
<1>1. CASE r.route = "PUT /enrollments/:id/review"
  <2> DEFINE codes == review_UpsertHandler(r, w).codes
  <2>1. /\ ServedBy(r, w) = review_UpsertHandler(r, w)
        /\ ServedBy(q, w) = review_UpsertHandler(q, w)
    BY <1>1 DEF ServedBy
  <2>2. /\ review_UpsertHandler(q, w).codes = codes
        /\ review_UpsertHandler(r, w).use
             = review_Upsert(r, w)
        /\ review_UpsertHandler(q, w).use
             = review_Upsert(q, w)
    BY DEF review_UpsertHandler, Handler, HandlerAsking
  <2>3. /\ review_Upsert(r, w).err = "NotEligible"
        /\ review_Upsert(q, w).err = "NotEligible"
    BY review_UpsertConceals
  <2> HIDE DEF codes
  <2>5. Conveys(r, w, codes, "NotEligible")
    BY <2>1, <2>2, <2>3 DEF Conveys, codes
  <2>6. Conveys(q, w, codes, "NotEligible")
    BY <2>1, <2>2, <2>3 DEF Conveys
  <2>7. QED
    BY <2>5, <2>6, SameTold
<1>2. CASE r.route = "POST /schedule-requests/:id/recommendation/accept"
  <2> DEFINE codes == request_AcceptRecommendation(r, w).codes
  <2>1. /\ ServedBy(r, w) = request_AcceptRecommendation(r, w)
        /\ ServedBy(q, w) = request_AcceptRecommendation(q, w)
    BY <1>2 DEF ServedBy
  <2>2. /\ request_AcceptRecommendation(q, w).codes = codes
        /\ request_AcceptRecommendation(r, w).use
             = request_purchase(r, w, request_LockForParent(r, w))
        /\ request_AcceptRecommendation(q, w).use
             = request_purchase(q, w, request_LockForParent(q, w))
    BY DEF request_AcceptRecommendation, Handler, HandlerAsking
  <2>3. /\ request_purchase(r, w, request_LockForParent(r, w)).err = "NotFound"
        /\ request_purchase(q, w, request_LockForParent(q, w)).err = "NotFound"
    BY request_AcceptRecommendationConceals
  <2> HIDE DEF codes
  <2>5. Conveys(r, w, codes, "NotFound")
    BY <2>1, <2>2, <2>3 DEF Conveys, codes
  <2>6. Conveys(q, w, codes, "NotFound")
    BY <2>1, <2>2, <2>3 DEF Conveys
  <2>7. QED
    BY <2>5, <2>6, SameTold
<1>3. CASE r.route = "POST /schedule-requests/:id/recommendation/decline"
  <2> DEFINE codes == request_DeclineRecommendation(r, w).codes
  <2>1. /\ ServedBy(r, w) = request_DeclineRecommendation(r, w)
        /\ ServedBy(q, w) = request_DeclineRecommendation(q, w)
    BY <1>3 DEF ServedBy
  <2>2. /\ request_DeclineRecommendation(q, w).codes = codes
        /\ request_DeclineRecommendation(r, w).use
             = request_Transition(r, w)
        /\ request_DeclineRecommendation(q, w).use
             = request_Transition(q, w)
    BY DEF request_DeclineRecommendation, Handler, HandlerAsking
  <2>3. /\ request_Transition(r, w).err = "NotFound"
        /\ request_Transition(q, w).err = "NotFound"
    BY request_TransitionConceals
  <2> HIDE DEF codes
  <2>5. Conveys(r, w, codes, "NotFound")
    BY <2>1, <2>2, <2>3 DEF Conveys, codes
  <2>6. Conveys(q, w, codes, "NotFound")
    BY <2>1, <2>2, <2>3 DEF Conveys
  <2>7. QED
    BY <2>5, <2>6, SameTold
<1>4. CASE r.route = "POST /schedule-requests/:id/cancel"
  <2> DEFINE codes == request_Cancel(r, w).codes
  <2>1. /\ ServedBy(r, w) = request_Cancel(r, w)
        /\ ServedBy(q, w) = request_Cancel(q, w)
    BY <1>4 DEF ServedBy
  <2>2. /\ request_Cancel(q, w).codes = codes
        /\ request_Cancel(r, w).use
             = request_Transition(r, w)
        /\ request_Cancel(q, w).use
             = request_Transition(q, w)
    BY DEF request_Cancel, Handler, HandlerAsking
  <2>3. /\ request_Transition(r, w).err = "NotFound"
        /\ request_Transition(q, w).err = "NotFound"
    BY request_TransitionConceals
  <2> HIDE DEF codes
  <2>5. Conveys(r, w, codes, "NotFound")
    BY <2>1, <2>2, <2>3 DEF Conveys, codes
  <2>6. Conveys(q, w, codes, "NotFound")
    BY <2>1, <2>2, <2>3 DEF Conveys
  <2>7. QED
    BY <2>5, <2>6, SameTold
<1>5. QED
  BY <1>1, <1>2, <1>3, <1>4 DEF ParentHiding

\* The routes of both.
CallerHiding ==
    {"POST /schedule-requests/:id/send-payment-link",
     "POST /enrollments/:id/cancel",
     "PATCH /students/:id",
     "GET /students/:id",
     "DELETE /students/:id",
     "GET /enrollments/:id",
     "GET /schedule-requests/:id"}

LEMMA CallerConceals ==
  ASSUME NEW r, NEW q, NEW w, q.route = r.route, r.target \notin OfCaller(r, w.live),
         q.target \notin OfCaller(q, w.live),
         r.route \in CallerHiding
  PROVE  Told(r, w) = Told(q, w)
<1>1. CASE r.route = "POST /schedule-requests/:id/send-payment-link"
  <2> DEFINE codes == SendPaymentLink(r, w).codes
  <2>1. /\ ServedBy(r, w) = SendPaymentLink(r, w)
        /\ ServedBy(q, w) = SendPaymentLink(q, w)
    BY <1>1 DEF ServedBy
  <2>2. /\ SendPaymentLink(q, w).codes = codes
        /\ SendPaymentLink(r, w).use
             = SendPaymentLinkUse(r, w)
        /\ SendPaymentLink(q, w).use
             = SendPaymentLinkUse(q, w)
    BY DEF SendPaymentLink, Handler, HandlerAsking
  <2>3. /\ SendPaymentLinkUse(r, w).err = "NotFound"
        /\ SendPaymentLinkUse(q, w).err = "NotFound"
    BY SendPaymentLinkUseConceals
  <2> HIDE DEF codes
  <2>5. Conveys(r, w, codes, "NotFound")
    BY <2>1, <2>2, <2>3 DEF Conveys, codes
  <2>6. Conveys(q, w, codes, "NotFound")
    BY <2>1, <2>2, <2>3 DEF Conveys
  <2>7. QED
    BY <2>5, <2>6, SameTold
<1>2. CASE r.route = "POST /enrollments/:id/cancel"
  <2> DEFINE codes == enrollment_Cancel(r, w).codes
  <2>1. /\ ServedBy(r, w) = enrollment_Cancel(r, w)
        /\ ServedBy(q, w) = enrollment_Cancel(q, w)
    BY <1>2 DEF ServedBy
  <2>2. /\ enrollment_Cancel(q, w).codes = codes
        /\ enrollment_Cancel(r, w).use
             = CancelPendingEnrollment(r, w)
        /\ enrollment_Cancel(q, w).use
             = CancelPendingEnrollment(q, w)
    BY DEF enrollment_Cancel, Handler, HandlerAsking
  <2>3. /\ CancelPendingEnrollment(r, w).err = "EnrollmentNotFound"
        /\ CancelPendingEnrollment(q, w).err = "EnrollmentNotFound"
    BY CancelPendingEnrollmentConceals
  <2> HIDE DEF codes
  <2>5. Conveys(r, w, codes, "EnrollmentNotFound")
    BY <2>1, <2>2, <2>3 DEF Conveys, codes
  <2>6. Conveys(q, w, codes, "EnrollmentNotFound")
    BY <2>1, <2>2, <2>3 DEF Conveys
  <2>7. QED
    BY <2>5, <2>6, SameTold
<1>3. CASE r.route = "PATCH /students/:id"
  <2> DEFINE codes == student_mutate(r, w, TRUE).codes
  <2>1. /\ ServedBy(r, w) = student_mutate(r, w, TRUE)
        /\ ServedBy(q, w) = student_mutate(q, w, TRUE)
    BY <1>3 DEF ServedBy
  <2>2. /\ student_mutate(q, w, TRUE).codes = codes
        /\ student_mutate(r, w, TRUE).use
             = student_UpdateUse(r, w)
        /\ student_mutate(q, w, TRUE).use
             = student_UpdateUse(q, w)
    BY DEF student_mutate, Handler, HandlerAsking
  <2>3. /\ student_UpdateUse(r, w).err = "StudentNotFound"
        /\ student_UpdateUse(q, w).err = "StudentNotFound"
    BY student_UpdateUseConceals
  <2> HIDE DEF codes
  <2>5. Conveys(r, w, codes, "StudentNotFound")
    BY <2>1, <2>2, <2>3 DEF Conveys, codes
  <2>6. Conveys(q, w, codes, "StudentNotFound")
    BY <2>1, <2>2, <2>3 DEF Conveys
  <2>7. QED
    BY <2>5, <2>6, SameTold
<1>4. CASE r.route = "GET /students/:id"
  <2> DEFINE codes == student_mutate(r, w, FALSE).codes
  <2>1. /\ ServedBy(r, w) = student_mutate(r, w, FALSE)
        /\ ServedBy(q, w) = student_mutate(q, w, FALSE)
    BY <1>4 DEF ServedBy
  <2>2. /\ student_mutate(q, w, FALSE).codes = codes
        /\ student_mutate(r, w, FALSE).use
             = ShowsFound(r, student_accessQuery(r, w), "StudentNotFound")
        /\ student_mutate(q, w, FALSE).use
             = ShowsFound(q, student_accessQuery(q, w), "StudentNotFound")
    BY DEF student_mutate, Handler, HandlerAsking
  <2>3. /\ ShowsFound(r, student_accessQuery(r, w), "StudentNotFound").err
             = "StudentNotFound"
        /\ ShowsFound(q, student_accessQuery(q, w), "StudentNotFound").err
             = "StudentNotFound"
    BY student_GetConceals
  <2> HIDE DEF codes
  <2>5. Conveys(r, w, codes, "StudentNotFound")
    BY <2>1, <2>2, <2>3 DEF Conveys, codes
  <2>6. Conveys(q, w, codes, "StudentNotFound")
    BY <2>1, <2>2, <2>3 DEF Conveys
  <2>7. QED
    BY <2>5, <2>6, SameTold
<1>5. CASE r.route = "DELETE /students/:id"
  <2> DEFINE codes == student_DeleteHandler(r, w).codes
  <2>1. /\ ServedBy(r, w) = student_DeleteHandler(r, w)
        /\ ServedBy(q, w) = student_DeleteHandler(q, w)
    BY <1>5 DEF ServedBy
  <2>2. /\ student_DeleteHandler(q, w).codes = codes
        /\ student_DeleteHandler(r, w).use
             = student_DeleteUse(r, w)
        /\ student_DeleteHandler(q, w).use
             = student_DeleteUse(q, w)
    BY DEF student_DeleteHandler, Handler, HandlerAsking
  <2>3. /\ student_DeleteUse(r, w).err = "StudentNotFound"
        /\ student_DeleteUse(q, w).err = "StudentNotFound"
    BY student_DeleteUseConceals
  <2> HIDE DEF codes
  <2>5. Conveys(r, w, codes, "StudentNotFound")
    BY <2>1, <2>2, <2>3 DEF Conveys, codes
  <2>6. Conveys(q, w, codes, "StudentNotFound")
    BY <2>1, <2>2, <2>3 DEF Conveys
  <2>7. QED
    BY <2>5, <2>6, SameTold
<1>6. CASE r.route = "GET /enrollments/:id"
  <2> DEFINE codes == enrollment_GetQuery(r, w).codes
  <2>1. /\ ServedBy(r, w) = enrollment_GetQuery(r, w)
        /\ ServedBy(q, w) = enrollment_GetQuery(q, w)
    BY <1>6 DEF ServedBy
  <2>2. /\ enrollment_GetQuery(q, w).codes = codes
        /\ enrollment_GetQuery(r, w).use
             = ShowsFound(r, enrollment_GetByIDForAccess(r, w), "NotFound")
        /\ enrollment_GetQuery(q, w).use
             = ShowsFound(q, enrollment_GetByIDForAccess(q, w), "NotFound")
    BY DEF enrollment_GetQuery, Handler, HandlerAsking
  <2>3. /\ ShowsFound(r, enrollment_GetByIDForAccess(r, w), "NotFound").err = "NotFound"
        /\ ShowsFound(q, enrollment_GetByIDForAccess(q, w), "NotFound").err = "NotFound"
    BY enrollment_GetQueryConceals
  <2> HIDE DEF codes
  <2>5. Conveys(r, w, codes, "NotFound")
    BY <2>1, <2>2, <2>3 DEF Conveys, codes
  <2>6. Conveys(q, w, codes, "NotFound")
    BY <2>1, <2>2, <2>3 DEF Conveys
  <2>7. QED
    BY <2>5, <2>6, SameTold
<1>7. CASE r.route = "GET /schedule-requests/:id"
  <2> DEFINE codes == request_Get(r, w).codes
  <2>1. /\ ServedBy(r, w) = request_Get(r, w)
        /\ ServedBy(q, w) = request_Get(q, w)
    BY <1>7 DEF ServedBy
  <2>2. /\ request_Get(q, w).codes = codes
        /\ request_Get(r, w).use
             = ShowsFound(r, request_privateRequestScope(r, w), "NotFound")
        /\ request_Get(q, w).use
             = ShowsFound(q, request_privateRequestScope(q, w), "NotFound")
    BY DEF request_Get, Handler, HandlerAsking
  <2>3. /\ ShowsFound(r, request_privateRequestScope(r, w), "NotFound").err = "NotFound"
        /\ ShowsFound(q, request_privateRequestScope(q, w), "NotFound").err = "NotFound"
    BY request_GetConceals
  <2> HIDE DEF codes
  <2>5. Conveys(r, w, codes, "NotFound")
    BY <2>1, <2>2, <2>3 DEF Conveys, codes
  <2>6. Conveys(q, w, codes, "NotFound")
    BY <2>1, <2>2, <2>3 DEF Conveys
  <2>7. QED
    BY <2>5, <2>6, SameTold
<1>8. QED
  BY <1>1, <1>2, <1>3, <1>4, <1>5, <1>6, <1>7 DEF CallerHiding

\* The routes of both that read for each in their own way.
LEMMA ReaderConceals ==
  ASSUME NEW r, NEW q, NEW w, q.route = r.route, r.target \notin OfCaller(r, w.live),
         q.target \notin OfCaller(q, w.live),
         r.route \in {"GET /reports/:id", "GET /attendance/:id"}
  PROVE  Told(r, w) = Told(q, w)
<1>1. CASE r.route = "GET /reports/:id"
  <2> DEFINE codes == report_Get(r, w).codes
  <2>1. /\ ServedBy(r, w) = report_Get(r, w)
        /\ ServedBy(q, w) = report_Get(q, w)
    BY <1>1 DEF ServedBy
  <2>2. report_Get(q, w).codes = codes
    BY DEF report_Get, Handler, HandlerAsking
  <2>3. /\ report_Get(r, w).use.err = "NotFound"
        /\ report_Get(q, w).use.err = "NotFound"
    BY report_GetConceals
  <2> HIDE DEF codes
  <2>4. Conveys(r, w, codes, "NotFound")
    BY <2>1, <2>3 DEF Conveys, codes
  <2>5. Conveys(q, w, codes, "NotFound")
    BY <2>1, <2>2, <2>3 DEF Conveys
  <2>6. QED
    BY <2>4, <2>5, SameTold
<1>2. CASE r.route = "GET /attendance/:id"
  <2> DEFINE codes == attendance_Get(r, w).codes
  <2>1. /\ ServedBy(r, w) = attendance_Get(r, w)
        /\ ServedBy(q, w) = attendance_Get(q, w)
    BY <1>2 DEF ServedBy
  <2>2. attendance_Get(q, w).codes = codes
    BY DEF attendance_Get, Handler, HandlerAsking
  <2>3. /\ attendance_Get(r, w).use.err = "NotFound"
        /\ attendance_Get(q, w).use.err = "NotFound"
    BY attendance_GetConceals
  <2> HIDE DEF codes
  <2>4. Conveys(r, w, codes, "NotFound")
    BY <2>1, <2>3 DEF Conveys, codes
  <2>5. Conveys(q, w, codes, "NotFound")
    BY <2>1, <2>2, <2>3 DEF Conveys
  <2>6. QED
    BY <2>4, <2>5, SameTold
<1>3. QED
  BY <1>1, <1>2

\* Sessions, and marks by session.
LEMMA SessionConceals ==
  ASSUME NEW r, NEW q, NEW w, q.route = r.route, UnseenSession(r, w), UnseenSession(q, w),
         r.route \in {"GET /sessions/:id", "GET /sessions/:id/attendees"}
  PROVE  Told(r, w) = Told(q, w)
<1>1. CASE r.route = "GET /sessions/:id"
  <2> DEFINE codes == session_Get(r, w).codes
  <2>1. /\ ServedBy(r, w) = session_Get(r, w)
        /\ ServedBy(q, w) = session_Get(q, w)
    BY <1>1 DEF ServedBy
  <2>2. session_Get(q, w).codes = codes
    BY DEF session_Get, Handler, HandlerAsking
  <2>3. /\ session_Get(r, w).use.err = "NotFound"
        /\ session_Get(q, w).use.err = "NotFound"
    BY session_GetConceals
  <2> HIDE DEF codes
  <2>4. Conveys(r, w, codes, "NotFound")
    BY <2>1, <2>3 DEF Conveys, codes
  <2>5. Conveys(q, w, codes, "NotFound")
    BY <2>1, <2>2, <2>3 DEF Conveys
  <2>6. QED
    BY <2>4, <2>5, SameTold
<1>2. CASE r.route = "GET /sessions/:id/attendees"
  <2> DEFINE codes == session_GetSessionAttendees(r, w).codes
  <2>1. /\ ServedBy(r, w) = session_GetSessionAttendees(r, w)
        /\ ServedBy(q, w) = session_GetSessionAttendees(q, w)
    BY <1>2 DEF ServedBy
  <2>2. session_GetSessionAttendees(q, w).codes = codes
    BY DEF session_GetSessionAttendees, Handler, HandlerAsking
  <2>3. /\ session_GetSessionAttendees(r, w).use.err = "SessionNotFound"
        /\ session_GetSessionAttendees(q, w).use.err = "SessionNotFound"
    BY session_GetSessionAttendeesConceals
  <2> HIDE DEF codes
  <2>4. Conveys(r, w, codes, "SessionNotFound")
    BY <2>1, <2>3 DEF Conveys, codes
  <2>5. Conveys(q, w, codes, "SessionNotFound")
    BY <2>1, <2>2, <2>3 DEF Conveys
  <2>6. QED
    BY <2>4, <2>5, SameTold
<1>3. QED
  BY <1>1, <1>2

LEMMA MarkConceals ==
  ASSUME NEW r, NEW q, NEW w, q.route = r.route, r.target \notin OfCaller(r, w.live),
         q.target \notin OfCaller(q, w.live), r.route = "GET /attendance/by-session"
  PROVE  Told(r, w) = Told(q, w)
<1> DEFINE codes == Codes({"SessionNotFound", "AttendanceNotFound"}, 404)
<1>1. /\ ServedBy(r, w) = attendance_GetBySession(r, w)
      /\ ServedBy(q, w) = attendance_GetBySession(q, w)
  BY DEF ServedBy
<1>2. /\ attendance_GetBySession(r, w).codes = codes
      /\ attendance_GetBySession(q, w).codes = codes
  BY DEF attendance_GetBySession, Handler, HandlerAsking
<1>3. StatusOf(codes, "SessionNotFound") = StatusOf(codes, "AttendanceNotFound")
  BY DEF StatusOf, Codes
<1> HIDE DEF codes
<1>4. \/ Conveys(r, w, codes, "SessionNotFound")
      \/ Conveys(r, w, codes, "AttendanceNotFound")
  BY <1>1, <1>2, attendance_GetBySessionConceals DEF Conveys
<1>5. \/ Conveys(q, w, codes, "SessionNotFound")
      \/ Conveys(q, w, codes, "AttendanceNotFound")
  BY <1>1, <1>2, attendance_GetBySessionConceals DEF Conveys
<1>6. CASE "db" \in w.facts
  <2>1. Told(r, w) = StatusOf(codes, "Database")
    BY <1>1, <1>2, <1>6, ConveyedDatabase
  <2>2. Told(q, w) = StatusOf(codes, "Database")
    BY <1>1, <1>2, <1>6, ConveyedDatabase
  <2>3. QED
    BY <2>1, <2>2
<1>7. CASE "db" \notin w.facts
  <2>1. Told(r, w) = StatusOf(codes, "SessionNotFound")
    BY <1>3, <1>4, <1>7, Conveyed
  <2>2. Told(q, w) = StatusOf(codes, "SessionNotFound")
    BY <1>3, <1>5, <1>7, Conveyed
  <2>3. QED
    BY <2>1, <2>2
<1>8. QED
  BY <1>6, <1>7

\* Who the routes are for.
LEMMA HidingKinds ==
  /\ Hiding \subseteq StaffHiding \cup ParentHiding \cup CallerHiding
        \cup {"GET /reports/:id", "GET /attendance/:id", "GET /sessions/:id",
              "GET /sessions/:id/attendees", "GET /attendance/by-session"}
  /\ StaffHiding \subseteq StaffOnly \cup ForTeachers
  /\ ParentHiding \subseteq ForParents
  /\ {"GET /sessions/:id", "GET /sessions/:id/attendees"}
        \cap (StaffHiding \cup ParentHiding \cup CallerHiding) = {}
<1>1. Hiding \subseteq StaffHiding \cup ParentHiding \cup CallerHiding
         \cup {"GET /reports/:id", "GET /attendance/:id", "GET /sessions/:id",
               "GET /sessions/:id/attendees", "GET /attendance/by-session"}
  BY DEF Hiding, StaffHiding, ParentHiding, CallerHiding
<1>2. StaffHiding \subseteq StaffOnly \cup ForTeachers
  BY DEF StaffHiding, StaffOnly, ForTeachers
<1>3. ParentHiding \subseteq ForParents
  BY DEF ParentHiding, ForParents, Unguarded, TenantLists
<1>4. {"GET /sessions/:id", "GET /sessions/:id/attendees"}
         \cap (StaffHiding \cup ParentHiding \cup CallerHiding) = {}
  BY DEF StaffHiding, ParentHiding, CallerHiding
<1>5. QED
  BY <1>1, <1>2, <1>3, <1>4

\* What names nothing is no row of anyone, and is in no group.
LEMMA MissingUnseen ==
  ASSUME NEW q, NEW w, w.live \subseteq Rows, q.target = Missing
  PROVE  /\ q.target \notin OfTenant(q, w.live) /\ q.target \notin OfParent(q, w.live)
         /\ q.target \notin OfCaller(q, w.live) /\ UnseenSession(q, w)
<1>1. Missing \notin w.live /\ Missing.tenant = "none"
  BY AccessConstants DEF Missing, Rows
<1>2. /\ q.target \notin OfTenant(q, w.live) /\ q.target \notin OfParent(q, w.live)
      /\ q.target \notin OfCaller(q, w.live)
  BY <1>1 DEF OfTenant, OfParent, OfCaller
<1>3. \A x \in w.live : x.tenant # "none"
  BY AccessConstants DEF Rows
<1>4. Cohort(q, w) = {}
  BY <1>1, <1>3 DEF Cohort
<1>5. OfParent(q, Cohort(q, w)) = {}
  BY <1>4 DEF OfParent
<1>6. QED
  BY <1>2, <1>5 DEF UnseenSession

\* Nor is the row of another the caller's.
LEMMA ForeignUnseen ==
  ASSUME NEW r, NEW w, Foreign(r, w), r.c.parent \in BOOLEAN
  PROVE  /\ ~r.c.parent => r.target \notin OfTenant(r, w.live)
         /\ r.route \notin {"GET /sessions/:id", "GET /sessions/:id/attendees"} =>
               /\ r.c.parent => r.target \notin OfParent(r, w.live)
               /\ r.target \notin OfCaller(r, w.live)
         /\ r.route \in {"GET /sessions/:id", "GET /sessions/:id/attendees"} =>
               UnseenSession(r, w)
<1>1. CASE ~r.c.parent
  BY <1>1 DEF Foreign, OfTenant, OfCaller, UnseenSession
<1>2. CASE r.c.parent /\ r.route \in {"GET /sessions/:id", "GET /sessions/:id/attendees"}
  BY <1>2 DEF Foreign, UnseenSession
<1>3. CASE r.c.parent /\ r.route \notin {"GET /sessions/:id", "GET /sessions/:id/attendees"}
  BY <1>3 DEF Foreign, OfParent, OfCaller
<1>4. QED
  BY <1>1, <1>2, <1>3

\* A row of another and no row are told the same.
LEMMA Concealed ==
  ASSUME NEW r, NEW q, NEW w, w.live \subseteq Rows, r.route \in Hiding,
         Entry(r), r.c.parent \in BOOLEAN, Foreign(r, w),
         q.route = r.route, q.target = Missing
  PROVE  Told(r, w) = Told(q, w)
<1>1. CASE r.route \in StaffHiding
  <2>1. ~r.c.parent
    BY <1>1, HidingKinds DEF Entry
  <2>2. r.target \notin OfTenant(r, w.live) /\ q.target \notin OfTenant(q, w.live)
    BY <2>1, ForeignUnseen, MissingUnseen
  <2>3. QED
    BY <1>1, <2>2, StaffConceals
<1>2. CASE r.route \in ParentHiding
  <2>1. /\ r.c.parent
        /\ r.route \notin {"GET /sessions/:id", "GET /sessions/:id/attendees"}
    BY <1>2, HidingKinds DEF Entry
  <2>2. r.target \notin OfParent(r, w.live) /\ q.target \notin OfParent(q, w.live)
    BY <2>1, ForeignUnseen, MissingUnseen
  <2>3. QED
    BY <1>2, <2>2, ParentConceals
<1>3. CASE r.route \in CallerHiding
  <2>1. r.route \notin {"GET /sessions/:id", "GET /sessions/:id/attendees"}
    BY <1>3, HidingKinds
  <2>2. r.target \notin OfCaller(r, w.live) /\ q.target \notin OfCaller(q, w.live)
    BY <2>1, ForeignUnseen, MissingUnseen
  <2>3. QED
    BY <1>3, <2>2, CallerConceals
<1>4. CASE r.route \in {"GET /reports/:id", "GET /attendance/:id",
                         "GET /attendance/by-session"}
  <2>1. r.route \notin {"GET /sessions/:id", "GET /sessions/:id/attendees"}
    BY <1>4
  <2>2. r.target \notin OfCaller(r, w.live) /\ q.target \notin OfCaller(q, w.live)
    BY <2>1, ForeignUnseen, MissingUnseen
  <2>3. CASE r.route = "GET /attendance/by-session"
    BY <2>2, <2>3, MarkConceals
  <2>4. CASE r.route \in {"GET /reports/:id", "GET /attendance/:id"}
    BY <2>2, <2>4, ReaderConceals
  <2>5. QED
    BY <1>4, <2>3, <2>4
<1>5. CASE r.route \in {"GET /sessions/:id", "GET /sessions/:id/attendees"}
  <2>1. UnseenSession(r, w) /\ UnseenSession(q, w)
    BY <1>5, ForeignUnseen, MissingUnseen
  <2>2. QED
    BY <1>5, <2>1, SessionConceals
<1>6. QED
  BY <1>1, <1>2, <1>3, <1>4, <1>5, HidingKinds

-----------------------------------------------------------------------------
(* The theorems, for any tenants, families, claims, facts and number of    *)
(* changes meanwhile.                                                      *)

\* Whatever a request asks and whatever happens meanwhile, no caller is shown
\* a row of another tenant, and no parent a row of another family.
THEOREM OnlyOwnRowsShown == ApiSpec => []OnlyOwnRows
<1>1. ApiInvariant => OnlyOwnRows
  BY DEF ApiInvariant
<1>2. QED
  BY <1>1, InvariantHolds, PTL

\* Every write is of an own row, and was permitted while the request ran.
THEOREM ChangesPermitted == ApiSpec => []ChangesArePermitted
<1>1. ApiInvariant => ChangesArePermitted
  BY DEF ApiInvariant
<1>2. QED
  BY <1>1, InvariantHolds, PTL

\* The status tells what happened, also when the row was deleted between the
\* reads and the write.
THEOREM AnswersTrue == ApiSpec => []AnswersAreTrue
<1>1. ApiInvariant => AnswersAreTrue
  BY DEF ApiInvariant
<1>2. QED
  BY <1>1, InvariantHolds, PTL

\* The row of another is answered like no row, on every route that promises it.
THEOREM IdsAreHidden == ApiSpec => []IdsHidden
<1>1. ApiInvariant => IdsHidden
  <2>1. SUFFICES ASSUME ApiInvariant, stage = "asks", left = <<>>,
                        request.route \in Hiding, NEW facts \in FactSets,
                        Foreign(request, [live |-> live, facts |-> facts])
                 PROVE  Told(request, [live |-> live, facts |-> facts])
                         = Told([request EXCEPT !.target = Missing],
                                [live |-> live, facts |-> facts])
    BY DEF IdsHidden
  <2> DEFINE w == [live |-> live, facts |-> facts]
             q == [request EXCEPT !.target = Missing]
  <2>2. Entry(request)
    BY <2>1, PastGuards DEF ApiInvariant, Served
  <2>3. w.live \subseteq Rows /\ request \in ApiRequests
    BY <2>1 DEF ApiInvariant, ApiTypeOK
  <2>4. request.c.parent \in BOOLEAN
    BY <2>1, CallerBooleans DEF ApiInvariant
  <2>5. q.route = request.route /\ q.target = Missing
    BY <2>3 DEF ApiRequests
  <2>6. Foreign(request, w)
    BY <2>1
  <2> HIDE DEF w, q
  <2>7. Told(request, w) = Told(q, w)
    BY <2>1, <2>2, <2>3, <2>4, <2>5, <2>6, Concealed
  <2>8. QED
    BY <2>7 DEF w, q
<1>2. QED
  BY <1>1, InvariantHolds, PTL

=============================================================================
