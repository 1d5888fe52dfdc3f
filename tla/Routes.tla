------------------------------- MODULE Routes -------------------------------
(***************************************************************************)
(* The route table (cmd/server/routes.go, attendance_report_routes.go):    *)
(* which guards a request passes and which handler serves it.  The public  *)
(* catalog is the subject of Catalog; health, readiness and Swagger are    *)
(* not modelled.                                                           *)
(***************************************************************************)
EXTENDS EnrollmentEndpoints

(* registerRoutes: the guards of each route, in order.  Routes that share  *)
(* a handler with and without the id in the path are one.                  *)

Require(permission) == << <<"require", permission>> >>
RequireBoth(permission, other) ==
    << <<"require", permission>>, <<"require", other>> >>
UnlessParent(permission) == << <<"unlessParent", permission>> >>
TenantResource(permission) == << <<"tenantResource", permission>> >>
DenyParent(permission) == << <<"denyParent", permission>> >>

AttendanceReportRoutes ==
    {"GET /attendance", "POST /attendance", "POST /attendance/by-session",
     "POST /attendance/bulk", "GET /attendance/by-session", "GET /attendance/:id",
     "PATCH /attendance/:id", "GET /reports", "POST /reports", "GET /reports/:id",
     "PATCH /reports/:id", "DELETE /reports/:id"}

registerAttendanceReportRoutes ==
    [route \in AttendanceReportRoutes |->
       CASE route \in {"GET /attendance", "GET /attendance/by-session",
                       "GET /attendance/:id"} -> TenantResource("attendance:read")
         [] route \in {"POST /attendance", "POST /attendance/by-session",
                       "POST /attendance/bulk"} -> DenyParent("attendance:create")
         [] route = "PATCH /attendance/:id" -> DenyParent("attendance:update")
         [] route \in {"GET /reports", "GET /reports/:id"} -> TenantResource("report:read")
         [] route = "POST /reports" -> DenyParent("report:create")
         [] route = "PATCH /reports/:id" -> DenyParent("report:update")
         [] route = "DELETE /reports/:id" -> DenyParent("report:delete")]

\* The routes without a guard.
Unguarded ==
    {"GET /categories", "GET /classes", "GET /schedules",
     "POST /catalog/classes/:class_id/enrollments",
     "POST /catalog/classes/:class_id/voucher-preview",
     "POST /catalog/classes/:class_id/schedule-requests",
     "POST /enrollments/:id/cancel", "PUT /enrollments/:id/review",
     "PATCH /enrollments/:id/schedule",
     "POST /schedule-requests/:id/recommendation/accept",
     "POST /schedule-requests/:id/recommendation/decline",
     "POST /schedule-requests/:id/cancel"}

ApiRoutes ==
    Unguarded \cup AttendanceReportRoutes \cup
    {"POST /categories", "PATCH /categories/:id", "DELETE /categories/:id",
     "GET /classes/:id", "GET /classes/:id/schedules", "POST /classes",
     "POST /classes/with-category", "DELETE /classes/:id", "PATCH /classes/:id",
     "PATCH /classes/:id/published", "GET /students", "POST /students",
     "GET /students/:id", "PATCH /students/:id", "DELETE /students/:id",
     "POST /tenants/:tenant_id/enrollments", "GET /enrollments", "GET /enrollments/:id",
     "GET /schedule-requests", "GET /schedule-requests/:id",
     "POST /schedule-requests/:id/send-payment-link",
     "POST /schedule-requests/:id/approve", "POST /schedule-requests/:id/reject",
     "POST /schedules", "DELETE /schedules/:id", "PUT /schedules/:id/permanent",
     "PATCH /schedules/:id/tutor-permanent", "GET /sessions", "GET /sessions/:id",
     "DELETE /sessions/:id", "POST /sessions/:id/reschedule",
     "PATCH /sessions/:id/substitute-tutor", "GET /sessions/:id/attendees"}

registerRoutes ==
    [route \in ApiRoutes |->
       CASE route \in Unguarded -> <<>>
         [] route \in AttendanceReportRoutes -> registerAttendanceReportRoutes[route]
         [] route = "POST /categories" -> Require("category:create")
         [] route = "PATCH /categories/:id" -> Require("category:update")
         [] route = "DELETE /categories/:id" -> Require("category:delete")
         [] route = "GET /classes/:id" -> Require("class:read")
         [] route = "GET /classes/:id/schedules" ->
               RequireBoth("class:read", "schedule:read")
         [] route \in {"POST /classes", "POST /classes/with-category"} ->
               Require("class:create")
         [] route = "DELETE /classes/:id" -> Require("class:delete")
         [] route \in {"PATCH /classes/:id", "PATCH /classes/:id/published"} ->
               Require("class:update")
         [] route \in {"GET /students", "GET /students/:id"} -> UnlessParent("student:read")
         [] route = "POST /students" -> UnlessParent("student:create")
         [] route = "PATCH /students/:id" -> UnlessParent("student:update")
         [] route = "DELETE /students/:id" -> UnlessParent("student:delete")
         [] route = "POST /tenants/:tenant_id/enrollments" ->
               UnlessParent("enrollment:create")
         [] route \in {"GET /enrollments", "GET /enrollments/:id", "GET /schedule-requests",
                       "GET /schedule-requests/:id"} -> UnlessParent("enrollment:read")
         [] route = "POST /schedule-requests/:id/send-payment-link" ->
               RequireBoth("enrollment:update", "chat:manage")
         [] route \in {"POST /schedule-requests/:id/approve",
                       "POST /schedule-requests/:id/reject"} -> Require("enrollment:update")
         [] route = "POST /schedules" -> Require("schedule:create")
         [] route = "DELETE /schedules/:id" -> Require("schedule:delete")
         [] route \in {"GET /sessions", "GET /sessions/:id",
                       "GET /sessions/:id/attendees"} -> TenantResource("schedule:read")
         [] route \in {"PUT /schedules/:id/permanent",
                       "PATCH /schedules/:id/tutor-permanent", "DELETE /sessions/:id",
                       "POST /sessions/:id/reschedule",
                       "PATCH /sessions/:id/substitute-tutor"} -> Require("schedule:update")]

InternalRoutes ==
    {"GET /internal/events/:id", "GET /internal/deliveries",
     "POST /internal/deliveries/:id/requeue", "PUT /internal/enrollments/:id/activate",
     "PUT /internal/enrollments/:id/release", "PUT /internal/enrollments/:id/suspend",
     "PUT /internal/enrollments/:id/resume", "PUT /internal/enrollments/:id/end",
     "GET /internal/chat-context/schedule-requests/:id",
     "GET /internal/chat-context/reports/:id"}

\* The handler of a route.
ServedBy(r, w) ==
    CASE r.route = "GET /categories" -> category_List(r, w)
      [] r.route = "POST /categories" -> category_Create(r, w)
      [] r.route = "PATCH /categories/:id" -> category_Update(r, w)
      [] r.route = "DELETE /categories/:id" -> category_Delete(r, w)
      [] r.route = "GET /classes" -> class_List(r, w)
      [] r.route = "GET /classes/:id" -> class_Class(r, w)
      [] r.route = "GET /classes/:id/schedules" -> class_Schedules(r, w)
      [] r.route = "POST /classes" -> class_Create(r, w)
      [] r.route = "POST /classes/with-category" -> class_CreateWithCategory(r, w)
      [] r.route = "DELETE /classes/:id" -> class_Delete(r, w)
      [] r.route = "PATCH /classes/:id" -> class_Update(r, w)
      [] r.route = "PATCH /classes/:id/published" -> class_UpdatePublication(r, w)
      [] r.route = "GET /schedules" -> schedule_List(r, w)
      [] r.route = "GET /students" -> student_ListHandler(r, w)
      [] r.route = "POST /students" -> student_Create(r, w)
      [] r.route = "GET /students/:id" -> student_mutate(r, w, FALSE)
      [] r.route = "PATCH /students/:id" -> student_mutate(r, w, TRUE)
      [] r.route = "DELETE /students/:id" -> student_DeleteHandler(r, w)
      [] r.route = "GET /attendance" -> attendance_ListHandler(r, w)
      [] r.route = "POST /attendance" -> attendance_Create(r, w)
      [] r.route = "POST /attendance/by-session" -> attendance_CreateBySession(r, w)
      [] r.route = "POST /attendance/bulk" -> attendance_CreateBulk(r, w)
      [] r.route = "GET /attendance/by-session" -> attendance_GetBySession(r, w)
      [] r.route = "GET /attendance/:id" -> attendance_Get(r, w)
      [] r.route = "PATCH /attendance/:id" -> attendance_Update(r, w)
      [] r.route = "GET /reports" -> report_ListHandler(r, w)
      [] r.route = "POST /reports" -> report_Create(r, w)
      [] r.route = "GET /reports/:id" -> report_Get(r, w)
      [] r.route = "PATCH /reports/:id" -> report_UpdateHandler(r, w)
      [] r.route = "DELETE /reports/:id" -> report_DeleteHandler(r, w)
      [] r.route = "POST /tenants/:tenant_id/enrollments" -> enrollment_Create(r, w)
      [] r.route = "POST /catalog/classes/:class_id/enrollments" ->
            CreateCatalogEnrollment(r, w)
      [] r.route = "POST /catalog/classes/:class_id/voucher-preview" -> PreviewVoucher(r, w)
      [] r.route = "POST /enrollments/:id/cancel" -> enrollment_Cancel(r, w)
      [] r.route = "PUT /enrollments/:id/review" -> review_UpsertHandler(r, w)
      [] r.route = "GET /enrollments" -> enrollment_ListQuery(r, w)
      [] r.route = "GET /enrollments/:id" -> enrollment_GetQuery(r, w)
      [] r.route = "PATCH /enrollments/:id/schedule" -> enrollment_AssignSchedule(r, w)
      [] r.route = "POST /catalog/classes/:class_id/schedule-requests" -> request_Create(r, w)
      [] r.route = "GET /schedule-requests" -> request_List(r, w)
      [] r.route = "GET /schedule-requests/:id" -> request_Get(r, w)
      [] r.route = "POST /schedule-requests/:id/send-payment-link" -> SendPaymentLink(r, w)
      [] r.route = "POST /schedule-requests/:id/approve" -> request_Approve(r, w)
      [] r.route = "POST /schedule-requests/:id/reject" -> request_RejectHandler(r, w)
      [] r.route = "POST /schedule-requests/:id/recommendation/accept" ->
            request_AcceptRecommendation(r, w)
      [] r.route = "POST /schedule-requests/:id/recommendation/decline" ->
            request_DeclineRecommendation(r, w)
      [] r.route = "POST /schedule-requests/:id/cancel" -> request_Cancel(r, w)
      [] r.route = "POST /schedules" -> schedule_CreateInitialSchedules(r, w)
      [] r.route = "DELETE /schedules/:id" -> schedule_Delete(r, w)
      [] r.route = "PUT /schedules/:id/permanent" -> schedule_ChangeSchedulePermanent(r, w)
      [] r.route = "PATCH /schedules/:id/tutor-permanent" -> schedule_ChangeTutorPermanent(r, w)
      [] r.route = "GET /sessions" -> session_List(r, w)
      [] r.route = "GET /sessions/:id" -> session_Get(r, w)
      [] r.route = "DELETE /sessions/:id" -> session_Delete(r, w)
      [] r.route = "POST /sessions/:id/reschedule" -> session_Reschedule(r, w)
      [] r.route = "PATCH /sessions/:id/substitute-tutor" -> session_ChangeTutorTemporary(r, w)
      [] r.route = "GET /sessions/:id/attendees" -> session_GetSessionAttendees(r, w)
      [] r.route = "GET /internal/events/:id" -> privateChat_Event(r, w)
      [] r.route = "GET /internal/deliveries" -> privateChat_Diagnostics(r, w)
      [] r.route = "POST /internal/deliveries/:id/requeue" -> privateChat_Requeue(r, w)
      [] r.route = "PUT /internal/enrollments/:id/activate" -> ActivateInternal(r, w)
      [] r.route = "PUT /internal/enrollments/:id/release" -> ReleaseInternal(r, w)
      [] r.route = "PUT /internal/enrollments/:id/suspend" -> SuspendInternal(r, w)
      [] r.route = "PUT /internal/enrollments/:id/resume" -> ResumeInternal(r, w)
      [] r.route = "PUT /internal/enrollments/:id/end" -> EndInternal(r, w)
      [] r.route = "GET /internal/chat-context/schedule-requests/:id" ->
            ScheduleRequestContext(r, w)
      [] r.route = "GET /internal/chat-context/reports/:id" -> ReportContext(r, w)

=============================================================================
