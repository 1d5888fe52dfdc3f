-------------------------- MODULE FamilyEndpoints ---------------------------
(***************************************************************************)
(* The endpoints of what belongs to a family and its teachers: students,   *)
(* reports and attendance.                                                 *)
(*                                                                         *)
(* The target is the row the path names or, where a handler creates a row, *)
(* the student or enrollment its body names.                               *)
(***************************************************************************)
EXTENDS ClassEndpoints

\* A body whose id is not a UUID does not bind.
bodyID(r) == Fails(r.body = "broken" \/ r.target = Malformed, 400)

New(tenant, parent) == Locked("insert", [tenant |-> tenant, parent |-> parent])

-----------------------------------------------------------------------------
(* Queries. *)

student_accessQuery(r, w) == OfCaller(r, w.live)
student_GetByID(r, w) == w.live
student_List(r, w) == OfCaller(r, w.live)
student_CountActiveEnrollments(w) == When(Is("enrolled", w), "StudentActiveEnroll")
student_Update(row) == Overtakable("save", row, "")
student_Delete(row) == Overtakable("delete", row, "")

report_GetByIDForTenant(r, w) == OfTenant(r, w.live)
report_List(r, w) == OfTenant(r, w.live)
report_ListForParent(r, w) == OfParent(r, w.live)
report_GetForParent(r, w) == OfParent(r, w.live)
report_Update(row) == Overtakable("save", row, "")
report_Delete(row) == Overtakable("delete", row, "")

attendance_GetByIDForTenant(r, w) == OfTenant(r, w.live)
attendance_List(r, w) == OfTenant(r, w.live)
attendance_ListForParent(r, w) == OfParent(r, w.live)
attendance_GetForParent(r, w) == OfParent(r, w.live)
attendance_GetBySessionEnrollment(w) == When(Is("unmarked", w), "AttendanceNotFound")

\* The session the mark is for, of a class of the tenant.
session_FindForAttendance(r, w) == OfTenant(r, w.live)
session_FindSessionForAttendance(r, w) == OfTenant(r, w.live)
session_IsTutorForSession(w) == When(Is("otherTutor", w), "Forbidden")

enrollment_IsTutorForEnrollment(w) == When(Is("otherTutor", w), "Forbidden")
enrollment_GetByIDForAccess(r, w) == OfCaller(r, w.live)

-----------------------------------------------------------------------------
(* Students.  Tenant staff may create a student for any parent.            *)

isStudentInputError == {"Date", "FirstName", "NoteInvalid", "NoteContent"}

parseStudentDateOfBirth(w) == When(Is("date", w), "Date")

\* A parent may write notes on the own children only.
buildStudentNotes(r, w, parent) ==
    When(Is("notes", w) /\ r.c.parent /\ parent # r.c.user, "StudentForbidden")
      ?? When(Is("noteContent", w), "NoteContent")
      ?? When(Is("noteType", w), "NoteInvalid")

student_CreateUse(r, w) ==
    Unless(When(r.c.parent /\ r.target.parent # r.c.user, "StudentForbidden")
           ?? parseStudentDateOfBirth(w) ?? When(Is("nameless", w), "FirstName")
           ?? buildStudentNotes(r, w, r.target.parent),
           New(r.c.tenant, r.target.parent))

student_UpdateUse(r, w) ==
    Unless(When(~Finds(r, student_accessQuery(r, w)), "StudentNotFound")
           ?? parseStudentDateOfBirth(w) ?? When(Is("nameless", w), "FirstName")
           ?? buildStudentNotes(r, w, r.target.parent),
           student_Update(r.target))

student_DeleteUse(r, w) ==
    Unless(When(~Finds(r, student_accessQuery(r, w)), "StudentNotFound")
           ?? student_CountActiveEnrollments(w),
           student_Delete(r.target))

student_ListHandler(r, w) ==
    Handler(studentScope(r) || listQuery(r), Shows(student_List(r, w)), NoCodes, 200)

student_Create(r, w) ==
    Handler(studentScope(r) || authenticatedUserID(r) || bodyID(r), student_CreateUse(r, w),
            [StudentForbidden |-> 403] ++ Codes(isStudentInputError, 400), 201)

\* Get and Update are one function.
student_mutate(r, w, update) ==
    IF update
    THEN Handler(studentScope(r) || pathID(r) || boundBody(r) || authenticatedUserID(r),
                 student_UpdateUse(r, w),
                 [StudentNotFound |-> 404, StudentForbidden |-> 403]
                   ++ Codes(isStudentInputError, 400), 200)
    ELSE Handler(studentScope(r) || pathID(r),
                 ShowsFound(r, student_accessQuery(r, w), "StudentNotFound"),
                 [StudentNotFound |-> 404], 200)

student_DeleteHandler(r, w) ==
    Handler(studentScope(r) || pathID(r), student_DeleteUse(r, w),
            [StudentActiveEnroll |-> 409, StudentNotFound |-> 404], 200)

-----------------------------------------------------------------------------
(* Reports.  Only a tutor of the class reports on its enrollments.         *)

report_CreateUse(r, w) ==
    Unless(When(~Finds(r, OfTenant(r, w.live)), "NotFound")
           ?? enrollment_IsTutorForEnrollment(w),
           Locked("insert", r.target))

report_UpdateUse(r, w) ==
    Unless(When(~Finds(r, report_GetByIDForTenant(r, w)), "NotFound")
           ?? enrollment_IsTutorForEnrollment(w),
           report_Update(r.target))

report_DeleteUse(r, w) ==
    Unless(When(~Finds(r, report_GetByIDForTenant(r, w)), "NotFound")
           ?? enrollment_IsTutorForEnrollment(w),
           report_Delete(r.target))

report_ListHandler(r, w) ==
    IF r.c.parent
    THEN Handler(authenticatedUserID(r) || parseReportQuery(r),
                 Shows(report_ListForParent(r, w)), NoCodes, 200)
    ELSE Handler(tenantClaim(r) || parseReportQuery(r), Shows(report_List(r, w)), NoCodes, 200)

report_Create(r, w) ==
    Handler(tenantClaim(r) || memberClaim(r) || bodyID(r), report_CreateUse(r, w),
            [Forbidden |-> 403, Other |-> 400], 201)

report_Get(r, w) ==
    IF r.c.parent
    THEN Handler(authenticatedUserID(r) || pathID(r),
                 ShowsFound(r, report_GetForParent(r, w), "NotFound"), [NotFound |-> 404], 200)
    ELSE Handler(tenantClaim(r) || pathID(r),
                 ShowsFound(r, report_GetByIDForTenant(r, w), "NotFound"),
                 [NotFound |-> 404], 200)

report_UpdateHandler(r, w) ==
    Handler(tenantClaim(r) || pathID(r) || boundBody(r) || memberClaim(r),
            report_UpdateUse(r, w), [NotFound |-> 404, Forbidden |-> 403], 200)

report_DeleteHandler(r, w) ==
    Handler(tenantClaim(r) || pathID(r) || memberClaim(r), report_DeleteUse(r, w),
            [NotFound |-> 404, Forbidden |-> 403], 200)

-----------------------------------------------------------------------------
(* Attendance.  The target is an enrollment in the session the request     *)
(* names; what a mark does to the tables is the subject of Notices.        *)

resolveSessionCohort(r, w) ==
    When(~Finds(r, session_FindSessionForAttendance(r, w)), "SessionNotFound")
      ?? When(Is("cancelled", w), "SessionCancelled")
      ?? When(Is("unlinked", w), "SessionNotFound")

checkCohort(r, w) ==
    When(~Finds(r, enrollment_GetActiveByScheduleID(r, w)) \/ Is("mismatch", w),
         "EnrollmentMismatch")

attendance_createForSession(r, w) ==
    Unless(resolveSessionCohort(r, w) ?? session_IsTutorForSession(w)
           ?? checkCohort(r, w) ?? When(Is("marked", w), "Duplicate"),
           Locked("insert", r.target))

\* Exactly one of the two forms is accepted.
attendance_CreateUse(r, w) ==
    IF Is("form", w) THEN Refuses("Form")
    ELSE IF r.body = "legacy"
    THEN Unless(When(~Finds(r, session_FindForAttendance(r, w)), "SessionNotFound")
                ?? session_IsTutorForSession(w) ?? When(Is("marked", w), "Duplicate"),
                Locked("insert", r.target))
    ELSE attendance_createForSession(r, w)

attendance_CreateBulkUse(r, w) ==
    Unless(resolveSessionCohort(r, w) ?? session_IsTutorForSession(w)
           ?? checkCohort(r, w),
           Locked("insert", r.target))

\* Attendance rows are never deleted.
attendance_UpdateUse(r, w) ==
    Unless(When(~Finds(r, attendance_GetByIDForTenant(r, w)), "NotFound")
           ?? session_IsTutorForSession(w),
           Locked("update", r.target))

attendance_GetBySessionUse(r, w) ==
    Unless(When(~Finds(r, session_FindSessionForAttendance(r, w)), "SessionNotFound")
           ?? attendance_GetBySessionEnrollment(w),
           Shows({r.target} \cap w.live))

attendance_GetBySessionForParent(r, w) ==
    Unless(When(session_GetSessionForParent(r, w) = {}, "SessionNotFound")
           ?? When(~Finds(r, enrollment_GetByIDForAccess(r, w)), "AttendanceNotFound")
           ?? attendance_GetBySessionEnrollment(w),
           Shows({r.target} \cap w.live))

attendance_ListHandler(r, w) ==
    IF r.c.parent
    THEN Handler(authenticatedUserID(r) || parseAttendanceQuery(r),
                 Shows(attendance_ListForParent(r, w)), NoCodes, 200)
    ELSE Handler(tenantClaim(r) || parseAttendanceQuery(r),
                 Shows(attendance_List(r, w)), NoCodes, 200)

writeAttendanceCreateResult(before, use) ==
    Handler(before, use,
            [Forbidden |-> 403, Duplicate |-> 409, SessionNotFound |-> 404, Other |-> 400], 201)

attendance_Create(r, w) ==
    writeAttendanceCreateResult(tenantClaim(r) || memberClaim(r) || bodyID(r),
                                attendance_CreateUse(r, w))

attendance_CreateBySession(r, w) ==
    writeAttendanceCreateResult(tenantClaim(r) || memberClaim(r) || bodyID(r),
                                attendance_createForSession(r, w))

attendance_CreateBulk(r, w) ==
    Handler(tenantClaim(r) || memberClaim(r) || bodyID(r), attendance_CreateBulkUse(r, w),
            [Forbidden |-> 403, SessionNotFound |-> 404, Other |-> 400], 201)

attendance_Get(r, w) ==
    IF r.c.parent
    THEN Handler(authenticatedUserID(r) || pathID(r),
                 ShowsFound(r, attendance_GetForParent(r, w), "NotFound"),
                 [NotFound |-> 404], 200)
    ELSE Handler(tenantClaim(r) || pathID(r),
                 ShowsFound(r, attendance_GetByIDForTenant(r, w), "NotFound"),
                 [NotFound |-> 404], 200)

attendance_GetBySession(r, w) ==
    LET codes == Codes({"SessionNotFound", "AttendanceNotFound"}, 404)
    IN IF r.c.parent
       THEN Handler(pathID(r) || authenticatedUserID(r),
                    attendance_GetBySessionForParent(r, w), codes, 200)
       ELSE Handler(pathID(r) || tenantClaim(r), attendance_GetBySessionUse(r, w), codes, 200)

attendance_Update(r, w) ==
    Handler(tenantClaim(r) || pathID(r) || boundBody(r) || memberClaim(r),
            attendance_UpdateUse(r, w), [NotFound |-> 404, Forbidden |-> 403], 200)

=============================================================================
