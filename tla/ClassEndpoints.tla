--------------------------- MODULE ClassEndpoints ---------------------------
(***************************************************************************)
(* The endpoints of the tenant's own resources: categories, classes,       *)
(* schedules and sessions.  For each resource the queries of               *)
(* internal/repository, the use cases of internal/usecase and the handlers *)
(* of internal/delivery/http/handler, in the vocabulary of Access.         *)
(***************************************************************************)
EXTENDS Access

-----------------------------------------------------------------------------
(* Queries.  GetByID ignores the owner, GetByIDForTenant joins the tenant. *)

\* These reads answer no row with their error, and a use case that asks for the
\* row first takes any error of theirs for a row that is not there.
Unread(r, rows, w) == ~Finds(r, rows) \/ Is("readFails", w)

category_ListByTenant(r, w) == OfTenant(r, w.live)
category_GetByID(r, w) == w.live
category_CountActiveClasses(w) == Is("classes", w)

\* Mutant: an update that does not look at the number of rows.
UpdateByTenant_NoCount(row, gone) == Overtakable("blind", row, gone)

\* UPDATE ... WHERE id AND tenant_id; no row is ErrRecordNotFound.
UpdateByTenant(row, gone) == Overtakable("update", row, gone)

category_DeleteByTenant(row) == Overtakable("delete", row, "")

class_ListByTenant(r, w) == OfTenant(r, w.live)
class_GetByID(r, w) == w.live
class_GetByIDForUpdate(r, w) == w.live
class_DeleteByTenant(row) == Overtakable("delete", row, "")

\* The scoped UPDATE is one statement; the class is then read again, without
\* the tenant, to answer.
class_UpdatePublicationStatus(r, w) ==
    Unless(When(~Finds(r, OfTenant(r, w.live)), "ClassNotFound"),
           [Locked("update", r.target) EXCEPT
                !.err = IF Is("reread", w) THEN "Database" ELSE ""])

classRead_Class(r, w) == OfTenant(r, w.live)

\* Ownership is resolved even for an empty page.
classRead_Schedules(r, w) == OfTenant(r, w.live)

schedule_ListByTenant(r, w) == OfTenant(r, w.live)
schedule_GetByIDForTenant(r, w) == OfTenant(r, w.live)
schedule_GetByIDForTenantForUpdate(r, w) == OfTenant(r, w.live)

\* The enrollments a session is held for: its own, or its schedule's live ones.
Cohort(r, w) == IF Is("private", w) THEN {r.target} \cap w.live
                ELSE {x \in w.live : x.tenant = r.target.tenant}

session_GetByID(r, w) == w.live
session_GetByIDForTenant(r, w) == OfTenant(r, w.live)
session_ListByTenant(r, w) == OfTenant(r, w.live)

\* A private session of the parent's child, or a session of a schedule, or of
\* the schedule of its origin, where the parent has a live enrollment.
parentSessionOwnership(r, w) == OfParent(r, Cohort(r, w)) # {}

session_ListSessionsForParent(r, w) == OfParent(r, w.live)
session_GetSessionForParent(r, w) ==
    IF parentSessionOwnership(r, w) THEN {r.target} ELSE {}

enrollment_GetActiveByScheduleID(r, w) == OfTenant(r, Cohort(r, w))

\* Mutant: the whole group.
enrollment_GetActiveByScheduleIDForParent_All(r, w) == Cohort(r, w)
enrollment_GetActiveByScheduleIDForParent(r, w) == OfParent(r, Cohort(r, w))

\* Private schedules have capacity 1, the answer of identity about a tutor.
ValidatePrivateSlotLimit(w) == When(Is("slotLimit", w), "InvalidPrivateSlotLimit")
CheckActiveMemberFails(w) == When(Is("rpc", w), "SubstituteTutorUnavailable")
ParseActiveMember(w) == When(Is("inactive", w), "SubstituteTutorNotEligible")
ValidateTenantStatus(w) ==
    When(Is("rpc", w) \/ Is("inactive", w), "TenantInactiveOrNotFound")

-----------------------------------------------------------------------------
(* Categories. *)

ListCategories(r, w) == Shows(category_ListByTenant(r, w))

CreateCategory(r, w) ==
    Unless(ValidateTenantStatus(w),
           Locked("insert", [tenant |-> r.c.tenant, parent |-> "new"]))

\* Another tenant's category is refused as forbidden.
UpdateCategory(r, w) ==
    Unless(When(Unread(r, category_GetByID(r, w), w), "CategoryNotFound")
           ?? When(~Finds(r, OfTenant(r, w.live)), "CategoryForbidden")
           ?? When(Is("nameless", w), "CategoryNameRequired"),
           UpdateByTenant(r.target, "CategoryNotFound"))

DeleteCategory(r, w) ==
    Unless(When(Unread(r, category_GetByID(r, w), w), "CategoryNotFound")
           ?? When(~Finds(r, OfTenant(r, w.live)), "CategoryForbidden")
           ?? When(category_CountActiveClasses(w), "CategoryActiveClasses"),
           category_DeleteByTenant(r.target))

category_List(r, w) ==
    Handler(listQuery(r) || tenantIDFromContext(r), ListCategories(r, w), NoCodes, 200)

category_Create(r, w) ==
    Handler(tenantIDFromContext(r) || boundBody(r), CreateCategory(r, w),
            [TenantInactiveOrNotFound |-> 403], 201)

category_Update(r, w) ==
    Handler(tenantIDFromContext(r) || pathID(r) || boundBody(r), UpdateCategory(r, w),
            [CategoryNotFound |-> 404, CategoryForbidden |-> 403,
             CategoryNameRequired |-> 422], 200)

category_Delete(r, w) ==
    Handler(tenantIDFromContext(r) || pathID(r), DeleteCategory(r, w),
            [CategoryForbidden |-> 403, CategoryNotFound |-> 404,
             CategoryActiveClasses |-> 409], 200)

-----------------------------------------------------------------------------
(* Classes.  Of CreateClass the target is the category the body names; its *)
(* errors have no status of their own.                                     *)

ListClasses(r, w) == Shows(class_ListByTenant(r, w))

CreateClass(r, w) ==
    Unless(ValidatePrivateSlotLimit(w) ?? ValidateTenantStatus(w)
           ?? When(Unread(r, category_GetByID(r, w), w), "CategoryNotFound")
           ?? When(~Finds(r, OfTenant(r, w.live)), "CategoryForbidden"),
           Locked("insert", [tenant |-> r.c.tenant, parent |-> "new"]))

\* Active enrollments, not the pending ones, keep a class.
DeleteClass(r, w) ==
    Unless(When(Unread(r, class_GetByID(r, w), w), "ClassNotFound")
           ?? When(~Finds(r, OfTenant(r, w.live)), "ClassForbidden")
           ?? When(Is("enrolled", w), "ClassActiveEnrollments"),
           class_DeleteByTenant(r.target))

UpdateClassPublication(r, w) == class_UpdatePublicationStatus(r, w)

\* The fields the body holds are applied in this order.
UpdatedFields(r, w) ==
    When(Is("type", w), "ClassTypeImmutable") ?? ValidatePrivateSlotLimit(w)
      ?? When(r.body = "category" /\ Is("nameless", w), "CategoryNameRequired")
      ?? When(Is("status", w), "ClassNotEnrollable")
      ?? When(Is("noCategory", w) \/ Is("readFails", w), "CategoryNotFound")
      ?? When(Is("foreignCategory", w), "CategoryForbidden")
      ?? When(Is("nameless", w), "ClassNameRequired")
      ?? When(Is("price", w), "InvalidClassPrice")

UpdatedTeachers(w) ==
    When(Is("teachers", w), "SubstituteTutorNotEligible")
      ?? CheckActiveMemberFails(w) ?? ParseActiveMember(w)

\* The class row is locked from the read to the write.  A class of another
\* tenant is reported as missing; so is a category of another tenant.
UpdateClass(r, w) ==
    Unless(When(~Finds(r, class_GetByIDForUpdate(r, w)), "ClassNotFound")
           ?? When(~Finds(r, OfTenant(r, w.live)), "ClassNotFound")
           ?? UpdatedFields(r, w) ?? UpdatedTeachers(w),
           [UpdateByTenant(r.target, "ClassNotFound") EXCEPT !.locked = TRUE])

\* A new category or an existing one of the tenant, under an optional key: see
\* ClassCreation.  validateClassCreation asks a key of an aggregate.
CreateClassWithCategory(r, w) ==
    Unless(When(Is("unfit", w) \/ r.body = "keyless", "InvalidClassCreation")
           ?? ValidateTenantStatus(w)
           ?? When(Is("otherPayload", w), "ClassCreationKeyConflict")
           ?? When(Is("teachers", w), "InvalidClassCreation")
           ?? CheckActiveMemberFails(w) ?? ParseActiveMember(w)
           ?? When(r.body = "plain" /\ ~Finds(r, OfTenant(r, w.live)), "CategoryNotFound"),
           Locked("insert", [tenant |-> r.c.tenant, parent |-> "new"]))

class_List(r, w) ==
    Handler(listQuery(r) || tenantIDFromContext(r), ListClasses(r, w), NoCodes, 200)

class_Create(r, w) ==
    Handler(tenantIDFromContext(r) || boundBody(r), CreateClass(r, w),
            [InvalidPrivateSlotLimit |-> 400, TenantInactiveOrNotFound |-> 403], 201)

class_Delete(r, w) ==
    Handler(tenantIDFromContext(r) || pathID(r), DeleteClass(r, w),
            [ClassForbidden |-> 403, ClassNotFound |-> 404,
             ClassActiveEnrollments |-> 409], 200)

\* Mutant: a creation that does not ask for the parts of the aggregate.
class_CreateWithCategory_NoAsk(r, w) ==
    Handler(tenantIDFromContext(r) || boundBody(r), CreateClassWithCategory(r, w),
            NoCodes, 201)

\* An aggregate asks for the permission of each part it creates.
class_CreateWithCategory(r, w) ==
    HandlerAsking(
        tenantIDFromContext(r) || boundBody(r),
        CASE r.body = "category" -> <<"category:create">>
          [] r.body = "slots" -> <<"schedule:create">>
          [] r.body = "keyless" -> <<"category:create", "schedule:create">>
          [] OTHER -> <<>>,
        CreateClassWithCategory(r, w),
        [ClassCreationKeyConflict |-> 409, SubstituteTutorUnavailable |-> 503,
         TenantInactiveOrNotFound |-> 403]
          ++ Codes({"InvalidClassCreation", "SubstituteTutorNotEligible",
                    "CategoryNotFound"}, 400), 201)

\* A body with a new category asks for category:create first.
class_Update(r, w) ==
    HandlerAsking(
        tenantIDFromContext(r) || pathID(r) || boundBody(r),
        IF r.body = "category" THEN <<"category:create">> ELSE <<>>,
        UpdateClass(r, w),
        [SubstituteTutorUnavailable |-> 503, SubstituteTutorNotEligible |-> 400,
         ClassNotFound |-> 404]
          ++ Codes({"CategoryNotFound", "CategoryForbidden", "ClassTypeImmutable",
                    "ClassNameRequired", "InvalidPrivateSlotLimit",
                    "CategoryNameRequired", "ClassNotEnrollable",
                    "InvalidClassPrice"}, 422), 200)

class_UpdatePublication(r, w) ==
    Handler(tenantIDFromContext(r) || pathID(r) || boundBody(r),
            UpdateClassPublication(r, w), [ClassNotFound |-> 404], 200)

\* classReadScope and classReadResult: what is not a missing class is 503.
classReadResult(before, use) == Handler(before, use, [NotFound |-> 404, Other |-> 503], 200)

class_Class(r, w) ==
    classReadResult(tenantIDFromContext(r) || pathID(r),
                    ShowsFound(r, classRead_Class(r, w), "NotFound"))

class_Schedules(r, w) ==
    classReadResult(tenantIDFromContext(r) || pathID(r) || listQuery(r),
                    ShowsFound(r, classRead_Schedules(r, w), "NotFound"))

-----------------------------------------------------------------------------
(* Schedules.  The use cases are the subject of Sessions; here only what   *)
(* they refuse and whether the row is locked from the read to the write.   *)

ListSchedules(r, w) == Shows(schedule_ListByTenant(r, w))

CreateInitialSchedules(r, w) ==
    Unless(When(Unread(r, class_GetByID(r, w), w), "ClassNotFound")
           ?? When(~Finds(r, OfTenant(r, w.live)), "ClassForbidden")
           ?? When(Is("capacity", w), "PrivateScheduleCapacity")
           ?? When(Is("unfit", w), "InvalidScheduleChange") ?? CheckActiveMemberFails(w)
           ?? ParseActiveMember(w) ?? When(Is("times", w), "Times")
           ?? When(Is("enrollment", w), "EnrollmentNotFound")
           ?? When(Is("mismatch", w), "InvalidEnrollmentClass"),
           Locked("insert", [r.target EXCEPT !.parent = "new"]))

DeleteSchedule(r, w) ==
    Unless(When(~Finds(r, schedule_GetByIDForTenantForUpdate(r, w)), "ScheduleNotFound")
           ?? When(Is("history", w), "ScheduleHistoryConflict")
           ?? When(Is("seats", w), "ScheduleSeatsConflict"),
           Locked("delete", r.target))

ChangeSchedulePermanent(r, w) ==
    Unless(When(Is("unfit", w), "InvalidScheduleChange")
           ?? When(~Finds(r, schedule_GetByIDForTenantForUpdate(r, w)), "ScheduleNotFound")
           ?? When(Is("date", w), "InvalidEffectiveDate")
           ?? When(Is("capacity", w), "PrivateScheduleCapacity")
           ?? When(Is("history", w), "ScheduleHistoryConflict")
           ?? When(Is("seats", w), "ScheduleSeatsConflict") ?? CheckActiveMemberFails(w)
           ?? ParseActiveMember(w),
           Locked("act", r.target))

\* The tutor is checked between two reads of the schedule, the second locks it.
ChangeTutorPermanent(r, w) ==
    Unless(When(~Finds(r, schedule_GetByIDForTenant(r, w)), "ScheduleNotFound")
           ?? CheckActiveMemberFails(w) ?? ParseActiveMember(w)
           ?? When(Is("date", w), "InvalidEffectiveDate"),
           Overtakable("update", r.target, "ScheduleNotFound"))

schedule_List(r, w) ==
    Handler(listQuery(r) || tenantIDFromContext(r), ListSchedules(r, w), NoCodes, 200)

schedule_CreateInitialSchedules(r, w) ==
    Handler(tenantIDFromContext(r) || boundBody(r), CreateInitialSchedules(r, w),
            [ClassNotFound |-> 404, EnrollmentNotFound |-> 404, ClassForbidden |-> 403,
             SubstituteTutorUnavailable |-> 503]
              ++ Codes({"InvalidScheduleChange", "SubstituteTutorNotEligible",
                        "InvalidEnrollmentClass", "PrivateScheduleCapacity"}, 400), 201)

schedule_Delete(r, w) ==
    Handler(tenantIDFromContext(r) || pathID(r), DeleteSchedule(r, w),
            [ScheduleHistoryConflict |-> 409, ScheduleSeatsConflict |-> 409,
             ScheduleForbidden |-> 403, ScheduleNotFound |-> 404], 200)

\* An id in the path that is not a UUID is left to the use case, which finds
\* nothing.
schedule_ChangeSchedulePermanent(r, w) ==
    Handler(tenantIDFromContext(r) || boundBody(r), ChangeSchedulePermanent(r, w),
            [ScheduleNotFound |-> 404, ScheduleHistoryConflict |-> 409,
             ScheduleSeatsConflict |-> 409, SubstituteTutorUnavailable |-> 503]
              ++ Codes({"InvalidScheduleChange", "SubstituteTutorNotEligible",
                        "PrivateScheduleCapacity", "InvalidEffectiveDate"}, 400), 200)

schedule_ChangeTutorPermanent(r, w) ==
    Handler(tenantIDFromContext(r) || boundBody(r), ChangeTutorPermanent(r, w),
            [ScheduleNotFound |-> 404, InvalidEffectiveDate |-> 400,
             SubstituteTutorNotEligible |-> 400, SubstituteTutorUnavailable |-> 503], 200)

-----------------------------------------------------------------------------
(* Sessions.  A group session is shown to a parent as the rows of the      *)
(* parent's own children in it.                                            *)

ListSessions(r, w) == Shows(session_ListByTenant(r, w))

ListSessionsForParent(r, w) == Shows(session_ListSessionsForParent(r, w))

GetSession(r, w) == ShowsFound(r, session_GetByIDForTenant(r, w), "NotFound")

GetSessionForParent(r, w) ==
    Unless(When(session_GetSessionForParent(r, w) = {}, "NotFound"),
           Shows(OfParent(r, Cohort(r, w))))

\* Read, marked and replaced in one transaction that locks nothing.
RescheduleSession(r, w) ==
    Unless(When(~Finds(r, session_GetByIDForTenant(r, w)), "SessionNotFound"),
           Overtakable("save", r.target, ""))

\* The tutor is checked between two reads of the session, neither of them locked.
ChangeTutorTemporary(r, w) ==
    Unless(When(~Finds(r, session_GetByIDForTenant(r, w)), "SessionNotFound")
           ?? CheckActiveMemberFails(w) ?? ParseActiveMember(w),
           Overtakable("reread", r.target, "SessionNotFound"))

DeleteSession(r, w) ==
    Unless(When(~Finds(r, session_GetByID(r, w)), "SessionNotFound")
           ?? When(~Finds(r, OfTenant(r, w.live)), "SessionForbidden"),
           Overtakable("delete", r.target, ""))

\* A replacement without a link to its origin has no cohort of its own.
GetSessionAttendees(r, w) ==
    Unless(When(~Finds(r, session_GetByIDForTenant(r, w)), "SessionNotFound")
           ?? When(Is("enrollment", w), "EnrollmentNotFound")
           ?? When(Is("origin", w), "SessionNotFound")
           ?? When(Is("unlinked", w), "ScheduleNotFound"),
           Shows(enrollment_GetActiveByScheduleID(r, w)))

GetSessionAttendeesForParent(r, w) ==
    Unless(When(session_GetSessionForParent(r, w) = {}, "SessionNotFound")
           ?? When(Is("enrollment", w), "EnrollmentNotFound")
           ?? When(Is("origin", w), "SessionNotFound")
           ?? When(Is("unlinked", w), "ScheduleNotFound"),
           Shows(enrollment_GetActiveByScheduleIDForParent(r, w)))

\* mine=true replaces the caller's tutor filter by the member of the token.
session_List(r, w) ==
    IF r.c.parent
    THEN Handler(parseSessionQuery(r) || authenticatedUserID(r),
                 ListSessionsForParent(r, w), NoCodes, 200)
    ELSE Handler(parseSessionQuery(r) || tenantClaim(r)
                 || Fails(r.body = "mine" /\ ~r.c.pinned, 401),
                 ListSessions(r, w), NoCodes, 200)

session_Get(r, w) ==
    IF r.c.parent
    THEN Handler(pathID(r) || authenticatedUserID(r), GetSessionForParent(r, w),
                 [NotFound |-> 404], 200)
    ELSE Handler(pathID(r) || tenantClaim(r), GetSession(r, w), [NotFound |-> 404], 200)

session_Delete(r, w) ==
    Handler(pathID(r) || tenantClaim(r), DeleteSession(r, w),
            [SessionForbidden |-> 403, SessionNotFound |-> 404], 200)

session_Reschedule(r, w) ==
    Handler(tenantIDFromContext(r) || boundBody(r), RescheduleSession(r, w),
            [SessionNotFound |-> 404], 200)

session_ChangeTutorTemporary(r, w) ==
    Handler(tenantIDFromContext(r) || boundBody(r), ChangeTutorTemporary(r, w),
            [SessionNotFound |-> 404, SubstituteTutorNotEligible |-> 400,
             SubstituteTutorUnavailable |-> 503], 200)

session_GetSessionAttendees(r, w) ==
    IF r.c.parent
    THEN Handler(pathID(r) || authenticatedUserID(r), GetSessionAttendeesForParent(r, w),
                 Codes({"SessionNotFound", "EnrollmentNotFound"}, 404), 200)
    ELSE Handler(pathID(r) || tenantIDFromContext(r), GetSessionAttendees(r, w),
                 Codes({"SessionNotFound", "EnrollmentNotFound"}, 404), 200)

=============================================================================
