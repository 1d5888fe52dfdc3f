------------------------- MODULE EnrollmentEndpoints ------------------------
(***************************************************************************)
(* The endpoints of enrollments, private schedule requests and reviews,    *)
(* and the internal endpoints the other services call about them.  What a  *)
(* purchase or a transition does to seats and payments is the subject of   *)
(* Enrollment and PrivateRequest; here, whose rows it may reach and what   *)
(* it answers.                                                             *)
(***************************************************************************)
EXTENDS FamilyEndpoints

enrollment_List(r, w) == OfCaller(r, w.live)
enrollment_GetByIDForUpdate(r, w) == w.live

request_privateRequestScope(r, w) == OfCaller(r, w.live)
request_LockForTenant(r, w) == OfTenant(r, w.live)
request_LockForParent(r, w) == OfParent(r, w.live)

\* The enrollment of the parent's child, active or completed, is locked
\* while its review is written.
review_Upsert(r, w) ==
    Unless(When(~Finds(r, OfParent(r, w.live)) \/ Is("status", w), "NotEligible"),
           Locked("update", r.target))

\* The internal readers know no owner.
chatContext_ScheduleRequest(r, w) == ShowsFound(r, w.live, "NotFound")
chatContext_Report(r, w) == ShowsFound(r, w.live, "NotFound")

-----------------------------------------------------------------------------
(* Checkout.  The target is the student, of a class of its tenant.         *)

CreateIfCapacityAvailable(w) ==
    When(Is("full", w), "ScheduleFull")
      ?? When(Is("mismatch", w), "ScheduleClassMismatch")
      ?? When(Is("ended", w), "ScheduleEnded")
      ?? When(Is("duplicate", w), "DuplicateEnrollment")

\* Billing's two refusals take the new enrollment back; any other failure
\* leaves it pending, to be found again under its key.
Invoiced(w, row) ==
    Unless(When(Is("voucher", w), "VoucherRejected")
           ?? When(Is("fee", w), "PlatformFeeExceedsGross"),
           [Locked("insert", row) EXCEPT !.err = IF Is("rpc", w) THEN "Billing" ELSE ""])

\* The channel, and the key with what it was used for before.
CheckoutKey(r, w) ==
    When(Is("method", w), "InvalidPaymentMethod") ?? When(r.body = "keyless", "Keyless")
      ?? When(Is("otherPayload", w), "IdempotencyConflict")

EnrollPublic(r, w) ==
    Unless(CheckoutKey(r, w) ?? When(Is("readFails", w), "Class")
           ?? When(Is("private", w), "PrivateCheckout")
           ?? When(~Finds(r, student_GetByID(r, w)), "StudentNotFound")
           ?? When(~Finds(r, OfParent(r, w.live)), "StudentOwnership")
           ?? When(Is("status", w), "ClassNotEnrollable")
           ?? When(Is("unscheduled", w), "ScheduleRequired")
           ?? CreateIfCapacityAvailable(w),
           Invoiced(w, r.target))

\* Staff enroll any student, into classes of their tenant only.
EnrollStudent(r, w) ==
    Unless(CheckoutKey(r, w) ?? When(~Finds(r, student_GetByID(r, w)), "Student")
           ?? When(Is("readFails", w) \/ Is("foreignClass", w), "Class")
           ?? When(Is("private", w), "PrivateCheckout")
           ?? When(Is("status", w), "ClassNotEnrollable")
           ?? CreateIfCapacityAvailable(w),
           Invoiced(w, [r.target EXCEPT !.tenant = r.c.tenant]))

catalogEnrollmentErrorStatus ==
    [InvalidPaymentMethod |-> 400, ClassNotFound |-> 404, StudentNotFound |-> 404,
     ParentRequired |-> 401]
      ++ Codes({"IdempotencyConflict", "ScheduleFull", "DuplicateEnrollment"}, 409)
      ++ Codes({"PrivateCheckout", "StudentOwnership", "ClassNotEnrollable",
                "ScheduleClassMismatch", "ScheduleRequired", "ScheduleEnded",
                "PlatformFeeExceedsGross", "VoucherRejected"}, 422)

\* A parent may name any tenant in the path; staff only their own.  What the
\* catalog knows a status for is 422 to a parent here.
enrollment_Create(r, w) ==
    IF r.c.parent
    THEN Handler(pathID(r) || boundBody(r) || authenticatedUserID(r), EnrollPublic(r, w),
                 [e \in DOMAIN catalogEnrollmentErrorStatus |->
                    IF e = "InvalidPaymentMethod" THEN 400 ELSE 422], 201)
    ELSE Handler(pathID(r) || boundBody(r) || tenantIDFromContext(r)
                 || Fails(r.target.tenant # r.c.tenant, 403), EnrollStudent(r, w),
                 [InvalidPaymentMethod |-> 400, IdempotencyConflict |-> 409,
                  DuplicateEnrollment |-> 409, PlatformFeeExceedsGross |-> 422,
                  PrivateCheckout |-> 422], 201)

CreateCatalogEnrollment(r, w) ==
    Handler(privateRequestParent(r) || pathID(r) || Fails(r.body = "keyless", 400)
            || boundBody(r),
            EnrollPublic(r, w), catalogEnrollmentErrorStatus, 201)

\* The class is the target; nothing is written.
PreviewVoucherUse(r, w) ==
    Unless(When(Is("voucher", w), "VoucherRejected")
           ?? When(~Finds(r, class_GetByID(r, w)), "ClassNotFound")
           ?? When(Is("private", w), "PrivateCheckout")
           ?? When(Is("status", w), "ClassNotEnrollable")
           ?? When(Is("rpc", w), "Billing"), Shows({}))

PreviewVoucher(r, w) ==
    Handler(privateRequestParent(r) || pathID(r) || boundBody(r), PreviewVoucherUse(r, w),
            catalogEnrollmentErrorStatus, 200)

-----------------------------------------------------------------------------
(* Enrollments after the checkout. *)

\* The parent's enrollment is read, then the row is locked and read again.
\* What is not the parent's has no status of its own here.
AssignSchedule(r, w) ==
    Unless(When(~Finds(r, enrollment_GetByIDForAccess(r, w)), "NotOwned")
           ?? When(Is("full", w), "ScheduleFull") ?? When(Is("status", w), "Transition")
           ?? When(Is("readFails", w), "ScheduleNotFound")
           ?? When(Is("mismatch", w), "ScheduleClassMismatch")
           ?? When(Is("ended", w), "ScheduleEnded"), Locked("update", r.target))

\* Mutant: a cancellation that reads any enrollment and then refuses another parent's.
CancelPendingEnrollment_Oracle(r, w) ==
    Unless(When(~Finds(r, w.live), "EnrollmentNotFound")
           ?? When(~Finds(r, enrollment_GetByIDForAccess(r, w)), "ParentRequired")
           ?? When(Is("status", w), "Transition") ?? When(Is("rpc", w), "Billing"),
           Locked("act", r.target))

\* The parent's enrollment, then billing's withdrawal, then the locked row.
CancelPendingEnrollment(r, w) ==
    Unless(When(~Finds(r, enrollment_GetByIDForAccess(r, w)), "EnrollmentNotFound")
           ?? When(Is("status", w), "Transition") ?? When(Is("rpc", w), "Billing"),
           Locked("act", r.target))

enrollment_AssignSchedule(r, w) ==
    Handler(privateRequestParent(r) || pathID(r) || boundBody(r), AssignSchedule(r, w),
            Codes({"ScheduleFull", "Transition"}, 409)
              ++ Codes({"ScheduleNotFound", "ScheduleClassMismatch", "ScheduleEnded"}, 422), 200)

enrollment_Cancel(r, w) ==
    Handler(privateRequestParent(r) || pathID(r), CancelPendingEnrollment(r, w),
            [EnrollmentNotFound |-> 404, Transition |-> 409, ParentRequired |-> 403], 200)

enrollment_ListQuery(r, w) ==
    Handler(enrollmentScope(r) || parseEnrollmentQuery(r), Shows(enrollment_List(r, w)),
            NoCodes, 200)

enrollment_GetQuery(r, w) ==
    Handler(enrollmentScope(r) || pathID(r),
            ShowsFound(r, enrollment_GetByIDForAccess(r, w), "NotFound"), [NotFound |-> 404], 200)

\* The transitions billing and identity command lock any enrollment.
InternalTransition(r, w) ==
    Unless(When(~Finds(r, enrollment_GetByIDForUpdate(r, w)), "EnrollmentNotFound")
           ?? When(Is("status", w), "Transition") ?? When(Is("full", w), "ScheduleFull")
           ?? When(Is("duplicate", w), "SuspendedConflict"), Locked("act", r.target))

writeInternalTransitionError ==
    [EnrollmentNotFound |-> 404]
      ++ Codes({"Transition", "ScheduleFull", "SuspendedConflict"}, 409)

ActivateInternal(r, w) ==
    Handler(pathID(r), InternalTransition(r, w),
            [EnrollmentNotFound |-> 404, Transition |-> 409], 200)

ReleaseInternal(r, w) ==
    Handler(pathID(r), InternalTransition(r, w),
            [EnrollmentNotFound |-> 404, Transition |-> 409], 200)

SuspendInternal(r, w) ==
    Handler(pathID(r), InternalTransition(r, w), writeInternalTransitionError, 200)

ResumeInternal(r, w) ==
    Handler(pathID(r), InternalTransition(r, w), writeInternalTransitionError, 200)

EndInternal(r, w) ==
    Handler(pathID(r), InternalTransition(r, w), writeInternalTransitionError, 200)

-----------------------------------------------------------------------------
(* Private schedule requests. *)

privateRequestError ==
    Codes({"NotFound", "ClassNotFound", "StudentOwnership"}, 404)
      ++ Codes({"SelectionStale", "SelectionConflict", "RequestConflict",
                "DuplicateEnrollment", "Transition"}, 409)
      ++ Codes({"Selection", "PrivateClassRequired", "ClassNotEnrollable", "Slots",
                "SlotLimitExceeded"}, 422)
      ++ Codes({"InvalidPaymentMethod", "Status", "TooLong", "BillingCycle"}, 400)
      ++ Codes({"ParentRequired", "ChatActor"}, 403)

privateRequestID(r) == pathID(r)

validatePrivateSlots(w) == When(Is("times", w), "Slots")

privateRequestPaymentMethod(w) == When(Is("method", w), "InvalidPaymentMethod")

\* The target is the student; one that does not exist and another parent's
\* are one error.
request_CreateUse(r, w) ==
    Unless(privateRequestPaymentMethod(w) ?? When(Is("cycle", w), "BillingCycle")
           ?? validatePrivateSlots(w) ?? When(Is("long", w), "TooLong")
           ?? When(~Finds(r, OfParent(r, student_GetByID(r, w))), "StudentOwnership")
           ?? When(Is("readFails", w), "ClassNotFound")
           ?? When(Is("type", w), "PrivateClassRequired")
           ?? When(Is("status", w), "ClassNotEnrollable")
           ?? When(Is("duplicate", w), "RequestConflict"),
           Locked("insert", r.target))

\* The slots selected, and the class they are for.
request_purchasable(w) ==
    When(Is("unselected", w), "Selection") ?? When(Is("stale", w), "SelectionStale")
      ?? When(Is("otherPayload", w), "SelectionConflict")
      ?? When(Is("type", w), "PrivateClassRequired")
      ?? When(Is("status", w), "ClassNotEnrollable")
      ?? When(Is("duplicate", w), "DuplicateEnrollment")

\* Approval and acceptance: the owner's request is locked and bought.
request_purchase(r, w, owned) ==
    Unless(When(~Finds(r, owned), "NotFound") ?? privateRequestPaymentMethod(w)
           ?? When(Is("decided", w), "Transition") ?? request_purchasable(w)
           ?? When(Is("fee", w), "PlatformFeeExceedsGross"),
           [Locked("act", r.target) EXCEPT !.err = IF Is("rpc", w) THEN "Billing" ELSE ""])

request_Reject(r, w) ==
    Unless(When(Is("long", w), "TooLong") ?? validatePrivateSlots(w)
           ?? When(~Finds(r, request_LockForTenant(r, w)), "NotFound")
           ?? When(Is("slotLimit", w), "SlotLimitExceeded")
           ?? When(Is("decided", w), "Transition"), Locked("act", r.target))

\* A parent's answer: one conditional statement on the parent's request.
request_Transition(r, w) ==
    Unless(When(~Finds(r, request_LockForParent(r, w)), "NotFound")
           ?? When(Is("decided", w), "Transition"), Locked("act", r.target))

request_Create(r, w) ==
    Handler(privateRequestParent(r) || pathID(r) || boundBody(r), request_CreateUse(r, w),
            privateRequestError, 201)

request_List(r, w) ==
    Handler(privateRequestScope(r),
            Unless(When(r.body = "broken", "Status"),
                   Shows(request_privateRequestScope(r, w))), privateRequestError, 200)

request_Get(r, w) ==
    Handler(privateRequestScope(r) || privateRequestID(r),
            ShowsFound(r, request_privateRequestScope(r, w), "NotFound"),
            privateRequestError, 200)

request_Approve(r, w) ==
    Handler(tenantIDFromContext(r) || privateRequestID(r) || boundBody(r),
            request_purchase(r, w, request_LockForTenant(r, w)),
            [PlatformFeeExceedsGross |-> 422] ++ privateRequestError, 200)

request_RejectHandler(r, w) ==
    Handler(tenantIDFromContext(r) || privateRequestID(r) || boundBody(r),
            request_Reject(r, w), privateRequestError, 200)

request_AcceptRecommendation(r, w) ==
    Handler(privateRequestParent(r) || privateRequestID(r),
            request_purchase(r, w, request_LockForParent(r, w)),
            [PlatformFeeExceedsGross |-> 422] ++ privateRequestError, 200)

request_DeclineRecommendation(r, w) ==
    Handler(privateRequestParent(r) || privateRequestID(r), request_Transition(r, w),
            privateRequestError, 200)

request_Cancel(r, w) ==
    Handler(privateRequestParent(r) || privateRequestID(r), request_Transition(r, w),
            privateRequestError, 200)

\* Nothing is written here: the link of a pending invoice goes to the chat.
\* Billing or the chat failing, or answering for another row, is unavailable.
paymentlink_GetTransaction(w) == When(Is("rpc", w), "Unavailable")
paymentlink_Send(w) ==
    When(Is("conflict", w), "Inactive") ?? When(Is("chat", w), "Unavailable")

SendPaymentLinkUse(r, w) ==
    Unless(When(~Finds(r, OfTenant(r, request_privateRequestScope(r, w))), "NotFound")
           ?? When(Is("decided", w), "Inactive")
           ?? When(Is("enrollment", w), "NotFound") ?? When(Is("status", w), "Inactive")
           ?? paymentlink_GetTransaction(w) ?? When(Is("ended", w), "Inactive")
           ?? paymentlink_Send(w),
           Shows({r.target} \cap w.live))

SendPaymentLink(r, w) ==
    Handler(tenantIDFromContext(r) || privateRequestID(r) || boundBody(r),
            SendPaymentLinkUse(r, w),
            [Inactive |-> 409, Unavailable |-> 503] ++ privateRequestError, 200)

-----------------------------------------------------------------------------
(* Reviews and the internal readers. *)

review_UpsertHandler(r, w) ==
    Handler(privateRequestParent(r) || pathID(r) || boundBody(r), review_Upsert(r, w),
            [NotEligible |-> 404], 200)

chatContextID(r) == pathID(r)

chatContextError == [NotFound |-> 404]

ScheduleRequestContext(r, w) ==
    Handler(chatContextID(r), chatContext_ScheduleRequest(r, w), chatContextError, 200)

ReportContext(r, w) ==
    Handler(chatContextID(r), chatContext_Report(r, w), chatContextError, 200)

privateChat_Event(r, w) ==
    Handler(pathID(r), ShowsFound(r, w.live, "NotFound"),
            [NotFound |-> 404, Other |-> 503], 200)

privateChat_Diagnostics(r, w) ==
    Handler(listQuery(r), Shows(w.live), [Other |-> 503], 200)

\* Only a failed delivery is queued again.
privateChat_Requeue(r, w) ==
    Handler(pathID(r),
            Unless(When(~Finds(r, w.live) \/ Is("status", w), "NotFound"),
                   Locked("act", r.target)), [Other |-> 404], 200)

=============================================================================
