--------------------------- MODULE PrivateRequest ---------------------------
(***************************************************************************)
(* Private schedule requests of one class and the enrollments they sell.   *)
(*                                                                         *)
(* Staff approve a parent's request, or reject it with a recommendation    *)
(* that the parent accepts.  Both are the same purchase: a transaction     *)
(* that holds the request row locked creates or restores the enrollment    *)
(* with the key "private-request:<id>", and billing is asked for an        *)
(* invoice after it has committed.  A refusal is undone by two further     *)
(* transactions.  Each transaction is one step, because it holds the       *)
(* request row FOR UPDATE, and the class row where it depends on it; what  *)
(* happens between two transactions of a purchase is what is at stake.     *)
(***************************************************************************)
EXTENDS Integers, FiniteSets

CONSTANTS
    Requests,   \* ids of private_schedule_requests
    Procs,      \* HTTP requests that approve, accept or cancel
    Students,
    StudentOf,  \* the student each request is for
    Slots,      \* weekly slots
    Limits,     \* the slot limits a tenant may set
    Failures,   \* whether a purchase may break off
    Ops,        \* the operations of a run
    Null

RequestStatuses ==
    {"none", "pending", "approved", "rejected", "declined", "cancelled"}

\* {} stands for the NULL of a slot column.
RequestRow == [status : RequestStatuses, slots : SUBSET Slots,
               approved : SUBSET Slots, recommended : SUBSET Slots]

NoRequest == [status |-> "none", slots |-> {}, approved |-> {}, recommended |-> {}]

EnrollmentRow == [status : {"none", "pending", "active", "suspended", "dropped"},
                  fee : BOOLEAN, tx : BOOLEAN]

NoEnrollment == [status |-> "none", fee |-> FALSE, tx |-> FALSE]

Approval == [chosen : SUBSET Slots, limit : Limits \cup {Null}] \cup {Null}

NoJob == [id |-> Null, accept |-> FALSE]

Steps == {"idle", "invoice", "reject", "reset", "save", "withdraw", "drop"}

ASSUME PrivateRequestConstants ==
    /\ StudentOf \in [Requests -> Students]
    /\ IsFiniteSet(Slots)
    /\ Limits \subseteq Nat \ {0}
    /\ Failures \in BOOLEAN
    /\ Null \notin Requests \cup Limits \cup [chosen : SUBSET Slots, limit : Limits \cup {Null}]

VARIABLES
    req,      \* table private_schedule_requests
    enr,      \* the enrollment with a request's key
    sold,     \* the slots of the schedules created with that enrollment
    class,    \* whether the class may be sold, and its slot limit
    refuses,  \* billing's pricing policy refuses new invoices
    invoice,  \* billing's transaction of an enrollment
    failed,   \* enrollments with a payment-failure notification in flight
    pc, job,  \* the next step of every HTTP request and what it works on
    log       \* history: enrollments activated, and ended since

outside == <<class, refuses>>
billing == <<invoice, failed>>
procs == <<pc, job>>
vars == <<req, enr, sold, outside, billing, procs, log>>

-----------------------------------------------------------------------------
(* Queries, unique indexes and row writes. *)

Live(row) == row.status \in {"pending", "active"}

platformFeeRejected(row) == row.status = "dropped" /\ row.fee

SameStudent(r) == {q \in Requests \ {r} : StudentOf[q] = StudentOf[r]}

\* Mutant of UniqueLive: the table has no partial unique index.
UniqueLive_NoIndex(r) == TRUE

\* idx_student_class_active: no other live enrollment of the student.
UniqueLive(r) == \A q \in SameStudent(r) : ~Live(enr[q])

\* idx_private_request_pending_student_class.
UniquePending(r) == \A q \in SameStudent(r) : req[q].status # "pending"

WithinLimit(slots) == class.limit # Null => Cardinality(slots) <= class.limit

Become(r, status) == req' = [req EXCEPT ![r] = [@ EXCEPT !.status = status]]

EnrollmentBecomes(r, status) ==
    enr' = [enr EXCEPT ![r] = [@ EXCEPT !.status = status]]

\* A step of the procs p that goes on, or ends it.
Goto(p, step) == pc' = [pc EXCEPT ![p] = step] /\ UNCHANGED job
Finish(p) == pc' = [pc EXCEPT ![p] = "idle"] /\ job' = [job EXCEPT ![p] = NoJob]
Start(p, step, r, accept) ==
    /\ pc[p] = "idle"
    /\ pc' = [pc EXCEPT ![p] = step]
    /\ job' = [job EXCEPT ![p] = [id |-> r, accept |-> accept]]

-----------------------------------------------------------------------------
(* Decisions on a request: one statement each, guarded by its status. *)

\* A parent asks; refused beside a live enrollment or another pending request.
Create(r, slots) ==
    /\ req[r].status = "none" /\ slots # {}
    /\ class.open
    /\ \A q \in Requests : StudentOf[q] = StudentOf[r] => ~Live(enr[q])
    /\ UniquePending(r)
    /\ req' = [req EXCEPT ![r] = [NoRequest EXCEPT !.status = "pending",
                                                   !.slots = slots]]
    /\ UNCHANGED <<enr, sold, outside, billing, procs, log>>

Reject(r) ==
    /\ req[r].status = "pending"
    /\ Become(r, "rejected")
    /\ UNCHANGED <<enr, sold, outside, billing, procs, log>>

RejectWithRecommendation(r, slots) ==
    /\ "recommend" \in Ops
    /\ req[r].status = "pending" /\ slots # {}
    /\ WithinLimit(slots)
    /\ req' = [req EXCEPT ![r] = [@ EXCEPT !.status = "rejected",
                                           !.recommended = slots]]
    /\ UNCHANGED <<enr, sold, outside, billing, procs, log>>

DeclineRecommendation(r) ==
    /\ req[r].status = "rejected" /\ req[r].recommended # {}
    /\ Become(r, "declined")
    /\ UNCHANGED <<enr, sold, outside, billing, procs, log>>

Cancel(r) ==
    /\ req[r].status = "pending"
    /\ Become(r, "cancelled")
    /\ UNCHANGED <<enr, sold, outside, billing, procs, log>>

-----------------------------------------------------------------------------
(* The purchase: Approve by staff, AcceptRecommendation by the parent. *)

privateSelectedSlots(r, a) ==
    IF a # Null THEN a.chosen
    ELSE IF req[r].approved # {} THEN req[r].approved ELSE req[r].slots

\* The approval names slots of the request, and those approved before, if any.
Selectable(r, a) ==
    a # Null =>
        /\ a.chosen # {} /\ a.chosen \subseteq req[r].slots
        /\ req[r].approved # {} => a.chosen = req[r].approved
        /\ req[r].approved = {} /\ (req[r].status = "approved" \/ enr[r].status # "none")
              => a.chosen = req[r].slots

\* Which requests a purchase may continue with.
Decidable(r, accept) ==
    IF accept THEN req[r].recommended # {} /\ req[r].status \in {"rejected", "approved"}
              ELSE req[r].recommended = {} /\ req[r].status \in {"pending", "approved"}

\* An approved request: nothing is written; the invoice is asked for unless the
\* purchase is complete, or refused.
PurchaseAgain(p, r, accept) ==
    /\ req[r].status = "approved"
    /\ Live(enr[r]) \/ enr[r].status = "suspended"
    /\ ~enr[r].tx
    /\ Start(p, "invoice", r, accept)
    /\ UNCHANGED <<req, enr, sold, outside, billing, log>>

\* A reopened request: the enrollment a refused invoice dropped is restored.
PurchaseRestored(p, r, accept) ==
    /\ req[r].status # "approved"
    /\ \/ enr[r].status = "pending" /\ ~enr[r].tx /\ UNCHANGED enr
       \/ /\ platformFeeRejected(enr[r])
          /\ UniqueLive(r)
          /\ enr' = [enr EXCEPT ![r] = [@ EXCEPT !.status = "pending", !.fee = FALSE]]
    /\ Become(r, "approved")
    /\ Start(p, "invoice", r, accept)
    /\ UNCHANGED <<sold, outside, billing, log>>

\* Mutant of PurchaseNew: the schedules are made from the request, not from the
\* slots that staff selected.
PurchaseNew_AllSlots(p, r, accept, a) ==
    LET slots == IF accept THEN req[r].recommended ELSE privateSelectedSlots(r, a)
    IN  /\ req[r].status # "approved"
        /\ enr[r].status = "none"
        /\ class.open /\ WithinLimit(slots)
        /\ ~accept => IF a = Null THEN class.limit = Null ELSE a.limit = class.limit
        /\ ~accept => req[r].approved = {}
        /\ UniqueLive(r)
        /\ req' = [req EXCEPT ![r] = [@ EXCEPT
              !.status = "approved",
              !.approved = IF accept THEN req[r].approved ELSE slots]]
        /\ enr' = [enr EXCEPT ![r] = [NoEnrollment EXCEPT !.status = "pending"]]
        /\ sold' = [sold EXCEPT ![r] = IF accept THEN slots ELSE req[r].slots]
        /\ Start(p, "invoice", r, accept)
        /\ UNCHANGED <<outside, billing, log>>

\* The first purchase: the class row is locked and must still be for sale, with
\* the slot limit staff have seen; the selection, the enrollment, a schedule for
\* each slot and the new status are one transaction.
PurchaseNew(p, r, accept, a) ==
    LET slots == IF accept THEN req[r].recommended ELSE privateSelectedSlots(r, a)
    IN  /\ req[r].status # "approved"
        /\ enr[r].status = "none"
        /\ class.open /\ WithinLimit(slots)
        /\ ~accept => IF a = Null THEN class.limit = Null ELSE a.limit = class.limit
        /\ ~accept => req[r].approved = {}
        /\ UniqueLive(r)
        /\ req' = [req EXCEPT ![r] = [@ EXCEPT
              !.status = "approved",
              !.approved = IF accept THEN req[r].approved ELSE slots]]
        /\ enr' = [enr EXCEPT ![r] = [NoEnrollment EXCEPT !.status = "pending"]]
        /\ sold' = [sold EXCEPT ![r] = slots]
        /\ Start(p, "invoice", r, accept)
        /\ UNCHANGED <<outside, billing, log>>

Purchase(p, r, accept, a) ==
    /\ Decidable(r, accept)
    /\ accept => a = Null
    /\ Selectable(r, a)
    /\ \/ PurchaseAgain(p, r, accept) \/ PurchaseRestored(p, r, accept)
       \/ PurchaseNew(p, r, accept, a)

\* Billing opens the invoice, or returns the one it has; the answer may be lost.
GenerateInvoice(p) ==
    LET r == job[p].id
    IN  /\ pc[p] = "invoice"
        /\ invoice[r] = "none" => ~refuses
        /\ invoice' = [invoice EXCEPT ![r] = IF @ = "none" THEN "open" ELSE @]
        /\ Goto(p, "save") \/ (Failures /\ Finish(p))
        /\ UNCHANGED <<req, enr, sold, outside, failed, log>>

\* ErrPlatformFeeExceedsGross: no transaction is written.
RefuseInvoice(p) ==
    /\ pc[p] = "invoice"
    /\ invoice[job[p].id] = "none" /\ refuses
    /\ Goto(p, "reject")
    /\ UNCHANGED <<req, enr, sold, outside, billing, log>>

\* Mutant of DropInvoiceRejected: the status of the locked row is not checked.
DropInvoiceRejected_AnyStatus(p) ==
    LET r == job[p].id
    IN  /\ pc[p] = "reject"
        /\ enr' = [enr EXCEPT ![r] = [@ EXCEPT !.status = "dropped", !.fee = TRUE]]
        /\ Goto(p, "reset")
        /\ UNCHANGED <<req, sold, outside, billing, log>>

\* invoiceFailure: an enrollment that is still pending is dropped.
DropInvoiceRejected(p) ==
    LET r == job[p].id
    IN  /\ pc[p] = "reject"
        /\ enr' = IF enr[r].status = "pending"
                  THEN [enr EXCEPT ![r] = [@ EXCEPT !.status = "dropped", !.fee = TRUE]]
                  ELSE enr
        /\ Goto(p, "reset")
        /\ UNCHANGED <<req, sold, outside, billing, log>>

\* Mutant of ResetRejected: the enrollment is not looked at again.
ResetRejected_NoCheck(p) ==
    LET r == job[p].id
        status == IF job[p].accept THEN "rejected" ELSE "pending"
    IN  /\ pc[p] = "reset"
        /\ IF status = "pending" => UniquePending(r)
           THEN Become(r, status) ELSE UNCHANGED req
        /\ Finish(p)
        /\ UNCHANGED <<enr, sold, outside, billing, log>>

\* The request is reopened if its enrollment is still the refused one.  SetStatus
\* does not ask what the request's status is by now.
ResetRejected(p) ==
    LET r == job[p].id
        status == IF job[p].accept THEN "rejected" ELSE "pending"
    IN  /\ pc[p] = "reset"
        /\ IF platformFeeRejected(enr[r]) /\ (status = "pending" => UniquePending(r))
           THEN Become(r, status) ELSE UNCHANGED req
        /\ Finish(p)
        /\ UNCHANGED <<enr, sold, outside, billing, log>>

\* Mutant of UpdatePaymentDetails: the enrollment is saved as it was created.
UpdatePaymentDetails_FullRow(p) ==
    LET r == job[p].id
    IN  /\ pc[p] = "save"
        /\ enr' = [enr EXCEPT ![r] = [status |-> "pending", fee |-> FALSE, tx |-> TRUE]]
        /\ Finish(p)
        /\ UNCHANGED <<req, sold, outside, billing, log>>

\* Only the payment columns of a live enrollment without them are written.
UpdatePaymentDetails(p) ==
    LET r == job[p].id
    IN  /\ pc[p] = "save"
        /\ enr' = IF Live(enr[r]) THEN [enr EXCEPT ![r] = [@ EXCEPT !.tx = TRUE]]
                                  ELSE enr
        /\ Finish(p)
        /\ UNCHANGED <<req, sold, outside, billing, log>>

\* An error, a cancelled context or a crash between two steps.
PurchaseFails(p) ==
    /\ Failures
    /\ pc[p] # "idle"
    /\ Finish(p)
    /\ UNCHANGED <<req, enr, sold, outside, billing, log>>

-----------------------------------------------------------------------------
(* What else happens to the enrollment, the class and billing. *)

Pay(r) ==
    /\ invoice[r] = "open"
    /\ invoice' = [invoice EXCEPT ![r] = "paid"]
    /\ UNCHANGED <<req, enr, sold, outside, failed, procs, log>>

PaymentFails(r) ==
    /\ "fail" \in Ops
    /\ invoice[r] = "open"
    /\ failed' = failed \cup {r}
    /\ UNCHANGED <<req, enr, sold, outside, invoice, procs, log>>

ActivateEnrollment(r) ==
    /\ invoice[r] = "paid"
    /\ enr[r].status = "pending"
    /\ EnrollmentBecomes(r, "active")
    /\ log' = [log EXCEPT ![r] = @ \cup {"activated"}]
    /\ UNCHANGED <<req, sold, outside, billing, procs>>

ReleaseEnrollment(r) ==
    /\ r \in failed
    /\ enr[r].status = "pending"
    /\ EnrollmentBecomes(r, "dropped")
    /\ UNCHANGED <<req, sold, outside, billing, procs, log>>

SuspendEnrollment(r) ==
    /\ "suspend" \in Ops
    /\ enr[r].status = "active"
    /\ EnrollmentBecomes(r, "suspended")
    /\ UNCHANGED <<req, sold, outside, billing, procs, log>>

\* A private enrollment has no schedule_id: only the unique index decides.
ResumeEnrollment(r) ==
    /\ enr[r].status = "suspended"
    /\ UniqueLive(r)
    /\ EnrollmentBecomes(r, "active")
    /\ UNCHANGED <<req, sold, outside, billing, procs, log>>

EndEnrollment(r) ==
    /\ "end" \in Ops
    /\ enr[r].status \in {"active", "suspended"}
    /\ EnrollmentBecomes(r, "dropped")
    /\ log' = [log EXCEPT ![r] = @ \cup {"ended"}]
    /\ UNCHANGED <<req, sold, outside, billing, procs>>

\* The parent cancels the purchase: billing first, then the row.
CancelPendingEnrollment(p, r) ==
    /\ "cancel" \in Ops
    /\ enr[r].status \in {"pending", "dropped"}
    /\ Start(p, "withdraw", r, FALSE)
    /\ UNCHANGED <<req, enr, sold, outside, billing, log>>

WithdrawPayment(p) ==
    LET r == job[p].id
    IN  /\ pc[p] = "withdraw"
        /\ IF invoice[r] = "paid" THEN Finish(p) /\ UNCHANGED invoice
           ELSE /\ Goto(p, "drop")
                /\ invoice' = [invoice EXCEPT ![r] = IF @ = "open" THEN "cancelled" ELSE @]
        /\ UNCHANGED <<req, enr, sold, outside, failed, log>>

DropPending(p) ==
    LET r == job[p].id
    IN  /\ pc[p] = "drop"
        /\ IF enr[r].status = "pending"
           THEN EnrollmentBecomes(r, "dropped") ELSE UNCHANGED enr
        /\ Finish(p)
        /\ UNCHANGED <<req, sold, outside, billing, log>>

\* UpdateClass changes what may be sold; it locks the class row.
UpdateClass(open, limit) ==
    /\ "class" \in Ops
    /\ class' = [open |-> open, limit |-> limit]
    /\ UNCHANGED <<req, enr, sold, refuses, billing, procs, log>>

ChangePolicy ==
    /\ refuses' = ~refuses
    /\ UNCHANGED <<req, enr, sold, class, billing, procs, log>>

-----------------------------------------------------------------------------
(* The specification. *)

Init ==
    /\ req = [r \in Requests |-> NoRequest]
    /\ enr = [r \in Requests |-> NoEnrollment]
    /\ sold = [r \in Requests |-> {}]
    /\ class = [open |-> TRUE, limit |-> Null]
    /\ refuses \in BOOLEAN
    /\ invoice = [r \in Requests |-> "none"]
    /\ failed = {}
    /\ pc = [p \in Procs |-> "idle"]
    /\ job = [p \in Procs |-> NoJob]
    /\ log = [r \in Requests |-> {}]

Decision(r) ==
    \/ \E slots \in SUBSET Slots : Create(r, slots) \/ RejectWithRecommendation(r, slots)
    \/ Reject(r) \/ DeclineRecommendation(r) \/ Cancel(r)

PurchaseStart(p) ==
    \E r \in Requests, accept \in BOOLEAN, a \in Approval : Purchase(p, r, accept, a)

PurchaseStep(p) ==
    \/ GenerateInvoice(p) \/ RefuseInvoice(p) \/ DropInvoiceRejected(p)
    \/ ResetRejected(p) \/ UpdatePaymentDetails(p) \/ PurchaseFails(p)

CancelStep(p) ==
    \/ \E r \in Requests : CancelPendingEnrollment(p, r)
    \/ WithdrawPayment(p) \/ DropPending(p)

EnrollmentStep(r) ==
    \/ Pay(r) \/ PaymentFails(r) \/ ActivateEnrollment(r) \/ ReleaseEnrollment(r)
    \/ SuspendEnrollment(r) \/ ResumeEnrollment(r) \/ EndEnrollment(r)

OutsideStep ==
    \/ ChangePolicy
    \/ \E open \in BOOLEAN, limit \in Limits \cup {Null} : UpdateClass(open, limit)

Next ==
    \/ \E r \in Requests : Decision(r) \/ EnrollmentStep(r)
    \/ \E p \in Procs : PurchaseStart(p) \/ PurchaseStep(p) \/ CancelStep(p)
    \/ OutsideStep

Spec == Init /\ [][Next]_vars

-----------------------------------------------------------------------------
(* Properties. *)

\* Every variable has its type.
TypeOK ==
    /\ req \in [Requests -> RequestRow]
    /\ enr \in [Requests -> EnrollmentRow]
    /\ sold \in [Requests -> SUBSET Slots]
    /\ class \in [open : BOOLEAN, limit : Limits \cup {Null}]
    /\ refuses \in BOOLEAN
    /\ invoice \in [Requests -> {"none", "open", "paid", "cancelled"}]
    /\ failed \subseteq Requests
    /\ pc \in [Procs -> Steps]
    /\ job \in [Procs -> [id : Requests \cup {Null}, accept : BOOLEAN]]
    /\ log \in [Requests -> SUBSET {"activated", "ended"}]

\* A purchase in force belongs to an approved request: however many approvals,
\* refusals and resets overlap, no reset reopens a request whose enrollment
\* another approval has restored or sold.
PurchaseImpliesApproval ==
    \A r \in Requests :
        enr[r].status \in {"pending", "active", "suspended"}
            => req[r].status = "approved"

\* What staff approved is what was sold: an approved proposal has schedules for
\* the recorded selection, which a replay or a retry after a refusal keeps.
SoldAsApproved ==
    \A r \in Requests :
        req[r].status = "approved" /\ req[r].recommended = {} =>
            /\ enr[r].status # "none"
            /\ sold[r] = req[r].approved
            /\ sold[r] # {} /\ sold[r] \subseteq req[r].slots

\* Two requests of a student, one of them restored or resumed late, never hold
\* two live enrollments in the class.
OneLivePurchase ==
    \A r \in Requests, q \in Requests :
        r # q /\ StudentOf[r] = StudentOf[q] => ~(Live(enr[r]) /\ Live(enr[q]))

\* An activated enrollment stays active or suspended until it is ended: neither a
\* late answer of billing nor the clean-up after a refusal takes it back.
ActivationKept ==
    \A r \in Requests : "activated" \in log[r] =>
        enr[r].status \in {"active", "suspended"} \/ "ended" \in log[r]

-----------------------------------------------------------------------------
(* The inductive invariant behind the safety properties. *)

\* An HTTP request that has begun works on a request that exists.
JobsNamed == \A p \in Procs : pc[p] # "idle" => job[p].id \in Requests

\* A request is sold at most once, with the selection recorded then; slots and
\* selection do not change afterwards, whatever status the request goes through.
Sale(r) ==
    /\ req[r].status = "none" => enr[r].status = "none"
    /\ req[r].status # "none" => req[r].slots # {}
    /\ req[r].status = "approved" => enr[r].status # "none"
    /\ enr[r].status = "none" => req[r].approved = {}
    /\ enr[r].status # "none" /\ req[r].recommended = {} =>
          /\ sold[r] = req[r].approved
          /\ sold[r] # {} /\ sold[r] \subseteq req[r].slots

Sales == \A r \in Requests : Sale(r)

PurchaseInvariant ==
    /\ TypeOK /\ JobsNamed /\ Sales
    /\ PurchaseImpliesApproval /\ OneLivePurchase /\ ActivationKept

=============================================================================
