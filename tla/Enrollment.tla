---------------------------- MODULE Enrollment ----------------------------
(***************************************************************************)
(* The enrollment core: seats on class schedules and the requests that     *)
(* take, keep, move and give them back.                                    *)
(*                                                                         *)
(* Every request runs in a goroutine of its own against one PostgreSQL     *)
(* database (READ COMMITTED) and calls the external billing service        *)
(* outside its transactions.  A request is therefore a process whose steps *)
(* are its transactions and its calls.  A transaction that locks a         *)
(* schedule row is two steps (lock and check, then write and commit) with  *)
(* the lock held in between; one that reads and writes a single locked     *)
(* enrollment row is one step.                                             *)
(***************************************************************************)
EXTENDS Integers, FiniteSets

CONSTANTS
    Checkouts,      \* checkout requests; a new enrollment takes its request's id
    Workers,        \* requests for every other operation
    Purchases,      \* enrollments sold by the private request flow
    Students, Classes, Schedules, Keys,
    Callers,        \* parents and tenants, as scopes of an idempotency key
    ParentOf,       \* the parent of each student
    TenantOf,       \* the tenant of each class
    PrivateClasses, \* classes.type = 'private'; the others are groups
    Requests,       \* the checkout requests a run enumerates
    PurchaseOf,     \* student and class of each private purchase
    InitSched,      \* the schedules at the start
    Capacities,     \* the capacities a schedule change may ask for
    Null

Enrollments == Checkouts \cup Purchases
Procs == Checkouts \cup Workers

Rejections == {"voucher_rejected", "platform_fee_rejected"}
Statuses == {"none", "pending", "active", "suspended", "dropped"}
LogEntries == {"activated", "ended", "withdrawn", "unbilled", "stranded"}

Row == [status : Statuses, student : Students \cup {Null},
        class : Classes \cup {Null}, schedule : Schedules \cup {Null},
        key : Keys \cup {Null}, pay : Rejections \cup {"pending"},
        tx : BOOLEAN]

NoRow == [status |-> "none", student |-> Null, class |-> Null,
          schedule |-> Null, key |-> Null, pay |-> "pending", tx |-> FALSE]

ScheduleRow == [class : Classes, cap : Nat,
                state : {"unused", "open", "ended", "deleted", "class_deleted"}]

Request == [channel : {"public", "tenant"}, caller : Callers,
            student : Students, class : Classes,
            schedule : Schedules \cup {Null}, key : Keys]

NoAnswer == [kind |-> "none", of |-> Null]
Answer == [kind : {"none", "ok", "conflict", "rejected", "error"},
           of : Enrollments \cup {Null}]

JobOf(e, s, cap) == [enr |-> e, sched |-> s, cap |-> cap, unbilled |-> FALSE,
                     class |-> Null, doomed |-> {}]
NoJob == JobOf(Null, Null, 0)
Job == [enr : Enrollments \cup {Null}, sched : Schedules \cup {Null},
        cap : Nat, unbilled : BOOLEAN, class : Classes \cup {Null},
        doomed : SUBSET Schedules]

CheckoutSteps == {"idle", "create", "insert", "relookup", "invoice",
                  "reject", "save", "done"}
WorkerSteps == {"idle", "resume", "resume_save", "assign", "assign_save",
                "withdraw", "cancel", "change", "tutor", "delete",
                "class_schedules", "class_delete"}

ASSUME EnrollmentConstants ==
    /\ Checkouts \cap Workers = {} /\ Checkouts \cap Purchases = {}
    /\ IsFiniteSet(Checkouts) /\ IsFiniteSet(Purchases)
    /\ Null \notin Checkouts \cup Workers \cup Purchases \cup Students
                   \cup Classes \cup Schedules \cup Keys
    /\ ParentOf \in [Students -> Callers]
    /\ TenantOf \in [Classes -> Callers]
    /\ PrivateClasses \subseteq Classes
    /\ Requests \subseteq Request
    /\ PurchaseOf \in [Purchases -> [student : Students, class : PrivateClasses]]
    /\ \A e, f \in Purchases : PurchaseOf[e] = PurchaseOf[f] => e = f
    /\ InitSched \in [Schedules -> ScheduleRow]
    /\ \A s \in Schedules : InitSched[s].state \in {"unused", "open"}
    /\ Capacities \subseteq Nat \ {0}

VARIABLES
    enr,        \* table enrollments
    sched,      \* table class_schedules
    schedLock,  \* the transaction that holds a schedule row FOR UPDATE
    rowLock,    \* the transaction that holds an enrollment row FOR UPDATE
    invoice,    \* billing's transaction of an enrollment
    failed,     \* enrollments with a payment-failure notification in flight
    acked,      \* activations that billing has seen answered with success
    pc,         \* the next step of every request
    req,        \* what a checkout asks for
    mine,       \* the enrollment a checkout read or created: id and row as read
    ans,        \* what a checkout answered
    job,        \* the arguments of a worker's operation
    rewound,    \* history: rows on which a checkout's save undid another write
    log         \* history: what has happened to an enrollment

db == <<enr, sched>>
locks == <<schedLock, rowLock>>
billing == <<invoice, failed, acked>>
checkout == <<req, mine, ans>>
history == <<rewound, log>>
vars == <<db, locks, billing, pc, checkout, job, history>>

-----------------------------------------------------------------------------
(* Queries of the repositories. *)

Live(row) == row.status \in {"pending", "active"}

\* The rows both seat counts select: pending or active on the schedule.
Seats(s) == {e \in Enrollments : Live(enr[e]) /\ enr[e].schedule = s}

GetByKey(k) == {e \in Enrollments : enr[e].status # "none" /\ enr[e].key = k}

GetByIdempotencyKey(caller, k) ==
    {e \in GetByKey(k) : ParentOf[enr[e].student] = caller}

GetByIdempotencyKeyForTenant(caller, k) ==
    {e \in GetByKey(k) : TenantOf[enr[e].class] = caller}

\* The student holds no other pending or active enrollment in the class.
rejectLiveEnrollment(student, class, self) ==
    \A e \in Enrollments \ {self} :
        Live(enr[e]) => ~(enr[e].student = student /\ enr[e].class = class)

\* Mutant of UniqueActive: the table has no partial unique index.
UniqueActive_NoIndex(e, row) == TRUE

\* idx_student_class_active accepts row as the new version of enrollment e.
UniqueActive(e, row) ==
    Live(row) => rejectLiveEnrollment(row.student, row.class, e)

Found(s, class) ==
    s # Null /\ sched[s].class = class /\ sched[s].state \in {"open", "ended"}

scheduleHasEnded(s) == sched[s].state = "ended"

\* The class row is deleted in one transaction with the schedules it had.
ClassDeleted(c) ==
    \E s \in Schedules : sched[s].class = c /\ sched[s].state = "class_deleted"

HasRoom(s) == Cardinality(Seats(s)) < sched[s].cap

voucherRejected(row) == row.status = "dropped" /\ row.pay = "voucher_rejected"
platformFeeRejected(row) ==
    row.status = "dropped" /\ row.pay = "platform_fee_rejected"
Rejected(row) == voucherRejected(row) \/ platformFeeRejected(row)

\* The billing cycle, which is compared as well, is part of the class here.
Matches(row, r) == row.student = r.student /\ row.class = r.class

-----------------------------------------------------------------------------
(* Steps shared by the requests. *)

Free(lock, x) == lock[x] = Null

\* Commit or rollback: every row lock of the transaction is released.
ReleaseLocks(p) ==
    /\ schedLock' = [s \in Schedules |->
                        IF schedLock[s] = p THEN Null ELSE schedLock[s]]
    /\ rowLock' = [e \in Enrollments |->
                        IF rowLock[e] = p THEN Null ELSE rowLock[e]]

Goto(p, step) == pc' = [pc EXCEPT ![p] = step]

Reply(p, kind, e) ==
    /\ Goto(p, "done")
    /\ ans' = [ans EXCEPT ![p] = [kind |-> kind, of |-> e]]

\* Mutants of ReplyExisting: the stored enrollment is not compared with the
\* request, or its refused invoice is not looked at.
ReplyExisting_NoMatch(p, r, e) ==
    \/ Rejected(enr[e]) /\ Reply(p, "rejected", e)
    \/ ~Rejected(enr[e]) /\ Reply(p, "ok", e)
ReplyExisting_NoRejection(p, r, e) ==
    \/ ~Matches(enr[e], r) /\ Reply(p, "conflict", Null)
    \/ Matches(enr[e], r) /\ Reply(p, "ok", e)

\* The answer a stored enrollment gives to a request with its key.
ReplyExisting(p, r, e) ==
    \/ ~Matches(enr[e], r) /\ Reply(p, "conflict", Null)
    \/ Matches(enr[e], r) /\ Rejected(enr[e]) /\ Reply(p, "rejected", e)
    \/ Matches(enr[e], r) /\ ~Rejected(enr[e]) /\ Reply(p, "ok", e)

WithStatus(row, status) == [row EXCEPT !.status = status]
WithPay(row, pay) == [row EXCEPT !.pay = pay]
WithTransaction(row) == [row EXCEPT !.tx = TRUE]

SetStatus(e, status) == enr' = [enr EXCEPT ![e] = WithStatus(@, status)]

-----------------------------------------------------------------------------
(* Checkout: EnrollPublic (a parent) and EnrollStudent (tenant staff).      *)

Lookup(r) == IF r.channel = "public"
             THEN GetByIdempotencyKey(r.caller, r.key)
             ELSE GetByIdempotencyKeyForTenant(r.caller, r.key)

Authorised(r) == IF r.channel = "public"
                 THEN ParentOf[r.student] = r.caller
                 ELSE TenantOf[r.class] = r.caller

\* No enrollment of the caller has the key: a new one is to be created.
EnrollNew(p, r) ==
    /\ pc[p] = "idle"
    /\ Lookup(r) = {}
    /\ req' = [req EXCEPT ![p] = r]
    /\ IF /\ r.class \notin PrivateClasses /\ ~ClassDeleted(r.class)
          /\ Authorised(r) /\ r.schedule # Null
       THEN Goto(p, "create") /\ UNCHANGED ans
       ELSE Reply(p, "error", Null)
    /\ UNCHANGED <<db, locks, billing, mine, job, history>>

\* A replay of a key is answered from the stored enrollment.  Only a public
\* replay resumes the payment of an enrollment that has no transaction yet.
EnrollReplay(p, r) ==
    /\ pc[p] = "idle"
    /\ req' = [req EXCEPT ![p] = r]
    /\ \E e \in Lookup(r) :
          IF ~Matches(enr[e], r) THEN
             Reply(p, "conflict", Null) /\ UNCHANGED mine
          ELSE IF r.class \in PrivateClasses \/ ClassDeleted(r.class) THEN
             Reply(p, "error", Null) /\ UNCHANGED mine
          ELSE IF r.channel = "public" /\ ~Rejected(enr[e]) /\ ~enr[e].tx THEN
             /\ Goto(p, "invoice")
             /\ mine' = [mine EXCEPT ![p] = [id |-> e, row |-> enr[e]]]
             /\ UNCHANGED ans
          ELSE ReplyExisting(p, r, e) /\ UNCHANGED mine
    /\ UNCHANGED <<db, locks, billing, job, history>>

\* After a failed transaction a parent's checkout looks the key up once more.
CreateFailed(p) ==
    IF req[p].channel = "public" THEN Goto(p, "relookup") /\ UNCHANGED ans
                                 ELSE Reply(p, "error", Null)

\* Mutant of CreateIfCapacityAvailable: the schedule is read without FOR UPDATE.
CreateIfCapacityAvailable_NoLock(p) ==
    LET r == req[p]
        s == r.schedule
    IN  /\ pc[p] = "create"
        /\ IF /\ Found(s, r.class) /\ ~scheduleHasEnded(s)
              /\ rejectLiveEnrollment(r.student, r.class, p)
              /\ HasRoom(s)
           THEN Goto(p, "insert") /\ UNCHANGED ans
           ELSE CreateFailed(p)
        /\ UNCHANGED <<db, locks, billing, req, mine, job, history>>

\* The transaction locks the schedule row and then checks, in this order, that
\* it has not ended, that the student is not enrolled and that a seat is free.
CreateIfCapacityAvailable(p) ==
    LET r == req[p]
        s == r.schedule
    IN  /\ pc[p] = "create"
        /\ sched[s].state # "unused" => Free(schedLock, s)
        /\ IF /\ Found(s, r.class) /\ ~scheduleHasEnded(s)
              /\ rejectLiveEnrollment(r.student, r.class, p)
              /\ HasRoom(s)
           THEN /\ schedLock' = [schedLock EXCEPT ![s] = p]
                /\ Goto(p, "insert") /\ UNCHANGED ans
           ELSE CreateFailed(p) /\ UNCHANGED schedLock
        /\ UNCHANGED <<db, rowLock, billing, req, mine, job, history>>

\* The class row, which the transaction reads before it waits for the schedule,
\* is gone, unpublished or closed by now.
ClassNotEnrollable(p) ==
    /\ pc[p] = "create"
    /\ CreateFailed(p)
    /\ UNCHANGED <<db, locks, billing, req, mine, job, history>>

NewRow(r) == [status |-> "pending", student |-> r.student, class |-> r.class,
              schedule |-> r.schedule, key |-> r.key, pay |-> "pending",
              tx |-> FALSE]

\* db.Create and the commit.  The two unique indexes decide the races that the
\* schedule lock does not: same key, or same student on another schedule.
InsertEnrollment(p) ==
    LET row == NewRow(req[p])
    IN  /\ pc[p] = "insert"
        /\ IF GetByKey(row.key) = {} /\ UniqueActive(p, row)
           THEN /\ enr' = [enr EXCEPT ![p] = row]
                /\ mine' = [mine EXCEPT ![p] = [id |-> p, row |-> row]]
                /\ Goto(p, "invoice") /\ UNCHANGED ans
           ELSE CreateFailed(p) /\ UNCHANGED <<enr, mine>>
        /\ ReleaseLocks(p)
        /\ UNCHANGED <<sched, billing, req, job, history>>

\* GetByIdempotencyKeyAny: a concurrent request with the key may have won.
AnswerRace(p) ==
    /\ pc[p] = "relookup"
    /\ IF GetByKey(req[p].key) = {}
       THEN Reply(p, "error", Null)
       ELSE \E e \in GetByKey(req[p].key) : ReplyExisting(p, req[p], e)
    /\ UNCHANGED <<db, locks, billing, req, mine, job, history>>

\* Billing keeps one transaction per enrollment; asking again returns it.
OpenInvoice(e) ==
    invoice' = [invoice EXCEPT ![e] = IF @ = "none" THEN "open" ELSE @]

\* The call succeeds, or its answer is lost after billing has acted.
GenerateInvoice(p) ==
    /\ pc[p] = "invoice"
    /\ OpenInvoice(mine[p].id)
    /\ \/ Goto(p, "save") /\ UNCHANGED ans
       \/ Reply(p, "error", Null)
    /\ UNCHANGED <<db, locks, failed, acked, req, mine, job, history>>

\* Billing refuses for good and writes no transaction.  Only a parent's checkout
\* sends a voucher.
RefuseInvoice(p, why) ==
    /\ pc[p] = "invoice"
    /\ why = "voucher_rejected" => req[p].channel = "public"
    /\ invoice[mine[p].id] = "none"
    /\ Goto(p, "reject")
    /\ mine' = [mine EXCEPT ![p] = [id |-> @.id, row |-> WithPay(@.row, why)]]
    /\ UNCHANGED <<db, locks, billing, req, ans, job, history>>

\* invoiceFailure: the attempt's enrollment leaves pending under its row lock.
DropInvoiceRejected(p) ==
    LET e == mine[p].id
    IN  /\ pc[p] = "reject"
        /\ Free(rowLock, e)
        /\ IF enr[e].status = "pending"
           THEN enr' = [enr EXCEPT ![e] =
                           WithPay(WithStatus(@, "dropped"), mine[p].row.pay)]
           ELSE UNCHANGED enr
        /\ Reply(p, "rejected", e)
        /\ UNCHANGED <<sched, locks, billing, req, mine, job, history>>

SavedRow(p) == WithTransaction(WithPay(mine[p].row, "pending"))

\* Update is gorm's Save: outside any transaction it writes every column of the
\* row the request read or created, its status and its schedule included.  The
\* statement waits for the row lock and, when it changes schedule_id, for the
\* lock its foreign key needs on the schedule.
SaveInvoice(p) ==
    LET e == mine[p].id
        row == SavedRow(p)
    IN  /\ pc[p] = "save"
        /\ Free(rowLock, e)
        /\ row.schedule \notin {Null, enr[e].schedule} => Free(schedLock, row.schedule)
        /\ IF UniqueActive(e, row)
           THEN /\ enr' = [enr EXCEPT ![e] = row]
                /\ rewound' = IF /\ row.status = enr[e].status
                                 /\ row.schedule = enr[e].schedule
                              THEN rewound ELSE rewound \cup {e}
                /\ Reply(p, "ok", e)
           ELSE Reply(p, "error", Null) /\ UNCHANGED <<enr, rewound>>
        /\ UNCHANGED <<sched, locks, billing, req, mine, job, log>>

\* A database or dependency error, a closed or private class, a cancelled
\* context or a crash ends a request; the database rolls its transaction back.
CheckoutFails(p) ==
    /\ pc[p] \notin {"idle", "done"}
    /\ Reply(p, "error", Null)
    /\ ReleaseLocks(p)
    /\ UNCHANGED <<db, billing, req, mine, job, history>>

-----------------------------------------------------------------------------
(* Billing's side: payments and the notifications it posts to the internal *)
(* endpoints, each possibly late and more than once.                       *)

Pay(e) ==
    /\ invoice[e] = "open"
    /\ invoice' = [invoice EXCEPT ![e] = "paid"]
    /\ UNCHANGED <<db, locks, failed, acked, pc, checkout, job, history>>

\* A payment attempt fails and the invoice stays payable, or it expires.
PaymentFails(e) ==
    /\ invoice[e] = "open"
    /\ failed' = failed \cup {e}
    /\ \/ UNCHANGED invoice
       \/ invoice' = [invoice EXCEPT ![e] = "expired"]
    /\ UNCHANGED <<db, locks, acked, pc, checkout, job, history>>

Logged(e, what) == log' = [log EXCEPT ![e] = @ \cup {what}]

\* Mutant of ActivateEnrollment: success is answered and nothing is saved.
ActivateEnrollment_NoSave(e) ==
    /\ invoice[e] = "paid"
    /\ Free(rowLock, e)
    /\ enr[e].status \in {"pending", "active"}
    /\ acked' = acked \cup {e}
    /\ UNCHANGED <<db, locks, invoice, failed, pc, checkout, job, history>>

ActivateEnrollment(e) ==
    /\ invoice[e] = "paid"
    /\ Free(rowLock, e)
    /\ enr[e].status \in {"pending", "active"}
    /\ SetStatus(e, "active")
    /\ acked' = acked \cup {e}
    /\ IF enr[e].status = "pending" THEN Logged(e, "activated") ELSE UNCHANGED log
    /\ UNCHANGED <<sched, locks, invoice, failed, pc, checkout, job, rewound>>

\* Mutant of ReleaseEnrollment: the status is not checked.
ReleaseEnrollment_AnyStatus(e) ==
    /\ e \in failed
    /\ Free(rowLock, e)
    /\ enr[e].status \in {"pending", "active"}
    /\ SetStatus(e, "dropped")
    /\ UNCHANGED <<sched, locks, billing, pc, checkout, job, history>>

\* Only pending is dropped; a dropped or active enrollment is answered as it is.
ReleaseEnrollment(e) ==
    /\ e \in failed
    /\ Free(rowLock, e)
    /\ enr[e].status = "pending"
    /\ SetStatus(e, "dropped")
    /\ UNCHANGED <<sched, locks, billing, pc, checkout, job, history>>

SuspendEnrollment(e) ==
    /\ Free(rowLock, e)
    /\ enr[e].status = "active"
    /\ SetStatus(e, "suspended")
    /\ UNCHANGED <<sched, locks, billing, pc, checkout, job, history>>

EndEnrollment(e) ==
    /\ Free(rowLock, e)
    /\ enr[e].status \in {"active", "suspended"}
    /\ SetStatus(e, "dropped")
    /\ Logged(e, "ended")
    /\ UNCHANGED <<sched, locks, billing, pc, checkout, job, rewound>>

-----------------------------------------------------------------------------
(* Operations of more than one step, run by workers.                       *)

Start(w, first, j) ==
    /\ pc[w] = "idle"
    /\ Goto(w, first)
    /\ job' = [job EXCEPT ![w] = j]

\* The operation ends, committed or rolled back.
Finish(w) ==
    /\ Goto(w, "idle")
    /\ job' = [job EXCEPT ![w] = NoJob]
    /\ ReleaseLocks(w)

WorkerFails(w) ==
    /\ pc[w] # "idle"
    /\ Finish(w)
    /\ UNCHANGED <<db, billing, checkout, history>>

LockRow(w, e) ==
    /\ Free(rowLock, e)
    /\ rowLock' = [rowLock EXCEPT ![e] = w]

\* ResumeEnrollment: the enrollment row is locked first, ...
ResumeEnrollment(w, e) ==
    /\ enr[e].status = "suspended"
    /\ LockRow(w, e)
    /\ Start(w, "resume", JobOf(e, enr[e].schedule, 0))
    /\ UNCHANGED <<db, schedLock, billing, checkout, history>>

\* ... then the schedule row, and a seat is checked as for a new signup, ...
ResumeUnderCapacity(w) ==
    LET e == job[w].enr
        s == job[w].sched
    IN  /\ pc[w] = "resume"
        /\ s # Null => Free(schedLock, s)
        /\ IF /\ s # Null => /\ Found(s, enr[e].class)
                            /\ ~scheduleHasEnded(s)
                            /\ HasRoom(s)
              /\ rejectLiveEnrollment(enr[e].student, enr[e].class, e)
           THEN /\ schedLock' = IF s = Null THEN schedLock
                                ELSE [schedLock EXCEPT ![s] = w]
                /\ Goto(w, "resume_save")
                /\ UNCHANGED <<rowLock, job>>
           ELSE Finish(w)
        /\ UNCHANGED <<db, billing, checkout, history>>

\* ... and the status is saved, unless the unique index refuses it.
ResumeSave(w) ==
    LET e == job[w].enr
    IN  /\ pc[w] = "resume_save"
        /\ IF UniqueActive(e, WithStatus(enr[e], "active"))
           THEN SetStatus(e, "active") ELSE UNCHANGED enr
        /\ Finish(w)
        /\ UNCHANGED <<sched, billing, checkout, history>>

OnSchedule(row, s) == [row EXCEPT !.schedule = s]

\* AssignSchedule gives a pending enrollment without a schedule its seat.
AssignSchedule(w, e, s) ==
    /\ enr[e].status = "pending" /\ enr[e].schedule = Null
    /\ LockRow(w, e)
    /\ Start(w, "assign", JobOf(e, s, 0))
    /\ UNCHANGED <<db, schedLock, billing, checkout, history>>

AssignUnderCapacity(w) ==
    LET s == job[w].sched
    IN  /\ pc[w] = "assign"
        /\ Free(schedLock, s)
        /\ IF /\ Found(s, enr[job[w].enr].class)
              /\ ~scheduleHasEnded(s)
              /\ HasRoom(s)
           THEN /\ schedLock' = [schedLock EXCEPT ![s] = w]
                /\ Goto(w, "assign_save")
                /\ UNCHANGED <<rowLock, job>>
           ELSE Finish(w)
        /\ UNCHANGED <<db, billing, checkout, history>>

AssignSave(w) ==
    /\ pc[w] = "assign_save"
    /\ enr' = [enr EXCEPT ![job[w].enr] = OnSchedule(@, job[w].sched)]
    /\ Finish(w)
    /\ UNCHANGED <<sched, billing, checkout, history>>

\* CancelPendingEnrollment reads the enrollment, ...
CancelPendingEnrollment(w, e) ==
    /\ enr[e].status \in {"pending", "dropped"}
    /\ Start(w, "withdraw", JobOf(e, Null, 0))
    /\ UNCHANGED <<db, locks, billing, checkout, history>>

Unbilled(j) == [j EXCEPT !.unbilled = TRUE]

\* ... withdraws its payment (not found is no obstacle, settled is), ...
WithdrawPayment(w) ==
    LET e == job[w].enr
    IN  /\ pc[w] = "withdraw"
        /\ \/ /\ invoice[e] = "none"
              /\ Goto(w, "cancel")
              /\ job' = [job EXCEPT ![w] = Unbilled(@)]
              /\ UNCHANGED <<invoice, locks>>
           \/ /\ invoice[e] \in {"open", "cancelled", "expired"}
              /\ Goto(w, "cancel")
              /\ invoice' = [invoice EXCEPT ![e] = "cancelled"]
              /\ UNCHANGED <<job, locks>>
           \/ /\ invoice[e] \in {"paid", "expired"}
              /\ Finish(w)
              /\ UNCHANGED invoice
        /\ UNCHANGED <<db, failed, acked, checkout, history>>

\* ... and only then drops the seat, if the locked row is still pending.
DropPending(w) ==
    LET e == job[w].enr
    IN  /\ pc[w] = "cancel"
        /\ Free(rowLock, e)
        /\ IF enr[e].status = "pending"
           THEN /\ SetStatus(e, "dropped")
                /\ log' = [log EXCEPT ![e] = @ \cup
                              {IF job[w].unbilled THEN "unbilled" ELSE "withdrawn"}]
           ELSE UNCHANGED <<enr, log>>
        /\ Finish(w)
        /\ UNCHANGED <<sched, billing, checkout, rewound>>

InState(row, state) == [row EXCEPT !.state = state]

LockSchedule(w, s) ==
    /\ Free(schedLock, s)
    /\ schedLock' = [schedLock EXCEPT ![s] = w]

\* Bound: a change starts only while the run has an unused schedule id for it.
SpareSchedule ==
    Cardinality({w \in Workers : pc[w] \in {"change", "tutor"}})
        < Cardinality({s \in Schedules : sched[s].state = "unused"})

\* Mutant of ChangeSchedulePermanent: the seats taken are not compared with the
\* capacity asked for.
ChangeSchedulePermanent_AnyCapacity(w, s, cap) ==
    /\ SpareSchedule
    /\ sched[s].state = "open"
    /\ sched[s].class \in PrivateClasses /\ ~ClassDeleted(sched[s].class) => cap = 1
    /\ LockSchedule(w, s)
    /\ Start(w, "change", JobOf(Null, s, cap))
    /\ UNCHANGED <<db, rowLock, billing, checkout, history>>

\* ChangeSchedulePermanent locks the schedule; ValidateChange refuses a past
\* date and a capacity below the seats taken.  A deleted class is no obstacle,
\* and its type is not seen.
ChangeSchedulePermanent(w, s, cap) ==
    /\ SpareSchedule
    /\ sched[s].state = "open"
    /\ sched[s].class \in PrivateClasses /\ ~ClassDeleted(sched[s].class) => cap = 1
    /\ Cardinality(Seats(s)) <= cap
    /\ LockSchedule(w, s)
    /\ Start(w, "change", JobOf(Null, s, cap))
    /\ UNCHANGED <<db, rowLock, billing, checkout, history>>

\* ChangeTutorPermanent keeps the capacity and may be dated in the past.  A
\* private schedule that has this tutor already, or none yet, is not replaced:
\* that outcome writes no row modelled here and is a worker that ends.
ChangeTutorPermanent(w, s) ==
    /\ SpareSchedule
    /\ sched[s].state \in {"open", "ended"}
    /\ LockSchedule(w, s)
    /\ Start(w, "tutor", JobOf(Null, s, sched[s].cap))
    /\ UNCHANGED <<db, rowLock, billing, checkout, history>>

\* Mutant of Transferred: suspended enrollments are moved along, and locked.
Transferred_AnyStatus(s) ==
    {e \in Enrollments : enr[e].schedule = s /\ enr[e].class = sched[s].class}

\* The live enrollments of the old schedule, which the update also locks.
Transferred(s) == {e \in Seats(s) : enr[e].class = sched[s].class}

TransferSchedule(old, new) ==
    enr' = [e \in Enrollments |-> IF e \in Transferred(old)
                                  THEN OnSchedule(enr[e], new)
                                  ELSE enr[e]]

\* Both changes close the old schedule on the day before the effective date,
\* create its successor with the old last day and move the live enrollments.
ReplaceSchedule(w, new) ==
    LET s == job[w].sched
    IN  /\ pc[w] \in {"change", "tutor"}
        /\ sched[new].state = "unused"
        /\ \A e \in Transferred(s) : Free(rowLock, e)
        /\ \E st \in {sched[s].state, "ended"} :
              sched' = [sched EXCEPT ![s] = InState(@, st),
                          ![new] = [class |-> sched[s].class,
                                    cap |-> job[w].cap,
                                    state |-> sched[s].state]]
        /\ TransferSchedule(s, new)
        /\ Finish(w)
        /\ UNCHANGED <<billing, checkout, history>>

\* Mutant of DeleteSchedule: the schedule is read without FOR UPDATE.
DeleteSchedule_NoLock(w, s) ==
    /\ sched[s].state \in {"open", "ended"}
    /\ ~ClassDeleted(sched[s].class)
    /\ Seats(s) = {}
    /\ Start(w, "delete", JobOf(Null, s, 0))
    /\ UNCHANGED <<db, locks, billing, checkout, history>>

\* DeleteSchedule locks the schedule and refuses while a seat is taken, or when
\* the class cannot be read any more.
DeleteSchedule(w, s) ==
    /\ sched[s].state \in {"open", "ended"}
    /\ ~ClassDeleted(sched[s].class)
    /\ Seats(s) = {}
    /\ LockSchedule(w, s)
    /\ Start(w, "delete", JobOf(Null, s, 0))
    /\ UNCHANGED <<db, rowLock, billing, checkout, history>>

DeleteCommit(w) ==
    /\ pc[w] = "delete"
    /\ sched' = [sched EXCEPT ![job[w].sched] = InState(@, "deleted")]
    /\ Finish(w)
    /\ UNCHANGED <<enr, billing, checkout, history>>

ClassJob(c) == [NoJob EXCEPT !.class = c]
Doomed(j, rows) == [j EXCEPT !.doomed = rows]

\* DeleteClass looks for active enrollments, locking nothing; pending ones are
\* no obstacle.  Bound: a class that never had a schedule is not deleted.
DeleteClass(w, c) ==
    /\ \E s \in Schedules : sched[s].class = c /\ sched[s].state # "unused"
    /\ ~ClassDeleted(c)
    /\ \A e \in Enrollments : enr[e].class = c => enr[e].status # "active"
    /\ Start(w, "class_schedules", ClassJob(c))
    /\ UNCHANGED <<db, locks, billing, checkout, history>>

\* The UPDATE of DeleteByClass sees the rows the class has as it starts, ...
DeleteByClass(w) ==
    LET rows == {s \in Schedules : /\ sched[s].class = job[w].class
                                   /\ sched[s].state # "unused"}
    IN  /\ pc[w] = "class_schedules"
        /\ Goto(w, "class_delete")
        /\ job' = [job EXCEPT ![w] = Doomed(@, rows)]
        /\ UNCHANGED <<db, locks, billing, checkout, history>>

\* ... waits for the transactions that hold one of them, and deletes them all,
\* with whatever sits on them by then; the class row goes with the commit.  A
\* successor made meanwhile is not among them.
DeleteByTenant(w) ==
    LET rows == job[w].doomed
    IN  /\ pc[w] = "class_delete"
        /\ \A s \in rows : Free(schedLock, s)
        /\ sched' = [s \in Schedules |-> IF s \in rows
                                         THEN InState(sched[s], "class_deleted")
                                         ELSE sched[s]]
        /\ log' = [e \in Enrollments |->
                      IF Live(enr[e]) /\ enr[e].schedule \in rows
                      THEN log[e] \cup {"stranded"} ELSE log[e]]
        /\ Finish(w)
        /\ UNCHANGED <<enr, billing, checkout, rewound>>

\* The schedule's valid_until date passes.
DayPasses(s) ==
    /\ sched[s].state = "open"
    /\ sched' = [sched EXCEPT ![s] = InState(@, "ended")]
    /\ UNCHANGED <<enr, locks, billing, pc, checkout, job, history>>

-----------------------------------------------------------------------------
(* The specification. *)

\* A private purchase: invoiced, and still without a schedule.
PurchaseRow(q) == [status |-> "pending", student |-> q.student, class |-> q.class,
                   schedule |-> Null, key |-> Null, pay |-> "pending", tx |-> TRUE]

Init ==
    /\ enr = [e \in Enrollments |->
                IF e \in Purchases THEN PurchaseRow(PurchaseOf[e]) ELSE NoRow]
    /\ sched = InitSched
    /\ schedLock = [s \in Schedules |-> Null]
    /\ rowLock = [e \in Enrollments |-> Null]
    /\ invoice = [e \in Enrollments |-> IF e \in Purchases THEN "open" ELSE "none"]
    /\ failed = {} /\ acked = {}
    /\ pc = [p \in Procs |-> "idle"]
    /\ req = [p \in Checkouts |-> Null]
    /\ mine = [p \in Checkouts |-> [id |-> Null, row |-> NoRow]]
    /\ ans = [p \in Checkouts |-> NoAnswer]
    /\ job = [w \in Workers |-> NoJob]
    /\ rewound = {}
    /\ log = [e \in Enrollments |-> {}]

\* The steps of a checkout that has begun.
CheckoutStep(p) ==
    \/ CreateIfCapacityAvailable(p) \/ InsertEnrollment(p) \/ AnswerRace(p)
    \/ GenerateInvoice(p) \/ DropInvoiceRejected(p) \/ SaveInvoice(p)

WorkerStep(w) ==
    \/ ResumeUnderCapacity(w) \/ ResumeSave(w)
    \/ AssignUnderCapacity(w) \/ AssignSave(w)
    \/ WithdrawPayment(w) \/ DropPending(w)
    \/ \E new \in Schedules : ReplaceSchedule(w, new)
    \/ DeleteCommit(w) \/ DeleteByClass(w) \/ DeleteByTenant(w)

WorkerStart(w) ==
    \/ \E e \in Enrollments :
          \/ ResumeEnrollment(w, e) \/ CancelPendingEnrollment(w, e)
          \/ \E s \in Schedules : AssignSchedule(w, e, s)
    \/ \E s \in Schedules :
          \/ \E cap \in Capacities : ChangeSchedulePermanent(w, s, cap)
          \/ ChangeTutorPermanent(w, s) \/ DeleteSchedule(w, s)
    \/ \E c \in Classes : DeleteClass(w, c)

CheckoutNext(p) ==
    \/ \E r \in Requests : EnrollNew(p, r) \/ EnrollReplay(p, r)
    \/ CheckoutStep(p) \/ ClassNotEnrollable(p)
    \/ \E why \in Rejections : RefuseInvoice(p, why)
    \/ CheckoutFails(p)

WorkerNext(w) == WorkerStart(w) \/ WorkerStep(w) \/ WorkerFails(w)

\* Billing, its notifications, the tenant's and the calendar's steps.
OutsideNext ==
    \/ \E e \in Enrollments :
          \/ Pay(e) \/ PaymentFails(e)
          \/ ActivateEnrollment(e) \/ ReleaseEnrollment(e)
          \/ SuspendEnrollment(e) \/ EndEnrollment(e)
    \/ \E s \in Schedules : DayPasses(s)

Next ==
    \/ \E p \in Checkouts : CheckoutNext(p)
    \/ \E w \in Workers : WorkerNext(w)
    \/ OutsideNext

Spec == Init /\ [][Next]_vars

\* A request that has begun is run to its end and PostgreSQL queues the waiters
\* of a lock, so none is passed over for ever; billing repeats an activation
\* until it is answered with success.
Fairness ==
    /\ \A p \in Checkouts : SF_vars(CheckoutStep(p))
    /\ \A w \in Workers : SF_vars(WorkerStep(w))
    /\ \A e \in Enrollments : SF_vars(e \notin acked /\ ActivateEnrollment(e))

-----------------------------------------------------------------------------
(* Properties. *)

TablesTyped == enr \in [Enrollments -> Row] /\ sched \in [Schedules -> ScheduleRow]

LocksTyped ==
    /\ schedLock \in [Schedules -> Procs \cup {Null}]
    /\ rowLock \in [Enrollments -> Procs \cup {Null}]

BillingTyped ==
    /\ invoice \in [Enrollments -> {"none", "open", "paid", "expired", "cancelled"}]
    /\ failed \subseteq Enrollments /\ acked \subseteq Enrollments

StepsTyped ==
    /\ pc \in [Procs -> CheckoutSteps \cup WorkerSteps]
    /\ \A p \in Checkouts : pc[p] \in CheckoutSteps
    /\ \A w \in Workers : pc[w] \in WorkerSteps

RequestsTyped ==
    /\ req \in [Checkouts -> Request \cup {Null}]
    /\ mine \in [Checkouts -> [id : Enrollments \cup {Null}, row : Row]]
    /\ ans \in [Checkouts -> Answer]
    /\ job \in [Workers -> Job]

HistoryTyped ==
    /\ rewound \subseteq Enrollments
    /\ log \in [Enrollments -> SUBSET LogEntries]

\* Every variable has its type, and the operations of a process are its own.
TypeOK == /\ TablesTyped /\ LocksTyped /\ BillingTyped
          /\ StepsTyped /\ RequestsTyped /\ HistoryTyped

\* The seats taken by an operation that checked for them.
Kept(s) == Seats(s) \ rewound

\* No interleaving of signups, resumes, assignments and schedule changes gives
\* out more seats than a schedule has: the schedule row lock serialises every
\* count with its write.  Only a row that a checkout's full-row save brought
\* back (rewound) can be one too many.
SeatsWithinCapacity ==
    \A s \in Schedules : Cardinality(Kept(s)) <= sched[s].cap

\* A schedule is deleted on its own only while empty, and whether it goes alone
\* or with its class, nobody signs up, resumes or is moved onto it afterwards:
\* a live seat on a deleted schedule is one that the class was deleted from
\* under, rewound rows excepted.
NoSeatOnDeletedSchedule ==
    \A e \in Enrollments \ rewound :
        Live(enr[e]) /\ enr[e].schedule # Null =>
            \/ sched[enr[e].schedule].state \in {"open", "ended"}
            \/ /\ sched[enr[e].schedule].state = "class_deleted"
               /\ "stranded" \in log[e]

\* A student holds one pending or active enrollment in a class, although
\* rejectLiveEnrollment is no lock and requests may use different schedules.
OneLiveEnrollment ==
    \A e, f \in Enrollments :
        /\ Live(enr[e]) /\ Live(enr[f])
        /\ enr[e].student = enr[f].student /\ enr[e].class = enr[f].class
        => e = f

\* An enrollment that was activated stays active or suspended until it is
\* ended: no late failure notification, cancellation or rejected invoice takes
\* it back, unless a checkout's save first rewound it to pending.
ActivationSticks ==
    \A e \in Enrollments \ rewound :
        "activated" \in log[e] =>
            enr[e].status \in {"active", "suspended"} \/ "ended" \in log[e]

\* Whatever race decided a checkout, its success names an enrollment with the
\* request's key, student and class.
AnswersMatchRequest ==
    \A p \in Checkouts : ans[p].kind = "ok" =>
        LET row == enr[ans[p].of]
        IN  row.status # "none" /\ row.key = req[p].key /\ Matches(row, req[p])

\* No checkout is answered with success for an enrollment whose invoice billing
\* has refused for good.
NoSuccessForRejected ==
    [][\A p \in Checkouts : ans'[p] # ans[p] /\ ans'[p].kind = "ok"
            => ~Rejected(enr'[ans'[p].of])]_vars

\* Row locks never leave requests waiting for each other: every request that
\* has begun ends, and its locks with it.
RequestsFinish ==
    /\ \A p \in Checkouts : pc[p] \notin {"idle", "done"} ~> pc[p] = "done"
    /\ \A w \in Workers : pc[w] # "idle" ~> pc[w] = "idle"

\* A pending enrollment whose invoice is paid leaves pending, rewound ones
\* excepted.
PaidIsActivated ==
    \A e \in Enrollments :
        invoice[e] = "paid" /\ enr[e].status = "pending"
            ~> enr[e].status # "pending" \/ e \in rewound

-----------------------------------------------------------------------------
(* The inductive invariant behind the safety properties. *)

\* A checkout's request, its unused enrollment id and the row it works on.
CheckoutLocal(p) ==
    /\ pc[p] # "idle" => req[p] \in Request
    /\ pc[p] \in {"idle", "create", "insert"} => enr[p].status = "none"
    /\ pc[p] \in {"create", "insert"} => req[p].schedule \in Schedules
    /\ pc[p] \in {"invoice", "reject", "save"} =>
          /\ mine[p].id \in Enrollments
          /\ mine[p].row.status # "none"
          /\ enr[mine[p].id].status # "none"

RowJobs == {"resume", "resume_save", "assign", "assign_save", "withdraw", "cancel"}
SchedJobs == {"assign", "assign_save", "change", "tutor", "delete"}

\* A worker's arguments, and the enrollment row it holds locked.
WorkerLocal(w) ==
    /\ pc[w] \in RowJobs =>
          job[w].enr \in Enrollments /\ enr[job[w].enr].status # "none"
    /\ pc[w] \in SchedJobs => job[w].sched \in Schedules
    /\ pc[w] \in {"resume", "resume_save"} =>
          /\ rowLock[job[w].enr] = w
          /\ enr[job[w].enr].status = "suspended"
          /\ enr[job[w].enr].schedule = job[w].sched
    /\ pc[w] \in {"assign", "assign_save"} =>
          /\ rowLock[job[w].enr] = w
          /\ enr[job[w].enr].status = "pending"
          /\ enr[job[w].enr].schedule = Null

CheckoutLocals == \A p \in Checkouts : CheckoutLocal(p)
WorkerLocals == \A w \in Workers : WorkerLocal(w)

\* No row and no copy of a row refers to a schedule that does not exist yet.
NoUseOfUnused ==
    \A s \in Schedules : sched[s].state = "unused" =>
        /\ \A e \in Enrollments : enr[e].schedule # s
        /\ \A p \in Checkouts : mine[p].row.schedule # s

\* p is about to write under the lock of schedule s.
Writing(p, s) ==
    \/ p \in Checkouts /\ pc[p] = "insert" /\ req[p].schedule = s
    \/ /\ p \in Workers /\ job[p].sched = s
       /\ pc[p] \in {"resume_save", "assign_save", "change", "tutor", "delete"}

\* ... holds that lock, and what it checked still holds.
Checked(p, s) ==
    /\ schedLock[s] = p
    /\ sched[s].state \in {"open", "ended"}
    /\ pc[p] \in {"insert", "resume_save", "assign_save"} =>
          Cardinality(Kept(s)) < sched[s].cap
    /\ pc[p] \in {"change", "tutor"} => Cardinality(Kept(s)) <= job[p].cap
    /\ pc[p] = "delete" => Kept(s) = {}

\* Nobody else can add to the seats between a check and its write.
CheckedUnderLock ==
    \A p \in Procs, s \in Schedules : Writing(p, s) => Checked(p, s)

SeatInvariant ==
    /\ TypeOK /\ CheckoutLocals /\ WorkerLocals /\ NoUseOfUnused
    /\ CheckedUnderLock /\ SeatsWithinCapacity /\ NoSeatOnDeletedSchedule

\* The columns that say whose enrollment a row is and who asked for it.
SameOrder(a, b) == a.student = b.student /\ a.class = b.class /\ a.key = b.key

\* What a checkout carries is its own order, however the stored row has moved
\* meanwhile, and only an enrollment is answered with success.
CheckoutAnswers(p) ==
    /\ pc[p] \in {"invoice", "reject", "save"} =>
          SameOrder(mine[p].row, req[p]) /\ SameOrder(mine[p].row, enr[mine[p].id])
    /\ ans[p].kind = "ok" => pc[p] = "done" /\ ans[p].of \in Enrollments

\* A cancellation that asked billing goes on, and is on record, only with the
\* invoice withdrawn for good.
PaymentsWithdrawn ==
    /\ \A e \in Enrollments : "withdrawn" \in log[e] => invoice[e] = "cancelled"
    /\ \A w \in Workers :
          pc[w] = "cancel" /\ ~job[w].unbilled => invoice[job[w].enr] = "cancelled"

\* The inductive invariant of the whole module.  A seat is counted and taken
\* under the schedule's lock (SeatInvariant), no save of a stale row goes
\* unnoticed, a success tells of the enrollment that was asked for, and a seat
\* is given up only with its invoice withdrawn for good
\* (enrollment_repository.go:59, enrollment_usecase.go:439).
EnrollmentInvariant ==
    /\ SeatInvariant /\ OneLiveEnrollment /\ ActivationSticks
    /\ (\A p \in Checkouts : CheckoutAnswers(p)) /\ AnswersMatchRequest
    /\ PaymentsWithdrawn

=============================================================================
