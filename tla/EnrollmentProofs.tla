-------------------------- MODULE EnrollmentProofs --------------------------
(***************************************************************************)
(* Proofs about Enrollment, for every number of requests, schedules, seats *)
(* and students.                                                           *)
(***************************************************************************)
EXTENDS Enrollment, FiniteSetTheorems, TLAPS

-----------------------------------------------------------------------------
(* Types: the building blocks of the actions. *)

\* A row stays a row when one of its columns is written.
LEMMA RowWrites ==
  ASSUME NEW row \in Row
  PROVE  /\ \A st \in Statuses : WithStatus(row, st) \in Row
         /\ \A pay \in Rejections \cup {"pending"} : WithPay(row, pay) \in Row
         /\ WithTransaction(row) \in Row
         /\ \A s \in Schedules \cup {Null} : OnSchedule(row, s) \in Row
  <1>1. \A st \in Statuses : WithStatus(row, st) \in Row
    BY DEF Row, WithStatus
  <1>2. \A pay \in Rejections \cup {"pending"} : WithPay(row, pay) \in Row
    BY DEF Row, WithPay
  <1>3. WithTransaction(row) \in Row
    BY DEF Row, WithTransaction
  <1>4. \A s \in Schedules \cup {Null} : OnSchedule(row, s) \in Row
    BY DEF Row, OnSchedule
  <1>5. QED
    BY <1>1, <1>2, <1>3, <1>4

\* What the writes of a column leave alone.
LEMMA RowFields ==
  ASSUME NEW row \in Row
  PROVE  /\ \A st : /\ WithStatus(row, st).status = st
                    /\ WithStatus(row, st).student = row.student
                    /\ WithStatus(row, st).class = row.class
                    /\ WithStatus(row, st).schedule = row.schedule
         /\ \A pay : /\ WithPay(row, pay).status = row.status
                     /\ WithPay(row, pay).schedule = row.schedule
         /\ WithTransaction(row).status = row.status
         /\ WithTransaction(row).schedule = row.schedule
         /\ \A s : /\ OnSchedule(row, s).status = row.status
                   /\ OnSchedule(row, s).class = row.class
                   /\ OnSchedule(row, s).schedule = s
  BY DEF Row, WithStatus, WithPay, WithTransaction, OnSchedule

\* A row's status may be set to any of the statuses.
LEMMA SetStatusTyped ==
  ASSUME TablesTyped, NEW e, NEW st \in Statuses, SetStatus(e, st)
  PROVE  enr' \in [Enrollments -> Row]
  <1>1. \A x \in Enrollments : WithStatus(enr[x], st) \in Row
    BY RowWrites DEF TablesTyped
  <1>2. QED
    BY <1>1 DEF TablesTyped, SetStatus

\* A commit or a rollback leaves the lock tables well typed.
LEMMA ReleaseTyped ==
  ASSUME LocksTyped, NEW p \in Procs, ReleaseLocks(p)
  PROVE  LocksTyped'
  BY DEF LocksTyped, ReleaseLocks

\* A checkout moves between its own steps.
LEMMA CheckoutGoto ==
  ASSUME StepsTyped, NEW p \in Checkouts, NEW st \in CheckoutSteps, Goto(p, st)
  PROVE  StepsTyped'
  BY EnrollmentConstants DEF StepsTyped, Goto, Procs

\* A worker moves between its own steps.
LEMMA WorkerGoto ==
  ASSUME StepsTyped, NEW w \in Workers, NEW st \in WorkerSteps, Goto(w, st)
  PROVE  StepsTyped'
  BY EnrollmentConstants DEF StepsTyped, Goto, Procs

\* An answer ends the checkout and is well typed.
LEMMA ReplyTyped ==
  ASSUME StepsTyped, RequestsTyped, NEW p \in Checkouts,
         NEW kind \in {"ok", "conflict", "rejected", "error"},
         NEW e \in Enrollments \cup {Null}, Reply(p, kind, e)
  PROVE  StepsTyped' /\ ans' \in [Checkouts -> Answer]
  <1>1. StepsTyped'
    BY CheckoutGoto DEF Reply, CheckoutSteps
  <1>2. [kind |-> kind, of |-> e] \in Answer
    BY DEF Answer
  <1>3. QED
    BY <1>1, <1>2 DEF Reply, RequestsTyped

\* The answer from a stored enrollment is one of three.
LEMMA ReplyExistingTyped ==
  ASSUME StepsTyped, RequestsTyped, NEW p \in Checkouts, NEW r \in Request,
         NEW e \in Enrollments, ReplyExisting(p, r, e)
  PROVE  StepsTyped' /\ ans' \in [Checkouts -> Answer]
  BY ReplyTyped DEF ReplyExisting

\* A worker that finishes is idle, without a job and without locks.
LEMMA FinishTyped ==
  ASSUME StepsTyped, RequestsTyped, LocksTyped, NEW w \in Workers, Finish(w)
  PROVE  StepsTyped' /\ LocksTyped' /\ job' \in [Workers -> Job]
  <1>1. NoJob \in Job
    BY DEF NoJob, JobOf, Job
  <1>2. StepsTyped'
    BY WorkerGoto DEF Finish, WorkerSteps
  <1>3. LocksTyped'
    BY ReleaseTyped DEF Finish, Procs
  <1>4. QED
    BY <1>1, <1>2, <1>3 DEF Finish, RequestsTyped

\* A failed creation is looked up again or answered with an error.
LEMMA CreateFailedTyped ==
  ASSUME StepsTyped, RequestsTyped, NEW p \in Checkouts, CreateFailed(p)
  PROVE  StepsTyped' /\ ans' \in [Checkouts -> Answer]
  <1>1. CASE Goto(p, "relookup") /\ UNCHANGED ans
    BY <1>1, CheckoutGoto DEF CheckoutSteps, RequestsTyped
  <1>2. CASE Reply(p, "error", Null)
    BY <1>2, ReplyTyped
  <1>3. QED
    BY <1>1, <1>2 DEF CreateFailed

\* A lookup by key finds enrollments.
LEMMA LookupFinds ==
  ASSUME NEW r PROVE Lookup(r) \subseteq Enrollments /\ GetByKey(r.key) \subseteq Enrollments
  BY DEF Lookup, GetByIdempotencyKey, GetByIdempotencyKeyForTenant, GetByKey

\* The types do not mind a step that leaves the variables alone.
LEMMA Untouched ==
  /\ TablesTyped /\ UNCHANGED db => TablesTyped'
  /\ LocksTyped /\ UNCHANGED locks => LocksTyped'
  /\ BillingTyped /\ UNCHANGED billing => BillingTyped'
  /\ StepsTyped /\ UNCHANGED pc => StepsTyped'
  /\ RequestsTyped /\ UNCHANGED <<checkout, job>> => RequestsTyped'
  /\ HistoryTyped /\ UNCHANGED history => HistoryTyped'
  BY DEF db, locks, billing, checkout, history, TablesTyped, LocksTyped,
         BillingTyped, StepsTyped, RequestsTyped, HistoryTyped

-----------------------------------------------------------------------------
(* Types: every step preserves them. *)

\* The requests of parents and staff keep the types.
LEMMA CheckoutTyped ==
  ASSUME TypeOK, CheckoutLocals, NEW p \in Checkouts, CheckoutNext(p)
  PROVE  TypeOK'
  <1> USE DEF TypeOK, db, locks, billing, checkout, history
  <1>p. p \in Procs
    BY DEF Procs
  <1>r. Requests \subseteq Request
    BY EnrollmentConstants
  <1>1. CASE \E r \in Requests : EnrollNew(p, r)
    <2> PICK r \in Requests : EnrollNew(p, r)
      BY <1>1
    <2>1. StepsTyped' /\ ans' \in [Checkouts -> Answer]
      <3>1. CASE Goto(p, "create") /\ UNCHANGED ans
        BY <3>1, CheckoutGoto DEF CheckoutSteps, RequestsTyped
      <3>2. CASE Reply(p, "error", Null)
        BY <3>2, ReplyTyped
      <3>3. QED
        BY <3>1, <3>2 DEF EnrollNew
    <2>2. req' \in [Checkouts -> Request \cup {Null}] /\ UNCHANGED <<mine, job>>
      BY <1>r DEF EnrollNew, RequestsTyped
    <2>3. UNCHANGED <<db, locks, billing, history>>
      BY DEF EnrollNew
    <2>4. RequestsTyped'
      BY <2>1, <2>2 DEF RequestsTyped
    <2>5. QED
      BY <2>1, <2>3, <2>4, Untouched
  <1>2. CASE \E r \in Requests : EnrollReplay(p, r)
    <2> PICK r \in Requests : EnrollReplay(p, r)
      BY <1>2
    <2>0. r \in Request
      BY <1>r
    <2>1. /\ StepsTyped' /\ ans' \in [Checkouts -> Answer]
          /\ mine' \in [Checkouts -> [id : Enrollments \cup {Null}, row : Row]]
      <3> PICK e \in Lookup(r) :
             \/ Reply(p, "conflict", Null) /\ UNCHANGED mine
             \/ Reply(p, "error", Null) /\ UNCHANGED mine
             \/ /\ Goto(p, "invoice") /\ UNCHANGED ans
                /\ mine' = [mine EXCEPT ![p] = [id |-> e, row |-> enr[e]]]
             \/ ReplyExisting(p, r, e) /\ UNCHANGED mine
        BY DEF EnrollReplay
      <3>1. e \in Enrollments
        BY LookupFinds
      <3>2. CASE Goto(p, "invoice")
        <4>1. StepsTyped'
          BY <3>2, CheckoutGoto DEF CheckoutSteps
        <4>2. [id |-> e, row |-> enr[e]] \in [id : Enrollments \cup {Null}, row : Row]
          BY <3>1 DEF TablesTyped
        <4>3. QED
          BY <3>1, <3>2, <4>1, <4>2, ReplyTyped, ReplyExistingTyped, <2>0
             DEF RequestsTyped
      <3>3. CASE ~Goto(p, "invoice")
        BY <3>1, <3>3, ReplyTyped, ReplyExistingTyped, <2>0 DEF RequestsTyped
      <3>4. QED
        BY <3>2, <3>3
    <2>2. req' \in [Checkouts -> Request \cup {Null}] /\ UNCHANGED job
      BY <1>r DEF EnrollReplay, RequestsTyped
    <2>3. UNCHANGED <<db, locks, billing, history>>
      BY DEF EnrollReplay
    <2>4. RequestsTyped'
      BY <2>1, <2>2 DEF RequestsTyped
    <2>5. QED
      BY <2>1, <2>3, <2>4, Untouched
  <1>3. CASE CreateIfCapacityAvailable(p) \/ ClassNotEnrollable(p)
    <2>1. /\ UNCHANGED <<db, rowLock, billing, req, mine, job, history>>
          /\ schedLock' \in [Schedules -> Procs \cup {Null}]
      BY <1>3, <1>p DEF CreateIfCapacityAvailable, ClassNotEnrollable, LocksTyped
    <2>2. StepsTyped' /\ ans' \in [Checkouts -> Answer]
      <3>1. CASE Goto(p, "insert") /\ UNCHANGED ans
        BY <3>1, CheckoutGoto DEF CheckoutSteps, RequestsTyped
      <3>2. CASE CreateFailed(p)
        BY <3>2, CreateFailedTyped
      <3>3. QED
        BY <1>3, <3>1, <3>2 DEF CreateIfCapacityAvailable, ClassNotEnrollable
    <2>3. LocksTyped' /\ RequestsTyped'
      BY <2>1, <2>2 DEF LocksTyped, RequestsTyped
    <2>4. QED
      BY <2>1, <2>2, <2>3, Untouched
  <1>4. CASE InsertEnrollment(p)
    <2> DEFINE row == NewRow(req[p])
    <2>1. row \in Row
      BY <1>4 DEF InsertEnrollment, CheckoutLocals, CheckoutLocal, NewRow, Request, Row, Statuses
    <2>2. p \in Enrollments
      BY DEF Enrollments
    <2>3. LocksTyped' /\ UNCHANGED <<sched, billing, req, job, history>>
      BY <1>4, <1>p, ReleaseTyped DEF InsertEnrollment
    <2>4. CASE /\ enr' = [enr EXCEPT ![p] = row]
               /\ mine' = [mine EXCEPT ![p] = [id |-> p, row |-> row]]
               /\ Goto(p, "invoice") /\ UNCHANGED ans
      <3>1. StepsTyped'
        BY <2>4, CheckoutGoto DEF CheckoutSteps
      <3>2. [id |-> p, row |-> row] \in [id : Enrollments \cup {Null}, row : Row]
        BY <2>1, <2>2
      <3> HIDE DEF row
      <3>3. TablesTyped' /\ RequestsTyped'
        BY <2>1, <2>2, <2>3, <2>4, <3>2 DEF TablesTyped, RequestsTyped
      <3>4. QED
        BY <2>3, <3>1, <3>3, Untouched
    <2>5. CASE CreateFailed(p) /\ UNCHANGED <<enr, mine>>
      <3>1. StepsTyped' /\ ans' \in [Checkouts -> Answer]
        BY <2>5, CreateFailedTyped
      <3>2. TablesTyped' /\ RequestsTyped'
        BY <2>3, <2>5, <3>1 DEF TablesTyped, RequestsTyped
      <3>3. QED
        BY <2>3, <3>1, <3>2, Untouched
    <2>6. QED
      BY <1>4, <2>4, <2>5 DEF InsertEnrollment
  <1>5. CASE AnswerRace(p)
    <2>1. StepsTyped' /\ ans' \in [Checkouts -> Answer]
      <3>1. req[p] \in Request
        BY <1>5 DEF AnswerRace, CheckoutLocals, CheckoutLocal
      <3>2. QED
        BY <1>5, <3>1, LookupFinds, ReplyTyped, ReplyExistingTyped DEF AnswerRace
    <2>2. UNCHANGED <<db, locks, billing, req, mine, job, history>>
      BY <1>5 DEF AnswerRace
    <2>3. RequestsTyped'
      BY <2>1, <2>2 DEF RequestsTyped
    <2>4. QED
      BY <2>1, <2>2, <2>3, Untouched
  <1>6. CASE GenerateInvoice(p)
    <2>1. StepsTyped' /\ ans' \in [Checkouts -> Answer]
      <3>1. CASE Goto(p, "save") /\ UNCHANGED ans
        BY <3>1, CheckoutGoto DEF CheckoutSteps, RequestsTyped
      <3>2. CASE Reply(p, "error", Null)
        BY <3>2, ReplyTyped
      <3>3. QED
        BY <1>6, <3>1, <3>2 DEF GenerateInvoice
    <2>2. UNCHANGED <<db, locks, failed, acked, req, mine, job, history>>
      BY <1>6 DEF GenerateInvoice
    <2>3. BillingTyped' /\ RequestsTyped'
      BY <1>6, <2>1, <2>2 DEF GenerateInvoice, OpenInvoice, BillingTyped, RequestsTyped
    <2>4. QED
      BY <2>1, <2>2, <2>3, Untouched
  <1>7. CASE \E why \in Rejections : RefuseInvoice(p, why)
    <2> PICK why \in Rejections : RefuseInvoice(p, why)
      BY <1>7
    <2>1. StepsTyped'
      BY CheckoutGoto DEF RefuseInvoice, CheckoutSteps
    <2>2. UNCHANGED <<db, locks, billing, req, ans, job, history>>
      BY DEF RefuseInvoice
    <2>3. mine[p].id \in Enrollments \cup {Null} /\ mine[p].row \in Row
      BY DEF RequestsTyped
    <2>4. WithPay(mine[p].row, why) \in Row
      BY <2>3, RowWrites
    <2>5. RequestsTyped'
      BY <2>2, <2>3, <2>4 DEF RefuseInvoice, RequestsTyped
    <2>6. QED
      BY <2>1, <2>2, <2>5, Untouched
  <1>8. CASE DropInvoiceRejected(p)
    <2>1. mine[p].id \in Enrollments \cup {Null} /\ mine[p].row \in Row
      BY DEF RequestsTyped
    <2>2. mine[p].row.pay \in Rejections \cup {"pending"}
      BY <2>1 DEF Row
    <2>3. \A x \in Enrollments :
             WithPay(WithStatus(enr[x], "dropped"), mine[p].row.pay) \in Row
      BY <2>2, RowWrites DEF TablesTyped, Statuses
    <2>4. StepsTyped' /\ ans' \in [Checkouts -> Answer]
      BY <1>8, <2>1, ReplyTyped DEF DropInvoiceRejected
    <2>5. UNCHANGED <<sched, locks, billing, req, mine, job, history>>
      BY <1>8 DEF DropInvoiceRejected
    <2>6. TablesTyped'
      BY <1>8, <2>3, <2>5 DEF DropInvoiceRejected, TablesTyped
    <2>7. RequestsTyped'
      BY <2>4, <2>5 DEF RequestsTyped
    <2>8. QED
      BY <2>4, <2>5, <2>6, <2>7, Untouched
  <1>9. CASE SaveInvoice(p)
    <2>1. mine[p].id \in Enrollments \cup {Null} /\ mine[p].row \in Row
      BY DEF RequestsTyped
    <2>2. SavedRow(p) \in Row
      BY <2>1, RowWrites DEF SavedRow
    <2>3. UNCHANGED <<sched, locks, billing, req, mine, job, log>>
      BY <1>9 DEF SaveInvoice
    <2>4. StepsTyped' /\ ans' \in [Checkouts -> Answer]
      BY <1>9, <2>1, ReplyTyped DEF SaveInvoice
    <2>5. TablesTyped'
      BY <1>9, <2>2, <2>3 DEF SaveInvoice, TablesTyped
    <2>6. mine[p].id \in Enrollments
      BY <1>9 DEF SaveInvoice, CheckoutLocals, CheckoutLocal
    <2>7. HistoryTyped'
      BY <1>9, <2>3, <2>6 DEF SaveInvoice, HistoryTyped
    <2>8. RequestsTyped'
      BY <2>3, <2>4 DEF RequestsTyped
    <2>9. QED
      BY <2>3, <2>4, <2>5, <2>7, <2>8, Untouched
  <1>10. CASE CheckoutFails(p)
    <2>1. StepsTyped' /\ ans' \in [Checkouts -> Answer]
      BY <1>10, ReplyTyped DEF CheckoutFails
    <2>2. LocksTyped' /\ UNCHANGED <<db, billing, req, mine, job, history>>
      BY <1>10, <1>p, ReleaseTyped DEF CheckoutFails
    <2>3. RequestsTyped'
      BY <2>1, <2>2 DEF RequestsTyped
    <2>4. QED
      BY <2>1, <2>2, <2>3, Untouched
  <1>11. QED
    BY <1>1, <1>2, <1>3, <1>4, <1>5, <1>6, <1>7, <1>8, <1>9, <1>10
       DEF CheckoutNext, CheckoutStep

\* An argument record is a job.
LEMMA JobTyped ==
  ASSUME NEW e \in Enrollments \cup {Null}, NEW s \in Schedules \cup {Null}, NEW cap \in Nat
  PROVE  JobOf(e, s, cap) \in Job
  BY DEF JobOf, Job

\* So are the arguments of a class deletion.
LEMMA ClassJobTyped ==
  /\ \A c \in Classes : ClassJob(c) \in Job
  /\ \A j \in Job, rows \in SUBSET Schedules : Doomed(j, rows) \in Job
  <1>1. NoJob \in Job
    BY JobTyped DEF NoJob
  <1>2. \A c \in Classes : ClassJob(c) \in Job
    BY <1>1 DEF ClassJob, Job
  <1>3. \A j \in Job, rows \in SUBSET Schedules : Doomed(j, rows) \in Job
    BY DEF Doomed, Job
  <1>4. QED
    BY <1>2, <1>3

\* A worker that starts has a step of its own and a job.
LEMMA StartTyped ==
  ASSUME StepsTyped, RequestsTyped, NEW w \in Workers,
         NEW first \in WorkerSteps, NEW j \in Job, Start(w, first, j)
  PROVE  StepsTyped' /\ job' \in [Workers -> Job]
  <1>1. StepsTyped'
    BY WorkerGoto DEF Start
  <1>2. QED
    BY <1>1 DEF Start, RequestsTyped

\* The first step of every operation keeps the types.
LEMMA WorkerStartTyped ==
  ASSUME TypeOK, NEW w \in Workers, WorkerStart(w)
  PROVE  TypeOK'
  <1> USE DEF TypeOK, db, locks, billing, checkout, history
  <1>w. w \in Procs
    BY DEF Procs
  <1>n. 0 \in Nat /\ Capacities \subseteq Nat
    BY EnrollmentConstants
  <1>s. {"resume", "assign", "withdraw", "change", "tutor", "delete", "class_schedules"}
           \subseteq WorkerSteps
    BY DEF WorkerSteps
  <1>1. /\ LocksTyped'
        /\ UNCHANGED <<db, billing, checkout, history>>
        /\ StepsTyped' /\ job' \in [Workers -> Job]
    <2>1. CASE \E e \in Enrollments : ResumeEnrollment(w, e)
      <3> PICK e \in Enrollments : ResumeEnrollment(w, e)
        BY <2>1
      <3>1. enr[e].schedule \in Schedules \cup {Null}
        BY DEF TablesTyped, Row
      <3>2. JobOf(e, enr[e].schedule, 0) \in Job
        BY <3>1, <1>n, JobTyped
      <3>3. StepsTyped' /\ job' \in [Workers -> Job]
        BY <3>2, <1>s, StartTyped DEF ResumeEnrollment
      <3>4. QED
        BY <3>3, <1>w DEF ResumeEnrollment, LockRow, LocksTyped
    <2>2. CASE \E e \in Enrollments : CancelPendingEnrollment(w, e)
      <3> PICK e \in Enrollments : CancelPendingEnrollment(w, e)
        BY <2>2
      <3>1. StepsTyped' /\ job' \in [Workers -> Job]
        BY <1>n, <1>s, JobTyped, StartTyped DEF CancelPendingEnrollment
      <3>2. QED
        BY <3>1 DEF CancelPendingEnrollment, LocksTyped
    <2>3. CASE \E e \in Enrollments, s \in Schedules : AssignSchedule(w, e, s)
      <3> PICK e \in Enrollments, s \in Schedules : AssignSchedule(w, e, s)
        BY <2>3
      <3>1. StepsTyped' /\ job' \in [Workers -> Job]
        BY <1>n, <1>s, JobTyped, StartTyped DEF AssignSchedule
      <3>2. QED
        BY <3>1, <1>w DEF AssignSchedule, LockRow, LocksTyped
    <2>4. CASE \E s \in Schedules, cap \in Capacities : ChangeSchedulePermanent(w, s, cap)
      <3> PICK s \in Schedules, cap \in Capacities : ChangeSchedulePermanent(w, s, cap)
        BY <2>4
      <3>1. StepsTyped' /\ job' \in [Workers -> Job]
        BY <1>n, <1>s, JobTyped, StartTyped DEF ChangeSchedulePermanent
      <3>2. QED
        BY <3>1, <1>w DEF ChangeSchedulePermanent, LockSchedule, LocksTyped
    <2>5. CASE \E s \in Schedules : ChangeTutorPermanent(w, s)
      <3> PICK s \in Schedules : ChangeTutorPermanent(w, s)
        BY <2>5
      <3>1. sched[s].cap \in Nat
        BY DEF TablesTyped, ScheduleRow
      <3>2. StepsTyped' /\ job' \in [Workers -> Job]
        BY <3>1, <1>s, JobTyped, StartTyped DEF ChangeTutorPermanent
      <3>3. QED
        BY <3>2, <1>w DEF ChangeTutorPermanent, LockSchedule, LocksTyped
    <2>6. CASE \E s \in Schedules : DeleteSchedule(w, s)
      <3> PICK s \in Schedules : DeleteSchedule(w, s)
        BY <2>6
      <3>1. StepsTyped' /\ job' \in [Workers -> Job]
        BY <1>n, <1>s, JobTyped, StartTyped DEF DeleteSchedule
      <3>2. QED
        BY <3>1, <1>w DEF DeleteSchedule, LockSchedule, LocksTyped
    <2>7. CASE \E c \in Classes : DeleteClass(w, c)
      <3> PICK c \in Classes : DeleteClass(w, c)
        BY <2>7
      <3>1. StepsTyped' /\ job' \in [Workers -> Job]
        BY <1>s, ClassJobTyped, StartTyped DEF DeleteClass
      <3>2. QED
        BY <3>1 DEF DeleteClass, LocksTyped
    <2>8. QED
      BY <2>1, <2>2, <2>3, <2>4, <2>5, <2>6, <2>7 DEF WorkerStart
  <1>2. RequestsTyped'
    BY <1>1 DEF RequestsTyped
  <1>3. QED
    BY <1>1, <1>2, Untouched

\* The later steps of the operations keep the types.
LEMMA WorkerTyped ==
  ASSUME TypeOK, WorkerLocals, NEW w \in Workers, WorkerStep(w) \/ WorkerFails(w)
  PROVE  TypeOK'
  <1> USE DEF TypeOK, db, locks, billing, checkout, history
  <1>w. w \in Procs
    BY DEF Procs
  <1>j. job[w] \in Job /\ job[w].sched \in Schedules \cup {Null}
    BY DEF RequestsTyped, Job
  <1>f. ASSUME Finish(w), UNCHANGED checkout
        PROVE  StepsTyped' /\ LocksTyped' /\ RequestsTyped'
    BY <1>f, FinishTyped DEF RequestsTyped
  <1>1. CASE ResumeUnderCapacity(w) \/ AssignUnderCapacity(w)
    <2>1. UNCHANGED <<db, billing, checkout, history>>
      BY <1>1 DEF ResumeUnderCapacity, AssignUnderCapacity
    <2>2. CASE Finish(w)
      BY <1>f, <2>1, <2>2, Untouched
    <2>3. CASE ~Finish(w)
      <3>1. /\ schedLock' \in [Schedules -> Procs \cup {Null}]
            /\ UNCHANGED <<rowLock, job>>
            /\ Goto(w, "resume_save") \/ Goto(w, "assign_save")
        BY <1>1, <1>w, <2>3 DEF ResumeUnderCapacity, AssignUnderCapacity, LocksTyped
      <3>2. StepsTyped'
        BY <3>1, WorkerGoto DEF WorkerSteps
      <3>3. LocksTyped' /\ RequestsTyped'
        BY <2>1, <3>1 DEF LocksTyped, RequestsTyped
      <3>4. QED
        BY <2>1, <3>2, <3>3, Untouched
    <2>4. QED
      BY <2>2, <2>3
  <1>2. CASE ResumeSave(w)
    <2>1. Finish(w) /\ UNCHANGED <<sched, billing, checkout, history>>
      BY <1>2 DEF ResumeSave
    <2>2. TablesTyped'
      BY <1>2, <2>1, SetStatusTyped DEF ResumeSave, TablesTyped, Statuses
    <2>3. QED
      BY <1>f, <2>1, <2>2, Untouched
  <1>3. CASE AssignSave(w)
    <2>1. Finish(w) /\ UNCHANGED <<sched, billing, checkout, history>>
      BY <1>3 DEF AssignSave
    <2>2. \A x \in Enrollments : OnSchedule(enr[x], job[w].sched) \in Row
      BY <1>j, RowWrites DEF TablesTyped
    <2>3. TablesTyped'
      BY <1>3, <2>1, <2>2 DEF AssignSave, TablesTyped
    <2>4. QED
      BY <1>f, <2>1, <2>3, Untouched
  <1>4. CASE WithdrawPayment(w)
    <2>1. UNCHANGED <<db, failed, acked, checkout, history>>
      BY <1>4 DEF WithdrawPayment
    <2>2. BillingTyped'
      BY <1>4, <2>1 DEF WithdrawPayment, BillingTyped
    <2>3. CASE Finish(w)
      BY <1>f, <2>1, <2>2, <2>3, Untouched
    <2>4. CASE ~Finish(w)
      <3>1. /\ Goto(w, "cancel") /\ UNCHANGED locks
            /\ UNCHANGED job \/ job' = [job EXCEPT ![w] = Unbilled(@)]
        BY <1>4, <2>4 DEF WithdrawPayment
      <3>2. StepsTyped'
        BY <3>1, WorkerGoto DEF WorkerSteps
      <3>3. Unbilled(job[w]) \in Job
        BY <1>j DEF Job, Unbilled
      <3>4. RequestsTyped'
        BY <2>1, <3>1, <3>3 DEF RequestsTyped
      <3>5. QED
        BY <2>1, <2>2, <3>1, <3>2, <3>4, Untouched
    <2>5. QED
      BY <2>3, <2>4
  <1>5. CASE DropPending(w)
    <2>1. Finish(w) /\ UNCHANGED <<sched, billing, checkout, rewound>>
      BY <1>5 DEF DropPending
    <2>2. TablesTyped'
      BY <1>5, <2>1, SetStatusTyped DEF DropPending, TablesTyped, Statuses
    <2>3. HistoryTyped'
      BY <1>5, <2>1 DEF DropPending, HistoryTyped, LogEntries
    <2>4. QED
      BY <1>f, <2>1, <2>2, <2>3, Untouched
  <1>6. CASE \E new \in Schedules : ReplaceSchedule(w, new)
    <2> PICK new \in Schedules : ReplaceSchedule(w, new)
      BY <1>6
    <2> DEFINE s == job[w].sched
               next == [class |-> sched[s].class, cap |-> job[w].cap,
                        state |-> sched[s].state]
    <2>1. Finish(w) /\ UNCHANGED <<billing, checkout, history>>
      BY DEF ReplaceSchedule
    <2>2. s \in Schedules
      BY DEF ReplaceSchedule, WorkerLocals, WorkerLocal, SchedJobs
    <2>3. next \in ScheduleRow
      BY <1>j, <2>2 DEF TablesTyped, ScheduleRow, Job
    <2>4. \A st \in {sched[s].state, "ended"} : InState(sched[s], st) \in ScheduleRow
      BY <2>2 DEF TablesTyped, ScheduleRow, InState
    <2>5. sched' \in [Schedules -> ScheduleRow]
      <3>1. PICK st \in {sched[s].state, "ended"} :
               sched' = [sched EXCEPT ![s] = InState(@, st), ![new] = next]
        BY DEF ReplaceSchedule
      <3> HIDE DEF s, next
      <3>2. QED
        BY <2>2, <2>3, <2>4, <3>1 DEF TablesTyped
    <2>6. \A x \in Enrollments : OnSchedule(enr[x], new) \in Row
      BY RowWrites DEF TablesTyped
    <2>7. enr' \in [Enrollments -> Row]
      BY <2>6 DEF ReplaceSchedule, TransferSchedule, TablesTyped
    <2>8. TablesTyped'
      BY <2>5, <2>7 DEF TablesTyped
    <2>9. QED
      BY <1>f, <2>1, <2>8, Untouched
  <1>7. CASE DeleteCommit(w)
    <2>1. Finish(w) /\ UNCHANGED <<enr, billing, checkout, history>>
      BY <1>7 DEF DeleteCommit
    <2>2. \A x \in Schedules : InState(sched[x], "deleted") \in ScheduleRow
      BY DEF TablesTyped, ScheduleRow, InState
    <2>3. TablesTyped'
      BY <1>7, <2>1, <2>2 DEF DeleteCommit, TablesTyped
    <2>4. QED
      BY <1>f, <2>1, <2>3, Untouched
  <1>8. CASE DeleteByClass(w)
    <2>1. UNCHANGED <<db, locks, billing, checkout, history>>
      BY <1>8 DEF DeleteByClass
    <2>2. StepsTyped'
      BY <1>8, WorkerGoto DEF DeleteByClass, WorkerSteps
    <2>3. job' \in [Workers -> Job]
      BY <1>8, <1>j, ClassJobTyped DEF DeleteByClass, RequestsTyped
    <2>4. RequestsTyped'
      BY <2>1, <2>3 DEF RequestsTyped
    <2>5. QED
      BY <2>1, <2>2, <2>4, Untouched
  <1>9. CASE DeleteByTenant(w)
    <2>1. Finish(w) /\ UNCHANGED <<enr, billing, checkout, rewound>>
      BY <1>9 DEF DeleteByTenant
    <2>2. \A x \in Schedules : InState(sched[x], "class_deleted") \in ScheduleRow
      BY DEF TablesTyped, ScheduleRow, InState
    <2>3. TablesTyped'
      BY <1>9, <2>1, <2>2 DEF DeleteByTenant, TablesTyped
    <2>4. HistoryTyped'
      BY <1>9, <2>1 DEF DeleteByTenant, HistoryTyped, LogEntries
    <2>5. QED
      BY <1>f, <2>1, <2>3, <2>4, Untouched
  <1>10. CASE WorkerFails(w)
    BY <1>10, <1>f, Untouched DEF WorkerFails
  <1>11. QED
    BY <1>1, <1>2, <1>3, <1>4, <1>5, <1>6, <1>7, <1>8, <1>9, <1>10 DEF WorkerStep

\* Payments, billing's notifications and the calendar keep the types.
LEMMA OutsideTyped ==
  ASSUME TypeOK, OutsideNext
  PROVE  TypeOK'
  <1> USE DEF TypeOK, db, locks, billing, checkout, history
  <1>1. CASE \E e \in Enrollments : Pay(e) \/ PaymentFails(e)
    <2>1. /\ BillingTyped'
          /\ UNCHANGED <<db, locks, pc, checkout, job, history>>
      BY <1>1 DEF Pay, PaymentFails, BillingTyped
    <2>2. QED
      BY <2>1, Untouched
  <1>2. CASE \E e \in Enrollments : ActivateEnrollment(e) \/ EndEnrollment(e)
    <2>1. BillingTyped' /\ HistoryTyped' /\ UNCHANGED <<sched, locks, pc, checkout, job>>
      BY <1>2 DEF ActivateEnrollment, EndEnrollment, Logged, BillingTyped, HistoryTyped, LogEntries
    <2>2. TablesTyped'
      BY <1>2, <2>1, SetStatusTyped
         DEF ActivateEnrollment, EndEnrollment, TablesTyped, Statuses
    <2>3. QED
      BY <2>1, <2>2, Untouched
  <1>3. CASE \E e \in Enrollments : ReleaseEnrollment(e) \/ SuspendEnrollment(e)
    <2>1. UNCHANGED <<sched, locks, billing, pc, checkout, job, history>>
      BY <1>3 DEF ReleaseEnrollment, SuspendEnrollment
    <2>2. TablesTyped'
      BY <1>3, <2>1, SetStatusTyped
         DEF ReleaseEnrollment, SuspendEnrollment, TablesTyped, Statuses
    <2>3. QED
      BY <2>1, <2>2, Untouched
  <1>4. CASE \E s \in Schedules : DayPasses(s)
    <2>1. UNCHANGED <<enr, locks, billing, pc, checkout, job, history>>
      BY <1>4 DEF DayPasses
    <2>2. \A x \in Schedules : InState(sched[x], "ended") \in ScheduleRow
      BY DEF TablesTyped, ScheduleRow, InState
    <2>3. TablesTyped'
      BY <1>4, <2>1, <2>2 DEF DayPasses, TablesTyped
    <2>4. QED
      BY <2>1, <2>3, Untouched
  <1>5. QED
    BY <1>1, <1>2, <1>3, <1>4 DEF OutsideNext

-----------------------------------------------------------------------------
(* What a step of process x leaves alone (x = Null: billing or the calendar). *)

\* The program counters, arguments and locks of the other processes.
OthersKeep(x) ==
    /\ \A q \in Procs : q # x => pc'[q] = pc[q]
    /\ \A q \in Checkouts : q # x => req'[q] = req[q] /\ mine'[q] = mine[q]
    /\ \A v \in Workers : v # x => job'[v] = job[v]
    /\ \A e \in Enrollments : rowLock[e] \notin {Null, x} => rowLock'[e] = rowLock[e]
    /\ \A s \in Schedules :
          schedLock[s] \notin {Null, x} => schedLock'[s] = schedLock[s]

\* The existence of rows, apart from the one that x inserts, and the rows that
\* another process holds locked.
RowsKeep(x) ==
    \A e \in Enrollments :
        /\ e # x => (enr'[e].status = "none" <=> enr[e].status = "none")
        /\ enr[e].status # "none" => enr'[e].status # "none"
        /\ rowLock[e] \notin {Null, x} /\ enr[e].status # "none" => enr'[e] = enr[e]

\* A commit touches no lock of another process.
LEMMA ReleaseKeeps ==
  ASSUME LocksTyped, NEW p, ReleaseLocks(p)
  PROVE  /\ \A e \in Enrollments : rowLock[e] # p => rowLock'[e] = rowLock[e]
         /\ \A s \in Schedules : schedLock[s] # p => schedLock'[s] = schedLock[s]
  BY DEF LocksTyped, ReleaseLocks

\* Setting the status of a row that exists and is not locked keeps the others.
LEMMA SetStatusKeeps ==
  ASSUME TablesTyped, NEW x, NEW e \in Enrollments, NEW st \in Statuses \ {"none"},
         SetStatus(e, st), enr[e].status # "none",
         Free(rowLock, e) \/ rowLock[e] = x
  PROVE  RowsKeep(x)
  <1>1. \A f \in Enrollments : enr'[f] = IF f = e THEN WithStatus(enr[f], st) ELSE enr[f]
    BY DEF SetStatus, TablesTyped
  <1>2. WithStatus(enr[e], st).status = st
    BY RowFields DEF TablesTyped
  <1>3. QED
    BY <1>1, <1>2 DEF RowsKeep, Free

\* Finishing touches nothing of the other processes.
LEMMA FinishKeeps ==
  ASSUME TypeOK, NEW w \in Workers, Finish(w), UNCHANGED <<req, mine>>
  PROVE  OthersKeep(w)
  <1>1. Goto(w, "idle") /\ job' = [job EXCEPT ![w] = NoJob] /\ ReleaseLocks(w)
    BY DEF Finish
  <1>2. QED
    BY <1>1, ReleaseKeeps DEF TypeOK, OthersKeep, Goto, StepsTyped, RequestsTyped

\* A checkout leaves the others alone.
LEMMA CheckoutKeeps ==
  ASSUME TypeOK, CheckoutLocals, NEW p \in Checkouts, CheckoutNext(p)
  PROVE  OthersKeep(p) /\ RowsKeep(p)
  <1> USE DEF db, locks, billing, checkout, history
  <1>1. OthersKeep(p)
    <2>1. \A q \in Procs : q # p => pc'[q] = pc[q]
      <3>1. \E st : Goto(p, st)
        BY DEF CheckoutNext, EnrollNew, EnrollReplay, CheckoutStep, CreateIfCapacityAvailable,
               ClassNotEnrollable, CreateFailed, InsertEnrollment, AnswerRace,
               GenerateInvoice, RefuseInvoice, DropInvoiceRejected, SaveInvoice,
               CheckoutFails, Reply, ReplyExisting
      <3>2. QED
        BY <3>1 DEF Goto, TypeOK, StepsTyped
    <2>2. \A q \in Checkouts : q # p => req'[q] = req[q]
      BY DEF CheckoutNext, EnrollNew, EnrollReplay, CheckoutStep, CreateIfCapacityAvailable,
             ClassNotEnrollable, InsertEnrollment, AnswerRace,
             GenerateInvoice, RefuseInvoice, DropInvoiceRejected, SaveInvoice,
             CheckoutFails, TypeOK, RequestsTyped
    <2>3. \A q \in Checkouts : q # p => mine'[q] = mine[q]
      BY DEF CheckoutNext, EnrollNew, EnrollReplay, CheckoutStep, CreateIfCapacityAvailable,
             ClassNotEnrollable, InsertEnrollment, AnswerRace,
             GenerateInvoice, RefuseInvoice, DropInvoiceRejected, SaveInvoice,
             CheckoutFails, TypeOK, RequestsTyped
    <2>4. UNCHANGED job
      BY DEF CheckoutNext, EnrollNew, EnrollReplay, CheckoutStep, CreateIfCapacityAvailable,
             ClassNotEnrollable, InsertEnrollment, AnswerRace,
             GenerateInvoice, RefuseInvoice, DropInvoiceRejected, SaveInvoice,
             CheckoutFails
    <2>5. UNCHANGED rowLock \/ ReleaseLocks(p)
      BY DEF CheckoutNext, EnrollNew, EnrollReplay, CheckoutStep, CreateIfCapacityAvailable,
             ClassNotEnrollable, InsertEnrollment, AnswerRace,
             GenerateInvoice, RefuseInvoice, DropInvoiceRejected, SaveInvoice,
             CheckoutFails
    <2>6. \/ UNCHANGED schedLock \/ ReleaseLocks(p)
          \/ /\ schedLock' = [schedLock EXCEPT ![req[p].schedule] = p]
             /\ sched[req[p].schedule].state # "unused" => Free(schedLock, req[p].schedule)
             /\ Found(req[p].schedule, req[p].class)
      BY DEF CheckoutNext, EnrollNew, EnrollReplay, CheckoutStep, CreateIfCapacityAvailable,
             ClassNotEnrollable, InsertEnrollment, AnswerRace,
             GenerateInvoice, RefuseInvoice, DropInvoiceRejected, SaveInvoice,
             CheckoutFails
    <2>7. \A s \in Schedules :
             schedLock[s] \notin {Null, p} => schedLock'[s] = schedLock[s]
      <3>1. CASE UNCHANGED schedLock \/ ReleaseLocks(p)
        BY <3>1, ReleaseKeeps DEF TypeOK
      <3>2. CASE /\ schedLock' = [schedLock EXCEPT ![req[p].schedule] = p]
                 /\ Free(schedLock, req[p].schedule)
        BY <3>2 DEF Free, TypeOK, LocksTyped
      <3>3. QED
        BY <2>6, <3>1, <3>2 DEF Found
    <2>8. \A e \in Enrollments : rowLock[e] \notin {Null, p} => rowLock'[e] = rowLock[e]
      BY <2>5, ReleaseKeeps DEF TypeOK
    <2>9. QED
      BY <2>1, <2>2, <2>3, <2>4, <2>7, <2>8 DEF OthersKeep
  <1>2. RowsKeep(p)
    <2>1. CASE UNCHANGED enr
      BY <2>1 DEF RowsKeep
    <2>2. CASE InsertEnrollment(p) /\ enr' # enr
      <3>1. enr' = [enr EXCEPT ![p] = NewRow(req[p])] /\ enr[p].status = "none"
        BY <2>2 DEF InsertEnrollment, CheckoutLocals, CheckoutLocal
      <3>2. QED
        BY <3>1 DEF RowsKeep, TypeOK, TablesTyped
    <2>3. CASE DropInvoiceRejected(p) /\ enr' # enr
      <3> DEFINE e == mine[p].id
                 row == WithPay(WithStatus(enr[e], "dropped"), mine[p].row.pay)
      <3>1. e \in Enrollments /\ enr[e].status # "none"
        BY <2>3 DEF DropInvoiceRejected, CheckoutLocals, CheckoutLocal
      <3>2. enr' = [enr EXCEPT ![e] = row] /\ Free(rowLock, e)
        BY <2>3 DEF DropInvoiceRejected
      <3>3. row.status = "dropped"
        <4>1. WithStatus(enr[e], "dropped") \in Row
          BY <3>1, RowWrites DEF TypeOK, TablesTyped, Statuses
        <4>2. QED
          BY <3>1, <4>1, RowFields DEF TypeOK, TablesTyped
      <3> HIDE DEF e, row
      <3>4. QED
        BY <3>1, <3>2, <3>3 DEF RowsKeep, TypeOK, TablesTyped, Free
    <2>4. CASE SaveInvoice(p) /\ enr' # enr
      <3> DEFINE e == mine[p].id
                 row == SavedRow(p)
      <3>1. e \in Enrollments /\ enr[e].status # "none" /\ mine[p].row.status # "none"
        BY <2>4 DEF SaveInvoice, CheckoutLocals, CheckoutLocal
      <3>2. enr' = [enr EXCEPT ![e] = row] /\ Free(rowLock, e)
        BY <2>4 DEF SaveInvoice
      <3>3. row.status = mine[p].row.status
        <4>1. mine[p].row \in Row
          BY DEF TypeOK, RequestsTyped
        <4>2. WithPay(mine[p].row, "pending") \in Row
          BY <4>1, RowWrites
        <4>3. QED
          BY <4>1, <4>2, RowFields DEF SavedRow
      <3> HIDE DEF e, row
      <3>4. QED
        BY <3>1, <3>2, <3>3 DEF RowsKeep, TypeOK, TablesTyped, Free
    <2>5. QED
      BY <2>1, <2>2, <2>3, <2>4
         DEF CheckoutNext, EnrollNew, EnrollReplay, CheckoutStep, CreateIfCapacityAvailable,
             ClassNotEnrollable, InsertEnrollment, AnswerRace, GenerateInvoice,
             RefuseInvoice, CheckoutFails
  <1>3. QED
    BY <1>1, <1>2

\* An operation leaves the others alone.
LEMMA WorkerKeeps ==
  ASSUME TypeOK, WorkerLocals, NEW w \in Workers, WorkerNext(w)
  PROVE  OthersKeep(w) /\ RowsKeep(w)
  <1> USE DEF db, locks, billing, checkout, history
  <1>1. OthersKeep(w)
    <2>1. CASE Finish(w)
      BY <2>1, FinishKeeps
         DEF WorkerNext, WorkerStart, WorkerStep, WorkerFails, ResumeEnrollment,
             CancelPendingEnrollment, AssignSchedule, ChangeSchedulePermanent,
             ChangeTutorPermanent, DeleteSchedule, ResumeUnderCapacity, ResumeSave,
             AssignUnderCapacity, AssignSave, WithdrawPayment, DropPending,
             ReplaceSchedule, DeleteCommit, DeleteClass, DeleteByClass, DeleteByTenant
    <2>2. CASE ~Finish(w) /\ WorkerStart(w)
      <3>1. (\E st : Goto(w, st)) /\ (\E j : job' = [job EXCEPT ![w] = j])
        BY <2>2 DEF WorkerStart, Start, ResumeEnrollment, CancelPendingEnrollment,
             AssignSchedule, ChangeSchedulePermanent, ChangeTutorPermanent, DeleteSchedule,
             DeleteClass
      <3>2. UNCHANGED <<req, mine>>
        BY <2>2 DEF WorkerStart, ResumeEnrollment, CancelPendingEnrollment,
             AssignSchedule, ChangeSchedulePermanent, ChangeTutorPermanent, DeleteSchedule,
             DeleteClass
      <3>3. UNCHANGED rowLock \/ \E e \in Enrollments : LockRow(w, e)
        BY <2>2 DEF WorkerStart, ResumeEnrollment, CancelPendingEnrollment,
             AssignSchedule, ChangeSchedulePermanent, ChangeTutorPermanent, DeleteSchedule,
             DeleteClass
      <3>4. UNCHANGED schedLock \/ \E s \in Schedules : LockSchedule(w, s)
        BY <2>2 DEF WorkerStart, ResumeEnrollment, CancelPendingEnrollment,
             AssignSchedule, ChangeSchedulePermanent, ChangeTutorPermanent, DeleteSchedule,
             DeleteClass
      <3>5. QED
        BY <3>1, <3>2, <3>3, <3>4
           DEF OthersKeep, Goto, LockRow, LockSchedule, Free, TypeOK, StepsTyped,
               LocksTyped, RequestsTyped
    <2>3. CASE ~Finish(w) /\ ~WorkerStart(w)
      <3>1. \/ ResumeUnderCapacity(w) \/ AssignUnderCapacity(w) \/ WithdrawPayment(w)
            \/ DeleteByClass(w)
        BY <2>3 DEF WorkerNext, WorkerStep, WorkerFails, ResumeSave, AssignSave, DropPending,
             ReplaceSchedule, DeleteCommit, DeleteByTenant
      <3>2. /\ \E st : Goto(w, st)
            /\ UNCHANGED <<rowLock, req, mine>>
            /\ UNCHANGED job \/ \E j : job' = [job EXCEPT ![w] = j]
            /\ \/ UNCHANGED schedLock
               \/ /\ Free(schedLock, job[w].sched)
                  /\ schedLock' = [schedLock EXCEPT ![job[w].sched] = w]
        BY <2>3, <3>1 DEF ResumeUnderCapacity, AssignUnderCapacity, WithdrawPayment,
             DeleteByClass
      <3>3. QED
        BY <3>2 DEF OthersKeep, Goto, Free, TypeOK, StepsTyped, LocksTyped, RequestsTyped
    <2>4. QED
      BY <2>1, <2>2, <2>3
  <1>2. RowsKeep(w)
    <2>1. CASE UNCHANGED enr
      BY <2>1 DEF RowsKeep
    <2>2. CASE (ResumeSave(w) \/ DropPending(w)) /\ enr' # enr
      <3>1. /\ job[w].enr \in Enrollments /\ enr[job[w].enr].status # "none"
            /\ Free(rowLock, job[w].enr) \/ rowLock[job[w].enr] = w
        BY <2>2 DEF ResumeSave, DropPending, WorkerLocals, WorkerLocal, RowJobs
      <3>2. \E st \in Statuses \ {"none"} : SetStatus(job[w].enr, st)
        BY <2>2 DEF ResumeSave, DropPending, Statuses
      <3>3. QED
        BY <3>1, <3>2, SetStatusKeeps DEF TypeOK
    <2>3. CASE AssignSave(w)
      <3>1. /\ job[w].enr \in Enrollments /\ enr[job[w].enr].status # "none"
            /\ rowLock[job[w].enr] = w
        BY <2>3 DEF AssignSave, WorkerLocals, WorkerLocal, RowJobs
      <3>2. OnSchedule(enr[job[w].enr], job[w].sched).status = enr[job[w].enr].status
        BY <3>1, RowFields DEF TypeOK, TablesTyped
      <3>3. QED
        BY <2>3, <3>1, <3>2 DEF AssignSave, RowsKeep, TypeOK, TablesTyped
    <2>4. CASE \E new \in Schedules : ReplaceSchedule(w, new)
      <3> PICK new \in Schedules : ReplaceSchedule(w, new)
        BY <2>4
      <3>1. \A e \in Enrollments : OnSchedule(enr[e], new).status = enr[e].status
        BY RowFields DEF TypeOK, TablesTyped
      <3>2. \A e \in Enrollments :
               enr'[e] = IF e \in Transferred(job[w].sched)
                         THEN OnSchedule(enr[e], new) ELSE enr[e]
        BY DEF ReplaceSchedule, TransferSchedule
      <3>3. \A e \in Transferred(job[w].sched) : rowLock[e] = Null
        BY DEF ReplaceSchedule, Free
      <3>4. QED
        BY <3>1, <3>2, <3>3 DEF RowsKeep
    <2>5. QED
      BY <2>1, <2>2, <2>3, <2>4
         DEF WorkerNext, WorkerStart, WorkerStep, WorkerFails, ResumeEnrollment,
             CancelPendingEnrollment, AssignSchedule, ChangeSchedulePermanent,
             ChangeTutorPermanent, DeleteSchedule, ResumeUnderCapacity, ResumeSave,
             AssignUnderCapacity, WithdrawPayment, DropPending, DeleteCommit,
             DeleteClass, DeleteByClass, DeleteByTenant
  <1>3. QED
    BY <1>1, <1>2

\* Billing and the calendar leave every process alone.
LEMMA OutsideKeeps ==
  ASSUME TypeOK, OutsideNext
  PROVE  UNCHANGED <<locks, pc, checkout, job>> /\ OthersKeep(Null) /\ RowsKeep(Null)
  <1> USE DEF db, locks, billing, checkout, history
  <1>1. UNCHANGED <<locks, pc, checkout, job>>
    BY DEF OutsideNext, Pay, PaymentFails, ActivateEnrollment, ReleaseEnrollment,
           SuspendEnrollment, EndEnrollment, DayPasses
  <1>2. OthersKeep(Null)
    BY <1>1 DEF OthersKeep
  <1>3. RowsKeep(Null)
    <2>1. CASE UNCHANGED enr
      BY <2>1 DEF RowsKeep
    <2>2. CASE \E e \in Enrollments : /\ Free(rowLock, e)
                                      /\ enr[e].status # "none"
                                      /\ \E st \in Statuses \ {"none"} : SetStatus(e, st)
      BY <2>2, SetStatusKeeps DEF TypeOK
    <2>3. QED
      BY <2>1, <2>2
         DEF OutsideNext, Pay, PaymentFails, ActivateEnrollment, ReleaseEnrollment,
             SuspendEnrollment, EndEnrollment, DayPasses, Statuses
  <1>4. QED
    BY <1>1, <1>2, <1>3

-----------------------------------------------------------------------------
(* Locals: a process's arguments and the row it holds. *)

\* The facts about a process that does not step survive.
LEMMA OthersLocals ==
  ASSUME CheckoutLocals, WorkerLocals, NEW x, OthersKeep(x), RowsKeep(x)
  PROVE  /\ \A q \in Checkouts : q # x => CheckoutLocal(q)'
         /\ \A v \in Workers : v # x => WorkerLocal(v)'
  <1>1. ASSUME NEW q \in Checkouts, q # x PROVE CheckoutLocal(q)'
    <2>1. pc'[q] = pc[q] /\ req'[q] = req[q] /\ mine'[q] = mine[q] /\ q \in Enrollments
      BY <1>1 DEF OthersKeep, Procs, Enrollments
    <2>2. QED
      BY <1>1, <2>1 DEF CheckoutLocals, CheckoutLocal, RowsKeep
  <1>2. ASSUME NEW v \in Workers, v # x PROVE WorkerLocal(v)'
    <2>1. pc'[v] = pc[v] /\ job'[v] = job[v] /\ v # Null
      BY <1>2, EnrollmentConstants DEF OthersKeep, Procs
    <2>2. {"resume", "resume_save", "assign", "assign_save"} \subseteq RowJobs
      BY DEF RowJobs
    <2>3. pc[v] \in RowJobs =>
             /\ job[v].enr \in Enrollments /\ enr[job[v].enr].status # "none"
             /\ enr'[job[v].enr].status # "none"
      BY DEF WorkerLocals, WorkerLocal, RowsKeep
    <2>4. pc[v] \in RowJobs /\ rowLock[job[v].enr] = v =>
             rowLock'[job[v].enr] = v /\ enr'[job[v].enr] = enr[job[v].enr]
      BY <1>2, <2>1, <2>3 DEF RowsKeep, OthersKeep
    <2>5. QED
      BY <2>1, <2>2, <2>3, <2>4 DEF WorkerLocals, WorkerLocal
  <1>3. QED
    BY <1>1, <1>2

\* A checkout's own step establishes its locals anew.
LEMMA CheckoutOwnLocals ==
  ASSUME TypeOK, CheckoutLocals, NEW p \in Checkouts, CheckoutNext(p)
  PROVE  CheckoutLocal(p)'
  <1> USE DEF TypeOK, db, locks, billing, checkout, history
  <1>l. CheckoutLocal(p)
    BY DEF CheckoutLocals
  <1>k. RowsKeep(p) /\ Requests \subseteq Request /\ p \in Enrollments
    BY CheckoutKeeps, EnrollmentConstants DEF Enrollments
  <1>g. \A st : Goto(p, st) => pc'[p] = st
    BY DEF Goto, StepsTyped, Procs
  <1>d. ASSUME NEW kind, NEW e, Reply(p, kind, e) PROVE pc'[p] = "done"
    BY <1>d, <1>g DEF Reply
  <1>c. CreateFailed(p) => pc'[p] \in {"relookup", "done"}
    BY <1>d, <1>g DEF CreateFailed
  <1>1. CASE \E r \in Requests : EnrollNew(p, r)
    <2> PICK r \in Requests : EnrollNew(p, r)
      BY <1>1
    <2>1. req'[p] = r /\ r \in Request
      BY <1>k DEF EnrollNew, RequestsTyped
    <2>2. \/ pc'[p] = "create" /\ r.schedule \in Schedules
          \/ pc'[p] = "done"
      BY <1>d, <1>g, <2>1 DEF EnrollNew, Request
    <2>3. enr'[p].status = "none"
      BY <1>l DEF EnrollNew, CheckoutLocal
    <2>4. QED
      BY <2>1, <2>2, <2>3 DEF CheckoutLocal
  <1>2. CASE \E r \in Requests : EnrollReplay(p, r)
    <2> PICK r \in Requests : EnrollReplay(p, r)
      BY <1>2
    <2>1. req'[p] \in Request /\ enr' = enr
      BY <1>k DEF EnrollReplay, RequestsTyped
    <2>2. PICK e \in Lookup(r) :
             \/ pc'[p] = "done"
             \/ /\ pc'[p] = "invoice"
                /\ mine' = [mine EXCEPT ![p] = [id |-> e, row |-> enr[e]]]
      BY <1>d, <1>g DEF EnrollReplay, ReplyExisting
    <2>3. e \in Enrollments /\ enr[e].status # "none"
      BY DEF Lookup, GetByIdempotencyKey, GetByIdempotencyKeyForTenant, GetByKey
    <2>4. mine' = [mine EXCEPT ![p] = [id |-> e, row |-> enr[e]]] =>
             mine'[p].id = e /\ mine'[p].row = enr[e]
      BY DEF RequestsTyped
    <2>5. QED
      BY <2>1, <2>2, <2>3, <2>4 DEF CheckoutLocal
  <1>3. CASE CreateIfCapacityAvailable(p) \/ ClassNotEnrollable(p)
    <2>1. UNCHANGED <<enr, req>> /\ pc[p] = "create"
      BY <1>3 DEF CreateIfCapacityAvailable, ClassNotEnrollable
    <2>2. pc'[p] \in {"insert", "relookup", "done"}
      BY <1>3, <1>c, <1>g DEF CreateIfCapacityAvailable, ClassNotEnrollable
    <2>3. QED
      BY <1>l, <2>1, <2>2 DEF CheckoutLocal
  <1>4. CASE InsertEnrollment(p)
    <2>1. UNCHANGED req /\ pc[p] = "insert"
      BY <1>4 DEF InsertEnrollment
    <2>2. CASE CreateFailed(p)
      BY <1>l, <1>c, <2>1, <2>2 DEF CheckoutLocal
    <2>3. CASE ~CreateFailed(p)
      <3>1. /\ pc'[p] = "invoice"
            /\ enr' = [enr EXCEPT ![p] = NewRow(req[p])]
            /\ mine' = [mine EXCEPT ![p] = [id |-> p, row |-> NewRow(req[p])]]
        BY <1>4, <1>g, <2>3 DEF InsertEnrollment
      <3>2. NewRow(req[p]).status = "pending"
        BY DEF NewRow
      <3>3. enr'[p] = NewRow(req[p]) /\ mine'[p] = [id |-> p, row |-> NewRow(req[p])]
        BY <1>k, <3>1 DEF TablesTyped, RequestsTyped
      <3>4. QED
        BY <1>k, <1>l, <2>1, <3>1, <3>2, <3>3 DEF CheckoutLocal
    <2>4. QED
      BY <2>2, <2>3
  <1>5. CASE AnswerRace(p) \/ DropInvoiceRejected(p) \/ SaveInvoice(p) \/ CheckoutFails(p)
    <2>1. pc'[p] = "done" /\ pc[p] # "idle" /\ UNCHANGED req
      BY <1>5, <1>d DEF AnswerRace, ReplyExisting, DropInvoiceRejected, SaveInvoice,
                        CheckoutFails
    <2>2. QED
      BY <1>l, <2>1 DEF CheckoutLocal
  <1>6. CASE GenerateInvoice(p)
    <2>1. pc[p] = "invoice" /\ pc'[p] \in {"save", "done"} /\ UNCHANGED <<enr, req, mine>>
      BY <1>6, <1>d, <1>g DEF GenerateInvoice
    <2>2. QED
      BY <1>l, <2>1 DEF CheckoutLocal
  <1>7. CASE \E why \in Rejections : RefuseInvoice(p, why)
    <2> PICK why \in Rejections : RefuseInvoice(p, why)
      BY <1>7
    <2>1. pc[p] = "invoice" /\ pc'[p] = "reject" /\ UNCHANGED <<enr, req>>
      BY <1>g DEF RefuseInvoice
    <2>2. mine'[p].id = mine[p].id /\ mine'[p].row = WithPay(mine[p].row, why)
      BY DEF RefuseInvoice, RequestsTyped
    <2>3. WithPay(mine[p].row, why).status = mine[p].row.status
      BY RowFields DEF RequestsTyped
    <2>4. QED
      BY <1>l, <2>1, <2>2, <2>3 DEF CheckoutLocal
  <1>8. QED
    BY <1>1, <1>2, <1>3, <1>4, <1>5, <1>6, <1>7 DEF CheckoutNext, CheckoutStep

\* A worker's own step establishes its locals anew.
LEMMA WorkerOwnLocals ==
  ASSUME TypeOK, WorkerLocals, NEW w \in Workers, WorkerNext(w)
  PROVE  WorkerLocal(w)'
  <1> USE DEF TypeOK, db, locks, billing, checkout, history
  <1>l. WorkerLocal(w)
    BY DEF WorkerLocals
  <1>g. \A st : Goto(w, st) => pc'[w] = st
    BY DEF Goto, StepsTyped, Procs
  <1>f. Finish(w) => pc'[w] = "idle"
    BY <1>g DEF Finish
  <1>s. ASSUME NEW first, NEW j, Start(w, first, j)
        PROVE  pc'[w] = first /\ job'[w] = j
    BY <1>s, <1>g DEF Start, RequestsTyped
  <1>j. \A e, s, cap : JobOf(e, s, cap).enr = e /\ JobOf(e, s, cap).sched = s
    BY DEF JobOf
  <1> USE DEF RowJobs, SchedJobs
  <1>1. CASE pc'[w] = "idle"
    BY <1>1 DEF WorkerLocal
  <1>2. CASE \E e \in Enrollments : ResumeEnrollment(w, e)
    <2> PICK e \in Enrollments : ResumeEnrollment(w, e)
      BY <1>2
    <2>1. pc'[w] = "resume" /\ job'[w] = JobOf(e, enr[e].schedule, 0)
      BY <1>s DEF ResumeEnrollment
    <2>2. rowLock'[e] = w /\ enr' = enr /\ enr[e].status = "suspended"
      BY DEF ResumeEnrollment, LockRow, LocksTyped
    <2>3. QED
      BY <1>j, <2>1, <2>2 DEF WorkerLocal
  <1>3. CASE \E e \in Enrollments, s \in Schedules : AssignSchedule(w, e, s)
    <2> PICK e \in Enrollments, s \in Schedules : AssignSchedule(w, e, s)
      BY <1>3
    <2>1. pc'[w] = "assign" /\ job'[w] = JobOf(e, s, 0)
      BY <1>s DEF AssignSchedule
    <2>2. /\ rowLock'[e] = w /\ enr' = enr
          /\ enr[e].status = "pending" /\ enr[e].schedule = Null
      BY DEF AssignSchedule, LockRow, LocksTyped
    <2>3. QED
      BY <1>j, <2>1, <2>2 DEF WorkerLocal
  <1>4. CASE \E e \in Enrollments : CancelPendingEnrollment(w, e)
    <2> PICK e \in Enrollments : CancelPendingEnrollment(w, e)
      BY <1>4
    <2>1. pc'[w] = "withdraw" /\ job'[w] = JobOf(e, Null, 0)
      BY <1>s DEF CancelPendingEnrollment
    <2>2. enr' = enr /\ enr[e].status # "none"
      BY DEF CancelPendingEnrollment
    <2>3. QED
      BY <1>j, <2>1, <2>2 DEF WorkerLocal
  <1>5. CASE \E s \in Schedules : \/ \E cap \in Capacities : ChangeSchedulePermanent(w, s, cap)
                                  \/ ChangeTutorPermanent(w, s)
                                  \/ DeleteSchedule(w, s)
    <2> PICK s \in Schedules : \/ \E cap \in Capacities : ChangeSchedulePermanent(w, s, cap)
                               \/ ChangeTutorPermanent(w, s)
                               \/ DeleteSchedule(w, s)
      BY <1>5
    <2>1. pc'[w] \in {"change", "tutor", "delete"} /\ \E cap : job'[w] = JobOf(Null, s, cap)
      BY <1>s DEF ChangeSchedulePermanent, ChangeTutorPermanent, DeleteSchedule
    <2>2. QED
      BY <1>j, <2>1 DEF WorkerLocal
  <1>6. CASE ResumeUnderCapacity(w) /\ pc'[w] # "idle"
    <2>1. /\ pc[w] = "resume" /\ pc'[w] = "resume_save"
          /\ UNCHANGED <<rowLock, job, enr>>
      BY <1>6, <1>f, <1>g DEF ResumeUnderCapacity
    <2>2. QED
      BY <1>l, <2>1 DEF WorkerLocal
  <1>7. CASE AssignUnderCapacity(w) /\ pc'[w] # "idle"
    <2>1. /\ pc[w] = "assign" /\ pc'[w] = "assign_save"
          /\ UNCHANGED <<rowLock, job, enr>>
      BY <1>7, <1>f, <1>g DEF AssignUnderCapacity
    <2>2. QED
      BY <1>l, <2>1 DEF WorkerLocal
  <1>8. CASE WithdrawPayment(w) /\ pc'[w] # "idle"
    <2>1. /\ pc[w] = "withdraw" /\ pc'[w] = "cancel" /\ UNCHANGED enr
          /\ UNCHANGED job \/ job' = [job EXCEPT ![w] = Unbilled(@)]
      BY <1>8, <1>f, <1>g DEF WithdrawPayment
    <2>2. Unbilled(job[w]).enr = job[w].enr
      BY DEF RequestsTyped, Job, Unbilled
    <2>3. job'[w].enr = job[w].enr
      BY <2>1, <2>2 DEF RequestsTyped
    <2>4. QED
      BY <1>l, <2>1, <2>3 DEF WorkerLocal
  <1>9. CASE pc'[w] \in {"class_schedules", "class_delete"}
    BY <1>9 DEF WorkerLocal
  <1>10. (\E c \in Classes : DeleteClass(w, c)) \/ DeleteByClass(w)
            => pc'[w] \in {"class_schedules", "class_delete"}
    BY <1>s, <1>g DEF DeleteClass, DeleteByClass
  <1>11. QED
    BY <1>1, <1>2, <1>3, <1>4, <1>5, <1>6, <1>7, <1>8, <1>9, <1>10, <1>f
       DEF WorkerNext, WorkerStart, WorkerStep, WorkerFails, ResumeSave, AssignSave,
           DropPending, ReplaceSchedule, DeleteCommit, DeleteByTenant

\* Every step keeps the types and the locals.
LEMMA LocalsStep ==
  ASSUME TypeOK, CheckoutLocals, WorkerLocals, Next
  PROVE  TypeOK' /\ CheckoutLocals' /\ WorkerLocals'
  <1>1. CASE \E p \in Checkouts : CheckoutNext(p)
    <2> PICK p \in Checkouts : CheckoutNext(p)
      BY <1>1
    <2>1. TypeOK' /\ OthersKeep(p) /\ RowsKeep(p) /\ CheckoutLocal(p)'
      BY CheckoutTyped, CheckoutKeeps, CheckoutOwnLocals
    <2>2. \A w \in Workers : w # p
      BY EnrollmentConstants
    <2>3. QED
      BY <2>1, <2>2, OthersLocals DEF CheckoutLocals, WorkerLocals
  <1>2. CASE \E w \in Workers : WorkerNext(w)
    <2> PICK w \in Workers : WorkerNext(w)
      BY <1>2
    <2>1. TypeOK' /\ OthersKeep(w) /\ RowsKeep(w) /\ WorkerLocal(w)'
      BY WorkerTyped, WorkerStartTyped, WorkerKeeps, WorkerOwnLocals DEF WorkerNext
    <2>2. \A p \in Checkouts : p # w
      BY EnrollmentConstants
    <2>3. QED
      BY <2>1, <2>2, OthersLocals DEF CheckoutLocals, WorkerLocals
  <1>3. CASE OutsideNext
    <2>1. TypeOK' /\ OthersKeep(Null) /\ RowsKeep(Null)
      BY <1>3, OutsideTyped, OutsideKeeps
    <2>2. Null \notin Checkouts /\ Null \notin Workers
      BY EnrollmentConstants
    <2>3. QED
      BY <2>1, <2>2, OthersLocals DEF CheckoutLocals, WorkerLocals
  <1>4. QED
    BY <1>1, <1>2, <1>3 DEF Next

\* The initial state has its types; no process has begun.
LEMMA InitTyped ==
  ASSUME Init PROVE TypeOK /\ CheckoutLocals /\ WorkerLocals
  <1>1. NoRow \in Row
    BY DEF NoRow, Row, Statuses
  <1>2. \A e \in Purchases : PurchaseRow(PurchaseOf[e]) \in Row
    <2> TAKE e \in Purchases
    <2>1. PurchaseOf[e].student \in Students /\ PurchaseOf[e].class \in Classes
      BY EnrollmentConstants
    <2>2. QED
      BY <2>1 DEF PurchaseRow, Row, Statuses
  <1>3. TablesTyped
    BY <1>1, <1>2, EnrollmentConstants DEF Init, TablesTyped
  <1>4. LocksTyped /\ BillingTyped /\ HistoryTyped
    BY DEF Init, LocksTyped, BillingTyped, HistoryTyped, LogEntries
  <1>5. StepsTyped
    BY DEF Init, StepsTyped, CheckoutSteps, WorkerSteps, Procs
  <1>6. RequestsTyped
    <2>1. [id |-> Null, row |-> NoRow] \in [id : Enrollments \cup {Null}, row : Row]
      BY <1>1
    <2>2. NoAnswer \in Answer /\ NoJob \in Job
      BY DEF NoAnswer, Answer, NoJob, JobOf, Job
    <2>3. QED
      BY <2>1, <2>2 DEF Init, RequestsTyped
  <1>7. CheckoutLocals
    <2> SUFFICES ASSUME NEW p \in Checkouts PROVE CheckoutLocal(p)
      BY DEF CheckoutLocals
    <2>1. p \in Enrollments \ Purchases /\ p \in Procs
      BY EnrollmentConstants DEF Enrollments, Procs
    <2>2. pc[p] = "idle" /\ enr[p] = NoRow
      BY <2>1 DEF Init
    <2>3. QED
      BY <2>2 DEF CheckoutLocal, NoRow
  <1>8. WorkerLocals
    BY DEF Init, WorkerLocals, WorkerLocal, Procs, RowJobs, SchedJobs
  <1>9. QED
    BY <1>3, <1>4, <1>5, <1>6, <1>7, <1>8 DEF TypeOK

\* Every variable keeps its type, whatever the requests, callbacks and failures
\* of EnrollPublic, EnrollStudent and the operations on enrollments and
\* schedules do in any order, for any number of them.
THEOREM TypeCorrect == Spec => []TypeOK
  <1> DEFINE Inv == TypeOK /\ CheckoutLocals /\ WorkerLocals
  <1>1. Init => Inv
    BY InitTyped
  <1>2. Inv /\ [Next]_vars => Inv'
    <2> SUFFICES ASSUME Inv, [Next]_vars PROVE Inv'
      OBVIOUS
    <2>1. CASE Next
      BY <2>1, LocalsStep
    <2>2. CASE UNCHANGED vars
      <3>1. UNCHANGED <<db, locks, billing, pc, checkout, job, history>>
        BY <2>2 DEF vars
      <3>2. TypeOK'
        BY <3>1, Untouched DEF TypeOK
      <3>3. CheckoutLocals' /\ WorkerLocals'
        BY <3>1 DEF db, locks, checkout, CheckoutLocals, CheckoutLocal,
                    WorkerLocals, WorkerLocal
      <3>4. QED
        BY <3>2, <3>3
    <2>3. QED
      BY <2>1, <2>2
  <1>3. QED
    BY <1>1, <1>2, PTL DEF Spec

-----------------------------------------------------------------------------
(* Schedules that do not exist yet, and seats. *)

\* A schedule that exists never stops existing.
LEMMA StatesMove ==
  ASSUME TypeOK, WorkerLocals, CheckedUnderLock, Next
  PROVE  \A s \in Schedules : sched'[s].state = "unused" => sched[s].state = "unused"
  <1> USE DEF TypeOK, db, locks, billing, checkout, history
  <1>i. \A s \in Schedules : \A st : InState(sched[s], st).state = st
    BY DEF TablesTyped, ScheduleRow, InState
  <1>1. CASE UNCHANGED sched
    BY <1>1
  <1>2. CASE \E w \in Workers, new \in Schedules : ReplaceSchedule(w, new)
    <2> PICK w \in Workers, new \in Schedules : ReplaceSchedule(w, new)
      BY <1>2
    <2> DEFINE s == job[w].sched
               next == [class |-> sched[s].class, cap |-> job[w].cap,
                        state |-> sched[s].state]
    <2>1. s \in Schedules /\ sched[new].state = "unused" /\ w \in Procs
      BY DEF ReplaceSchedule, WorkerLocals, WorkerLocal, SchedJobs, Procs
    <2>2. sched[s].state \in {"open", "ended"}
      <3>1. Writing(w, s)
        BY DEF ReplaceSchedule, Writing
      <3>2. QED
        BY <2>1, <3>1 DEF CheckedUnderLock, Checked
    <2>3. PICK st \in {sched[s].state, "ended"} :
             sched' = [sched EXCEPT ![s] = InState(@, st), ![new] = next]
      BY DEF ReplaceSchedule
    <2>4. next.state # "unused"
      BY <2>2
    <2>5. InState(sched[s], st).state # "unused"
      BY <1>i, <2>1, <2>2
    <2> HIDE DEF s, next
    <2>6. QED
      BY <2>1, <2>3, <2>4, <2>5 DEF TablesTyped
  <1>3. CASE \E w \in Workers : DeleteCommit(w)
    BY <1>3, <1>i DEF DeleteCommit, TablesTyped
  <1>4. CASE \E s \in Schedules : DayPasses(s)
    BY <1>4, <1>i DEF DayPasses, TablesTyped
  <1>5. CASE \E w \in Workers : DeleteByTenant(w)
    BY <1>5, <1>i DEF DeleteByTenant, TablesTyped
  <1>6. QED
    BY <1>1, <1>2, <1>3, <1>4, <1>5
       DEF Next, CheckoutNext, CheckoutStep, WorkerNext, WorkerStart, WorkerStep,
           WorkerFails, OutsideNext,
           EnrollNew, EnrollReplay, CreateIfCapacityAvailable, ClassNotEnrollable,
           InsertEnrollment, AnswerRace, GenerateInvoice, RefuseInvoice,
           DropInvoiceRejected, SaveInvoice, CheckoutFails,
           ResumeEnrollment, CancelPendingEnrollment, AssignSchedule,
           ChangeSchedulePermanent, ChangeTutorPermanent, DeleteSchedule,
           DeleteClass, DeleteByClass, ResumeUnderCapacity, ResumeSave, AssignUnderCapacity, AssignSave,
           WithdrawPayment, DropPending, Pay, PaymentFails, ActivateEnrollment,
           ReleaseEnrollment, SuspendEnrollment, EndEnrollment

\* A row after a step refers to the schedule of a row or copy from before it, or
\* to a schedule that exists.
LEMMA UnusedStep ==
  ASSUME TypeOK, CheckoutLocals, WorkerLocals, CheckedUnderLock, NoUseOfUnused, Next
  PROVE  NoUseOfUnused'
  <1> USE DEF TypeOK, db, locks, billing, checkout, history
  <1> SUFFICES ASSUME NEW s \in Schedules, sched'[s].state = "unused"
               PROVE  /\ \A e \in Enrollments : enr'[e].schedule # s
                      /\ \A p \in Checkouts : mine'[p].row.schedule # s
    BY DEF NoUseOfUnused
  <1>s. sched[s].state = "unused"
    BY StatesMove
  <1>0. /\ \A e \in Enrollments : enr[e].schedule # s
        /\ \A p \in Checkouts : mine[p].row.schedule # s
    BY <1>s DEF NoUseOfUnused
  <1>e. ASSUME NEW e, NEW st, SetStatus(e, st) PROVE \A f \in Enrollments : enr'[f].schedule # s
    <2>1. \A f \in Enrollments : WithStatus(enr[f], st).schedule = enr[f].schedule
      BY RowFields DEF TablesTyped
    <2>2. \A f \in Enrollments : enr'[f] = enr[f] \/ enr'[f] = WithStatus(enr[f], st)
      BY <1>e DEF SetStatus, TablesTyped
    <2>3. QED
      BY <1>0, <2>1, <2>2
  <1>1. CASE \E p \in Checkouts : CheckoutNext(p)
    <2> PICK p \in Checkouts : CheckoutNext(p)
      BY <1>1
    <2>p. p \in Procs /\ p \in Enrollments
      BY DEF Procs, Enrollments
    <2>1. CASE UNCHANGED <<enr, mine>>
      BY <1>0, <2>1
    <2>2. CASE (\E r \in Requests : EnrollReplay(p, r)) /\ mine' # mine
      <3> PICK r \in Requests : EnrollReplay(p, r)
        BY <2>2
      <3>1. PICK e \in Lookup(r) : mine' = [mine EXCEPT ![p] = [id |-> e, row |-> enr[e]]]
        BY <2>2 DEF EnrollReplay
      <3>2. e \in Enrollments /\ enr' = enr
        BY LookupFinds DEF EnrollReplay
      <3>3. \A q \in Checkouts : mine'[q] = mine[q] \/ mine'[q].row = enr[e]
        BY <3>1 DEF RequestsTyped
      <3>4. QED
        BY <1>0, <3>2, <3>3
    <2>3. CASE InsertEnrollment(p) /\ <<enr, mine>>' # <<enr, mine>>
      <3>1. NewRow(req[p]).schedule = req[p].schedule
        BY DEF NewRow
      <3>2. Writing(p, req[p].schedule) /\ req[p].schedule \in Schedules
        BY <2>3 DEF InsertEnrollment, Writing, CheckoutLocals, CheckoutLocal
      <3>3. req[p].schedule # s
        BY <1>s, <2>p, <3>2 DEF CheckedUnderLock, Checked
      <3>4. /\ enr' = [enr EXCEPT ![p] = NewRow(req[p])]
            /\ mine' = [mine EXCEPT ![p] = [id |-> p, row |-> NewRow(req[p])]]
        BY <2>3 DEF InsertEnrollment
      <3>5. /\ \A e \in Enrollments : enr'[e] = enr[e] \/ enr'[e] = NewRow(req[p])
            /\ \A q \in Checkouts : mine'[q] = mine[q] \/ mine'[q].row = NewRow(req[p])
        BY <3>4 DEF TablesTyped, RequestsTyped
      <3>6. QED
        BY <1>0, <3>1, <3>3, <3>5
    <2>4. CASE \E why \in Rejections : RefuseInvoice(p, why)
      <3> PICK why \in Rejections : RefuseInvoice(p, why)
        BY <2>4
      <3>1. enr' = enr /\ \A q \in Checkouts :
               mine'[q] = mine[q] \/ mine'[q].row = WithPay(mine[q].row, why)
        BY DEF RefuseInvoice, RequestsTyped
      <3>2. \A q \in Checkouts : WithPay(mine[q].row, why).schedule = mine[q].row.schedule
        BY RowFields DEF RequestsTyped
      <3>3. QED
        BY <1>0, <3>1, <3>2
    <2>5. CASE DropInvoiceRejected(p) /\ enr' # enr
      <3>1. mine' = mine /\ \A e \in Enrollments :
               \/ enr'[e] = enr[e]
               \/ enr'[e] = WithPay(WithStatus(enr[e], "dropped"), mine[p].row.pay)
        BY <2>5 DEF DropInvoiceRejected, TablesTyped
      <3>2. \A e \in Enrollments :
               WithPay(WithStatus(enr[e], "dropped"), mine[p].row.pay).schedule = enr[e].schedule
        BY RowWrites, RowFields DEF TablesTyped, Statuses
      <3>3. QED
        BY <1>0, <3>1, <3>2
    <2>6. CASE SaveInvoice(p) /\ enr' # enr
      <3>1. mine' = mine /\ \A e \in Enrollments : enr'[e] = enr[e] \/ enr'[e] = SavedRow(p)
        BY <2>6 DEF SaveInvoice, TablesTyped
      <3>2. mine[p].row \in Row
        BY DEF RequestsTyped
      <3>3. SavedRow(p).schedule = mine[p].row.schedule
        BY <3>2, RowWrites, RowFields DEF SavedRow
      <3>4. QED
        BY <1>0, <3>1, <3>3
    <2>7. QED
      BY <2>1, <2>2, <2>3, <2>4, <2>5, <2>6
         DEF CheckoutNext, CheckoutStep, EnrollNew, EnrollReplay, CreateIfCapacityAvailable,
             ClassNotEnrollable, InsertEnrollment, AnswerRace, GenerateInvoice,
             DropInvoiceRejected, SaveInvoice, CheckoutFails
  <1>2. CASE \E w \in Workers : WorkerNext(w)
    <2> PICK w \in Workers : WorkerNext(w)
      BY <1>2
    <2>1. mine' = mine
      BY DEF WorkerNext, WorkerStart, WorkerStep, WorkerFails, ResumeEnrollment,
             CancelPendingEnrollment, AssignSchedule, ChangeSchedulePermanent,
             ChangeTutorPermanent, DeleteSchedule, ResumeUnderCapacity, ResumeSave,
             AssignUnderCapacity, AssignSave, WithdrawPayment, DropPending,
             ReplaceSchedule, DeleteCommit, DeleteClass, DeleteByClass, DeleteByTenant
    <2>2. CASE enr' = enr
      BY <1>0, <2>1, <2>2
    <2>3. CASE AssignSave(w)
      <3>1. Writing(w, job[w].sched) /\ job[w].sched \in Schedules /\ w \in Procs
        BY <2>3 DEF AssignSave, Writing, WorkerLocals, WorkerLocal, SchedJobs, Procs
      <3>2. job[w].sched # s
        BY <1>s, <3>1 DEF CheckedUnderLock, Checked
      <3>3. \A e \in Enrollments : OnSchedule(enr[e], job[w].sched).schedule = job[w].sched
        BY RowFields DEF TablesTyped
      <3>4. \A e \in Enrollments :
               enr'[e] = enr[e] \/ enr'[e] = OnSchedule(enr[e], job[w].sched)
        BY <2>3 DEF AssignSave, TablesTyped
      <3>5. QED
        BY <1>0, <2>1, <3>2, <3>3, <3>4
    <2>4. CASE \E new \in Schedules : ReplaceSchedule(w, new)
      <3> PICK new \in Schedules : ReplaceSchedule(w, new)
        BY <2>4
      <3>1. \A e \in Enrollments : OnSchedule(enr[e], new).schedule = new
        BY RowFields DEF TablesTyped
      <3>2. \A e \in Enrollments : enr'[e] = enr[e] \/ enr'[e] = OnSchedule(enr[e], new)
        BY DEF ReplaceSchedule, TransferSchedule
      <3>3. new # s
        <4>1. Writing(w, job[w].sched) /\ job[w].sched \in Schedules /\ w \in Procs
          BY DEF ReplaceSchedule, Writing, WorkerLocals, WorkerLocal, SchedJobs, Procs
        <4>2. sched[job[w].sched].state \in {"open", "ended"}
          BY <4>1 DEF CheckedUnderLock, Checked
        <4>3. sched'[new].state = sched[job[w].sched].state
          BY DEF ReplaceSchedule, TablesTyped
        <4>4. QED
          BY <4>2, <4>3
      <3>4. QED
        BY <1>0, <2>1, <3>1, <3>2, <3>3
    <2>5. CASE ResumeSave(w) \/ DropPending(w)
      BY <1>0, <1>e, <2>1, <2>5 DEF ResumeSave, DropPending
    <2>6. QED
      BY <2>2, <2>3, <2>4, <2>5
         DEF WorkerNext, WorkerStart, WorkerStep, WorkerFails, ResumeEnrollment,
             CancelPendingEnrollment, AssignSchedule, ChangeSchedulePermanent,
             ChangeTutorPermanent, DeleteSchedule, ResumeUnderCapacity,
             AssignUnderCapacity, WithdrawPayment, DeleteCommit, DeleteClass,
             DeleteByClass, DeleteByTenant
  <1>3. CASE OutsideNext
    <2>1. mine' = mine
      BY <1>3, OutsideKeeps
    <2>2. CASE enr' = enr
      BY <1>0, <2>1, <2>2
    <2>3. CASE \E e, st : SetStatus(e, st)
      BY <1>e, <2>1, <2>3, <1>0
    <2>4. QED
      BY <1>3, <2>2, <2>3
         DEF OutsideNext, Pay, PaymentFails, ActivateEnrollment, ReleaseEnrollment,
             SuspendEnrollment, EndEnrollment, DayPasses
  <1>4. QED
    BY <1>1, <1>2, <1>3 DEF Next

\* The seats of a schedule are finitely many and can be compared by inclusion.
LEMMA SeatCounts ==
  ASSUME NEW A, NEW B \in SUBSET Enrollments, NEW e
  PROVE  /\ Cardinality(B) \in Nat
         /\ A \subseteq B => Cardinality(A) \in Nat /\ Cardinality(A) <= Cardinality(B)
         /\ A \subseteq B \cup {e} =>
               Cardinality(A) \in Nat /\ Cardinality(A) <= Cardinality(B) + 1
  <1>1. IsFiniteSet(Enrollments)
    BY EnrollmentConstants, FS_Union DEF Enrollments
  <1>2. IsFiniteSet(B)
    BY <1>1, FS_Subset
  <1>3. Cardinality(B) \in Nat
    BY <1>2, FS_CardinalityType
  <1>4. A \subseteq B => Cardinality(A) \in Nat /\ Cardinality(A) <= Cardinality(B)
    BY <1>2, FS_Subset, FS_CardinalityType
  <1>5. ASSUME A \subseteq B \cup {e}
        PROVE  Cardinality(A) \in Nat /\ Cardinality(A) <= Cardinality(B) + 1
    <2>1. /\ IsFiniteSet(B \cup {e})
          /\ Cardinality(B \cup {e}) = Cardinality(B) \/ Cardinality(B \cup {e}) = Cardinality(B) + 1
      BY <1>2, FS_AddElement
    <2>2. IsFiniteSet(A) /\ Cardinality(A) <= Cardinality(B \cup {e})
      BY <1>5, <2>1, FS_Subset
    <2>3. Cardinality(A) \in Nat
      BY <2>2, FS_CardinalityType
    <2>4. QED
      BY <1>3, <2>1, <2>2, <2>3
  <1>6. QED
    BY <1>3, <1>4, <1>5

Existing == {"open", "ended"}

\* Schedule s gains no seat, keeps its capacity and keeps existing, or stays
\* deleted with its class.
Quiet(s) ==
    /\ Kept(s)' \subseteq Kept(s)
    /\ sched'[s].cap = sched[s].cap
    /\ sched[s].state \in Existing => sched'[s].state \in Existing
    /\ sched[s].state = "class_deleted" => sched'[s].state = "class_deleted"

\* Seats stay only on an existing schedule, or, on record, on one whose class
\* was deleted from under them.
SeatsPlaced(s) ==
    Kept(s) # {} =>
        \/ sched[s].state \in Existing
        \/ /\ sched[s].state = "class_deleted"
           /\ \A e \in Kept(s) : "stranded" \in log[e]

\* What a step of x may do to the seats of schedule s: nothing that matters, or
\* one seat more, a deletion or a succession, under the lock of s or of the
\* schedule that s succeeds, or the deletion of its class while nobody has it
\* locked.
SeatEffect(x, s) ==
    \/ Quiet(s)
    \/ /\ x \in Procs /\ Writing(x, s) /\ pc[x] \in {"insert", "resume_save", "assign_save"}
       /\ sched'[s] = sched[s]
       /\ \E e : Kept(s)' \subseteq Kept(s) \cup {e}
    \/ /\ x \in Procs /\ Writing(x, s) /\ pc[x] = "delete"
       /\ Kept(s)' \subseteq Kept(s)
       /\ sched'[s].cap = sched[s].cap
    \/ /\ sched[s].state = "unused"
       /\ \E o \in Schedules :
             /\ x \in Procs /\ Writing(x, o) /\ pc[x] \in {"change", "tutor"}
             /\ Kept(s)' \subseteq Kept(o)
             /\ sched'[s].cap = job[x].cap
             /\ sched'[s].state \in Existing
    \/ /\ Free(schedLock, s)
       /\ Kept(s)' \subseteq Kept(s)
       /\ sched'[s].cap = sched[s].cap
       /\ sched'[s].state = "class_deleted"
       /\ \A e \in Kept(s)' : "stranded" \in log'[e]

\* Any of these effects keeps the seats within the capacity.
LEMMA EffectWithinCapacity ==
  ASSUME TypeOK, CheckedUnderLock, SeatsWithinCapacity, NEW x, NEW s \in Schedules,
         SeatEffect(x, s)
  PROVE  Cardinality(Kept(s)') <= sched'[s].cap
  <1>k. \A o \in Schedules : Kept(o) \in SUBSET Enrollments
    BY DEF Kept, Seats
  <1>c. sched[s].cap \in Nat
    BY DEF TypeOK, TablesTyped, ScheduleRow
  <1>1. CASE Kept(s)' \subseteq Kept(s) /\ sched'[s].cap = sched[s].cap
    BY <1>1, <1>k, <1>c, SeatCounts DEF SeatsWithinCapacity
  <1>2. CASE /\ x \in Procs /\ Writing(x, s)
             /\ pc[x] \in {"insert", "resume_save", "assign_save"}
             /\ sched'[s] = sched[s]
             /\ \E e : Kept(s)' \subseteq Kept(s) \cup {e}
    <2>1. Cardinality(Kept(s)) < sched[s].cap
      BY <1>2 DEF CheckedUnderLock, Checked
    <2>2. PICK e : Kept(s)' \subseteq Kept(s) \cup {e}
      BY <1>2
    <2>3. /\ Cardinality(Kept(s)) \in Nat /\ Cardinality(Kept(s)') \in Nat
          /\ Cardinality(Kept(s)') <= Cardinality(Kept(s)) + 1
      BY <1>k, <2>2, SeatCounts
    <2>4. QED
      BY <1>2, <1>c, <2>1, <2>3
  <1>3. CASE \E o \in Schedules :
                /\ x \in Procs /\ Writing(x, o) /\ pc[x] \in {"change", "tutor"}
                /\ Kept(s)' \subseteq Kept(o)
                /\ sched'[s].cap = job[x].cap
    <2> PICK o \in Schedules :
                /\ x \in Procs /\ Writing(x, o) /\ pc[x] \in {"change", "tutor"}
                /\ Kept(s)' \subseteq Kept(o)
                /\ sched'[s].cap = job[x].cap
      BY <1>3
    <2>1. Cardinality(Kept(o)) <= job[x].cap
      BY DEF CheckedUnderLock, Checked
    <2>2. /\ Cardinality(Kept(o)) \in Nat /\ Cardinality(Kept(s)') \in Nat
          /\ Cardinality(Kept(s)') <= Cardinality(Kept(o))
      BY <1>k, SeatCounts
    <2>3. x \in Workers
      BY DEF Writing
    <2>4. job[x].cap \in Nat
      BY <2>3 DEF TypeOK, RequestsTyped, Job
    <2>5. QED
      BY <2>1, <2>2, <2>4
  <1>4. QED
    BY <1>1, <1>2, <1>3 DEF SeatEffect, Quiet

\* ... and never puts a seat on a schedule that does not exist.
LEMMA EffectOnDeleted ==
  ASSUME CheckedUnderLock, NEW x, NEW s \in Schedules, SeatEffect(x, s),
         \A e \in Enrollments : log[e] \subseteq log'[e], SeatsPlaced(s)
  PROVE  SeatsPlaced(s)'
  <1>e. Kept(s) \subseteq Enrollments
    BY DEF Kept, Seats
  <1>1. CASE Quiet(s)
    BY <1>1, <1>e DEF SeatsPlaced, Quiet
  <1>2. CASE ~Quiet(s)
    BY <1>2 DEF SeatEffect, SeatsPlaced, CheckedUnderLock, Checked, Existing
  <1>3. QED
    BY <1>1, <1>2

\* History is only added to.
LEMMA LogGrows ==
  ASSUME TypeOK, Next PROVE \A e \in Enrollments : log[e] \subseteq log'[e]
  <1> USE DEF history
  <1>0. log \in [Enrollments -> SUBSET LogEntries]
    BY DEF TypeOK, HistoryTyped
  <1>1. ASSUME NEW p \in Checkouts, CheckoutNext(p) PROVE UNCHANGED log
    BY <1>1 DEF CheckoutNext, CheckoutStep, EnrollNew, EnrollReplay,
           CreateIfCapacityAvailable, ClassNotEnrollable, InsertEnrollment, AnswerRace,
           GenerateInvoice, RefuseInvoice, DropInvoiceRejected, SaveInvoice, CheckoutFails
  <1>2. ASSUME NEW w \in Workers, WorkerNext(w), ~DropPending(w), ~DeleteByTenant(w)
        PROVE  UNCHANGED log
    BY <1>2 DEF WorkerNext, WorkerStart, WorkerStep, WorkerFails, ResumeEnrollment,
           CancelPendingEnrollment, AssignSchedule, ChangeSchedulePermanent,
           ChangeTutorPermanent, DeleteSchedule, DeleteClass, ResumeUnderCapacity,
           ResumeSave, AssignUnderCapacity, AssignSave, WithdrawPayment,
           ReplaceSchedule, DeleteCommit, DeleteByClass
  <1>3. CASE \E w \in Workers : DropPending(w)
    BY <1>0, <1>3 DEF DropPending
  <1>4. CASE \E w \in Workers : DeleteByTenant(w)
    BY <1>0, <1>4 DEF DeleteByTenant
  <1>5. CASE OutsideNext
    BY <1>0, <1>5 DEF OutsideNext, Pay, PaymentFails, ActivateEnrollment, Logged,
           ReleaseEnrollment, SuspendEnrollment, EndEnrollment, DayPasses
  <1>6. QED
    BY <1>1, <1>2, <1>3, <1>4, <1>5 DEF Next

\* What another process checked still holds: x cannot write under its lock.
LEMMA OthersChecked ==
  ASSUME TypeOK, CheckedUnderLock, NEW x, OthersKeep(x), NEW s \in Schedules,
         SeatEffect(x, s), NEW q \in Procs, q # x, Writing(q, s)'
  PROVE  Checked(q, s)'
  <1>1. /\ pc'[q] = pc[q]
        /\ q \in Checkouts => req'[q] = req[q]
        /\ q \in Workers => job'[q] = job[q]
    BY DEF OthersKeep
  <1>2. Writing(q, s)
    BY <1>1 DEF Writing
  <1>3. Checked(q, s)
    BY <1>2 DEF CheckedUnderLock
  <1>4. q # Null
    BY EnrollmentConstants DEF Procs
  <1>5. schedLock'[s] = q
    BY <1>3, <1>4 DEF OthersKeep, Checked
  <1>6. Quiet(s)
    BY <1>3, <1>4 DEF SeatEffect, CheckedUnderLock, Checked, Free
  <1>7. Cardinality(Kept(s)') \in Nat /\ Cardinality(Kept(s)) \in Nat
        /\ Cardinality(Kept(s)') <= Cardinality(Kept(s))
    <2>1. Kept(s) \in SUBSET Enrollments
      BY DEF Kept, Seats
    <2>2. QED
      BY <1>6, <2>1, SeatCounts DEF Quiet
  <1>8. sched[s].cap \in Nat
    BY DEF TypeOK, TablesTyped, ScheduleRow
  <1>9. pc[q] \in {"change", "tutor"} => job'[q] = job[q] /\ job[q].cap \in Nat
    BY <1>1, <1>2 DEF Writing, TypeOK, RequestsTyped, Job
  <1>10. sched'[s].state \in {"open", "ended"} /\ sched'[s].cap = sched[s].cap
    BY <1>3, <1>6 DEF Checked, Quiet, Existing
  <1>11. /\ pc[q] \in {"insert", "resume_save", "assign_save"} =>
               Cardinality(Kept(s)') < sched'[s].cap
         /\ pc[q] \in {"change", "tutor"} => Cardinality(Kept(s)') <= job'[q].cap
         /\ pc[q] = "delete" => Kept(s)' = {}
    <2>1. pc[q] = "delete" => Kept(s)' = {}
      BY <1>3, <1>6 DEF Checked, Quiet
    <2>2. QED
      BY <1>3, <1>7, <1>8, <1>9, <1>10, <2>1 DEF Checked
  <1>12. QED
    BY <1>1, <1>5, <1>10, <1>11 DEF Checked

\* A step that writes no row leaves the kept seats as they are.
LEMMA KeptSame ==
  ASSUME NEW s, UNCHANGED <<enr, rewound>>
  PROVE  Kept(s)' = Kept(s)
  BY DEF Kept, Seats, Live

\* A step on which no kept row becomes live or moves is quiet everywhere.
LEMMA ShrinkQuiet ==
  ASSUME UNCHANGED sched, rewound \subseteq rewound',
         \A e \in Enrollments : e \notin rewound' /\ Live(enr'[e]) =>
             Live(enr[e]) /\ enr'[e].schedule = enr[e].schedule
  PROVE  \A s \in Schedules : Quiet(s)
  <1>1. \A s \in Schedules : Kept(s)' \subseteq Kept(s)
    BY DEF Kept, Seats, Live
  <1>2. QED
    BY <1>1 DEF Quiet

\* Leaving the live statuses, or moving between them, takes no seat.
LEMMA SetStatusQuiet ==
  ASSUME TablesTyped, UNCHANGED <<sched, rewound>>, NEW e, NEW st, SetStatus(e, st),
         e \in Enrollments => st \notin {"pending", "active"} \/ Live(enr[e])
  PROVE  \A s \in Schedules : Quiet(s)
  <1>1. \A f \in Enrollments :
           enr'[f] = enr[f] \/ (f = e /\ enr'[f] = WithStatus(enr[f], st))
    BY DEF SetStatus, TablesTyped
  <1>2. \A f \in Enrollments : /\ WithStatus(enr[f], st).status = st
                               /\ WithStatus(enr[f], st).schedule = enr[f].schedule
    BY RowFields DEF TablesTyped
  <1>3. QED
    BY <1>1, <1>2, ShrinkQuiet DEF Live

\* A checkout takes a seat only by inserting under the lock; the row that its
\* save rewinds no longer counts as kept.
LEMMA CheckoutSeats ==
  ASSUME TypeOK, CheckoutLocals, NEW p \in Checkouts, CheckoutNext(p)
  PROVE  \A s \in Schedules : SeatEffect(p, s)
  <1> USE DEF TypeOK, db, locks, billing, checkout, history
  <1>p. p \in Procs /\ p \in Enrollments
    BY DEF Procs, Enrollments
  <1>1. CASE UNCHANGED <<enr, sched, rewound>>
    BY <1>1, ShrinkQuiet DEF SeatEffect
  <1>2. CASE InsertEnrollment(p) /\ enr' # enr
    <2>1. /\ enr' = [enr EXCEPT ![p] = NewRow(req[p])]
          /\ sched' = sched /\ rewound' = rewound /\ pc[p] = "insert"
      BY <1>2 DEF InsertEnrollment
    <2>2. NewRow(req[p]).schedule = req[p].schedule
      BY DEF NewRow
    <2>3. ASSUME NEW s \in Schedules PROVE SeatEffect(p, s)
      <3>1. \A e \in Enrollments : e # p => enr'[e] = enr[e]
        BY <2>1 DEF TablesTyped
      <3>2. enr'[p].schedule = req[p].schedule
        BY <1>p, <2>1, <2>2 DEF TablesTyped
      <3>3. CASE s = req[p].schedule
        <4>1. Writing(p, s)
          BY <2>1, <3>3 DEF Writing
        <4>2. Kept(s)' \subseteq Kept(s) \cup {p}
          BY <2>1, <3>1 DEF Kept, Seats, Live
        <4>3. QED
          BY <1>p, <2>1, <4>1, <4>2 DEF SeatEffect
      <3>4. CASE s # req[p].schedule
        <4>1. Kept(s)' \subseteq Kept(s)
          BY <2>1, <3>1, <3>2, <3>4 DEF Kept, Seats, Live
        <4>2. QED
          BY <2>1, <4>1 DEF SeatEffect, Quiet
      <3>5. QED
        BY <3>3, <3>4
    <2>4. QED
      BY <2>3
  <1>3. CASE DropInvoiceRejected(p) /\ enr' # enr
    <2>1. /\ UNCHANGED <<sched, rewound>>
          /\ \A e \in Enrollments :
               \/ enr'[e] = enr[e]
               \/ enr'[e] = WithPay(WithStatus(enr[e], "dropped"), mine[p].row.pay)
      BY <1>3 DEF DropInvoiceRejected, TablesTyped
    <2>2. \A e \in Enrollments :
             WithPay(WithStatus(enr[e], "dropped"), mine[p].row.pay).status = "dropped"
      <3> TAKE e \in Enrollments
      <3>1. enr[e] \in Row /\ WithStatus(enr[e], "dropped") \in Row
        BY RowWrites DEF TablesTyped, Statuses
      <3>2. QED
        BY <3>1, RowFields
    <2>3. QED
      BY <2>1, <2>2, ShrinkQuiet DEF SeatEffect, Live
  <1>4. CASE SaveInvoice(p) /\ enr' # enr
    <2>1. /\ enr' = [enr EXCEPT ![mine[p].id] = SavedRow(p)]
          /\ UNCHANGED sched
          /\ rewound' = IF /\ SavedRow(p).status = enr[mine[p].id].status
                           /\ SavedRow(p).schedule = enr[mine[p].id].schedule
                        THEN rewound ELSE rewound \cup {mine[p].id}
      BY <1>4 DEF SaveInvoice
    <2>2. \A e \in Enrollments : enr'[e] = IF e = mine[p].id THEN SavedRow(p) ELSE enr[e]
      BY <2>1 DEF TablesTyped
    <2>3. QED
      BY <2>1, <2>2, ShrinkQuiet DEF SeatEffect, Live
  <1>5. \/ UNCHANGED <<enr, sched, rewound>>
        \/ InsertEnrollment(p) \/ DropInvoiceRejected(p) \/ SaveInvoice(p)
    BY DEF CheckoutNext, CheckoutStep, EnrollNew, EnrollReplay, CreateIfCapacityAvailable,
           ClassNotEnrollable, AnswerRace, GenerateInvoice, RefuseInvoice, CheckoutFails
  <1>6. enr' = enr => UNCHANGED <<enr, sched, rewound>> \/ SaveInvoice(p)
    BY <1>5 DEF InsertEnrollment, DropInvoiceRejected
  <1>7. CASE SaveInvoice(p) /\ enr' = enr
    <2>1. UNCHANGED sched /\ rewound \subseteq rewound'
      BY <1>7 DEF SaveInvoice
    <2>2. QED
      BY <1>7, <2>1, ShrinkQuiet DEF SeatEffect
  <1>8. QED
    BY <1>1, <1>2, <1>3, <1>4, <1>5, <1>6, <1>7

\* A worker takes a seat only under the lock of its schedule.
LEMMA WorkerSeats ==
  ASSUME TypeOK, WorkerLocals, CheckedUnderLock, NoUseOfUnused,
         NEW w \in Workers, WorkerNext(w)
  PROVE  \A s \in Schedules : SeatEffect(w, s)
  <1> USE DEF TypeOK, db, locks, billing, checkout, history
  <1>w. w \in Procs /\ WorkerLocal(w)
    BY DEF Procs, WorkerLocals
  <1>1. CASE UNCHANGED <<enr, sched, rewound>>
    BY <1>1, ShrinkQuiet DEF SeatEffect
  <1>2. CASE ResumeSave(w) /\ enr' # enr
    <2> DEFINE e == job[w].enr
    <2>1. SetStatus(e, "active") /\ UNCHANGED <<sched, rewound>> /\ pc[w] = "resume_save"
      BY <1>2 DEF ResumeSave
    <2>2. e \in Enrollments /\ enr[e].schedule = job[w].sched
      BY <1>w, <2>1 DEF WorkerLocal, RowJobs
    <2>3. \A f \in Enrollments : f # e => enr'[f] = enr[f]
      BY <2>1 DEF SetStatus, TablesTyped
    <2>4. enr'[e].schedule = job[w].sched
      <3>1. enr'[e] = WithStatus(enr[e], "active")
        BY <2>1, <2>2 DEF SetStatus, TablesTyped
      <3>2. QED
        BY <2>2, <3>1, RowFields DEF TablesTyped
    <2> HIDE DEF e
    <2>5. ASSUME NEW s \in Schedules PROVE SeatEffect(w, s)
      <3>1. CASE s = job[w].sched
        <4>1. Writing(w, s)
          BY <2>1, <3>1 DEF Writing
        <4>2. Kept(s)' \subseteq Kept(s) \cup {e}
          BY <2>1, <2>3 DEF Kept, Seats, Live
        <4>3. QED
          BY <1>w, <2>1, <4>1, <4>2 DEF SeatEffect
      <3>2. CASE s # job[w].sched
        <4>1. Kept(s)' \subseteq Kept(s)
          BY <2>1, <2>3, <2>4, <3>2 DEF Kept, Seats, Live
        <4>2. QED
          BY <2>1, <4>1 DEF SeatEffect, Quiet
      <3>3. QED
        BY <3>1, <3>2
    <2>6. QED
      BY <2>5
  <1>3. CASE AssignSave(w)
    <2> DEFINE e == job[w].enr
    <2>1. /\ enr' = [enr EXCEPT ![e] = OnSchedule(@, job[w].sched)]
          /\ UNCHANGED <<sched, rewound>> /\ pc[w] = "assign_save"
      BY <1>3 DEF AssignSave
    <2>2. e \in Enrollments
      BY <1>w, <2>1 DEF WorkerLocal, RowJobs
    <2>3. \A f \in Enrollments : f # e => enr'[f] = enr[f]
      BY <2>1 DEF TablesTyped
    <2>4. enr'[e].schedule = job[w].sched
      <3>1. enr'[e] = OnSchedule(enr[e], job[w].sched)
        BY <2>1, <2>2 DEF TablesTyped
      <3>2. QED
        BY <2>2, <3>1, RowFields DEF TablesTyped
    <2> HIDE DEF e
    <2>5. ASSUME NEW s \in Schedules PROVE SeatEffect(w, s)
      <3>1. CASE s = job[w].sched
        <4>1. Writing(w, s)
          BY <2>1, <3>1 DEF Writing
        <4>2. Kept(s)' \subseteq Kept(s) \cup {e}
          BY <2>1, <2>3 DEF Kept, Seats, Live
        <4>3. QED
          BY <1>w, <2>1, <4>1, <4>2 DEF SeatEffect
      <3>2. CASE s # job[w].sched
        <4>1. Kept(s)' \subseteq Kept(s)
          BY <2>1, <2>3, <2>4, <3>2 DEF Kept, Seats, Live
        <4>2. QED
          BY <2>1, <4>1 DEF SeatEffect, Quiet
      <3>3. QED
        BY <3>1, <3>2
    <2>6. QED
      BY <2>5
  <1>4. CASE DropPending(w) /\ enr' # enr
    <2>1. UNCHANGED <<sched, rewound>> /\ SetStatus(job[w].enr, "dropped")
      BY <1>4 DEF DropPending
    <2>2. QED
      BY <2>1, SetStatusQuiet DEF SeatEffect
  <1>5. CASE \E new \in Schedules : ReplaceSchedule(w, new)
    <2> PICK new \in Schedules : ReplaceSchedule(w, new)
      BY <1>5
    <2> DEFINE o == job[w].sched
               next == [class |-> sched[o].class, cap |-> job[w].cap,
                        state |-> sched[o].state]
    <2>1. /\ pc[w] \in {"change", "tutor"} /\ rewound' = rewound
          /\ sched[new].state = "unused"
      BY DEF ReplaceSchedule
    <2>2. o \in Schedules /\ Writing(w, o)
      BY <1>w, <2>1 DEF WorkerLocal, SchedJobs, Writing
    <2>3. sched[o].state \in Existing
      BY <1>w, <2>2 DEF CheckedUnderLock, Checked, Existing
    <2>4. PICK st \in {sched[o].state, "ended"} :
             sched' = [sched EXCEPT ![o] = InState(@, st), ![new] = next]
      BY DEF ReplaceSchedule
    <2>5. InState(sched[o], st).cap = sched[o].cap /\ InState(sched[o], st).state = st
      BY <2>2 DEF TablesTyped, ScheduleRow, InState
    <2>6. next.cap = job[w].cap /\ next.state = sched[o].state
      OBVIOUS
    <2>7. \A e \in Enrollments :
             enr'[e] = IF e \in Transferred(o) THEN OnSchedule(enr[e], new) ELSE enr[e]
      BY DEF ReplaceSchedule, TransferSchedule
    <2>8. \A e \in Enrollments : /\ OnSchedule(enr[e], new).status = enr[e].status
                                 /\ OnSchedule(enr[e], new).schedule = new
      BY RowFields DEF TablesTyped
    <2>9. \A e \in Enrollments : enr[e].schedule # new
      BY <2>1 DEF NoUseOfUnused
    <2>10. Transferred(o) \subseteq Seats(o)
      BY DEF Transferred
    <2>11. st \in Existing /\ new # o
      BY <2>1, <2>3 DEF Existing
    <2> HIDE DEF o, next
    <2>12. /\ \A s \in Schedules \ {o, new} : sched'[s] = sched[s]
           /\ sched'[o] = InState(sched[o], st) /\ sched'[new] = next
      BY <2>2, <2>4, <2>11 DEF TablesTyped
    <2>13. ASSUME NEW s \in Schedules PROVE SeatEffect(w, s)
      <3>1. CASE s = new
        <4>1. Kept(s)' \subseteq Kept(o)
          BY <2>1, <2>7, <2>9, <2>10, <3>1 DEF Kept, Seats, Live
        <4>2. sched'[s].cap = job[w].cap /\ sched'[s].state \in Existing
          BY <2>3, <2>6, <2>12, <3>1
        <4>3. QED
          BY <1>w, <2>1, <2>2, <3>1, <4>1, <4>2 DEF SeatEffect
      <3>2. CASE s # new
        <4>1. Kept(s)' \subseteq Kept(s)
          BY <2>1, <2>7, <2>8, <3>2 DEF Kept, Seats, Live
        <4>2. /\ sched'[s].cap = sched[s].cap
              /\ sched[s].state \in Existing => sched'[s].state \in Existing
              /\ sched[s].state = "class_deleted" => sched'[s].state = "class_deleted"
          BY <2>3, <2>5, <2>11, <2>12, <3>2 DEF Existing
        <4>3. QED
          BY <4>1, <4>2 DEF SeatEffect, Quiet
      <3>3. QED
        BY <3>1, <3>2
    <2>14. QED
      BY <2>13
  <1>6. CASE DeleteCommit(w)
    <2>1. /\ pc[w] = "delete" /\ UNCHANGED <<enr, rewound>>
          /\ sched' = [sched EXCEPT ![job[w].sched] = InState(@, "deleted")]
      BY <1>6 DEF DeleteCommit
    <2>2. \A s \in Schedules : InState(sched[s], "deleted").cap = sched[s].cap
      BY DEF TablesTyped, ScheduleRow, InState
    <2>3. \A s \in Schedules : Kept(s)' \subseteq Kept(s)
      BY <2>1 DEF Kept, Seats, Live
    <2>4. \A s \in Schedules : /\ sched'[s].cap = sched[s].cap
                               /\ s # job[w].sched => sched'[s] = sched[s]
      BY <2>1, <2>2 DEF TablesTyped
    <2>5. \A s \in Schedules : s = job[w].sched => Writing(w, s)
      BY <2>1 DEF Writing
    <2>6. QED
      BY <1>w, <2>1, <2>3, <2>4, <2>5 DEF SeatEffect, Quiet
  <1>7. CASE DeleteByTenant(w)
    <2> DEFINE rows == job[w].doomed
    <2>1. /\ UNCHANGED <<enr, rewound>>
          /\ \A s \in rows : Free(schedLock, s)
          /\ \A s \in Schedules :
                sched'[s] = IF s \in rows THEN InState(sched[s], "class_deleted")
                                          ELSE sched[s]
          /\ \A e \in Enrollments : Live(enr[e]) /\ enr[e].schedule \in rows
                                       => "stranded" \in log'[e]
      BY <1>7 DEF DeleteByTenant
    <2>2. \A s \in Schedules : /\ InState(sched[s], "class_deleted").cap = sched[s].cap
                               /\ InState(sched[s], "class_deleted").state = "class_deleted"
      BY DEF TablesTyped, ScheduleRow, InState
    <2>3. \A s \in Schedules : Kept(s)' = Kept(s)
      BY <2>1, KeptSame
    <2>4. \A s \in Schedules : \A e \in Kept(s) :
             e \in Enrollments /\ Live(enr[e]) /\ enr[e].schedule = s
      BY DEF Kept, Seats
    <2> HIDE DEF rows
    <2>5. ASSUME NEW s \in Schedules PROVE SeatEffect(w, s)
      <3>1. CASE s \in rows
        BY <2>1, <2>2, <2>3, <2>4, <3>1 DEF SeatEffect
      <3>2. CASE s \notin rows
        BY <2>1, <2>3, <3>2 DEF SeatEffect, Quiet
      <3>3. QED
        BY <3>1, <3>2
    <2>6. QED
      BY <2>5
  <1>8. QED
    BY <1>1, <1>2, <1>3, <1>4, <1>5, <1>6, <1>7
       DEF WorkerNext, WorkerStart, WorkerStep, WorkerFails, ResumeEnrollment,
           CancelPendingEnrollment, AssignSchedule, ChangeSchedulePermanent,
           ChangeTutorPermanent, DeleteSchedule, ResumeUnderCapacity, ResumeSave,
           AssignUnderCapacity, WithdrawPayment, DropPending, DeleteClass,
           DeleteByClass

\* Billing, the tenant's direct transitions and the calendar take no seat.
LEMMA OutsideSeats ==
  ASSUME TypeOK, OutsideNext
  PROVE  \A s \in Schedules : SeatEffect(Null, s)
  <1> USE DEF TypeOK, db, locks, billing, checkout, history
  <1>1. CASE UNCHANGED <<enr, sched, rewound>>
    BY <1>1, ShrinkQuiet DEF SeatEffect
  <1>2. CASE \E s \in Schedules : DayPasses(s)
    <2>1. UNCHANGED <<enr, rewound>>
      BY <1>2 DEF DayPasses
    <2>2. \A x \in Schedules : /\ InState(sched[x], "ended").cap = sched[x].cap
                               /\ InState(sched[x], "ended").state = "ended"
      BY DEF TablesTyped, ScheduleRow, InState
    <2>3. \A x \in Schedules :
             \/ sched'[x] = sched[x]
             \/ sched[x].state = "open" /\ sched'[x] = InState(sched[x], "ended")
      BY <1>2 DEF DayPasses, TablesTyped
    <2>4. \A x \in Schedules : Kept(x)' \subseteq Kept(x)
      BY <2>1 DEF Kept, Seats, Live
    <2>5. QED
      BY <2>2, <2>3, <2>4 DEF SeatEffect, Quiet, Existing
  <1>3. CASE \E e \in Enrollments :
                /\ UNCHANGED <<sched, rewound>>
                /\ \/ Live(enr[e]) /\ SetStatus(e, "active")
                   \/ SetStatus(e, "dropped")
                   \/ SetStatus(e, "suspended")
    BY <1>3, SetStatusQuiet DEF SeatEffect
  <1>4. QED
    BY <1>1, <1>2, <1>3
       DEF OutsideNext, Pay, PaymentFails, ActivateEnrollment, ReleaseEnrollment,
           SuspendEnrollment, EndEnrollment, Live

\* The seats an operation checked for are at most the seats taken.
LEMMA KeptSeats ==
  ASSUME NEW s
  PROVE  /\ Cardinality(Kept(s)) \in Nat /\ Cardinality(Seats(s)) \in Nat
         /\ Cardinality(Kept(s)) <= Cardinality(Seats(s))
  <1>1. Seats(s) \in SUBSET Enrollments /\ Kept(s) \subseteq Seats(s)
    BY DEF Kept, Seats
  <1>2. QED
    BY <1>1, SeatCounts

\* A checkout that is about to insert has just checked under the lock.
LEMMA CheckoutOwnChecked ==
  ASSUME TypeOK, CheckoutLocals, NEW p \in Checkouts, CheckoutNext(p),
         NEW s \in Schedules, Writing(p, s)'
  PROVE  Checked(p, s)'
  <1> USE DEF TypeOK, db, locks, billing, checkout, history
  <1>p. p \in Procs /\ p \notin Workers
    BY EnrollmentConstants DEF Procs
  <1>g. \A st : Goto(p, st) => pc'[p] = st
    BY <1>p DEF Goto, StepsTyped
  <1>d. ASSUME NEW kind, NEW e, Reply(p, kind, e) PROVE pc'[p] = "done"
    BY <1>d, <1>g DEF Reply
  <1>c. CreateFailed(p) => pc'[p] \in {"relookup", "done"}
    BY <1>d, <1>g DEF CreateFailed
  <1>1. pc'[p] = "insert" /\ req'[p].schedule = s
    BY <1>p DEF Writing
  <1>2. CreateIfCapacityAvailable(p)
    BY <1>1, <1>g, <1>d, <1>c
       DEF CheckoutNext, CheckoutStep, EnrollNew, EnrollReplay, ReplyExisting,
           ClassNotEnrollable, InsertEnrollment, AnswerRace, GenerateInvoice,
           RefuseInvoice, DropInvoiceRejected, SaveInvoice, CheckoutFails
  <1>3. /\ UNCHANGED <<enr, sched, rewound>> /\ req[p].schedule = s
        /\ Found(s, req[p].class) /\ HasRoom(s)
        /\ schedLock' = [schedLock EXCEPT ![s] = p]
    BY <1>1, <1>2, <1>c DEF CreateIfCapacityAvailable
  <1>4. schedLock'[s] = p /\ sched'[s].state \in {"open", "ended"}
    BY <1>3 DEF LocksTyped, Found
  <1>5. Cardinality(Kept(s)') < sched'[s].cap
    <2>1. Cardinality(Seats(s)) < sched[s].cap /\ sched[s].cap \in Nat
      BY <1>3 DEF HasRoom, TablesTyped, ScheduleRow
    <2>2. Kept(s)' = Kept(s)
      BY <1>3, KeptSame
    <2>3. Cardinality(Kept(s)) < sched[s].cap
      BY <2>1, KeptSeats
    <2>4. QED
      BY <1>3, <2>2, <2>3
  <1>6. QED
    BY <1>1, <1>4, <1>5 DEF Checked

\* A worker that is about to write has just checked under the lock.
LEMMA WorkerOwnChecked ==
  ASSUME TypeOK, WorkerLocals, SeatsWithinCapacity, NEW w \in Workers, WorkerNext(w),
         NEW s \in Schedules, Writing(w, s)'
  PROVE  Checked(w, s)'
  <1> USE DEF TypeOK, db, locks, billing, checkout, history
  <1>w. w \in Procs /\ w \notin Checkouts
    BY EnrollmentConstants DEF Procs
  <1>g. \A st : Goto(w, st) => pc'[w] = st
    BY <1>w DEF Goto, StepsTyped
  <1>f. Finish(w) => pc'[w] = "idle"
    BY <1>g DEF Finish
  <1>s. ASSUME NEW first, NEW j, Start(w, first, j)
        PROVE  pc'[w] = first /\ job'[w] = j
    BY <1>s, <1>g DEF Start, RequestsTyped
  <1>j. \A e, x, cap : /\ JobOf(e, x, cap).enr = e /\ JobOf(e, x, cap).sched = x
                       /\ JobOf(e, x, cap).cap = cap
    BY DEF JobOf
  <1>1. /\ job'[w].sched = s
        /\ pc'[w] \in {"resume_save", "assign_save", "change", "tutor", "delete"}
    BY <1>w DEF Writing
  <1>2. sched[s].cap \in Nat
    BY DEF TablesTyped, ScheduleRow
  <1>3. CASE ResumeUnderCapacity(w) \/ AssignUnderCapacity(w)
    <2>1. /\ pc'[w] \in {"resume_save", "assign_save"}
          /\ UNCHANGED <<enr, sched, rewound>> /\ job[w].sched = s
          /\ s \in Schedules /\ s # Null
          /\ Found(s, enr[job[w].enr].class) /\ HasRoom(s)
          /\ schedLock' = [schedLock EXCEPT ![s] = w]
      BY <1>1, <1>3, <1>f, <1>g, EnrollmentConstants
         DEF ResumeUnderCapacity, AssignUnderCapacity
    <2>2. schedLock'[s] = w /\ sched'[s].state \in {"open", "ended"}
      BY <2>1 DEF LocksTyped, Found
    <2>3. Cardinality(Seats(s)) < sched[s].cap
      BY <2>1 DEF HasRoom
    <2>4. Kept(s)' = Kept(s)
      BY <2>1, KeptSame
    <2>5. Cardinality(Kept(s)') < sched'[s].cap
      BY <1>2, <2>1, <2>3, <2>4, KeptSeats
    <2>6. QED
      BY <2>1, <2>2, <2>5 DEF Checked
  <1>4. CASE \E x \in Schedules, cap \in Capacities : ChangeSchedulePermanent(w, x, cap)
    <2> PICK x \in Schedules, cap \in Capacities : ChangeSchedulePermanent(w, x, cap)
      BY <1>4
    <2>1. pc'[w] = "change" /\ job'[w] = JobOf(Null, x, cap)
      BY <1>s DEF ChangeSchedulePermanent
    <2>2. x = s /\ job'[w].cap = cap
      BY <1>1, <1>j, <2>1
    <2>3. /\ UNCHANGED <<enr, sched, rewound>> /\ sched[s].state = "open"
          /\ Cardinality(Seats(s)) <= cap /\ schedLock' = [schedLock EXCEPT ![s] = w]
      BY <2>2 DEF ChangeSchedulePermanent, LockSchedule
    <2>4. Kept(s)' = Kept(s)
      BY <2>3, KeptSame
    <2>5. cap \in Nat
      BY EnrollmentConstants
    <2>6. Cardinality(Kept(s)') <= job'[w].cap
      BY <2>2, <2>3, <2>4, <2>5, KeptSeats
    <2>7. QED
      BY <2>1, <2>3, <2>6 DEF Checked, LocksTyped
  <1>5. CASE \E x \in Schedules : ChangeTutorPermanent(w, x)
    <2> PICK x \in Schedules : ChangeTutorPermanent(w, x)
      BY <1>5
    <2>1. pc'[w] = "tutor" /\ job'[w] = JobOf(Null, x, sched[x].cap)
      BY <1>s DEF ChangeTutorPermanent
    <2>2. x = s /\ job'[w].cap = sched[s].cap
      BY <1>1, <1>j, <2>1
    <2>3. /\ UNCHANGED <<enr, sched, rewound>> /\ sched[s].state \in {"open", "ended"}
          /\ schedLock' = [schedLock EXCEPT ![s] = w]
      BY <2>2 DEF ChangeTutorPermanent, LockSchedule
    <2>4. Kept(s)' = Kept(s)
      BY <2>3, KeptSame
    <2>5. Cardinality(Kept(s)') <= job'[w].cap
      BY <2>2, <2>4 DEF SeatsWithinCapacity
    <2>6. QED
      BY <2>1, <2>3, <2>5 DEF Checked, LocksTyped
  <1>6. CASE \E x \in Schedules : DeleteSchedule(w, x)
    <2> PICK x \in Schedules : DeleteSchedule(w, x)
      BY <1>6
    <2>1. pc'[w] = "delete" /\ job'[w] = JobOf(Null, x, 0)
      BY <1>s DEF DeleteSchedule
    <2>2. x = s
      BY <1>1, <1>j, <2>1
    <2>3. /\ UNCHANGED <<enr, sched, rewound>> /\ sched[s].state \in {"open", "ended"}
          /\ Seats(s) = {} /\ schedLock' = [schedLock EXCEPT ![s] = w]
      BY <2>2 DEF DeleteSchedule, LockSchedule
    <2>4. Kept(s)' = {}
      <3>1. Kept(s)' = Kept(s)
        BY <2>3, KeptSame
      <3>2. QED
        BY <2>3, <3>1 DEF Kept
    <2>5. QED
      BY <2>1, <2>3, <2>4 DEF Checked, LocksTyped
  <1>7. QED
    BY <1>1, <1>3, <1>4, <1>5, <1>6, <1>f, <1>g, <1>s
       DEF WorkerNext, WorkerStart, WorkerStep, WorkerFails, ResumeEnrollment,
           AssignSchedule, CancelPendingEnrollment, ResumeSave, AssignSave,
           WithdrawPayment, DropPending, ReplaceSchedule, DeleteCommit,
           DeleteClass, DeleteByClass, DeleteByTenant

\* NoSeatOnDeletedSchedule, schedule by schedule.
LEMMA BySchedule ==
  ASSUME TypeOK
  PROVE  NoSeatOnDeletedSchedule <=> \A s \in Schedules : SeatsPlaced(s)
  <1>1. \A e \in Enrollments : enr[e].schedule \in Schedules \cup {Null}
    BY DEF TypeOK, TablesTyped, Row
  <1>2. Null \notin Schedules
    BY EnrollmentConstants
  <1>3. QED
    BY <1>1, <1>2 DEF NoSeatOnDeletedSchedule, SeatsPlaced, Kept, Seats, Existing, Live

\* One step of any process keeps the seats right.
LEMMA SeatStep ==
  ASSUME SeatInvariant, TypeOK', NEW x, OthersKeep(x),
         \A s \in Schedules : SeatEffect(x, s),
         \A e \in Enrollments : log[e] \subseteq log'[e],
         \A s \in Schedules : x \in Procs /\ Writing(x, s)' => Checked(x, s)'
  PROVE  CheckedUnderLock' /\ SeatsWithinCapacity' /\ NoSeatOnDeletedSchedule'
  <1> USE DEF SeatInvariant
  <1>1. CheckedUnderLock'
    BY OthersChecked DEF CheckedUnderLock
  <1>2. SeatsWithinCapacity'
    BY EffectWithinCapacity DEF SeatsWithinCapacity
  <1>3. \A s \in Schedules : SeatsPlaced(s)'
    <2>1. \A s \in Schedules : SeatsPlaced(s)
      BY BySchedule
    <2>2. QED
      BY <2>1, EffectOnDeleted
  <1>4. NoSeatOnDeletedSchedule'
    <2>1. \A e \in Enrollments : enr'[e].schedule \in Schedules \cup {Null}
      BY DEF TypeOK, TablesTyped, Row
    <2>2. QED
      BY <1>3, <2>1, EnrollmentConstants
         DEF NoSeatOnDeletedSchedule, SeatsPlaced, Kept, Seats, Existing, Live
  <1>5. QED
    BY <1>1, <1>2, <1>4

\* The invariant behind the seat properties is inductive.
LEMMA SeatInvariantStep ==
  ASSUME SeatInvariant, Next PROVE SeatInvariant'
  <1>1. TypeOK' /\ CheckoutLocals' /\ WorkerLocals' /\ NoUseOfUnused'
    BY LocalsStep, UnusedStep DEF SeatInvariant
  <1>l. \A e \in Enrollments : log[e] \subseteq log'[e]
    BY LogGrows DEF SeatInvariant
  <1>2. CheckedUnderLock' /\ SeatsWithinCapacity' /\ NoSeatOnDeletedSchedule'
    <2>1. CASE \E p \in Checkouts : CheckoutNext(p)
      <3> PICK p \in Checkouts : CheckoutNext(p)
        BY <2>1
      <3>1. /\ OthersKeep(p)
            /\ \A s \in Schedules : SeatEffect(p, s)
            /\ \A s \in Schedules : Writing(p, s)' => Checked(p, s)'
        BY CheckoutKeeps, CheckoutSeats, CheckoutOwnChecked DEF SeatInvariant
      <3>2. QED
        BY <1>1, <1>l, <3>1, SeatStep
    <2>2. CASE \E w \in Workers : WorkerNext(w)
      <3> PICK w \in Workers : WorkerNext(w)
        BY <2>2
      <3>1. /\ OthersKeep(w)
            /\ \A s \in Schedules : SeatEffect(w, s)
            /\ \A s \in Schedules : Writing(w, s)' => Checked(w, s)'
        BY WorkerKeeps, WorkerSeats, WorkerOwnChecked DEF SeatInvariant
      <3>2. QED
        BY <1>1, <1>l, <3>1, SeatStep
    <2>3. CASE OutsideNext
      <3>1. /\ OthersKeep(Null) /\ Null \notin Procs
            /\ \A s \in Schedules : SeatEffect(Null, s)
        BY <2>3, OutsideKeeps, OutsideSeats, EnrollmentConstants DEF SeatInvariant, Procs
      <3>2. QED
        BY <1>1, <1>l, <3>1, SeatStep
    <2>4. QED
      BY <2>1, <2>2, <2>3 DEF Next
  <1>3. QED
    BY <1>1, <1>2 DEF SeatInvariant

\* It holds at the start: nobody has a schedule yet.
LEMMA SeatInvariantInit ==
  ASSUME Init PROVE SeatInvariant
  <1>1. TypeOK /\ CheckoutLocals /\ WorkerLocals
    BY InitTyped
  <1>2. \A e \in Enrollments : enr[e].schedule = Null
    BY DEF Init, NoRow, PurchaseRow
  <1>3. Null \notin Schedules /\ \A s \in Schedules : InitSched[s].cap \in Nat
    BY EnrollmentConstants DEF ScheduleRow
  <1>4. \A s \in Schedules : Kept(s) = {}
    BY <1>2, <1>3 DEF Kept, Seats
  <1>5. NoUseOfUnused
    BY <1>2, <1>3 DEF NoUseOfUnused, Init, NoRow
  <1>6. CheckedUnderLock
    BY DEF CheckedUnderLock, Writing, Init, Procs
  <1>7. SeatsWithinCapacity
    <2>1. \A s \in Schedules : Cardinality(Kept(s)) = 0
      BY <1>4, FS_EmptySet
    <2>2. \A s \in Schedules : sched[s].cap \in Nat
      BY <1>3 DEF Init
    <2>3. QED
      BY <2>1, <2>2 DEF SeatsWithinCapacity
  <1>8. NoSeatOnDeletedSchedule
    BY <1>2 DEF NoSeatOnDeletedSchedule
  <1>9. QED
    BY <1>1, <1>5, <1>6, <1>7, <1>8 DEF SeatInvariant

\* The seat invariant holds throughout.
THEOREM SeatInvariantHolds == Spec => []SeatInvariant
  <1>1. SeatInvariant /\ UNCHANGED vars => SeatInvariant'
    <2> SUFFICES ASSUME SeatInvariant, UNCHANGED vars PROVE SeatInvariant'
      OBVIOUS
    <2>1. UNCHANGED <<db, locks, billing, pc, checkout, job, history>>
      BY DEF vars
    <2>2. TypeOK'
      BY <2>1, Untouched DEF SeatInvariant, TypeOK
    <2>3. CheckoutLocals' /\ WorkerLocals' /\ NoUseOfUnused'
      BY <2>1 DEF SeatInvariant, db, locks, checkout, CheckoutLocals, CheckoutLocal,
                  WorkerLocals, WorkerLocal, NoUseOfUnused
    <2>4. \A s \in Schedules : Kept(s)' = Kept(s)
      BY <2>1, KeptSame DEF db, history
    <2>5. CheckedUnderLock' /\ SeatsWithinCapacity'
      BY <2>1, <2>4 DEF SeatInvariant, db, locks, checkout, CheckedUnderLock, Checked,
                        Writing, SeatsWithinCapacity
    <2>6. NoSeatOnDeletedSchedule'
      BY <2>1 DEF SeatInvariant, db, history, NoSeatOnDeletedSchedule, Live
    <2>7. QED
      BY <2>2, <2>3, <2>5, <2>6 DEF SeatInvariant
  <1>2. SeatInvariant /\ [Next]_vars => SeatInvariant'
    BY <1>1, SeatInvariantStep
  <1>3. QED
    BY <1>2, SeatInvariantInit, PTL DEF Spec

\* No interleaving of any number of signups, resumes, assignments, schedule and
\* tutor changes, deletions, payments, failures and crashes gives out more seats
\* than a schedule has, other than by a checkout's full-row save (rewound).
THEOREM SeatsNeverExceed == Spec => []SeatsWithinCapacity
  <1>1. SeatInvariant => SeatsWithinCapacity
    BY DEF SeatInvariant
  <1>2. QED
    BY <1>1, SeatInvariantHolds, PTL

\* DeleteSchedule removes a schedule only while it is empty, and no signup,
\* resume, assignment or change puts a live enrollment on a schedule that is
\* gone, alone or with its class, or that does not exist yet: whoever sits on one
\* was there when DeleteClass took it away.
THEOREM DeletedSchedulesStayEmpty == Spec => []NoSeatOnDeletedSchedule
  <1>1. SeatInvariant => NoSeatOnDeletedSchedule
    BY DEF SeatInvariant
  <1>2. QED
    BY <1>1, SeatInvariantHolds, PTL

-----------------------------------------------------------------------------
(* What a step may do to an enrollment row. *)

\* Only these steps write a row, or the history that is kept of the rows.
LEMMA RowsWritten ==
  ASSUME Next
  PROVE  \/ UNCHANGED <<enr, rewound, log>>
         \/ \E p \in Checkouts :
               InsertEnrollment(p) \/ DropInvoiceRejected(p) \/ SaveInvoice(p)
         \/ \E w \in Workers :
               \/ ResumeSave(w) \/ AssignSave(w) \/ DropPending(w)
               \/ \E new \in Schedules : ReplaceSchedule(w, new)
               \/ DeleteByTenant(w)
         \/ \E e \in Enrollments :
               \/ ActivateEnrollment(e) \/ ReleaseEnrollment(e)
               \/ SuspendEnrollment(e) \/ EndEnrollment(e)
  <1> USE DEF db, history
  <1>1. ASSUME NEW p \in Checkouts, CheckoutNext(p),
               ~(InsertEnrollment(p) \/ DropInvoiceRejected(p) \/ SaveInvoice(p))
        PROVE  UNCHANGED <<enr, rewound, log>>
    BY <1>1 DEF CheckoutNext, CheckoutStep, EnrollNew, EnrollReplay, AnswerRace,
                CreateIfCapacityAvailable, ClassNotEnrollable, GenerateInvoice,
                RefuseInvoice, CheckoutFails
  <1>2. ASSUME NEW w \in Workers, WorkerNext(w),
               ~(ResumeSave(w) \/ AssignSave(w) \/ DropPending(w)),
               ~\E new \in Schedules : ReplaceSchedule(w, new), ~DeleteByTenant(w)
        PROVE  UNCHANGED <<enr, rewound, log>>
    BY <1>2 DEF WorkerNext, WorkerStart, WorkerStep, WorkerFails, ResumeEnrollment,
                AssignSchedule, CancelPendingEnrollment, ChangeSchedulePermanent,
                ChangeTutorPermanent, DeleteSchedule, ResumeUnderCapacity,
                AssignUnderCapacity, WithdrawPayment, DeleteCommit, DeleteClass,
                DeleteByClass
  <1>3. ASSUME OutsideNext,
               ~\E e \in Enrollments :
                   \/ ActivateEnrollment(e) \/ ReleaseEnrollment(e)
                   \/ SuspendEnrollment(e) \/ EndEnrollment(e)
        PROVE  UNCHANGED <<enr, rewound, log>>
    BY <1>3 DEF OutsideNext, Pay, PaymentFails, DayPasses
  <1> QED BY <1>1, <1>2, <1>3 DEF Next

\* An activated enrollment that is not ended.
Held(row) == row.status \in {"active", "suspended"}

\* Row e keeps its order, becomes live only past the unique index and alone, is
\* given up after its activation only when it is ended, or rewound.
RowMoves(e) ==
  /\ log[e] \subseteq log'[e] /\ (e \in rewound => e \in rewound')
  /\ enr[e].status # "none" => enr'[e].status # "none" /\ SameOrder(enr'[e], enr[e])
  /\ Live(enr'[e]) /\ ~Live(enr[e]) =>
        UniqueActive(e, enr'[e]) /\ \A f \in Enrollments \ {e} : enr'[f] = enr[f]
  /\ Held(enr[e]) => Held(enr'[e]) \/ "ended" \in log'[e] \/ e \in rewound'
  /\ "activated" \in log'[e] => "activated" \in log[e] \/ Held(enr'[e])

\* A step that writes one row.
LEMMA OneRowMoves ==
  ASSUME TypeOK, NEW e \in Enrollments, NEW row,
         enr' = [enr EXCEPT ![e] = row], rewound \subseteq rewound',
         \A x \in Enrollments : log[x] \subseteq log'[x],
         \A x \in Enrollments \ {e} : log'[x] = log[x],
         enr[e].status # "none" => row.status # "none" /\ SameOrder(row, enr[e]),
         Live(row) /\ ~Live(enr[e]) => UniqueActive(e, row),
         Held(enr[e]) => Held(row) \/ "ended" \in log'[e] \/ e \in rewound',
         "activated" \in log'[e] => "activated" \in log[e] \/ Held(row)
  PROVE  \A x \in Enrollments : RowMoves(x)
  <1>1. enr'[e] = row /\ \A x \in Enrollments \ {e} : enr'[x] = enr[x]
    BY DEF TypeOK, TablesTyped
  <1> QED BY <1>1 DEF RowMoves, SameOrder

\* A step that sets the status of one row.
LEMMA StatusMoves ==
  ASSUME TypeOK, NEW e \in Enrollments, NEW st \in Statuses \ {"none"}, SetStatus(e, st),
         rewound \subseteq rewound',
         \A x \in Enrollments : log[x] \subseteq log'[x],
         \A x \in Enrollments \ {e} : log'[x] = log[x],
         st \in {"pending", "active"} /\ ~Live(enr[e]) => UniqueActive(e, WithStatus(enr[e], st)),
         Held(enr[e]) => st \in {"active", "suspended"} \/ "ended" \in log'[e] \/ e \in rewound',
         "activated" \in log'[e] => "activated" \in log[e] \/ st \in {"active", "suspended"}
  PROVE  \A x \in Enrollments : RowMoves(x)
  <1> DEFINE row == WithStatus(enr[e], st)
  <1>1. row.status = st /\ SameOrder(row, enr[e])
    BY DEF TypeOK, TablesTyped, Row, WithStatus, SameOrder
  <1>2. enr' = [enr EXCEPT ![e] = row]
    BY DEF SetStatus
  <1> HIDE DEF row
  <1>3. /\ Held(row) <=> st \in {"active", "suspended"}
        /\ Live(row) <=> st \in {"pending", "active"}
    BY <1>1 DEF Held, Live
  <1>4. Live(row) /\ ~Live(enr[e]) => UniqueActive(e, row)
    BY <1>3 DEF row
  <1> QED BY <1>1, <1>2, <1>3, <1>4, OneRowMoves

\* Every step moves every row in one of these ways.
LEMMA RowsMove ==
  ASSUME EnrollmentInvariant, Next
  PROVE  \A x \in Enrollments : RowMoves(x)
  <1>0. TypeOK /\ CheckoutLocals /\ WorkerLocals
    BY DEF EnrollmentInvariant, SeatInvariant
  <1>t. \A x \in Enrollments : enr[x] \in Row
    BY <1>0 DEF TypeOK, TablesTyped
  <1>1. CASE UNCHANGED <<enr, rewound, log>>
    BY <1>1 DEF RowMoves, SameOrder
  <1>2. ASSUME NEW p \in Checkouts, InsertEnrollment(p) PROVE \A x \in Enrollments : RowMoves(x)
    <2> DEFINE row == NewRow(req[p])
    <2>1. UNCHANGED <<rewound, log>> /\ p \in Enrollments /\ enr[p].status = "none"
      BY <1>0, <1>2 DEF InsertEnrollment, history, Enrollments, CheckoutLocals, CheckoutLocal
    <2>2. CASE UNCHANGED enr
      BY <2>1, <2>2 DEF RowMoves, SameOrder
    <2>3. CASE enr' = [enr EXCEPT ![p] = row] /\ UniqueActive(p, row)
      <3>1. ~Held(enr[p])
        BY <2>1 DEF Held
      <3> HIDE DEF row
      <3> QED BY <1>0, <2>1, <2>3, <3>1, OneRowMoves
    <2> QED BY <1>2, <2>2, <2>3 DEF InsertEnrollment
  <1>3. ASSUME NEW p \in Checkouts, DropInvoiceRejected(p)
        PROVE  \A x \in Enrollments : RowMoves(x)
    <2> DEFINE e == mine[p].id
               row == WithPay(WithStatus(enr[e], "dropped"), mine[p].row.pay)
    <2>1. UNCHANGED <<rewound, log>> /\ e \in Enrollments
      BY <1>0, <1>3 DEF DropInvoiceRejected, history, CheckoutLocals, CheckoutLocal
    <2>2. CASE UNCHANGED enr
      BY <2>1, <2>2 DEF RowMoves, SameOrder
    <2>3. CASE enr' = [enr EXCEPT ![e] = row] /\ enr[e].status = "pending"
      <3>1. row.status = "dropped" /\ SameOrder(row, enr[e])
        BY <1>t, <2>1 DEF Row, WithStatus, WithPay, SameOrder
      <3>2. ~Held(enr[e]) /\ ~Live(row)
        BY <2>3, <3>1 DEF Held, Live
      <3> HIDE DEF row
      <3> QED BY <1>0, <2>1, <2>3, <3>1, <3>2, OneRowMoves
    <2> QED BY <1>3, <2>2, <2>3 DEF DropInvoiceRejected
  <1>4. ASSUME NEW p \in Checkouts, SaveInvoice(p) PROVE \A x \in Enrollments : RowMoves(x)
    <2> DEFINE e == mine[p].id
               row == SavedRow(p)
    <2>1. UNCHANGED log /\ e \in Enrollments /\ mine[p].row.status # "none" /\ pc[p] = "save"
      BY <1>0, <1>4 DEF SaveInvoice, CheckoutLocals, CheckoutLocal
    <2>2. CASE UNCHANGED <<enr, rewound>>
      BY <2>1, <2>2 DEF RowMoves, SameOrder
    <2>3. CASE /\ enr' = [enr EXCEPT ![e] = row] /\ UniqueActive(e, row)
               /\ rewound' = IF row.status = enr[e].status /\ row.schedule = enr[e].schedule
                             THEN rewound ELSE rewound \cup {e}
      <3>1. SameOrder(mine[p].row, enr[e])
        BY <2>1 DEF EnrollmentInvariant, CheckoutAnswers
      <3>2. mine[p].row \in Row
        BY <1>0 DEF TypeOK, RequestsTyped
      <3>3. row.status # "none" /\ SameOrder(row, enr[e])
        BY <2>1, <3>1, <3>2 DEF SavedRow, WithPay, WithTransaction, SameOrder, Row
      <3> HIDE DEF row, e
      <3>4. Held(enr[e]) => Held(row) \/ e \in rewound'
        BY <2>3 DEF Held
      <3> QED BY <1>0, <2>1, <2>3, <3>3, <3>4, OneRowMoves
    <2> QED BY <1>4, <2>2, <2>3 DEF SaveInvoice
  <1>5. ASSUME NEW w \in Workers, ResumeSave(w) PROVE \A x \in Enrollments : RowMoves(x)
    <2>1. UNCHANGED <<rewound, log>> /\ job[w].enr \in Enrollments
      BY <1>0, <1>5 DEF ResumeSave, history, WorkerLocals, WorkerLocal, RowJobs
    <2>2. CASE UNCHANGED enr
      BY <2>1, <2>2 DEF RowMoves, SameOrder
    <2>3. CASE /\ SetStatus(job[w].enr, "active")
               /\ UniqueActive(job[w].enr, WithStatus(enr[job[w].enr], "active"))
      BY <1>0, <2>1, <2>3, StatusMoves DEF Statuses
    <2> QED BY <1>5, <2>2, <2>3 DEF ResumeSave
  <1>6. ASSUME NEW w \in Workers, AssignSave(w) PROVE \A x \in Enrollments : RowMoves(x)
    <2> DEFINE e == job[w].enr
               row == OnSchedule(enr[e], job[w].sched)
    <2>1. UNCHANGED <<rewound, log>> /\ e \in Enrollments
      BY <1>0, <1>6 DEF AssignSave, history, WorkerLocals, WorkerLocal, RowJobs
    <2>2. enr' = [enr EXCEPT ![e] = row]
      BY <1>6 DEF AssignSave
    <2>3. row.status = enr[e].status /\ SameOrder(row, enr[e])
      BY <1>t, <2>1 DEF OnSchedule, Row, SameOrder
    <2> HIDE DEF row
    <2>4. (Held(row) <=> Held(enr[e])) /\ (Live(row) <=> Live(enr[e]))
      BY <2>3 DEF Held, Live
    <2> QED BY <1>0, <2>1, <2>2, <2>3, <2>4, OneRowMoves
  <1>7. ASSUME NEW w \in Workers, DropPending(w) PROVE \A x \in Enrollments : RowMoves(x)
    <2> DEFINE e == job[w].enr
    <2>1. rewound' = rewound /\ e \in Enrollments
      BY <1>0, <1>7 DEF DropPending, WorkerLocals, WorkerLocal, RowJobs
    <2>2. CASE UNCHANGED <<enr, log>>
      BY <2>1, <2>2 DEF RowMoves, SameOrder
    <2>3. CASE /\ SetStatus(e, "dropped") /\ enr[e].status = "pending"
               /\ log' = [log EXCEPT ![e] = @ \cup
                             {IF job[w].unbilled THEN "unbilled" ELSE "withdrawn"}]
      <3>1. ~Held(enr[e])
        BY <2>3 DEF Held
      <3>2. log \in [Enrollments -> SUBSET LogEntries]
        BY <1>0 DEF TypeOK, HistoryTyped
      <3> HIDE DEF e
      <3>3. /\ \A x \in Enrollments : log[x] \subseteq log'[x]
            /\ \A x \in Enrollments \ {e} : log'[x] = log[x]
            /\ "activated" \in log'[e] => "activated" \in log[e]
        BY <2>1, <2>3, <3>2
      <3> QED BY <1>0, <2>1, <2>3, <3>1, <3>3, StatusMoves DEF Statuses
    <2> QED BY <1>7, <2>2, <2>3 DEF DropPending
  <1>8. ASSUME NEW w \in Workers, NEW new \in Schedules, ReplaceSchedule(w, new)
        PROVE  \A x \in Enrollments : RowMoves(x)
    <2>1. UNCHANGED <<rewound, log>>
      BY <1>8 DEF ReplaceSchedule, history
    <2>2. ASSUME NEW x \in Enrollments PROVE RowMoves(x)
      <3>1. enr'[x] = enr[x] \/ enr'[x] = OnSchedule(enr[x], new)
        BY <1>8, <2>2 DEF ReplaceSchedule, TransferSchedule
      <3>2. enr'[x].status = enr[x].status /\ SameOrder(enr'[x], enr[x])
        BY <1>t, <2>2, <3>1 DEF OnSchedule, Row, SameOrder
      <3> QED BY <2>1, <3>2 DEF RowMoves, Held, Live
    <2> QED BY <2>2
  <1>9. ASSUME NEW e \in Enrollments,
               ActivateEnrollment(e) \/ ReleaseEnrollment(e) \/ SuspendEnrollment(e)
        PROVE  \A x \in Enrollments : RowMoves(x)
    <2>1. log \in [Enrollments -> SUBSET LogEntries]
      BY <1>0 DEF TypeOK, HistoryTyped
    <2>2. CASE ActivateEnrollment(e)
      <3>1. rewound' = rewound /\ SetStatus(e, "active") /\ Live(enr[e])
        BY <2>2 DEF ActivateEnrollment, Live
      <3>2. /\ \A x \in Enrollments : log[x] \subseteq log'[x]
            /\ \A x \in Enrollments \ {e} : log'[x] = log[x]
        BY <2>1, <2>2 DEF ActivateEnrollment, Logged
      <3> QED BY <1>0, <3>1, <3>2, StatusMoves DEF Statuses
    <2>3. CASE ReleaseEnrollment(e)
      <3>1. UNCHANGED <<rewound, log>> /\ SetStatus(e, "dropped") /\ ~Held(enr[e])
        BY <2>3 DEF ReleaseEnrollment, history, Held
      <3> QED BY <1>0, <3>1, StatusMoves DEF Statuses
    <2>4. CASE SuspendEnrollment(e)
      <3>1. UNCHANGED <<rewound, log>> /\ SetStatus(e, "suspended")
        BY <2>4 DEF SuspendEnrollment, history
      <3> QED BY <1>0, <3>1, StatusMoves DEF Statuses
    <2> QED BY <1>9, <2>2, <2>3, <2>4
  <1>10. ASSUME NEW e \in Enrollments, EndEnrollment(e)
         PROVE  \A x \in Enrollments : RowMoves(x)
    <2>1. log \in [Enrollments -> SUBSET LogEntries]
      BY <1>0 DEF TypeOK, HistoryTyped
    <2>2. rewound' = rewound /\ SetStatus(e, "dropped")
      BY <1>10 DEF EndEnrollment
    <2>3. /\ \A x \in Enrollments : log[x] \subseteq log'[x]
          /\ \A x \in Enrollments \ {e} : log'[x] = log[x]
          /\ "ended" \in log'[e] /\ ("activated" \in log'[e] => "activated" \in log[e])
      BY <1>10, <2>1 DEF EndEnrollment, Logged
    <2> QED BY <1>0, <2>2, <2>3, StatusMoves DEF Statuses
  <1>11. ASSUME NEW w \in Workers, DeleteByTenant(w)
         PROVE  \A x \in Enrollments : RowMoves(x)
    <2>1. /\ UNCHANGED <<enr, rewound>>
          /\ \A x \in Enrollments :
                log'[x] = log[x] \/ log'[x] = log[x] \cup {"stranded"}
      BY <1>11 DEF DeleteByTenant
    <2>2. \A x \in Enrollments : /\ log[x] \subseteq log'[x]
                                 /\ "activated" \in log'[x] => "activated" \in log[x]
      BY <2>1
    <2> QED BY <2>1, <2>2 DEF RowMoves, SameOrder
  <1> QED BY <1>1, <1>2, <1>3, <1>4, <1>5, <1>6, <1>7, <1>8, <1>9, <1>10, <1>11, RowsWritten

-----------------------------------------------------------------------------
(* One live enrollment per student and class; activations that stick. *)

\* Two live enrollments of one order cannot arise: one of them would have come
\* to life alone and past the index.
LEMMA OneLiveStep ==
  ASSUME EnrollmentInvariant, \A x \in Enrollments : RowMoves(x)
  PROVE  OneLiveEnrollment'
  <1> SUFFICES ASSUME NEW e \in Enrollments, NEW f \in Enrollments, e # f,
                      Live(enr'[e]), Live(enr'[f]),
                      enr'[e].student = enr'[f].student, enr'[e].class = enr'[f].class
               PROVE  FALSE
    BY DEF OneLiveEnrollment, Live
  <1>1. CASE Live(enr[e]) /\ Live(enr[f])
    <2>1. SameOrder(enr'[e], enr[e]) /\ SameOrder(enr'[f], enr[f])
      BY <1>1 DEF RowMoves, Live
    <2> QED BY <1>1, <2>1 DEF EnrollmentInvariant, OneLiveEnrollment, SameOrder
  <1>2. ASSUME NEW a \in Enrollments, NEW b \in Enrollments \ {a}, ~Live(enr[a]),
               Live(enr'[a]), Live(enr'[b]),
               enr'[a].student = enr'[b].student, enr'[a].class = enr'[b].class
        PROVE  FALSE
    <2>1. UniqueActive(a, enr'[a]) /\ enr'[b] = enr[b]
      BY <1>2 DEF RowMoves
    <2> QED BY <1>2, <2>1 DEF UniqueActive, rejectLiveEnrollment
  <1> QED BY <1>1, <1>2

\* An activated row is given up only when it is ended, or rewound.
LEMMA SticksStep ==
  ASSUME EnrollmentInvariant, \A x \in Enrollments : RowMoves(x)
  PROVE  ActivationSticks'
  <1> SUFFICES ASSUME NEW e \in Enrollments, e \notin rewound', "activated" \in log'[e]
               PROVE  Held(enr'[e]) \/ "ended" \in log'[e]
    BY DEF ActivationSticks, Held
  <1>1. CASE "activated" \in log[e]
    <2>1. Held(enr[e]) \/ "ended" \in log[e]
      BY <1>1 DEF EnrollmentInvariant, ActivationSticks, RowMoves, Held
    <2> QED BY <2>1 DEF RowMoves
  <1> QED BY <1>1 DEF RowMoves

-----------------------------------------------------------------------------
(* What a checkout answers. *)

\* A step of another process leaves a checkout's variables alone.
LEMMA OthersAnswers ==
  ASSUME EnrollmentInvariant, \A x \in Enrollments : RowMoves(x), NEW p \in Checkouts,
         pc'[p] = pc[p], req'[p] = req[p], mine'[p] = mine[p], ans'[p] = ans[p]
  PROVE  CheckoutAnswers(p)'
  <1>1. CheckoutAnswers(p) /\ CheckoutLocal(p)
    BY DEF EnrollmentInvariant, SeatInvariant, CheckoutLocals
  <1>2. CASE pc[p] \in {"invoice", "reject", "save"}
    <2>1. mine[p].id \in Enrollments /\ enr[mine[p].id].status # "none"
      BY <1>1, <1>2 DEF CheckoutLocal
    <2>2. SameOrder(enr'[mine[p].id], enr[mine[p].id])
      BY <2>1 DEF RowMoves
    <2> QED BY <1>1, <1>2, <2>2 DEF CheckoutAnswers, SameOrder
  <1> QED BY <1>1, <1>2 DEF CheckoutAnswers

\* A success that was given keeps naming the request's enrollment.
LEMMA OldAnswersMatch ==
  ASSUME EnrollmentInvariant, \A x \in Enrollments : RowMoves(x), NEW p \in Checkouts,
         req'[p] = req[p], ans'[p] = ans[p], ans[p].kind = "ok"
  PROVE  /\ enr'[ans'[p].of].status # "none" /\ enr'[ans'[p].of].key = req'[p].key
         /\ Matches(enr'[ans'[p].of], req'[p])
  <1>1. /\ ans[p].of \in Enrollments /\ enr[ans[p].of].status # "none"
        /\ enr[ans[p].of].key = req[p].key /\ Matches(enr[ans[p].of], req[p])
    BY DEF EnrollmentInvariant, CheckoutAnswers, AnswersMatchRequest
  <1>2. SameOrder(enr'[ans[p].of], enr[ans[p].of]) /\ enr'[ans[p].of].status # "none"
    BY <1>1 DEF RowMoves
  <1> QED BY <1>1, <1>2 DEF SameOrder, Matches

\* Process p has just answered with success, for a row of its own order whose
\* invoice is not refused.
Succeeds(p) ==
  /\ pc'[p] = "done" /\ ans'[p].of \in Enrollments
  /\ enr'[ans'[p].of].status # "none" /\ SameOrder(enr'[ans'[p].of], req'[p])
  /\ ~Rejected(enr'[ans'[p].of])

\* An answer, and where it leaves the checkout.
LEMMA ReplyFacts ==
  ASSUME TypeOK, NEW p \in Checkouts, NEW kind \in {"ok", "conflict", "rejected", "error"},
         NEW e \in Enrollments \cup {Null}, Reply(p, kind, e)
  PROVE  pc'[p] = "done" /\ ans'[p].kind = kind /\ ans'[p].of = e
  BY DEF Reply, Goto, TypeOK, StepsTyped, RequestsTyped, Procs

\* A stored enrollment with the request's key answers it with success only when
\* it is the request's order and not refused.
LEMMA ExistingAnswers ==
  ASSUME TypeOK, NEW p \in Checkouts, NEW e \in Enrollments, NEW r, UNCHANGED enr,
         req'[p] = r, e \in GetByKey(r.key), ReplyExisting(p, r, e)
  PROVE  pc'[p] = "done" /\ (ans'[p].kind = "ok" => Succeeds(p))
  <1>1. CASE Reply(p, "conflict", Null) \/ Reply(p, "rejected", e)
    BY <1>1, ReplyFacts
  <1>2. CASE Reply(p, "ok", e) /\ Matches(enr[e], r) /\ ~Rejected(enr[e])
    <2>1. pc'[p] = "done" /\ ans'[p].of = e
      BY <1>2, ReplyFacts
    <2>2. enr[e].status # "none" /\ SameOrder(enr[e], r)
      BY <1>2 DEF GetByKey, SameOrder, Matches
    <2>3. ~Rejected(enr'[e])
      BY <1>2 DEF Rejected, voucherRejected, platformFeeRejected
    <2> QED BY <2>1, <2>2, <2>3 DEF Succeeds
  <1> QED BY <1>1, <1>2 DEF ReplyExisting

\* A creation that failed is not answered with success.
LEMMA FailedCreation ==
  ASSUME TypeOK, NEW p \in Checkouts, CreateFailed(p)
  PROVE  /\ pc'[p] \in {"relookup", "done"} /\ (ans'[p] = ans[p] \/ ans'[p].kind = "error")
         /\ (ans'[p] = ans[p] => pc'[p] = "relookup" \/ ans[p].kind = "error")
  <1>1. CASE Goto(p, "relookup") /\ UNCHANGED ans
    BY <1>1 DEF Goto, TypeOK, StepsTyped, Procs
  <1>2. CASE Reply(p, "error", Null)
    BY <1>2, ReplyFacts
  <1> QED BY <1>1, <1>2 DEF CreateFailed

\* A checkout's own step: what it carries is its order, and the only new success
\* it gives is one for its order.
LEMMA OwnAnswers ==
  ASSUME EnrollmentInvariant, \A x \in Enrollments : RowMoves(x),
         NEW p \in Checkouts, CheckoutNext(p)
  PROVE  /\ CheckoutAnswers(p)'
         /\ ans'[p].kind = "ok" => Succeeds(p)
  <1>0. TypeOK /\ CheckoutAnswers(p) /\ CheckoutLocal(p)
    BY DEF EnrollmentInvariant, SeatInvariant, CheckoutLocals
  <1>p. p \in Procs /\ pc \in [Procs -> CheckoutSteps \cup WorkerSteps]
    BY <1>0 DEF TypeOK, StepsTyped, Procs
  <1>g. ASSUME NEW st, Goto(p, st) PROVE pc'[p] = st
    BY <1>p, <1>g DEF Goto
  <1>d. ASSUME pc'[p] = "done", ans'[p].kind = "ok" => Succeeds(p)
        PROVE  CheckoutAnswers(p)' /\ (ans'[p].kind = "ok" => Succeeds(p))
    BY <1>d DEF CheckoutAnswers, Succeeds
  <1>n. pc[p] # "done" => ans[p].kind # "ok"
    BY <1>0 DEF CheckoutAnswers
  <1>1. ASSUME NEW r \in Requests, EnrollNew(p, r)
        PROVE  CheckoutAnswers(p)' /\ (ans'[p].kind = "ok" => Succeeds(p))
    <2>1. CASE Goto(p, "create") /\ UNCHANGED ans
      <3>1. pc'[p] = "create" /\ ans'[p].kind # "ok"
        BY <1>1, <1>g, <1>n, <2>1 DEF EnrollNew
      <3> QED BY <3>1 DEF CheckoutAnswers
    <2>2. CASE Reply(p, "error", Null)
      BY <1>0, <1>d, <2>2, ReplyFacts
    <2> QED BY <1>1, <2>1, <2>2 DEF EnrollNew
  <1>2. ASSUME NEW r \in Requests, EnrollReplay(p, r)
        PROVE  CheckoutAnswers(p)' /\ (ans'[p].kind = "ok" => Succeeds(p))
    <2>1. UNCHANGED enr /\ req'[p] = r
      BY <1>0, <1>2 DEF EnrollReplay, db, TypeOK, RequestsTyped
    <2>2. PICK e \in Lookup(r) :
             \/ Reply(p, "conflict", Null) \/ Reply(p, "error", Null)
             \/ /\ Goto(p, "invoice") /\ UNCHANGED ans /\ Matches(enr[e], r)
                /\ mine' = [mine EXCEPT ![p] = [id |-> e, row |-> enr[e]]]
             \/ ReplyExisting(p, r, e)
      BY <1>2 DEF EnrollReplay
    <2>3. e \in Enrollments /\ e \in GetByKey(r.key)
      BY <2>2 DEF Lookup, GetByIdempotencyKey, GetByIdempotencyKeyForTenant, GetByKey
    <2>4. CASE Reply(p, "conflict", Null) \/ Reply(p, "error", Null)
      BY <1>0, <1>d, <2>4, ReplyFacts
    <2>5. CASE ReplyExisting(p, r, e)
      BY <1>0, <1>d, <2>1, <2>3, <2>5, ExistingAnswers
    <2>6. CASE /\ Goto(p, "invoice") /\ UNCHANGED ans /\ Matches(enr[e], r)
               /\ mine' = [mine EXCEPT ![p] = [id |-> e, row |-> enr[e]]]
      <3>1. pc'[p] = "invoice" /\ ans'[p].kind # "ok"
        BY <1>2, <1>g, <1>n, <2>6 DEF EnrollReplay
      <3>2. mine'[p].id = e /\ mine'[p].row = enr[e]
        BY <1>0, <2>6 DEF TypeOK, RequestsTyped
      <3>3. SameOrder(enr[e], r)
        BY <2>3, <2>6 DEF GetByKey, Matches, SameOrder
      <3> QED BY <2>1, <3>1, <3>2, <3>3 DEF CheckoutAnswers, SameOrder
    <2> QED BY <2>2, <2>4, <2>5, <2>6
  <1>3. ASSUME CreateIfCapacityAvailable(p) \/ ClassNotEnrollable(p)
        PROVE  CheckoutAnswers(p)' /\ (ans'[p].kind = "ok" => Succeeds(p))
    <2>1. CASE Goto(p, "insert") /\ UNCHANGED ans
      <3>1. pc'[p] = "insert" /\ ans'[p].kind # "ok"
        BY <1>3, <1>g, <1>n, <2>1 DEF CreateIfCapacityAvailable, ClassNotEnrollable
      <3> QED BY <3>1 DEF CheckoutAnswers
    <2>2. CASE CreateFailed(p)
      <3>1. pc'[p] \in {"relookup", "done"} /\ ans'[p].kind # "ok"
        BY <1>0, <1>3, <1>n, <2>2, FailedCreation DEF CreateIfCapacityAvailable, ClassNotEnrollable
      <3> QED BY <3>1 DEF CheckoutAnswers
    <2> QED BY <1>3, <2>1, <2>2 DEF CreateIfCapacityAvailable, ClassNotEnrollable
  <1>4. ASSUME InsertEnrollment(p)
        PROVE  CheckoutAnswers(p)' /\ (ans'[p].kind = "ok" => Succeeds(p))
    <2> DEFINE row == NewRow(req[p])
    <2>1. CASE /\ enr' = [enr EXCEPT ![p] = row]
               /\ mine' = [mine EXCEPT ![p] = [id |-> p, row |-> row]]
               /\ Goto(p, "invoice") /\ UNCHANGED ans
      <3>1. pc'[p] = "invoice" /\ ans'[p].kind # "ok" /\ req' = req
        BY <1>4, <1>g, <1>n, <2>1 DEF InsertEnrollment
      <3>2. SameOrder(row, req[p])
        BY DEF NewRow, SameOrder
      <3> HIDE DEF row
      <3>3. mine'[p].id = p /\ mine'[p].row = row /\ enr'[p] = row
        BY <1>0, <2>1 DEF TypeOK, RequestsTyped, TablesTyped, Enrollments
      <3> QED BY <3>1, <3>2, <3>3 DEF CheckoutAnswers, SameOrder
    <2>2. CASE CreateFailed(p)
      <3>1. pc'[p] \in {"relookup", "done"} /\ ans'[p].kind # "ok"
        BY <1>0, <1>4, <1>n, <2>2, FailedCreation DEF InsertEnrollment
      <3> QED BY <3>1 DEF CheckoutAnswers
    <2> QED BY <1>4, <2>1, <2>2 DEF InsertEnrollment
  <1>5. ASSUME AnswerRace(p)
        PROVE  CheckoutAnswers(p)' /\ (ans'[p].kind = "ok" => Succeeds(p))
    <2>1. UNCHANGED enr /\ req'[p] = req[p]
      BY <1>5 DEF AnswerRace, db
    <2>2. CASE Reply(p, "error", Null)
      BY <1>0, <1>d, <2>2, ReplyFacts
    <2>3. ASSUME NEW e \in GetByKey(req[p].key), ReplyExisting(p, req[p], e)
          PROVE  pc'[p] = "done" /\ (ans'[p].kind = "ok" => Succeeds(p))
      <3>1. e \in Enrollments
        BY DEF GetByKey
      <3> QED BY <1>0, <2>1, <2>3, <3>1, ExistingAnswers
    <2> QED BY <1>d, <1>5, <2>2, <2>3 DEF AnswerRace
  <1>6. ASSUME GenerateInvoice(p)
        PROVE  CheckoutAnswers(p)' /\ (ans'[p].kind = "ok" => Succeeds(p))
    <2>1. UNCHANGED <<enr, req, mine>> /\ pc[p] = "invoice"
      BY <1>6 DEF GenerateInvoice, db
    <2>2. CASE Goto(p, "save") /\ UNCHANGED ans
      <3>1. pc'[p] = "save" /\ ans'[p].kind # "ok"
        BY <1>g, <1>n, <2>1, <2>2
      <3> QED BY <1>0, <2>1, <3>1 DEF CheckoutAnswers, SameOrder
    <2>3. CASE Reply(p, "error", Null)
      BY <1>0, <1>d, <2>3, ReplyFacts
    <2> QED BY <1>6, <2>2, <2>3 DEF GenerateInvoice
  <1>7. ASSUME NEW why \in Rejections, RefuseInvoice(p, why)
        PROVE  CheckoutAnswers(p)' /\ (ans'[p].kind = "ok" => Succeeds(p))
    <2>1. UNCHANGED <<enr, req, ans>> /\ pc[p] = "invoice" /\ pc'[p] = "reject"
      BY <1>7, <1>g DEF RefuseInvoice, db
    <2>2. mine'[p].id = mine[p].id /\ mine'[p].row = WithPay(mine[p].row, why)
      BY <1>0, <1>7 DEF RefuseInvoice, TypeOK, RequestsTyped
    <2>3. mine[p].row \in Row
      BY <1>0 DEF TypeOK, RequestsTyped
    <2>4. SameOrder(mine'[p].row, mine[p].row)
      BY <2>2, <2>3 DEF WithPay, Row, SameOrder
    <2> QED BY <1>0, <1>n, <2>1, <2>2, <2>4 DEF CheckoutAnswers, SameOrder
  <1>8. ASSUME DropInvoiceRejected(p) \/ CheckoutFails(p)
        PROVE  CheckoutAnswers(p)' /\ (ans'[p].kind = "ok" => Succeeds(p))
    <2>1. CASE DropInvoiceRejected(p)
      <3>1. mine[p].id \in Enrollments /\ Reply(p, "rejected", mine[p].id)
        BY <1>0, <2>1 DEF DropInvoiceRejected, CheckoutLocal
      <3> QED BY <1>0, <1>d, <3>1, ReplyFacts
    <2>2. CASE CheckoutFails(p)
      BY <1>0, <1>d, <2>2, ReplyFacts DEF CheckoutFails
    <2> QED BY <1>8, <2>1, <2>2
  <1>9. ASSUME SaveInvoice(p)
        PROVE  CheckoutAnswers(p)' /\ (ans'[p].kind = "ok" => Succeeds(p))
    <2> DEFINE e == mine[p].id
               row == SavedRow(p)
    <2>1. /\ e \in Enrollments /\ mine[p].row.status # "none" /\ req' = req
          /\ SameOrder(mine[p].row, req[p])
      BY <1>0, <1>9 DEF SaveInvoice, CheckoutLocal, CheckoutAnswers
    <2>2. CASE Reply(p, "error", Null)
      BY <1>0, <1>d, <2>2, ReplyFacts
    <2>3. CASE Reply(p, "ok", e) /\ enr' = [enr EXCEPT ![e] = row]
      <3>1. mine[p].row \in Row
        BY <1>0 DEF TypeOK, RequestsTyped
      <3>2. row.status # "none" /\ row.pay = "pending" /\ SameOrder(row, req[p])
        BY <2>1, <3>1 DEF SavedRow, WithPay, WithTransaction, SameOrder, Row
      <3> HIDE DEF row, e
      <3>3. pc'[p] = "done" /\ ans'[p].of = e /\ enr'[e] = row
        BY <1>0, <2>1, <2>3, ReplyFacts DEF TypeOK, TablesTyped
      <3>4. ~Rejected(row)
        BY <3>2 DEF Rejected, voucherRejected, platformFeeRejected
      <3>5. Succeeds(p)
        BY <2>1, <3>2, <3>3, <3>4 DEF Succeeds
      <3> QED BY <1>d, <3>3, <3>5
    <2> QED BY <1>9, <2>2, <2>3 DEF SaveInvoice
  <1> QED BY <1>1, <1>2, <1>3, <1>4, <1>5, <1>6, <1>7, <1>8, <1>9
             DEF CheckoutNext, CheckoutStep

\* A checkout answers for itself only.
LEMMA AnswersKept ==
  ASSUME TypeOK, NEW p \in Checkouts, CheckoutNext(p), NEW q \in Checkouts, q # p
  PROVE  ans'[q] = ans[q]
  <1>1. UNCHANGED ans \/ \E a : ans' = [ans EXCEPT ![p] = a]
    BY DEF CheckoutNext, EnrollNew, EnrollReplay, CheckoutStep, CreateIfCapacityAvailable,
           ClassNotEnrollable, CreateFailed, InsertEnrollment, AnswerRace,
           GenerateInvoice, RefuseInvoice, DropInvoiceRejected, SaveInvoice,
           CheckoutFails, Reply, ReplyExisting, checkout
  <1> QED BY <1>1 DEF TypeOK, RequestsTyped

\* Workers, billing and the calendar answer no checkout.
LEMMA NoCheckoutSteps ==
  ASSUME (\E w \in Workers : WorkerNext(w)) \/ OutsideNext
  PROVE  UNCHANGED checkout
  BY DEF WorkerNext, WorkerStart, WorkerStep, WorkerFails, ResumeEnrollment,
         AssignSchedule, CancelPendingEnrollment, ChangeSchedulePermanent,
         ChangeTutorPermanent, DeleteSchedule, ResumeUnderCapacity, ResumeSave,
         AssignUnderCapacity, AssignSave, WithdrawPayment, DropPending,
         ReplaceSchedule, DeleteCommit, DeleteClass, DeleteByClass, DeleteByTenant,
         OutsideNext, Pay, PaymentFails,
         ActivateEnrollment, ReleaseEnrollment, SuspendEnrollment, EndEnrollment, DayPasses

\* Every checkout keeps to its order, and every success to its request.
LEMMA AnswersStep ==
  ASSUME EnrollmentInvariant, Next, \A x \in Enrollments : RowMoves(x)
  PROVE  /\ \A p \in Checkouts : CheckoutAnswers(p)'
         /\ AnswersMatchRequest'
         /\ \A p \in Checkouts : ans'[p].kind = "ok" => ans'[p] = ans[p] \/ Succeeds(p)
  <1>0. TypeOK /\ CheckoutLocals /\ WorkerLocals
    BY DEF EnrollmentInvariant, SeatInvariant
  <1>1. ASSUME NEW p \in Checkouts
        PROVE  \/ /\ pc'[p] = pc[p] /\ req'[p] = req[p]
                  /\ mine'[p] = mine[p] /\ ans'[p] = ans[p]
               \/ CheckoutNext(p)
    <2>1. p \in Procs
      BY DEF Procs
    <2>2. CASE \E q \in Checkouts : CheckoutNext(q)
      BY <1>0, <1>1, <2>1, <2>2, CheckoutKeeps, AnswersKept DEF OthersKeep
    <2>3. CASE \E w \in Workers : WorkerNext(w)
      <3>1. \A w \in Workers : p # w
        BY EnrollmentConstants
      <3> QED BY <1>0, <2>1, <2>3, <3>1, WorkerKeeps, NoCheckoutSteps DEF OthersKeep, checkout
    <2>4. CASE OutsideNext
      BY <1>0, <2>4, OutsideKeeps DEF checkout
    <2> QED BY <2>2, <2>3, <2>4 DEF Next
  <1>2. ASSUME NEW p \in Checkouts
        PROVE  /\ CheckoutAnswers(p)'
               /\ ans'[p].kind = "ok" =>
                     (ans'[p] = ans[p] /\ req'[p] = req[p]) \/ Succeeds(p)
    BY <1>1, <1>2, OthersAnswers, OwnAnswers
  <1>3. AnswersMatchRequest'
    <2> SUFFICES ASSUME NEW p \in Checkouts, ans'[p].kind = "ok"
                 PROVE  /\ enr'[ans'[p].of].status # "none"
                        /\ enr'[ans'[p].of].key = req'[p].key
                        /\ Matches(enr'[ans'[p].of], req'[p])
      BY DEF AnswersMatchRequest, Matches
    <2>1. CASE Succeeds(p)
      BY <2>1 DEF Succeeds, SameOrder, Matches
    <2>2. CASE ans'[p] = ans[p] /\ req'[p] = req[p]
      BY <2>2, OldAnswersMatch
    <2> QED BY <1>2, <2>1, <2>2
  <1> QED BY <1>2, <1>3

-----------------------------------------------------------------------------
(* Cancellations. *)

\* Billing never revives an invoice it has withdrawn.
LEMMA WithdrawnForGood ==
  ASSUME TypeOK, Next, NEW e \in Enrollments, invoice[e] = "cancelled"
  PROVE  invoice'[e] = "cancelled"
  <1>0. invoice \in [Enrollments -> {"none", "open", "paid", "expired", "cancelled"}]
    BY DEF TypeOK, BillingTyped
  <1>1. ASSUME NEW p \in Checkouts, CheckoutNext(p) PROVE invoice'[e] = "cancelled"
    <2>1. CASE GenerateInvoice(p)
      BY <1>0, <2>1 DEF GenerateInvoice, OpenInvoice
    <2>2. CASE UNCHANGED billing
      BY <2>2 DEF billing
    <2> QED BY <1>1, <2>1, <2>2
          DEF CheckoutNext, EnrollNew, EnrollReplay, CheckoutStep, CreateIfCapacityAvailable,
              ClassNotEnrollable, InsertEnrollment, AnswerRace, RefuseInvoice,
              DropInvoiceRejected, SaveInvoice, CheckoutFails
  <1>2. ASSUME NEW w \in Workers, WorkerNext(w) PROVE invoice'[e] = "cancelled"
    <2>1. CASE WithdrawPayment(w)
      BY <1>0, <2>1 DEF WithdrawPayment
    <2>2. CASE UNCHANGED billing
      BY <2>2 DEF billing
    <2> QED BY <1>2, <2>1, <2>2
          DEF WorkerNext, WorkerStart, WorkerStep, WorkerFails, ResumeEnrollment,
              AssignSchedule, CancelPendingEnrollment, ChangeSchedulePermanent,
              ChangeTutorPermanent, DeleteSchedule, ResumeUnderCapacity, ResumeSave,
              AssignUnderCapacity, AssignSave, DropPending, ReplaceSchedule, DeleteCommit,
              DeleteClass, DeleteByClass, DeleteByTenant
  <1>3. ASSUME OutsideNext PROVE invoice'[e] = "cancelled"
    <2>1. CASE UNCHANGED invoice
      BY <2>1
    <2>2. ASSUME NEW f \in Enrollments, Pay(f) \/ PaymentFails(f)
          PROVE  invoice'[e] = "cancelled"
      BY <1>0, <2>2 DEF Pay, PaymentFails
    <2> QED BY <1>3, <2>1, <2>2
          DEF OutsideNext, ActivateEnrollment, ReleaseEnrollment, SuspendEnrollment,
              EndEnrollment, DayPasses, billing
  <1> QED BY <1>1, <1>2, <1>3 DEF Next

\* Only the last step of a cancellation that withdrew an invoice says so.
LEMMA WithdrawnLogged ==
  ASSUME TypeOK, Next, NEW e \in Enrollments, "withdrawn" \in log'[e], "withdrawn" \notin log[e]
  PROVE  \E w \in Workers : pc[w] = "cancel" /\ ~job[w].unbilled /\ job[w].enr = e
  <1>0. log \in [Enrollments -> SUBSET LogEntries]
    BY DEF TypeOK, HistoryTyped
  <1>1. ~UNCHANGED <<enr, rewound, log>>
    OBVIOUS
  <1>2. ASSUME NEW p \in Checkouts,
               InsertEnrollment(p) \/ DropInvoiceRejected(p) \/ SaveInvoice(p)
        PROVE  FALSE
    BY <1>2 DEF InsertEnrollment, DropInvoiceRejected, SaveInvoice, history
  <1>3. ASSUME NEW w \in Workers,
               \/ ResumeSave(w) \/ AssignSave(w)
               \/ \E new \in Schedules : ReplaceSchedule(w, new)
        PROVE  FALSE
    BY <1>3 DEF ResumeSave, AssignSave, ReplaceSchedule, history
  <1>4. ASSUME NEW f \in Enrollments,
               \/ ActivateEnrollment(f) \/ ReleaseEnrollment(f)
               \/ SuspendEnrollment(f) \/ EndEnrollment(f)
        PROVE  FALSE
    BY <1>0, <1>4 DEF ActivateEnrollment, ReleaseEnrollment, SuspendEnrollment,
                      EndEnrollment, Logged, history
  <1>5. ASSUME NEW w \in Workers, DropPending(w)
        PROVE  pc[w] = "cancel" /\ ~job[w].unbilled /\ job[w].enr = e
    BY <1>0, <1>5 DEF DropPending
  <1>6. ASSUME NEW w \in Workers, DeleteByTenant(w) PROVE FALSE
    BY <1>0, <1>6 DEF DeleteByTenant
  <1> QED BY <1>1, <1>2, <1>3, <1>4, <1>5, <1>6, RowsWritten

\* A cancellation goes on, and is recorded, only with the invoice withdrawn.
LEMMA WithdrawnStep ==
  ASSUME EnrollmentInvariant, Next PROVE PaymentsWithdrawn'
  <1>0. TypeOK /\ CheckoutLocals /\ WorkerLocals /\ PaymentsWithdrawn
    BY DEF EnrollmentInvariant, SeatInvariant
  <1>1. ASSUME NEW e \in Enrollments, "withdrawn" \in log'[e]
        PROVE  invoice'[e] = "cancelled"
    <2>1. invoice[e] = "cancelled"
      BY <1>0, <1>1, WithdrawnLogged DEF PaymentsWithdrawn
    <2> QED BY <1>0, <2>1, WithdrawnForGood
  <1>2. ASSUME NEW w \in Workers, pc'[w] = "cancel", ~job'[w].unbilled
        PROVE  invoice'[job'[w].enr] = "cancelled"
    <2>1. CASE pc[w] = "cancel" /\ job'[w] = job[w]
      <3>1. job[w].enr \in Enrollments
        BY <1>0, <2>1 DEF WorkerLocals, WorkerLocal, RowJobs
      <3> QED BY <1>0, <1>2, <2>1, <3>1, WithdrawnForGood DEF PaymentsWithdrawn
    <2>2. CASE WorkerNext(w)
      <3>0. /\ pc \in [Procs -> CheckoutSteps \cup WorkerSteps] /\ w \in Procs
            /\ job \in [Workers -> Job]
            /\ invoice \in [Enrollments -> {"none", "open", "paid", "expired", "cancelled"}]
        BY <1>0 DEF TypeOK, StepsTyped, RequestsTyped, BillingTyped, Procs
      <3>1. ~Finish(w)
        BY <1>2, <3>0 DEF Finish, Goto
      <3>2. CASE WithdrawPayment(w)
        <4>1. job[w].enr \in Enrollments
          BY <1>0, <3>2 DEF WithdrawPayment, WorkerLocals, WorkerLocal, RowJobs
        <4>2. job' # [job EXCEPT ![w] = Unbilled(job[w])]
          BY <1>2, <3>0 DEF Unbilled, Job
        <4> QED BY <3>0, <3>1, <3>2, <4>1, <4>2 DEF WithdrawPayment
      <3>3. CASE WorkerStart(w) \/ ResumeUnderCapacity(w) \/ AssignUnderCapacity(w)
                 \/ DeleteByClass(w)
        BY <1>2, <3>0, <3>1, <3>3
           DEF WorkerStart, ResumeEnrollment, AssignSchedule, CancelPendingEnrollment,
               ChangeSchedulePermanent, ChangeTutorPermanent, DeleteSchedule, DeleteClass,
               Start, Goto, ResumeUnderCapacity, AssignUnderCapacity, DeleteByClass
      <3> QED BY <2>2, <3>1, <3>2, <3>3
            DEF WorkerNext, WorkerStep, WorkerFails, ResumeSave, AssignSave,
                DropPending, ReplaceSchedule, DeleteCommit, DeleteByTenant
    <2>3. CASE ~WorkerNext(w)
      <3>1. w \in Procs /\ w \notin Checkouts /\ w # Null
        BY EnrollmentConstants DEF Procs
      <3>2. pc'[w] = pc[w] /\ job'[w] = job[w]
        <4>1. CASE \E p \in Checkouts : CheckoutNext(p)
          BY <1>0, <3>1, <4>1, CheckoutKeeps DEF OthersKeep
        <4>2. CASE \E v \in Workers : WorkerNext(v)
          BY <1>0, <2>3, <3>1, <4>2, WorkerKeeps DEF OthersKeep
        <4>3. CASE OutsideNext
          BY <1>0, <4>3, OutsideKeeps
        <4> QED BY <4>1, <4>2, <4>3 DEF Next
      <3> QED BY <1>2, <2>1, <3>2
    <2> QED BY <2>2, <2>3
  <1> QED BY <1>1, <1>2 DEF PaymentsWithdrawn

-----------------------------------------------------------------------------
(* The theorems. *)

\* The invariant of the module holds at the start: nothing has been asked for,
\* and each private purchase is the only one of its student in its class.
LEMMA EnrollmentInvariantInit ==
  ASSUME Init PROVE EnrollmentInvariant
  <1>1. SeatInvariant
    BY SeatInvariantInit
  <1>2. OneLiveEnrollment
    <2> SUFFICES ASSUME NEW e \in Enrollments, NEW f \in Enrollments,
                        Live(enr[e]), Live(enr[f]),
                        enr[e].student = enr[f].student, enr[e].class = enr[f].class
                 PROVE  e = f
      BY DEF OneLiveEnrollment
    <2>1. \A x \in Enrollments : enr[x] = IF x \in Purchases THEN PurchaseRow(PurchaseOf[x]) ELSE NoRow
      BY DEF Init
    <2>2. e \in Purchases /\ f \in Purchases
      BY <2>1 DEF Live, NoRow
    <2>3. \A x \in Purchases : /\ PurchaseRow(PurchaseOf[x]).student = PurchaseOf[x].student
                               /\ PurchaseRow(PurchaseOf[x]).class = PurchaseOf[x].class
      BY DEF PurchaseRow
    <2>4. PurchaseOf[e].student = PurchaseOf[f].student /\ PurchaseOf[e].class = PurchaseOf[f].class
      BY <2>1, <2>2, <2>3
    <2>5. PurchaseOf[e] = PurchaseOf[f]
      BY <2>2, <2>4, EnrollmentConstants
    <2> QED BY <2>2, <2>5, EnrollmentConstants
  <1>3. ActivationSticks /\ PaymentsWithdrawn
    BY DEF Init, ActivationSticks, PaymentsWithdrawn, Procs
  <1>4. (\A p \in Checkouts : CheckoutAnswers(p)) /\ AnswersMatchRequest
    BY DEF Init, CheckoutAnswers, AnswersMatchRequest, NoAnswer, Procs
  <1> QED BY <1>1, <1>2, <1>3, <1>4 DEF EnrollmentInvariant

\* The invariant of the module holds throughout.
THEOREM EnrollmentInvariantHolds == Spec => []EnrollmentInvariant
  <1>1. ASSUME EnrollmentInvariant, Next PROVE EnrollmentInvariant'
    <2>1. \A x \in Enrollments : RowMoves(x)
      BY <1>1, RowsMove
    <2>2. SeatInvariant'
      BY <1>1, SeatInvariantStep DEF EnrollmentInvariant
    <2> QED BY <1>1, <2>1, <2>2, OneLiveStep, SticksStep, AnswersStep, WithdrawnStep
           DEF EnrollmentInvariant
  <1>2. ASSUME EnrollmentInvariant, SeatInvariant', UNCHANGED vars PROVE EnrollmentInvariant'
    BY <1>2 DEF EnrollmentInvariant, OneLiveEnrollment, Live, ActivationSticks, SameOrder,
                CheckoutAnswers, AnswersMatchRequest, Matches, PaymentsWithdrawn,
                vars, db, billing, checkout, history
  <1>3. SeatInvariant /\ SeatInvariant' /\ EnrollmentInvariant /\ [Next]_vars => EnrollmentInvariant'
    BY <1>1, <1>2
  <1> QED BY <1>3, EnrollmentInvariantInit, SeatInvariantHolds, PTL DEF Spec

\* No race of signups, resumes and saves on different schedules gives a student
\* two pending or active enrollments in a class, a checkout's full-row save of a
\* stale row included.
THEOREM OneEnrollmentPerClass == Spec => []OneLiveEnrollment
  <1>1. EnrollmentInvariant => OneLiveEnrollment
    BY DEF EnrollmentInvariant
  <1> QED BY <1>1, EnrollmentInvariantHolds, PTL

\* Whatever comes late, a payment failure, a cancellation or a refused invoice,
\* an activated enrollment is given up only by being ended, or rewound.
THEOREM ActivationsStick == Spec => []ActivationSticks
  <1>1. EnrollmentInvariant => ActivationSticks
    BY DEF EnrollmentInvariant
  <1> QED BY <1>1, EnrollmentInvariantHolds, PTL

\* Every success a checkout has been given keeps naming an enrollment of its
\* key, student and class.
THEOREM SuccessesMatch == Spec => []AnswersMatchRequest
  <1>1. EnrollmentInvariant => AnswersMatchRequest
    BY DEF EnrollmentInvariant
  <1> QED BY <1>1, EnrollmentInvariantHolds, PTL

\* No checkout is answered with success for an enrollment whose invoice billing
\* has refused, whichever of the concurrent attempts wrote it.
THEOREM RefusedNeverSucceeds == Spec => NoSuccessForRejected
  <1> DEFINE Refused == \A p \in Checkouts : ans'[p] # ans[p] /\ ans'[p].kind = "ok"
                                                => ~Rejected(enr'[ans'[p].of])
  <1>1. EnrollmentInvariant /\ [Next]_vars => [Refused]_vars
    <2> SUFFICES ASSUME EnrollmentInvariant, Next PROVE Refused
      OBVIOUS
    <2>1. \A p \in Checkouts : ans'[p].kind = "ok" => ans'[p] = ans[p] \/ Succeeds(p)
      BY RowsMove, AnswersStep
    <2> QED BY <2>1 DEF Succeeds
  <1>2. NoSuccessForRejected <=> [][Refused]_vars
    BY DEF NoSuccessForRejected
  <1> HIDE DEF Refused
  <1> QED BY <1>1, <1>2, EnrollmentInvariantHolds, PTL DEF Spec

=============================================================================
