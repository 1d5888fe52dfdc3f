------------------------------ MODULE Notices ------------------------------
(***************************************************************************)
(* What parents are told of one class: attendance marks, the triggers that *)
(* put a notice into the outbox for a moved session, a substitute tutor or *)
(* an absence, and the workers that remind of the sessions of the coming   *)
(* days.  Sessions models the calendar itself and NoticeOutbox delivery.   *)
(*                                                                         *)
(* The class starts with one regular session; an edit that moves a session *)
(* names the replacement.  A single statement or a transaction that locks  *)
(* what it reads is one step; an attendance request and an edit of a       *)
(* session check first and write later.                                    *)
(***************************************************************************)
EXTENDS Integers, FiniteSets

CONSTANTS
    Enrollments,
    ParentOf,      \* the parent of the enrolled student
    Pupils,        \* the enrollment a private class may be for; Null: a group
    Regular,       \* the session of the weekly schedule
    Edits,         \* requests that edit a session; ids of replacements too
    Marks,         \* attendance requests
    Replicas,      \* instances of the reminder worker
    DaysAhead, WindowDays,
    LastDay,       \* bound: the calendar stops here
    MaxRequests,   \* bound: requests in a behaviour
    Null

Dates == 1 .. LastDay
SessionIds == {Regular} \cup Edits
Members == {"pending", "active"}
Marked == {"present", "absent"}

Enrollment == [status : Members \cup {"suspended"}, schedule : {"own", "next"}]

Session == [status : {"none", "scheduled", "rescheduled", "cancelled"},
            deleted : BOOLEAN, date : Dates, tutor : {"own", "other"},
            origin : SessionIds \cup {Null}]

NoSession == [status |-> "none", deleted |-> FALSE, date |-> 1, tutor |-> "own",
              origin |-> Null]

\* Rows of attendances are named by the request that inserted them.
RowIds == Marks \X Enrollments
AttendanceRow == [session : SessionIds, enrollment : Enrollments, status : Marked]

Edit == [kind : {"idle", "move", "substitute", "done"}, id : SessionIds,
         row : Session]
NoEdit == [kind |-> "idle", id |-> Regular, row |-> NoSession]

\* An attendance request: what it accepted, and its answer.
NoMark == [kind |-> "idle", session |-> Regular, items |-> <<>>]

\* A pass of a reminder worker: the sessions it holds locked, those it is still
\* to look at, and whom it has reminded of which, not committed yet.
NoPass == [step |-> "idle", from |-> 0, locked |-> {}, todo |-> {}, marked |-> {}]

ASSUME NoticeConstants ==
    /\ Pupils \subseteq Enrollments \cup {Null}
    /\ Regular \notin Edits /\ Null \notin SessionIds \cup Enrollments
    /\ IsFiniteSet(SessionIds)
    /\ DaysAhead \in Nat \ {0} /\ WindowDays \in Nat \ {0}
    /\ LastDay \in Nat \ {0} /\ MaxRequests \in Nat

VARIABLES
    today,     \* the date in Asia/Jakarta
    pupil,     \* the enrollment of a private class, Null for a group
    enr,       \* table enrollments
    ses,       \* table class_sessions
    edit,      \* the session row every edit has read
    att,       \* table attendances
    mark,      \* every attendance request
    outbox,    \* table parent_notification_outbox, without the channel
    covered,   \* table session_reminder_enrollments
    pass,      \* the pass every reminder worker is making
    left,      \* requests that may still arrive
    away,      \* history: who was not a member when a replacement was made
    revived    \* history: sessions that a save of an old copy scheduled again

history == <<away, revived>>
vars == <<today, pupil, enr, ses, edit, att, mark, outbox, covered, pass, left, history>>

Request == left > 0 /\ left' = left - 1

-----------------------------------------------------------------------------
(* Queries. *)

\* A session and the sessions it replaces, directly or not, deleted ones too.
chain(table, x) ==
    {y \in SessionIds : \A S \in SUBSET SessionIds :
        (x \in S /\ \A z \in S : table[z].origin \in S \cup {Null}) => y \in S}

\* Mutant: only the session itself is looked up.
session_reminder_covered_Own(rows, x, e) == <<x, e>> \in rows

session_reminder_covered(rows, x, e) == \E y \in chain(ses, x) : <<y, e>> \in rows

\* Replacements have no schedule of their own: the regular session lends it.
notification_cohort_schedule(table, x) ==
    IF Regular \in chain(table, x) THEN "own" ELSE Null

\* Who belongs to a session by the notification queries.
InCohort(table, x, e) ==
    IF pupil # Null THEN e = pupil
    ELSE enr[e].schedule = notification_cohort_schedule(table, x)

Recipients(table, x) ==
    {e \in Enrollments : /\ enr[e].status = "active" /\ ~table[x].deleted
                         /\ table[x].status \notin {"cancelled", "rescheduled"}
                         /\ InCohort(table, x, e)}

\* enqueue_parent_notification: one row per event and parent.
Notify(event, kind, x, members) ==
    {[event |-> event, kind |-> kind, session |-> x, parent |-> ParentOf[e]] :
        e \in members}

\* Rows the reminder worker holds FOR UPDATE.
Locked(x) == \E r \in Replicas : x \in pass[r].locked

Exists(x) == ses[x].status # "none" /\ ~ses[x].deleted

MarkOf(x, e) == {i \in DOMAIN att : att[i].session = x /\ att[i].enrollment = e}

Absent(x, e) == \E i \in MarkOf(x, e) : att[i].status = "absent"

-----------------------------------------------------------------------------
Init ==
    /\ today = 1
    /\ pupil \in Pupils
    /\ enr \in [Enrollments -> [status : Members, schedule : {"own"}]]
    /\ ses = [x \in SessionIds |->
           IF x = Regular
           THEN [NoSession EXCEPT !.status = "scheduled", !.date = LastDay]
           ELSE NoSession]
    /\ edit = [e \in Edits |-> NoEdit]
    /\ att = <<>> /\ mark = [m \in Marks |-> NoMark]
    /\ outbox = {} /\ covered = {}
    /\ pass = [r \in Replicas |-> NoPass]
    /\ left = MaxRequests /\ away = {} /\ revived = {}

Midnight ==
    /\ today < LastDay
    /\ today' = today + 1
    /\ UNCHANGED <<pupil, enr, ses, edit, att, mark, outbox, covered, pass, left, history>>

\* Paid, suspended or resumed (module Enrollment).
EnrollmentMoves(e) ==
    /\ Request
    /\ \E to \in CASE enr[e].status = "pending" -> {"active"}
                   [] enr[e].status = "active" -> {"suspended"}
                   [] enr[e].status = "suspended" -> Members :
           enr' = [enr EXCEPT ![e].status = to]
    /\ UNCHANGED <<today, pupil, ses, edit, att, mark, outbox, covered, pass, history>>

-----------------------------------------------------------------------------
(* Changes of sessions and their trigger. *)

\* ChangeSchedulePermanent: members move to the new schedule, the sessions of the
\* old one are cancelled.  Replacements have no schedule and stay.
ChangeSchedulePermanent(eff) ==
    /\ Request /\ eff >= today /\ pupil = Null
    /\ \A e \in Enrollments : enr[e].schedule = "own"
    /\ ~(ses[Regular].date >= eff /\ \E e \in Enrollments : MarkOf(Regular, e) # {})
    /\ ses[Regular].date >= eff => ~Locked(Regular)
    /\ enr' = [e \in Enrollments |-> IF enr[e].status \in Members
                  THEN [enr[e] EXCEPT !.schedule = "next"] ELSE enr[e]]
    /\ ses' = IF /\ Exists(Regular) /\ ses[Regular].status = "scheduled"
                 /\ ses[Regular].date >= eff
              THEN [ses EXCEPT ![Regular].status = "cancelled"] ELSE ses
    /\ UNCHANGED <<today, pupil, edit, att, mark, outbox, covered, pass, history>>

DeleteSession(x) ==
    /\ Request /\ Exists(x) /\ ~Locked(x)
    /\ ses' = [ses EXCEPT ![x].deleted = TRUE]
    /\ UNCHANGED <<today, pupil, enr, edit, att, mark, outbox, covered, pass, history>>

\* GetByIDForTenant: no lock, any status.
ReadSession(e, x, kind) ==
    /\ Request /\ edit[e] = NoEdit /\ Exists(x)
    /\ edit' = [edit EXCEPT ![e] = [kind |-> kind, id |-> x, row |-> ses[x]]]
    /\ UNCHANGED <<today, pupil, enr, ses, att, mark, outbox, covered, pass, history>>

Done(e) == edit' = [edit EXCEPT ![e] = [NoEdit EXCEPT !.kind = "done"]]

\* The origin is saved as it was read, and the trigger tells of its replacement.
RescheduleSession(e, d) ==
    /\ edit[e].kind = "move" /\ ~Locked(edit[e].id)
    /\ Done(e)
    /\ ses' = [ses EXCEPT ![edit[e].id] = [edit[e].row EXCEPT !.status = "rescheduled"],
                          ![e] = [edit[e].row EXCEPT !.status = "scheduled",
                                     !.date = d, !.origin = edit[e].id]]
    /\ outbox' = outbox \cup Notify(e, "moved", e, Recipients(ses', e))
    /\ away' = away \cup ({e} \X (Enrollments \ Recipients(ses', e)))
    /\ UNCHANGED <<today, pupil, enr, att, mark, covered, pass, left, revived>>

\* The trigger compares the tutor with the row as it is, not as it was read.
ChangeTutorTemporary(e, tutor) ==
    /\ edit[e].kind = "substitute" /\ ~Locked(edit[e].id)
    /\ Done(e)
    /\ ses' = [ses EXCEPT ![edit[e].id] = [edit[e].row EXCEPT !.tutor = tutor]]
    /\ outbox' = IF /\ ses'[edit[e].id].status = "scheduled"
                    /\ tutor # ses[edit[e].id].tutor
                 THEN outbox \cup Notify(e, "tutor", edit[e].id,
                                        Recipients(ses', edit[e].id))
                 ELSE outbox
    /\ revived' = IF edit[e].row.status = "scheduled" /\ ses[edit[e].id].status # "scheduled"
                  THEN revived \cup {edit[e].id} ELSE revived
    /\ UNCHANGED <<today, pupil, enr, att, mark, covered, pass, left, away>>

-----------------------------------------------------------------------------
(* Attendance. *)

\* resolveSessionCohort and checkCohort: a replacement's origin must be there and
\* have a schedule.
CohortScheduleFound(x) ==
    x = Regular \/ (ses[x].origin = Regular /\ Exists(Regular))

InSessionCohort(x, e) ==
    IF pupil # Null THEN e = pupil /\ enr[e].status # "suspended"
    ELSE CohortScheduleFound(x) /\ enr[e].schedule = "own" /\ enr[e].status \in Members

TakesAttendance(x) ==
    Exists(x) /\ ses[x].status # "cancelled" /\ ses[x].tutor = "own"

Items == UNION {[members -> Marked] : members \in SUBSET Enrollments}

Accept(m, kind, x, items) ==
    /\ Request /\ mark[m] = NoMark
    /\ mark' = [mark EXCEPT ![m] = [kind |-> kind, session |-> x, items |-> items]]
    /\ UNCHANGED <<today, pupil, enr, ses, edit, att, outbox, covered, pass, history>>

\* createForSession: checks, then an insert.
AcceptCreate(m, x, e, status) ==
    /\ TakesAttendance(x) /\ InSessionCohort(x, e) /\ MarkOf(x, e) = {}
    /\ Accept(m, "create", x, [member \in {e} |-> status])

\* The older form names schedule and date: FindForAttendance asks for no status
\* of the session, and finds no replacement.
AcceptCreateByDate(m, e, status) ==
    /\ Exists(Regular) /\ enr[e].status # "suspended"
    /\ IF pupil # Null THEN e = pupil ELSE enr[e].schedule = "own"
    /\ ses[Regular].tutor = "own" /\ MarkOf(Regular, e) = {}
    /\ Accept(m, "create", Regular, [member \in {e} |-> status])

AcceptBulk(m, x, items) ==
    /\ TakesAttendance(x) /\ items # <<>>
    /\ \A e \in DOMAIN items : InSessionCohort(x, e)
    /\ Accept(m, "bulk", x, items)

\* Update reads a row and saves it with another status.
AcceptUpdate(m, i, status) ==
    /\ i \in DOMAIN att /\ ses[att[i].session].tutor = "own"
    /\ Accept(m, "update", att[i].session, [e \in {att[i].enrollment} |-> status])

\* Mutant: an absence is told when the row is first written only.
capture_absence_notification_OnInsert(m, x, items) ==
    UNION {Notify(<<m, e>>, "absence", x, {e} \cap Recipients(ses, x)) :
               e \in {d \in DOMAIN items : items[d] = "absent" /\ MarkOf(x, d) = {}}}

\* The notices for the marks that become absent.
capture_absence_notification(m, x, items) ==
    UNION {Notify(<<m, e>>, "absence", x, {e} \cap Recipients(ses, x)) :
               e \in {d \in DOMAIN items : items[d] = "absent" /\ ~Absent(x, d)}}

\* The attendance table after the statement of request m: existing marks take
\* the new status, missing ones are inserted.
Upsert(m, x, items) ==
    LET new == {<<m, e>> : e \in {d \in DOMAIN items : MarkOf(x, d) = {}}}
    IN  [i \in DOMAIN att \cup new |->
            IF i \in new
            THEN [session |-> x, enrollment |-> i[2], status |-> items[i[2]]]
            ELSE IF att[i].session = x /\ att[i].enrollment \in DOMAIN items
            THEN [att[i] EXCEPT !.status = items[att[i].enrollment]] ELSE att[i]]

Answer(m, answer) == mark' = [mark EXCEPT ![m].kind = answer]

Write(m) ==
    /\ att' = Upsert(m, mark[m].session, mark[m].items)
    /\ outbox' = outbox \cup
           capture_absence_notification(m, mark[m].session, mark[m].items)
    /\ UNCHANGED <<today, pupil, enr, ses, edit, covered, pass, left, history>>

\* Mutant: the insert does not look at the unique index.
UniqueMark_NoIndex(m) == TRUE

\* uq_attendances_session_enrollment.
UniqueMark(m) == \A e \in DOMAIN mark[m].items : MarkOf(mark[m].session, e) = {}

InsertAttendance(m) ==
    /\ mark[m].kind = "create" /\ UniqueMark(m)
    /\ Answer(m, "created") /\ Write(m)

AnswerDuplicate(m) ==
    /\ mark[m].kind = "create" /\ ~UniqueMark(m)
    /\ Answer(m, "duplicate")
    /\ UNCHANGED <<today, pupil, enr, ses, edit, att, outbox, covered, pass, left, history>>

\* UpsertBulk, or the Save of an update.
SaveAttendance(m) ==
    /\ mark[m].kind \in {"bulk", "update"}
    /\ Answer(m, "saved") /\ Write(m)

-----------------------------------------------------------------------------
(* The session reminder worker. *)

\* Who is still to be reminded of a session, by the coverage a statement sees.
ReminderScope(rows, x) ==
    {e \in Enrollments : /\ enr[e].status = "active" /\ InCohort(ses, x, e)
                         /\ ~session_reminder_covered(rows, x, e)}

window(d) == d + DaysAhead .. d + DaysAhead + WindowDays - 1

StartPass(r) ==
    /\ pass[r] = NoPass
    /\ pass' = [pass EXCEPT ![r] = [NoPass EXCEPT !.step = "query", !.from = today]]
    /\ UNCHANGED <<today, pupil, enr, ses, edit, att, mark, outbox, covered, left, history>>

Remindable(x) == Exists(x) /\ ses[x].status = "scheduled"

DueSessions(days) ==
    {x \in SessionIds : /\ Remindable(x) /\ ~Locked(x)
                        /\ ses[x].date \in days /\ ReminderScope(covered, x) # {}}

Locking(found) == [NoPass EXCEPT !.step = "remind", !.locked = found, !.todo = found]

\* Mutant: the coverage is committed when the sessions are found.
LockSessions_MarksFirst(r) ==
    /\ pass[r].step = "query"
    /\ LET found == DueSessions(window(pass[r].from))
       IN  /\ pass' = [pass EXCEPT ![r] = IF found = {} THEN NoPass ELSE Locking(found)]
           /\ covered' = covered \cup
                  UNION {{x} \X ReminderScope(covered, x) : x \in found}
    /\ UNCHANGED <<today, pupil, enr, ses, edit, att, mark, outbox, left, history>>

\* EnqueueBatch locks what it finds and skips what another replica has locked.
LockSessions(r) ==
    /\ pass[r].step = "query"
    /\ LET found == DueSessions(window(pass[r].from))
       IN  pass' = [pass EXCEPT ![r] = IF found = {} THEN NoPass ELSE Locking(found)]
    /\ UNCHANGED <<today, pupil, enr, ses, edit, att, mark, outbox, covered, left, history>>

\* One statement per session, the earliest first: one set of recipients, read
\* now, feeds the outbox and the coverage.
EnqueueReminders(r, x) ==
    /\ pass[r].step = "remind"
    /\ x \in pass[r].todo /\ \A y \in pass[r].todo : ses[x].date <= ses[y].date
    /\ LET eligible == {e \in ReminderScope(covered \cup pass[r].marked, x) : Remindable(x)}
       IN  pass' = [pass EXCEPT ![r].todo = @ \ {x},
                                ![r].marked = @ \cup ({x} \X eligible)]
    /\ UNCHANGED <<today, pupil, enr, ses, edit, att, mark, outbox, covered, left, history>>

\* The event's id is derived from the session's.
ReminderEvent(x) == <<"reminder", x>>

CommitReminders(r) ==
    /\ pass[r].step = "remind" /\ pass[r].todo = {}
    /\ outbox' = outbox \cup
           UNION {Notify(ReminderEvent(w[1]), "reminder", w[1], {w[2]}) : w \in pass[r].marked}
    /\ covered' = covered \cup pass[r].marked
    /\ pass' = [pass EXCEPT ![r] = NoPass]
    /\ UNCHANGED <<today, pupil, enr, ses, edit, att, mark, left, history>>

\* The transaction fails or the process stops: nothing is written.
PassFails(r) ==
    /\ pass[r] # NoPass
    /\ pass' = [pass EXCEPT ![r] = NoPass]
    /\ UNCHANGED <<today, pupil, enr, ses, edit, att, mark, outbox, covered, left, history>>

-----------------------------------------------------------------------------
Next ==
    \/ Midnight
    \/ \E e \in Enrollments : EnrollmentMoves(e)
    \/ \E eff \in Dates : ChangeSchedulePermanent(eff)
    \/ \E x \in SessionIds : DeleteSession(x)
    \/ \E e \in Edits, x \in SessionIds, kind \in {"move", "substitute"} :
           ReadSession(e, x, kind)
    \/ \E e \in Edits, d \in Dates : RescheduleSession(e, d)
    \/ \E e \in Edits, tutor \in {"own", "other"} : ChangeTutorTemporary(e, tutor)
    \/ \E m \in Marks, x \in SessionIds, e \in Enrollments, status \in Marked :
           AcceptCreate(m, x, e, status)
    \/ \E m \in Marks, e \in Enrollments, status \in Marked :
           AcceptCreateByDate(m, e, status)
    \/ \E m \in Marks, x \in SessionIds, items \in Items : AcceptBulk(m, x, items)
    \/ \E m \in Marks, i \in RowIds, status \in Marked : AcceptUpdate(m, i, status)
    \/ \E m \in Marks : InsertAttendance(m) \/ AnswerDuplicate(m) \/ SaveAttendance(m)
    \/ \E r \in Replicas : \/ StartPass(r) \/ LockSessions(r)
                            \/ \E x \in SessionIds : EnqueueReminders(r, x)
                            \/ CommitReminders(r) \/ PassFails(r)

Spec == Init /\ [][Next]_vars

-----------------------------------------------------------------------------
(* Properties. *)

\* A student has one mark for a session, and of all the requests to create it
\* exactly one is told that it did, whichever forms race each other.
OneMark ==
    \A x \in SessionIds, e \in Enrollments :
        /\ Cardinality(MarkOf(x, e)) <= 1
        /\ Cardinality({m \in Marks : /\ mark[m].kind = "created"
                                      /\ mark[m].session = x
                                      /\ e \in DOMAIN mark[m].items}) <= 1

\* The parent of a member is told of an absence when the mark becomes absent, on
\* whichever path, and not again when it is only written again.
AbsenceToldOnce ==
    [][\A x \in SessionIds, e \in Enrollments :
          LET notices == {n \in outbox' \ outbox : /\ n.kind = "absence" /\ n.session = x
                                                   /\ n.event[2] = e}
          IN  Cardinality(notices) = IF /\ ~Absent(x, e) /\ Absent(x, e)'
                                        /\ e \in Recipients(ses, x)
                                     THEN 1 ELSE 0]_vars

\* No student is reminded of a session and again of one that replaces it, directly
\* or not, whichever replicas send the reminders, while sessions are moved, moved
\* again and deleted between the passes and reminders are on their way.  (A
\* sibling who joins later is another student: the parent is told again.)  Only
\* a session that a save of an old copy scheduled again (revived) can be reminded
\* of after, or together with, its replacement.
RemindedOnce ==
    \A x \in SessionIds : \A y \in chain(ses, x) \ ({x} \cup revived) :
        \A e \in Enrollments : ~(<<x, e>> \in covered /\ <<y, e>> \in covered)

ToldOf(x, p) ==
    \E n \in outbox : n.session = x /\ n.parent = p /\ n.kind \in {"reminder", "moved"}

\* Members of a session in the reminder window whose parent was not told of it.
NotTold(x, e) ==
    /\ Exists(x) /\ ses[x].status = "scheduled" /\ ses[x].date \in window(today)
    /\ e \in Recipients(ses, x) /\ ~ToldOf(x, ParentOf[e])

Waiting == {w \in (SessionIds \X Enrollments) \ away : NotTold(w[1], w[2])}

-----------------------------------------------------------------------------
(* The inductive invariant behind the safety properties. *)

Written == {"created", "saved"}

Mark == [kind : Written \cup {"idle", "create", "bulk", "update", "duplicate"},
         session : SessionIds, items : Items]

\* Attendance rows and requests have their types.
MarksTyped ==
    /\ DOMAIN att \subseteq RowIds /\ att \in [DOMAIN att -> AttendanceRow]
    /\ mark \in [Marks -> Mark]

\* A session and an enrollment name a row, a row its request, which has come to
\* its end, and a request that was told it created rows has them.
RowsNamed ==
    /\ \A i, j \in DOMAIN att :
          (/\ att[i].session = att[j].session
           /\ att[i].enrollment = att[j].enrollment) => i = j
    /\ \A i \in DOMAIN att : mark[i[1]].kind \in Written
    /\ \A m \in Marks : mark[m].kind = "created" =>
          \A e \in DOMAIN mark[m].items :
              /\ <<m, e>> \in DOMAIN att /\ att[<<m, e>>].enrollment = e
              /\ att[<<m, e>>].session = mark[m].session

\* A notice of an absence carries the request that wrote it.
EventsNamed ==
    \A n \in outbox : n.kind = "absence" =>
        \E m \in Marks : n.event[1] = m /\ mark[m].kind \in Written

NoticesInvariant == MarksTyped /\ RowsNamed /\ EventsNamed

Pass == [step : {"idle", "query", "remind"}, from : 0 .. LastDay,
         locked : SUBSET SessionIds, todo : SUBSET SessionIds,
         marked : SUBSET (SessionIds \X Enrollments)]

RemindersTyped ==
    /\ today \in Dates
    /\ ses \in [SessionIds -> Session] /\ edit \in [Edits -> Edit]
    /\ pass \in [Replicas -> Pass] /\ covered \subseteq SessionIds \X Enrollments

\* An edit carries the origin that is stored, and its own session is made last.
EditsCarryOrigins ==
    \A e \in Edits :
        /\ edit[e].kind # "done" => ses[e].status = "none"
        /\ edit[e].kind \in {"move", "substitute"} =>
              /\ ses[edit[e].id].status # "none" /\ edit[e].row.status # "none"
              /\ edit[e].row.origin = ses[edit[e].id].origin

\* What has been replaced is not scheduled any more, unless it was revived.
ReplacedSessions ==
    \A x \in SessionIds : ses[x].origin # Null =>
        /\ ses[x].status # "none" /\ ses[ses[x].origin].status # "none"
        /\ ses[ses[x].origin].status = "scheduled" => ses[x].origin \in revived

\* Reminders sent, and on their way in a transaction.
Reminded == covered \cup UNION {pass[r].marked : r \in Replicas}

\* A pass keeps the sessions it reminds of locked, and they stay scheduled.
PassesHoldSessions ==
    \A r \in Replicas :
        /\ pass[r].todo \subseteq pass[r].locked
        /\ \A w \in pass[r].marked : w[1] \in pass[r].locked
        /\ \A x \in pass[r].locked : ses[x].status = "scheduled"

RemindersFollowChain ==
    /\ \A w \in Reminded : ses[w[1]].status # "none"
    /\ \A x \in SessionIds : \A y \in chain(ses, x) \ ({x} \cup revived) :
          \A e \in Enrollments : ~(<<x, e>> \in Reminded /\ <<y, e>> \in Reminded)

RemindersInvariant ==
    /\ RemindersTyped /\ EditsCarryOrigins /\ ReplacedSessions
    /\ PassesHoldSessions /\ RemindersFollowChain

=============================================================================
